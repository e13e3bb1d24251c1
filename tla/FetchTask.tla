------------------------------ MODULE FetchTask ------------------------------
(***************************************************************************)
(* What the fetch task of a domain job promises to the pipeline task that  *)
(* depends on it, without threads, attempts or program counters: each      *)
(* start of the notebook is a run with an identity of its own; a run       *)
(* appends to the landing table one whole snapshot with at least one       *)
(* success in it, or nothing; the task succeeds only with its run landed.  *)
(* A run that landed may still fail, and the next one then lands again.    *)
(***************************************************************************)
EXTENDS FetchRows

CONSTANT MaxTaskRuns  \* starts of the notebook in one job run: 1 + max_retries

VARIABLES
  taskRun,  \* the number of this start of the notebook; stands for RUN_ID
  landing,  \* the landing table: the sequence of its append commits
  outcome   \* of the task: "running", "exited" or "gaveup"

vars == <<taskRun, landing, outcome>>

Landed(r) == \E i \in DOMAIN landing : landing[i].run = r

Init ==
  /\ taskRun = 1
  /\ landing = <<>>
  /\ outcome = "running"

\* One commit is added; what is in it is up to the implementation, within this.
Land ==
  LET commit == landing'[Len(landing')]
  IN  /\ outcome = "running"
      /\ ~Landed(taskRun)
      /\ Len(landing') = Len(landing) + 1
      /\ landing' = Append(landing, commit)
      /\ commit.run = taskRun
      /\ Snapshot(commit.rows)
      /\ Successes(commit.rows) # {}
      /\ UNCHANGED <<taskRun, outcome>>

Restart ==
  /\ outcome = "running"
  /\ taskRun < MaxTaskRuns
  /\ taskRun' = taskRun + 1
  /\ UNCHANGED <<landing, outcome>>

Exit ==
  /\ outcome = "running"
  /\ Landed(taskRun)
  /\ outcome' = "exited"
  /\ UNCHANGED <<taskRun, landing>>

GiveUp ==
  /\ outcome = "running"
  /\ outcome' = "gaveup"
  /\ UNCHANGED <<taskRun, landing>>

Next == Land \/ Restart \/ Exit \/ GiveUp

Spec == Init /\ [][Next]_vars

=============================================================================
