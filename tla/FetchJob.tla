------------------------------- MODULE FetchJob -------------------------------
(***************************************************************************)
(* The fetch task of an API domain job: the notebook                       *)
(* src/jobs/fetch_api_responses.py under the task's max_retries.           *)
(*                                                                         *)
(* A pool of at most Concurrency threads takes the request specs in order. *)
(* A thread calls the API up to MaxAttempts times for its spec and leaves  *)
(* one row; the main thread collects rows as futures complete.  With every *)
(* row in hand the notebook sorts them, counts the successes, appends them *)
(* to the landing table in one commit, reads the table back and exits.     *)
(* Any exception, or the loss of the cluster, fails the run, and the job   *)
(* starts the notebook again with nothing but the landing table kept.      *)
(***************************************************************************)
EXTENDS FetchRows

CONSTANTS
  Concurrency,  \* request_concurrency: threads of the pool
  MaxAttempts,  \* stop_after_attempt of request_with_retry (4 in the code)
  MaxTaskRuns,  \* 1 + max_retries of the task (3 in the domain YAMLs)
  NoAnswer      \* no call has returned yet

ASSUME PoolAssumption ==
  /\ Concurrency \in Nat \ {0}
  /\ MaxAttempts \in Nat \ {0}
  /\ MaxTaskRuns \in Nat \ {0}

ASSUME NoAnswerAssumption == NoAnswer \notin Answers

VARIABLES
  taskRun,  \* starts of the notebook so far
  phase,    \* where the notebook, or the task, is
  error,    \* what ended the run, when the phase is "failed" or "gaveup"
  fut,      \* fut[s]: the future submitted for spec s
  tries,    \* tries[s]: calls made for spec s in this run (tenacity's count)
  last,     \* last[s]: what the latest of those calls came to
  rows,     \* the list the main thread fills
  landing,  \* the landing table: the sequence of its append commits
  report    \* what notebook.exit returned, <<>> before

vars == <<taskRun, phase, error, fut, tries, last, rows, landing, report>>

-----------------------------------------------------------------------------
\* One request.  Here and below, a definition introduced as a slip is a form
\* the next one must not take: PROJECT.json pairs it with the property that
\* tells the two apart.

\* A slip: one call too many.
ExhaustedLate(n) == n > MaxAttempts

Exhausted(n) == n >= MaxAttempts

-----------------------------------------------------------------------------
\* One run of the notebook

\* A slip: every start of the notebook in a job run shares one RUN_ID.
FirstRunId == 1

\* RUN_ID is drawn anew by every start of the notebook.
RunId == taskRun

\* A slip: a spec holds its thread for the rest of the run.
Submitted == {s \in Specs : fut[s] # "queued"}

Busy == {s \in Specs : fut[s] = "running"}

\* A slip: the pool is idle, but as_completed has rows to hand over.
AllDone == \A s \in Specs : fut[s] \in {"done", "collected"}

AllCollected == \A s \in Specs : fut[s] = "collected"

LandedRows(r) ==
  {p \in (DOMAIN landing) \X Specs :
     landing[p[1]].run = r /\ p[2] \in DOMAIN landing[p[1]].rows}

Init ==
  /\ taskRun = 1
  /\ phase = "fetching"
  /\ error = "none"
  /\ fut = [s \in Specs |-> "queued"]
  /\ tries = [s \in Specs |-> 0]
  /\ last = [s \in Specs |-> NoAnswer]
  /\ rows = <<>>
  /\ landing = <<>>
  /\ report = <<>>

\* A free thread takes the oldest queued spec.
Start(s) ==
  /\ phase = "fetching"
  /\ fut[s] = "queued"
  /\ \A r \in Specs : r < s => fut[r] # "queued"
  /\ Cardinality(Busy) < Concurrency
  /\ fut' = [fut EXCEPT ![s] = "running"]
  /\ UNCHANGED <<taskRun, phase, error, tries, last, rows, landing, report>>

\* One call for spec s returns or raises a; the thread backs off and keeps
\* the spec when it will call again, and completes the future otherwise.
Call(s, a) ==
  /\ phase = "fetching"
  /\ fut[s] = "running"
  /\ tries' = [tries EXCEPT ![s] = @ + 1]
  /\ last' = [last EXCEPT ![s] = a]
  /\ fut' = IF Retryable(a) /\ ~Exhausted(tries[s] + 1)
            THEN fut
            ELSE [fut EXCEPT ![s] = "done"]
  /\ UNCHANGED <<taskRun, phase, error, rows, landing, report>>

Collect(s) ==
  /\ phase = "fetching"
  /\ fut[s] = "done"
  /\ fut' = [fut EXCEPT ![s] = "collected"]
  /\ rows' = Append(rows, [spec |-> s, status |-> StatusOf(last[s])])
  /\ UNCHANGED <<taskRun, phase, error, tries, last, landing, report>>

\* The notebook's process is gone, and all it held in memory with it.
ProcessEnds ==
  /\ fut' = [s \in Specs |-> "queued"]
  /\ tries' = [s \in Specs |-> 0]
  /\ last' = [s \in Specs |-> NoAnswer]
  /\ rows' = <<>>

\* The run ends with an exception, whoever raised it.
Raise(e) ==
  /\ phase' = "failed"
  /\ error' = e
  /\ ProcessEnds
  /\ UNCHANGED <<taskRun, landing, report>>

SortFails ==
  /\ phase = "fetching"
  /\ AllCollected
  /\ SortRaises(rows)
  /\ Raise("TypeError")

\* A slip: the check asks for rows and not for successes.
NoRows == rows = <<>>

AllFailed == Successes(rows) = {}

NothingFetched ==
  /\ phase = "fetching"
  /\ AllCollected
  /\ ~SortRaises(rows)
  /\ AllFailed
  /\ Raise("RuntimeError")

Proceed ==
  /\ phase = "fetching"
  /\ AllCollected
  /\ ~SortRaises(rows)
  /\ ~AllFailed
  /\ phase' = "appending"
  /\ UNCHANGED <<taskRun, error, fut, tries, last, rows, landing, report>>

AppendRows ==
  /\ phase = "appending"
  /\ landing' = Append(landing, [run |-> RunId, rows |-> rows])
  /\ phase' = "verifying"
  /\ UNCHANGED <<taskRun, error, fut, tries, last, rows, report>>

Exit ==
  /\ phase = "verifying"
  /\ LandedRows(RunId) # {}
  /\ report' = [run |-> RunId,
                records |-> Cardinality(LandedRows(RunId)),
                success |-> Cardinality(Successes(rows))]
  /\ phase' = "exited"
  /\ ProcessEnds
  /\ UNCHANGED <<taskRun, error, landing>>

-----------------------------------------------------------------------------
\* The task around the notebook

Active == phase \in {"fetching", "appending", "verifying"}

\* The cluster, the driver or a library fails under the notebook.
Crash == Active /\ Raise("Infra")

\* A failed run is followed by another one while retries are left.
Retry ==
  /\ phase = "failed"
  /\ taskRun < MaxTaskRuns
  /\ taskRun' = taskRun + 1
  /\ phase' = "fetching"
  /\ error' = "none"
  /\ UNCHANGED <<fut, tries, last, rows, landing, report>>

GiveUp ==
  /\ phase = "failed"
  /\ taskRun = MaxTaskRuns
  /\ phase' = "gaveup"
  /\ UNCHANGED <<taskRun, error, fut, tries, last, rows, landing, report>>

\* timeout_seconds ends the task; the job does not retry a timed out task.
TimeOut ==
  /\ Active
  /\ phase' = "gaveup"
  /\ error' = "Timeout"
  /\ ProcessEnds
  /\ UNCHANGED <<taskRun, landing, report>>

Work ==
  \/ \E s \in Specs : Start(s)
  \/ \E s \in Specs, a \in Answers : Call(s, a)
  \/ \E s \in Specs : Collect(s)
  \/ SortFails
  \/ NothingFetched
  \/ Proceed
  \/ AppendRows
  \/ Exit
  \/ Retry
  \/ GiveUp

Next == Work \/ Crash \/ TimeOut

\* Every HTTP call and every back-off is bounded in time (timeout=60, max=10),
\* so a run that can take a step takes one.
Fairness == WF_vars(Work)

Spec == Init /\ [][Next]_vars

FairSpec == Spec /\ Fairness

-----------------------------------------------------------------------------
\* Properties

TypeOK ==
  /\ taskRun \in 1..MaxTaskRuns
  /\ phase \in {"fetching", "appending", "verifying", "exited", "failed", "gaveup"}
  /\ error \in {"none", "TypeError", "RuntimeError", "Infra", "Timeout"}
  /\ fut \in [Specs -> {"queued", "running", "done", "collected"}]
  /\ tries \in [Specs -> 0..MaxAttempts]
  /\ last \in [Specs -> Answers \cup {NoAnswer}]
  /\ rows \in Seq(Row)
  /\ landing \in Seq([run : 1..MaxTaskRuns, rows : Seq(Row)])

\* Whatever the order in which threads finish and wherever runs die, a run
\* lands every spec exactly once with some 2xx among them, and lands once
\* (fetch_api_responses.py:237-278, the retries of the task included).
CompleteSnapshots ==
  /\ \A i \in DOMAIN landing :
       Snapshot(landing[i].rows) /\ Successes(landing[i].rows) # {}
  /\ \A i, j \in DOMAIN landing : landing[i].run = landing[j].run => i = j

\* A 429, a 5xx or a connection failure costs a row its status only after the
\* last attempt, and never stands in a row (fetch_api_responses.py:153-221).
TransientOnlyAfterLastAttempt ==
  \A i \in DOMAIN rows :
    LET s == rows[i].spec
    IN  /\ rows[i].status # 429
        /\ rows[i].status \in Statuses => rows[i].status < 500
        /\ rows[i].status = None /\ last[s] # Broken => tries[s] = MaxAttempts

\* The task succeeds only with its own run in the landing table, and what it
\* reports is what the table holds, not what earlier runs left there
\* (fetch_api_responses.py:247, 283-289).
ExitReportsLanding ==
  phase = "exited" =>
    \E i \in DOMAIN landing :
      /\ landing[i].run = report.run
      /\ landing[i].run = taskRun
      /\ report.records = NumSpecs
      /\ report.success = Cardinality(Successes(landing[i].rows))

\* Every way through the pool, the retries and the checks ends the task.
TaskEnds == <>(phase \in {"exited", "gaveup"})

\* The exceptions the notebook raises on purpose mean that every request
\* failed: its own message says so (fetch_api_responses.py:254-258), and a
\* failed request is recorded against its endpoint (215-216, 233-234).
RaisesOnlyWhenAllFailed ==
  [][error' \in {"TypeError", "RuntimeError"} /\ error = "none"
     => Successes(rows) = {}]_vars

\* The notebook and its task implement the promise of FetchTask.
Task == INSTANCE FetchTask WITH
  outcome <- IF phase \in {"exited", "gaveup"} THEN phase ELSE "running"

ImplementsFetchTask == Task!Spec

-----------------------------------------------------------------------------
\* The inductive invariant behind the properties above

CollectedSpecs == {s \in Specs : fut[s] = "collected"}

\* The list holds one row for each collected future, with the outcome of the
\* last call for its spec.
RowsMatchFutures ==
  /\ \A i \in DOMAIN rows : /\ fut[rows[i].spec] = "collected"
                            /\ rows[i].status = StatusOf(last[rows[i].spec])
  /\ \A i, j \in DOMAIN rows : i # j => rows[i].spec # rows[j].spec
  /\ \A s \in CollectedSpecs : \E i \in DOMAIN rows : rows[i].spec = s
  /\ Len(rows) = Cardinality(CollectedSpecs)

\* A future completes on a definite answer or with its attempts used up.
FuturesSettle ==
  \A s \in Specs :
    /\ fut[s] = "queued" => tries[s] = 0
    /\ fut[s] = "running" => ~Exhausted(tries[s])
    /\ fut[s] \in {"done", "collected"} =>
         /\ last[s] # NoAnswer
         /\ Retryable(last[s]) => tries[s] = MaxAttempts

\* Past the checks, the list is whole and has a success in it.
ChecksHold ==
  phase \in {"appending", "verifying"} => AllCollected /\ Successes(rows) # {}

\* This run's commit is there once the append is made and not before.
LandingMatchesPhase ==
  /\ \A i \in DOMAIN landing : landing[i].run <= taskRun
  /\ phase \in {"fetching", "appending"} => \A i \in DOMAIN landing : landing[i].run # taskRun
  /\ phase = "verifying" =>
       \E i \in DOMAIN landing : landing[i].run = taskRun /\ landing[i].rows = rows

IInv ==
  /\ TypeOK
  /\ RowsMatchFutures
  /\ FuturesSettle
  /\ ChecksHold
  /\ LandingMatchesPhase
  /\ CompleteSnapshots
  /\ ExitReportsLanding

=============================================================================
