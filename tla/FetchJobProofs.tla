---------------------------- MODULE FetchJobProofs ----------------------------
(***************************************************************************)
(* Theorems about FetchJob, for every number of specs, threads, attempts   *)
(* and task retries.                                                       *)
(***************************************************************************)
EXTENDS FetchJob, FiniteSetTheorems, TLAPS

\* A finite interval of specs: what the pigeonhole arguments rest on.
LEMMA SpecsFinite ==
  /\ IsFiniteSet(Specs)
  /\ Cardinality(Specs) = NumSpecs
PROOF
  BY NumSpecsAssumption, FS_Interval DEF Specs

\* What fetch_one records is a status of the API or None.
LEMMA StatusOfType ==
  ASSUME NEW a \in Answers \cup {NoAnswer}
  PROVE  StatusOf(a) \in Statuses \cup {None}
PROOF
  BY DEF StatusOf

\* Appending keeps the sequence and adds one element at its end.
LEMMA AppendFacts ==
  ASSUME NEW S, NEW q \in Seq(S), NEW e \in S
  PROVE  /\ Append(q, e) \in Seq(S)
         /\ Len(Append(q, e)) = Len(q) + 1
         /\ DOMAIN Append(q, e) = 1..(Len(q) + 1)
         /\ \A i \in 1..Len(q) : Append(q, e)[i] = q[i]
         /\ Append(q, e)[Len(q) + 1] = e
PROOF
  OBVIOUS

\* What the positions of a sequence, and of a list of rows, hold.
LEMMA SequenceFacts ==
  ASSUME NEW S, NEW q \in Seq(S)
  PROVE  /\ Len(q) \in Nat
         /\ DOMAIN q = 1..Len(q)
         /\ \A i \in DOMAIN q : q[i] \in S
PROOF
  <1>1. Len(q) \in Nat /\ DOMAIN q = 1..Len(q)
    OBVIOUS
  <1> QED
    BY <1>1

\* The list of rows with one more row at its end: its length, its positions and
\* the specs its rows answer.
LEMMA RowListFacts ==
  ASSUME NEW q \in Seq(Row)
  PROVE  /\ Len(q) \in Nat
         /\ DOMAIN q = 1..Len(q)
         /\ \A i \in DOMAIN q : /\ q[i] \in Row
                               /\ q[i].spec \in Specs
                               /\ q[i].status \in Statuses \cup {None}
PROOF
  <1>1. Len(q) \in Nat /\ DOMAIN q = 1..Len(q) /\ \A i \in DOMAIN q : q[i] \in Row
    BY SequenceFacts
  <1> QED
    BY <1>1 DEF Row

-----------------------------------------------------------------------------
\* Type correctness

\* A task that has just started has its types.
LEMMA TypeInit == Init => TypeOK
PROOF
  BY PoolAssumption DEF Init, TypeOK

\* A process that ends leaves futures, counts and rows of their types.
LEMMA TypeProcessEnds ==
  ASSUME ProcessEnds
  PROVE  /\ fut' \in [Specs -> {"queued", "running", "done", "collected"}]
         /\ tries' \in [Specs -> 0..MaxAttempts]
         /\ last' \in [Specs -> Answers \cup {NoAnswer}]
         /\ rows' \in Seq(Row)
PROOF
  BY PoolAssumption DEF ProcessEnds

\* No step of the threads, the notebook or the task leaves the types.
LEMMA TypeStep ==
  ASSUME TypeOK, FuturesSettle, [Next]_vars
  PROVE  TypeOK'
PROOF
  <1>1. ASSUME NEW s \in Specs, Start(s) PROVE TypeOK'
    BY <1>1 DEF Start, TypeOK
  <1>2. ASSUME NEW s \in Specs, NEW a \in Answers, Call(s, a) PROVE TypeOK'
    <2>1. tries[s] + 1 \in 0..MaxAttempts
      BY <1>2, PoolAssumption DEF Call, TypeOK, FuturesSettle, Exhausted
    <2> QED
      BY <1>2, <2>1 DEF Call, TypeOK
  <1>3. ASSUME NEW s \in Specs, Collect(s) PROVE TypeOK'
    <2>1. [spec |-> s, status |-> StatusOf(last[s])] \in Row
      BY StatusOfType DEF TypeOK, Row
    <2> QED
      BY <1>3, <2>1 DEF Collect, TypeOK
  <1>4. CASE SortFails \/ NothingFetched \/ Crash
    BY <1>4, TypeProcessEnds DEF SortFails, NothingFetched, Crash, Raise, TypeOK
  <1>5. CASE Proceed
    BY <1>5 DEF Proceed, TypeOK
  <1>6. CASE AppendRows
    <2>1. [run |-> RunId, rows |-> rows] \in [run : 1..MaxTaskRuns, rows : Seq(Row)]
      BY DEF RunId, TypeOK
    <2> QED
      BY <1>6, <2>1 DEF AppendRows, TypeOK
  <1>7. CASE Exit
    BY <1>7, TypeProcessEnds DEF Exit, TypeOK
  <1>8. CASE Retry
    BY <1>8, PoolAssumption DEF Retry, TypeOK
  <1>9. CASE GiveUp
    BY <1>9 DEF GiveUp, TypeOK
  <1>10. CASE TimeOut
    BY <1>10, TypeProcessEnds DEF TimeOut, TypeOK
  <1>11. CASE UNCHANGED vars
    BY <1>11 DEF vars, TypeOK
  <1> QED
    BY <1>1, <1>2, <1>3, <1>4, <1>5, <1>6, <1>7, <1>8, <1>9, <1>10, <1>11
    DEF Next, Work

-----------------------------------------------------------------------------
\* The futures and the rows they leave

\* A future completes only on a definite answer or a last attempt: the decision
\* whether to call again is made by the thread that counted the call.
LEMMA SettleStep ==
  ASSUME TypeOK, FuturesSettle, [Next]_vars
  PROVE  FuturesSettle'
PROOF
  <1>1. ASSUME NEW s \in Specs, Start(s) PROVE FuturesSettle'
    BY <1>1, PoolAssumption DEF Start, TypeOK, FuturesSettle, Exhausted
  <1>2. ASSUME NEW s \in Specs, NEW a \in Answers, Call(s, a) PROVE FuturesSettle'
    <2>1. a # NoAnswer
      BY NoAnswerAssumption
    <2>2. tries' = [tries EXCEPT ![s] = @ + 1] /\ last' = [last EXCEPT ![s] = a]
      BY <1>2 DEF Call
    <2>3. CASE Retryable(a) /\ ~Exhausted(tries[s] + 1)
      BY <1>2, <2>2, <2>3, <2>1 DEF Call, TypeOK, FuturesSettle
    <2>4. CASE ~Retryable(a) \/ Exhausted(tries[s] + 1)
      <3>1. fut' = [fut EXCEPT ![s] = "done"]
        BY <1>2, <2>4 DEF Call
      <3>2. Retryable(a) => tries[s] + 1 = MaxAttempts
        BY <1>2, <2>4, PoolAssumption DEF Call, TypeOK, FuturesSettle, Exhausted
      <3> QED
        BY <2>1, <2>2, <3>1, <3>2 DEF TypeOK, FuturesSettle
    <2> QED
      BY <2>3, <2>4
  <1>3. ASSUME NEW s \in Specs, Collect(s) PROVE FuturesSettle'
    BY <1>3 DEF Collect, TypeOK, FuturesSettle
  <1>4. CASE ProcessEnds
    BY <1>4 DEF ProcessEnds, FuturesSettle
  <1>5. CASE UNCHANGED <<fut, tries, last>>
    BY <1>5 DEF FuturesSettle
  <1> QED
    BY <1>1, <1>2, <1>3, <1>4, <1>5
    DEF Next, Work, SortFails, NothingFetched, Proceed, AppendRows, Exit, Retry,
        GiveUp, Crash, TimeOut, Raise, vars

\* A process that ended left no future and no row behind.
LEMMA NoRowsNoFutures ==
  ASSUME fut = [s \in Specs |-> "queued"], rows = <<>>
  PROVE  RowsMatchFutures
PROOF
  <1>1. CollectedSpecs = {}
    BY DEF CollectedSpecs
  <1>2. Len(rows) = 0 /\ DOMAIN rows = {}
    OBVIOUS
  <1> QED
    BY <1>1, <1>2, FS_EmptySet DEF RowsMatchFutures

\* Each step keeps the list and the collected futures in step: Collect adds a row
\* with the future, the end of the process drops both, nothing else touches either.
LEMMA RowsStep ==
  ASSUME TypeOK, RowsMatchFutures, [Next]_vars
  PROVE  RowsMatchFutures'
PROOF
  <1>1. ASSUME NEW s \in Specs, fut[s] # "collected", rows' = rows,
               fut'[s] # "collected",
               \A r \in Specs \ {s} : fut'[r] = fut[r] /\ last'[r] = last[r]
        PROVE  RowsMatchFutures'
    <2>1. CollectedSpecs' = CollectedSpecs
      BY <1>1 DEF CollectedSpecs, TypeOK
    <2>2. \A i \in DOMAIN rows : rows[i].spec \in Specs
      BY RowListFacts DEF TypeOK
    <2>3. \A i \in DOMAIN rows : rows[i].spec \in Specs \ {s}
      BY <1>1, <2>2 DEF RowsMatchFutures
    <2> QED
      BY <1>1, <2>1, <2>3 DEF RowsMatchFutures
  <1>2. ASSUME NEW s \in Specs, Collect(s) PROVE RowsMatchFutures'
    <2> DEFINE row == [spec |-> s, status |-> StatusOf(last[s])]
    <2>1. /\ fut[s] = "done"
          /\ fut' = [fut EXCEPT ![s] = "collected"]
          /\ rows' = Append(rows, row)
          /\ last' = last
      BY <1>2 DEF Collect
    <2>2. row \in Row
      BY StatusOfType DEF TypeOK, Row
    <2>3. /\ Len(rows') = Len(rows) + 1
          /\ DOMAIN rows' = 1..(Len(rows) + 1)
          /\ \A i \in 1..Len(rows) : rows'[i] = rows[i]
          /\ rows'[Len(rows) + 1] = row
      BY <2>1, <2>2, AppendFacts DEF TypeOK
    <2>4. DOMAIN rows = 1..Len(rows) /\ Len(rows) \in Nat
      BY RowListFacts DEF TypeOK
    <2>5. CollectedSpecs' = CollectedSpecs \cup {s} /\ s \notin CollectedSpecs
      BY <2>1 DEF CollectedSpecs, TypeOK
    <2>6. \A i \in DOMAIN rows : rows[i].spec \in Specs /\ rows[i].spec # s
      BY <2>1, RowListFacts DEF TypeOK, RowsMatchFutures
    <2>7. \A i \in DOMAIN rows' : /\ fut'[rows'[i].spec] = "collected"
                                 /\ rows'[i].status = StatusOf(last'[rows'[i].spec])
      BY <2>1, <2>3, <2>4, <2>6 DEF RowsMatchFutures, TypeOK
    <2>8. \A i, j \in DOMAIN rows' : i # j => rows'[i].spec # rows'[j].spec
      BY <2>3, <2>4, <2>6 DEF RowsMatchFutures
    <2>9. \A r \in CollectedSpecs' : \E i \in DOMAIN rows' : rows'[i].spec = r
      BY <2>3, <2>4, <2>5 DEF RowsMatchFutures
    <2>10. Len(rows') = Cardinality(CollectedSpecs')
      <3>1. IsFiniteSet(CollectedSpecs)
        BY SpecsFinite, FS_Subset DEF CollectedSpecs
      <3>2. Cardinality(CollectedSpecs \cup {s}) = Cardinality(CollectedSpecs) + 1
        BY <3>1, <2>5, FS_AddElement
      <3> QED
        BY <3>2, <2>3, <2>5 DEF RowsMatchFutures
    <2> QED
      BY <2>7, <2>8, <2>9, <2>10 DEF RowsMatchFutures
  <1>3. ASSUME NEW s \in Specs, Start(s) PROVE RowsMatchFutures'
    BY <1>1, <1>3 DEF Start, TypeOK
  <1>4. ASSUME NEW s \in Specs, NEW a \in Answers, Call(s, a) PROVE RowsMatchFutures'
    <2>1. fut' = fut \/ fut' = [fut EXCEPT ![s] = "done"]
      BY <1>4 DEF Call
    <2> QED
      BY <1>1, <1>4, <2>1 DEF Call, TypeOK
  <1>5. CASE ProcessEnds
    <2>1. fut' = [s \in Specs |-> "queued"] /\ rows' = <<>>
      BY <1>5 DEF ProcessEnds
    <2>2. CollectedSpecs' = {}
      BY <2>1 DEF CollectedSpecs
    <2> QED
      BY <2>1, <2>2, FS_EmptySet DEF RowsMatchFutures
  <1>6. CASE UNCHANGED <<fut, last, rows>>
    BY <1>6 DEF RowsMatchFutures, CollectedSpecs
  <1> QED
    BY <1>2, <1>3, <1>4, <1>5, <1>6
    DEF Next, Work, SortFails, NothingFetched, Proceed, AppendRows, Exit, Retry,
        GiveUp, Crash, TimeOut, Raise, vars

-----------------------------------------------------------------------------
\* The checks and the landing table

\* When every future is collected the list answers every spec exactly once:
\* no row was lost between the threads and the main thread, and none doubled.
LEMMA CollectedIsSnapshot ==
  ASSUME TypeOK, RowsMatchFutures, AllCollected
  PROVE  Snapshot(rows)
PROOF
  <1>1. CollectedSpecs = Specs
    BY DEF CollectedSpecs, AllCollected
  <1>2. Len(rows) = NumSpecs
    BY <1>1, SpecsFinite DEF RowsMatchFutures
  <1>3. DOMAIN rows = Specs /\ rows \in [Specs -> Row]
    BY <1>2, RowListFacts DEF TypeOK, Specs
  <1> QED
    BY <1>1, <1>3 DEF Snapshot, RowsMatchFutures

\* The checks are made before the append, and nothing they looked at changes
\* between them and it.
LEMMA ChecksStep ==
  ASSUME TypeOK, ChecksHold, [Next]_vars
  PROVE  ChecksHold'
PROOF
  <1>1. CASE phase' \notin {"appending", "verifying"}
    BY <1>1 DEF ChecksHold
  <1>2. CASE Proceed
    BY <1>2 DEF Proceed, AllFailed, ChecksHold, AllCollected, Successes
  <1>3. CASE AppendRows
    BY <1>3 DEF AppendRows, ChecksHold, AllCollected, Successes
  <1>4. CASE UNCHANGED vars
    BY <1>4 DEF vars, ChecksHold, AllCollected, Successes
  <1> QED
    BY <1>1, <1>2, <1>3, <1>4
    DEF Next, Work, Start, Call, Collect, SortFails, NothingFetched, Exit, Retry,
        GiveUp, Crash, TimeOut, Raise

\* Only AppendRows touches the landing table, and it adds this run's commit.
LEMMA AppendRowsLands ==
  ASSUME TypeOK, AppendRows
  PROVE  LET n == Len(landing) + 1
         IN  /\ Len(landing) \in Nat
             /\ DOMAIN landing = 1..Len(landing)
             /\ Len(landing') = n
             /\ DOMAIN landing' = 1..n
             /\ \A i \in 1..Len(landing) : landing'[i] = landing[i]
             /\ landing'[n] = [run |-> taskRun, rows |-> rows]
PROOF
  <1> DEFINE commit == [run |-> taskRun, rows |-> rows]
  <1>1. commit \in [run : 1..MaxTaskRuns, rows : Seq(Row)]
    BY DEF TypeOK
  <1>2. landing' = Append(landing, commit)
    BY DEF AppendRows, RunId
  <1>3. Len(landing) \in Nat /\ DOMAIN landing = 1..Len(landing)
    BY DEF TypeOK
  <1> QED
    BY <1>1, <1>2, <1>3, AppendFacts DEF TypeOK

\* The runs in the landing table are numbers, as the current one is.
LEMMA LandingRuns ==
  ASSUME TypeOK
  PROVE  taskRun \in Int /\ \A i \in DOMAIN landing : landing[i].run \in Int
PROOF
  <1>1. \A i \in DOMAIN landing : landing[i] \in [run : 1..MaxTaskRuns, rows : Seq(Row)]
    BY SequenceFacts DEF TypeOK
  <1>2. taskRun \in Int
    BY DEF TypeOK
  <1> QED
    BY <1>1, <1>2

\* A run has its commit in the landing table from AppendRows on, and from no
\* earlier: a restart makes a RUN_ID the table has not seen.
LEMMA LandingStep ==
  ASSUME TypeOK, LandingMatchesPhase, [Next]_vars
  PROVE  LandingMatchesPhase'
PROOF
  <1>1. CASE AppendRows
    <2>1. phase = "appending" /\ phase' = "verifying" /\ taskRun' = taskRun /\ rows' = rows
      BY <1>1 DEF AppendRows
    <2>2. \A i \in DOMAIN landing' : landing'[i].run <= taskRun
      <3>1. landing'[Len(landing) + 1].run = taskRun
        BY <1>1, AppendRowsLands
      <3>2. \A i \in DOMAIN landing : landing'[i].run <= taskRun
        BY <1>1, AppendRowsLands DEF LandingMatchesPhase
      <3> QED
        BY <1>1, <3>1, <3>2, AppendRowsLands, LandingRuns
    <2>3. \E i \in DOMAIN landing' : landing'[i].run = taskRun /\ landing'[i].rows = rows
      BY <1>1, AppendRowsLands
    <2> QED
      BY <2>1, <2>2, <2>3 DEF LandingMatchesPhase
  <1>2. CASE Retry
    <2>1. taskRun' = taskRun + 1 /\ landing' = landing /\ phase' = "fetching"
      BY <1>2 DEF Retry
    <2>2. \A i \in DOMAIN landing : landing[i].run <= taskRun + 1 /\ landing[i].run # taskRun + 1
      BY LandingRuns DEF LandingMatchesPhase
    <2> QED
      BY <2>1, <2>2 DEF LandingMatchesPhase
  <1>3. CASE landing' = landing /\ taskRun' = taskRun /\ phase' \in {"exited", "failed", "gaveup"}
    BY <1>3 DEF LandingMatchesPhase
  <1>4. CASE Proceed
    BY <1>4 DEF Proceed, LandingMatchesPhase
  <1>5. CASE UNCHANGED <<landing, taskRun, phase>> /\ (rows' = rows \/ phase = "fetching")
    BY <1>5 DEF LandingMatchesPhase
  <1> QED
    BY <1>1, <1>2, <1>3, <1>4, <1>5
    DEF Next, Work, Start, Call, Collect, SortFails, NothingFetched, Exit, GiveUp,
        Crash, TimeOut, Raise, vars

\* Every commit is a snapshot of its run, and a run commits once.
LEMMA SnapshotsStep ==
  ASSUME TypeOK, RowsMatchFutures, ChecksHold, LandingMatchesPhase,
         CompleteSnapshots, [Next]_vars
  PROVE  CompleteSnapshots'
PROOF
  <1>1. CASE AppendRows
    <2>1. Snapshot(rows) /\ Successes(rows) # {}
      BY <1>1, CollectedIsSnapshot DEF AppendRows, ChecksHold
    <2>2. \A i \in DOMAIN landing : landing[i].run # taskRun
      BY <1>1 DEF AppendRows, LandingMatchesPhase
    <2>3. \A i \in DOMAIN landing' :
            Snapshot(landing'[i].rows) /\ Successes(landing'[i].rows) # {}
      BY <1>1, <2>1, AppendRowsLands DEF CompleteSnapshots
    <2>4. \A i, j \in DOMAIN landing' : landing'[i].run = landing'[j].run => i = j
      BY <1>1, <2>2, AppendRowsLands DEF CompleteSnapshots
    <2> QED
      BY <2>3, <2>4 DEF CompleteSnapshots, Snapshot, Successes
  <1>2. CASE landing' = landing
    BY <1>2 DEF CompleteSnapshots, Snapshot, Successes
  <1> QED
    BY <1>1, <1>2
    DEF Next, Work, Start, Call, Collect, SortFails, NothingFetched, Proceed, Exit,
        Retry, GiveUp, Crash, TimeOut, Raise, vars

\* The table read back for a run that landed once has a row for every spec.
LEMMA LandedRowsCount ==
  ASSUME TypeOK, CompleteSnapshots, NEW n \in DOMAIN landing
  PROVE  Cardinality(LandedRows(landing[n].run)) = NumSpecs
PROOF
  <1> DEFINE r == landing[n].run
             f == [j \in Specs |-> <<n, j>>]
  <1>1. \A i \in DOMAIN landing : DOMAIN landing[i].rows = Specs
    BY DEF CompleteSnapshots, Snapshot
  <1>2. LandedRows(r) = {<<n, j>> : j \in Specs}
    <2>1. ASSUME NEW p \in LandedRows(r) PROVE p \in {<<n, j>> : j \in Specs}
      <3>1. p \in (DOMAIN landing) \X Specs /\ landing[p[1]].run = r
        BY <2>1 DEF LandedRows
      <3>2. p[1] = n /\ p = <<p[1], p[2]>> /\ p[2] \in Specs
        BY <3>1 DEF CompleteSnapshots
      <3> QED
        BY <3>2
    <2>2. ASSUME NEW j \in Specs PROVE <<n, j>> \in LandedRows(r)
      BY <1>1 DEF LandedRows
    <2> QED
      BY <2>1, <2>2
  <1>3. f \in Bijection(Specs, LandedRows(r))
    BY <1>2 DEF Bijection, Injection, Surjection, IsInjective
  <1>4. ExistsBijection(Specs, LandedRows(r))
    BY <1>3 DEF ExistsBijection
  <1> QED
    BY <1>4, SpecsFinite, FS_Bijection

\* What Exit reads back is the commit of its own run, so what it reports is true.
LEMMA ExitStep ==
  ASSUME TypeOK, ChecksHold, LandingMatchesPhase, CompleteSnapshots,
         ExitReportsLanding, [Next]_vars
  PROVE  ExitReportsLanding'
PROOF
  <1>1. CASE Exit
    <2>1. /\ phase = "verifying"
          /\ landing' = landing
          /\ taskRun' = taskRun
          /\ report' = [run |-> taskRun,
                        records |-> Cardinality(LandedRows(taskRun)),
                        success |-> Cardinality(Successes(rows))]
      BY <1>1 DEF Exit, RunId
    <2>2. PICK i \in DOMAIN landing : landing[i].run = taskRun /\ landing[i].rows = rows
      BY <2>1 DEF LandingMatchesPhase
    <2>3. Cardinality(LandedRows(taskRun)) = NumSpecs
      BY <2>2, LandedRowsCount
    <2>4. /\ report'.run = taskRun
          /\ report'.records = NumSpecs
          /\ report'.success = Cardinality(Successes(landing[i].rows))
      BY <2>1, <2>2, <2>3
    <2> QED
      BY <2>1, <2>2, <2>4 DEF ExitReportsLanding, Successes
  <1>2. CASE phase' # "exited"
    BY <1>2 DEF ExitReportsLanding
  <1>3. CASE UNCHANGED vars
    BY <1>3 DEF vars, ExitReportsLanding, Successes
  <1> QED
    BY <1>1, <1>2, <1>3
    DEF Next, Work, Start, Call, Collect, SortFails, NothingFetched, Proceed,
        AppendRows, Retry, GiveUp, Crash, TimeOut, Raise

-----------------------------------------------------------------------------
\* The theorems

\* The inductive invariant holds when the task starts.
LEMMA InvInit == Init => IInv
PROOF
  <1> SUFFICES ASSUME Init PROVE IInv
    OBVIOUS
  <1>1. fut = [s \in Specs |-> "queued"] /\ rows = <<>> /\ landing = <<>>
    BY DEF Init
  <1>2. FuturesSettle
    BY DEF Init, FuturesSettle
  <1>3. DOMAIN landing = {}
    BY <1>1
  <1>4. ChecksHold /\ LandingMatchesPhase /\ CompleteSnapshots /\ ExitReportsLanding
    BY <1>3 DEF Init, ChecksHold, LandingMatchesPhase, CompleteSnapshots, ExitReportsLanding
  <1> QED
    BY <1>1, <1>2, <1>4, TypeInit, NoRowsNoFutures DEF IInv

\* The inductive invariant survives every step.
LEMMA InvStep == IInv /\ [Next]_vars => IInv'
PROOF
  BY TypeStep, SettleStep, RowsStep, ChecksStep, LandingStep, SnapshotsStep, ExitStep
  DEF IInv

\* IInv holds of every reachable state; it is what the rest is read off.
THEOREM InductiveInvariant == Spec => []IInv
PROOF
  BY InvInit, InvStep, PTL DEF Spec

\* The state of the fetch task keeps its types.
THEOREM TypeCorrect == Spec => []TypeOK
PROOF
  <1>1. IInv => TypeOK
    BY DEF IInv
  <1> QED
    BY <1>1, InductiveInvariant, PTL

\* A run of the notebook lands every spec exactly once with a success among
\* them, and lands once, for any number of specs, threads and retries.
THEOREM SnapshotsComplete == Spec => []CompleteSnapshots
PROOF
  <1>1. IInv => CompleteSnapshots
    BY DEF IInv
  <1> QED
    BY <1>1, InductiveInvariant, PTL

\* The task exits only with its own run landed, and reports it truly.
THEOREM ExitIsHonest == Spec => []ExitReportsLanding
PROOF
  <1>1. IInv => ExitReportsLanding
    BY DEF IInv
  <1> QED
    BY <1>1, InductiveInvariant, PTL

\* No row carries a retryable status, and none lost its status to a retryable
\* failure before the last attempt.
THEOREM TransientsRetried == Spec => []TransientOnlyAfterLastAttempt
PROOF
  <1>1. ASSUME IInv, NEW i \in DOMAIN rows
        PROVE  LET s == rows[i].spec
               IN  /\ rows[i].status # 429
                   /\ rows[i].status \in Statuses => rows[i].status < 500
                   /\ rows[i].status = None /\ last[s] # Broken => tries[s] = MaxAttempts
    <2> DEFINE s == rows[i].spec
    <2>1. /\ s \in Specs
          /\ fut[s] = "collected"
          /\ rows[i].status = StatusOf(last[s])
      BY <1>1, RowListFacts DEF IInv, TypeOK, RowsMatchFutures
    <2>2. /\ last[s] \in Answers
          /\ Retryable(last[s]) => tries[s] = MaxAttempts
      BY <1>1, <2>1 DEF IInv, TypeOK, FuturesSettle
    <2>3. rows[i].status # 429 /\ (rows[i].status \in Statuses => rows[i].status < 500)
      BY <2>1, AnswerAssumption DEF StatusOf, Retryable
    <2>4. StatusOf(last[s]) = None /\ last[s] # Broken => Retryable(last[s])
      BY <2>2, AnswerAssumption DEF StatusOf, Retryable, Answers
    <2> QED
      BY <2>1, <2>2, <2>3, <2>4
  <1>2. IInv => TransientOnlyAfterLastAttempt
    BY <1>1 DEF TransientOnlyAfterLastAttempt
  <1> QED
    BY <1>2, InductiveInvariant, PTL

-----------------------------------------------------------------------------
\* Refinement of FetchTask

\* The append of the notebook is the abstract task's Land.
LEMMA AppendIsLand ==
  ASSUME IInv, AppendRows
  PROVE  Task!Land
PROOF
  <1> DEFINE n == Len(landing) + 1
             commit == [run |-> taskRun, rows |-> rows]
  <1>1. phase = "appending" /\ phase' = "verifying" /\ taskRun' = taskRun
    BY DEF AppendRows
  <1>2. /\ Len(landing') = n
        /\ landing'[Len(landing')] = commit
        /\ landing' = Append(landing, commit)
    BY AppendRowsLands DEF IInv, AppendRows, RunId
  <1>3. \A i \in DOMAIN landing : landing[i].run # taskRun
    BY <1>1 DEF IInv, LandingMatchesPhase
  <1>4. Snapshot(rows) /\ Successes(rows) # {}
    BY <1>1, CollectedIsSnapshot DEF IInv, ChecksHold
  <1>5. Task!Snapshot(rows) /\ Task!Successes(rows) # {}
    BY <1>4 DEF Snapshot, Task!Snapshot, Successes, Task!Successes, IsSuccess,
       Task!IsSuccess, Row, Task!Row, Specs, Task!Specs
  <1> QED
    BY <1>1, <1>2, <1>3, <1>5 DEF Task!Land, Task!Landed

\* The exit of the notebook is the abstract task's Exit.
LEMMA ExitIsExit ==
  ASSUME IInv, Exit
  PROVE  Task!Exit
PROOF
  <1>1. phase = "verifying" /\ phase' = "exited" /\ taskRun' = taskRun /\ landing' = landing
    BY DEF Exit
  <1>2. \E i \in DOMAIN landing : landing[i].run = taskRun
    BY <1>1 DEF IInv, LandingMatchesPhase
  <1> QED
    BY <1>1, <1>2 DEF Task!Exit, Task!Landed

\* Every step of the notebook and its task is a step of FetchTask or none at all.
LEMMA StepRefines == IInv /\ [Next]_vars => [Task!Next]_Task!vars
PROOF
  <1> SUFFICES ASSUME IInv, [Next]_vars
               PROVE  [Task!Next]_Task!vars
    OBVIOUS
  <1>1. CASE AppendRows
    BY <1>1, AppendIsLand DEF Task!Next
  <1>2. CASE Exit
    BY <1>2, ExitIsExit DEF Task!Next
  <1>3. CASE Retry
    BY <1>3 DEF Retry, Task!Next, Task!Restart
  <1>4. CASE GiveUp \/ TimeOut
    BY <1>4 DEF GiveUp, TimeOut, Active, Task!Next, Task!GiveUp
  <1>5. CASE SortFails \/ NothingFetched \/ Crash
    BY <1>5 DEF SortFails, NothingFetched, Crash, Active, Raise, Task!vars
  <1>6. CASE Proceed
    BY <1>6 DEF Proceed, Task!vars
  <1>7. CASE UNCHANGED <<taskRun, landing, phase>>
    BY <1>7 DEF Task!vars
  <1> QED
    BY <1>1, <1>2, <1>3, <1>4, <1>5, <1>6, <1>7
    DEF Next, Work, Start, Call, Collect, vars

\* Threads, attempts, checks and crashes are invisible to whoever reads the
\* landing table: the notebook under its retries behaves as FetchTask promises.
THEOREM Refinement == Spec => ImplementsFetchTask
PROOF
  <1>1. Init => Task!Init
    BY DEF Init, Task!Init
  <1> QED
    BY <1>1, StepRefines, InductiveInvariant, PTL DEF Spec, ImplementsFetchTask, Task!Spec

=============================================================================
