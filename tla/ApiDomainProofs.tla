---------------------------- MODULE ApiDomainProofs ----------------------------
(***************************************************************************)
(* Theorems about ApiDomain, for any specs, records, places and statuses,  *)
(* either silver shape, and any number of runs, days and versions.         *)
(***************************************************************************)
EXTENDS ApiDomain, FiniteSetTheorems, WellFoundedInduction, TLAPS

\* A run lands one row for each spec, or none.
LandingCounted ==
  /\ Len(landing) <= run * NumSpecs
  /\ phase = "fetching" => run >= 1 /\ Len(landing) <= (run - 1) * NumSpecs

\* Bronze is the landing table up to the checkpoint, row by row; a stage of the
\* update begins when the one before it has read everything.
BronzeFollows ==
  /\ Len(bronze) = bronzeRead
  /\ \A b \in DOMAIN bronze : bronze[b].of = b
  /\ phase \in {"silver", "gold", "updated"} => bronzeRead = Len(landing)
  /\ phase \in {"gold", "updated"} => silverRead = Len(bronze)

\* No row was ingested on a day to come.
DaysPast == \A b \in DOMAIN bronze : bronze[b].day <= today

\* Silver has the keys of the rows read, each at a row with that key, and no row
\* read with that key is later.
SilverLatest ==
  /\ DOMAIN silver = UNION {KeysOf(BronzeRow(b)) : b \in 1..silverRead}
  /\ \A k \in DOMAIN silver :
       /\ silver[k] \in 1..silverRead
       /\ k \in KeysOf(BronzeRow(silver[k]))
       /\ \A c \in 1..silverRead :
            k \in KeysOf(BronzeRow(c)) => FetchedAt(c) <= FetchedAt(silver[k])

\* The health view accounts for every call of the window.
CallsAccounted ==
  \A e \in Endpoints :
    /\ gold.health[e].total \in Nat
    /\ gold.health[e].success + gold.health[e].network = gold.health[e].total
    /\ gold.health[e].error <= gold.health[e].network
    /\ today <= Window => gold.health[e].total =
                           Cardinality({p \in DOMAIN landing : Endpoint(landing[p].spec) = e})
    /\ Cardinality(IngestedSince(e, today - Window)) <= gold.health[e].total
    /\ \A b \in DOMAIN bronze :
         gold.health[e].total <= Cardinality(IngestedSince(e, bronze[b].day - Window))

\* Only an update under way has refreshed views, and one that refreshed the
\* health view did so when bronze was complete.
HealthShows ==
  /\ DOMAIN gold = Views
  /\ phase \notin {"silver", "gold"} => refreshed = {}
  /\ "health" \in refreshed \/ phase = "updated" => CallsAccounted

\* The daily view's counts of an endpoint, as a sum.
PerDaySum == INSTANCE SetSums WITH Weight <- LAMBDA f, d : f[d]

\* The daily view that was refreshed shows silver as it is, and silver rests until
\* the update ends.
PerDayShows ==
  /\ DOMAIN gold = Views
  /\ "perDay" \in refreshed => phase = "gold"
  /\ "perDay" \in refreshed \/ phase = "updated" =>
       gold.perDay = [e \in Endpoints |-> [d \in Days |-> PerDay(e, d)]]

IInv ==
  /\ TypeOK /\ LandingCounted /\ BronzeFollows /\ DaysPast /\ SilverLatest
  /\ HealthShows /\ PerDayShows

-----------------------------------------------------------------------------
\* Arithmetic and sequences

\* The assumptions on the constants, one by one.
LEMMA ConstantFacts ==
  /\ NumSpecs \in Nat /\ MaxRuns \in Nat /\ MaxDay \in Nat /\ Window \in Nat
  /\ MaxVersion \in Nat /\ MaxVersion >= 1
  /\ Shape \in {"records", "document"}
  /\ \A r \in Records : Places[r] \subseteq Specs \cup {Nowhere}
PROOF
  BY NumSpecsAssumption, DomainAssumption

\* The rows of a run fit between those of the runs before it and the bound.
LEMMA RoomFacts ==
  ASSUME NEW r \in Nat
  PROVE  /\ r * NumSpecs \in Nat
         /\ (r + 1) * NumSpecs = r * NumSpecs + NumSpecs
         /\ r <= MaxRuns => r * NumSpecs <= MaxRuns * NumSpecs
         /\ MaxRuns * NumSpecs \in Nat
PROOF
  <1>1. NumSpecs \in Nat /\ MaxRuns \in Nat
    BY ConstantFacts
  <1>2. r * NumSpecs \in Nat /\ (r + 1) * NumSpecs = r * NumSpecs + NumSpecs
    BY <1>1
  <1>3. MaxRuns * NumSpecs \in Nat
    BY <1>1
  <1>4. ASSUME r <= MaxRuns PROVE r * NumSpecs <= MaxRuns * NumSpecs
    <2>1. MaxRuns * NumSpecs = r * NumSpecs + (MaxRuns - r) * NumSpecs
      BY <1>1
    <2>2. (MaxRuns - r) * NumSpecs \in Nat
      BY <1>1, <1>4
    <2> QED
      BY <1>2, <2>1, <2>2
  <1> QED
    BY <1>2, <1>3, <1>4

\* A set of numbers has a least one.
LEMMA LeastExists ==
  ASSUME NEW T, T \subseteq Nat, T # {}
  PROVE  \E x \in T : \A y \in T : x <= y
PROOF
  <1>1. PICK x \in T : \A y \in T : ~(<<y, x>> \in OpToRel(<, Nat))
    BY NatLessThanWellFounded, WFMin
  <1>2. \A y \in Nat, z \in Nat : y < z => <<y, z>> \in OpToRel(<, Nat)
    BY Zenon DEF OpToRel
  <1>3. \A y \in T : ~(y < x)
    BY <1>1, <1>2
  <1> QED
    BY <1>3

\* What the positions of a sequence hold.
LEMMA SequenceFacts ==
  ASSUME NEW S, NEW q \in Seq(S)
  PROVE  /\ Len(q) \in Nat
         /\ DOMAIN q = 1..Len(q)
         /\ \A i \in DOMAIN q : q[i] \in S
PROOF
  <1>1. Len(q) \in Nat /\ DOMAIN q = 1..Len(q)
    OBVIOUS
  <1> QED
    BY <1>1

\* A sequence is one over every set that has its elements.
LEMMA SequenceOver ==
  ASSUME NEW S, NEW T, NEW q \in Seq(S), \A i \in DOMAIN q : q[i] \in T
  PROVE  q \in Seq(T)
PROOF
  OBVIOUS

\* Rows appended to a table come after those it has.
LEMMA ConcatFacts ==
  ASSUME NEW S, NEW q \in Seq(S), NEW n \in Nat, NEW t \in [1..n -> S]
  PROVE  /\ q \o t \in Seq(S)
         /\ Len(q \o t) = Len(q) + n
         /\ DOMAIN (q \o t) = 1..(Len(q) + n)
         /\ \A i \in 1..Len(q) : (q \o t)[i] = q[i]
         /\ \A i \in 1..n : (q \o t)[Len(q) + i] = t[i]
PROOF
  <1>1. t \in Seq(S) /\ Len(t) = n
    OBVIOUS
  <1> QED
    BY <1>1

-----------------------------------------------------------------------------
\* What a step leaves as it was

\* A run that lands appends a row for each spec.
LEMMA LandFacts ==
  ASSUME TypeOK, Land
  PROVE  /\ landing' \in Seq(LandedRow)
         /\ Len(landing') = Len(landing) + NumSpecs
         /\ DOMAIN landing' = 1..(Len(landing) + NumSpecs)
         /\ \A p \in 1..Len(landing) : landing'[p] = landing[p]
         /\ \A s \in Specs : landing'[Len(landing) + s] = answer[s]
PROOF
  <1>1. landing' = landing \o answer /\ \A s \in Specs : answer[s] # Unasked
    BY DEF Land
  <1>2. answer \in [1..NumSpecs -> LandedRow]
    <2>1. answer \in [Specs -> LandedRow \cup {Unasked}]
      BY DEF TypeOK
    <2>2. \A s \in Specs : answer[s] \in LandedRow
      BY <1>1, <2>1
    <2> QED
      BY <2>1, <2>2 DEF Specs
  <1>3. landing \in Seq(LandedRow) /\ NumSpecs \in Nat
    BY ConstantFacts DEF TypeOK
  <1> HIDE DEF LandedRow
  <1> QED
    BY <1>1, <1>2, <1>3, ConcatFacts DEF Specs

\* A batch of bronze is the landed rows that come next.
LEMMA BronzeBatchFacts ==
  ASSUME TypeOK, NEW n \in 1..Len(landing), BronzeBatch(n)
  PROVE  /\ bronze' \in Seq([of : 1..Len(landing), day : Days])
         /\ Len(bronze') = Len(bronze) + n
         /\ DOMAIN bronze' = 1..(Len(bronze) + n)
         /\ \A b \in 1..Len(bronze) : bronze'[b] = bronze[b]
         /\ \A i \in 1..n : /\ bronze'[Len(bronze) + i].of = bronzeRead + i
                            /\ bronze'[Len(bronze) + i].day = today
         /\ bronzeRead' = bronzeRead + n
         /\ bronzeRead + n \in 0..Len(landing)
PROOF
  <1> DEFINE S == [of : 1..Len(landing), day : Days]
             t == [i \in 1..n |-> Ingested(bronzeRead + i)]
  <1>1. /\ bronze' = bronze \o t /\ bronzeRead' = bronzeRead + n
        /\ n \in 1..(Len(landing) - bronzeRead)
    BY DEF BronzeBatch
  <1>2. n \in Nat /\ bronzeRead \in Nat /\ Len(landing) \in Nat /\ bronze \in Seq(S)
    BY SequenceFacts DEF TypeOK
  <1>3. bronzeRead + n \in 0..Len(landing) /\ \A i \in 1..n : bronzeRead + i \in 1..Len(landing)
    BY <1>1, <1>2
  <1>4. t \in [1..n -> S]
    <2>1. today \in Days
      BY DEF TypeOK
    <2> QED
      BY <1>3, <2>1 DEF Ingested
  <1>5. \A i \in 1..n : t[i].of = bronzeRead + i /\ t[i].day = today
    BY DEF Ingested
  <1> HIDE DEF S, t
  <1>6. /\ bronze' \in Seq(S)
        /\ Len(bronze') = Len(bronze) + n
        /\ DOMAIN bronze' = 1..(Len(bronze) + n)
        /\ \A b \in 1..Len(bronze) : bronze'[b] = bronze[b]
        /\ \A i \in 1..n : bronze'[Len(bronze) + i] = t[i]
    BY <1>1, <1>2, <1>4, ConcatFacts
  <1> QED
    BY <1>1, <1>3, <1>5, <1>6 DEF S

\* Landing and bronze only grow at their ends.
LEMMA HistoryKept ==
  ASSUME TypeOK, [Next]_vars
  PROVE  /\ \A p \in DOMAIN landing : p \in DOMAIN landing' /\ landing'[p] = landing[p]
         /\ \A b \in DOMAIN bronze : b \in DOMAIN bronze' /\ bronze'[b] = bronze[b]
PROOF
  <1>1. /\ Len(landing) \in Nat /\ DOMAIN landing = 1..Len(landing)
        /\ Len(bronze) \in Nat /\ DOMAIN bronze = 1..Len(bronze)
    BY SequenceFacts DEF TypeOK
  <1>2. CASE UNCHANGED <<landing, bronze>>
    BY <1>2
  <1>3. CASE Land
    <2>1. /\ DOMAIN landing' = 1..(Len(landing) + NumSpecs)
          /\ \A p \in 1..Len(landing) : landing'[p] = landing[p]
      BY <1>3, LandFacts
    <2>2. bronze' = bronze
      BY <1>3 DEF Land
    <2> QED
      BY <1>1, <2>1, <2>2, ConstantFacts
  <1>4. ASSUME NEW n \in 1..Len(landing), BronzeBatch(n)
        PROVE  /\ landing' = landing
               /\ \A b \in DOMAIN bronze : b \in DOMAIN bronze' /\ bronze'[b] = bronze[b]
    <2>1. /\ DOMAIN bronze' = 1..(Len(bronze) + n)
          /\ \A b \in 1..Len(bronze) : bronze'[b] = bronze[b]
      BY <1>4, BronzeBatchFacts
    <2>2. landing' = landing
      BY <1>4 DEF BronzeBatch
    <2> QED
      BY <1>1, <2>1, <2>2
  <1> QED
    BY <1>2, <1>3, <1>4
    DEF Next, SourceChanges, NextDay, StartRun, Serve, Complete, FetchFails, StartUpdate,
        BronzeDone, SilverBatch, SilverDone, HealthRefresh, PerDayRefresh, UpdateCompletes,
        UpdateFails, UpdateEnds, vars, tableVars

\* What bronze has read is a landed row, with a stamp and keys of the domain.
LEMMA RowFacts ==
  ASSUME TypeOK, NEW b \in DOMAIN bronze
  PROVE  /\ bronze[b].of \in DOMAIN landing
         /\ BronzeRow(b) \in LandedRow
         /\ FetchedAt(b) \in 1..(MaxRuns * NumSpecs)
         /\ KeysOf(BronzeRow(b)) \subseteq Keys
PROOF
  <1>1. bronze[b].of \in DOMAIN landing
    <2> DEFINE S == [of : 1..Len(landing), day : Days]
    <2>1. landing \in Seq(LandedRow) /\ bronze \in Seq(S)
      BY DEF TypeOK
    <2>2. \A row \in S : row.of \in 1..Len(landing)
      OBVIOUS
    <2> HIDE DEF LandedRow, S
    <2> QED
      BY <2>1, <2>2, SequenceFacts
  <1>2. BronzeRow(b) \in LandedRow
    <2>1. landing \in Seq(LandedRow)
      BY DEF TypeOK
    <2> HIDE DEF LandedRow
    <2> QED
      BY <1>1, <2>1, SequenceFacts DEF BronzeRow
  <1>3. FetchedAt(b) \in 1..(MaxRuns * NumSpecs)
    BY <1>2 DEF FetchedAt, LandedRow
  <1>4. \A row \in LandedRow : KeysOf(row) \subseteq Keys
    <2> SUFFICES ASSUME NEW row \in LandedRow PROVE KeysOf(row) \subseteq Keys
      OBVIOUS
    <2>1. row.spec \in Specs /\ row.run \in 1..MaxRuns
      BY DEF LandedRow
    <2>2. Endpoint(row.spec) \in Endpoints
      BY <2>1 DEF Endpoints
    <2>3. CASE ~Parsed(row)
      BY <2>3 DEF KeysOf
    <2>4. CASE Parsed(row) /\ Shape = "records"
      <3>1. KeysOf(row) = RecordKeys(row)
        BY <2>4 DEF KeysOf
      <3>2. Keys = Endpoints \X (Records \ Keyless)
        BY <2>4 DEF Keys
      <3> QED
        BY <2>2, <3>1, <3>2 DEF RecordKeys
    <2>5. CASE Parsed(row) /\ Shape = "document"
      <3>1. KeysOf(row) = DocumentKeys(row)
        BY <2>5 DEF KeysOf
      <3>2. Keys = Endpoints \X (1..MaxRuns)
        BY <2>5 DEF Keys
      <3> QED
        BY <2>1, <2>2, <3>1, <3>2 DEF DocumentKeys
    <2> QED
      BY <2>3, <2>4, <2>5, ConstantFacts
  <1> QED
    BY <1>1, <1>2, <1>3, <1>4

\* The keys and the stamp of a row that was read stay what they were.
LEMMA RowsKept ==
  ASSUME TypeOK, [Next]_vars, NEW b \in DOMAIN bronze
  PROVE  /\ b \in DOMAIN bronze'
         /\ BronzeRow(b)' = BronzeRow(b)
         /\ KeysOf(BronzeRow(b))' = KeysOf(BronzeRow(b))
         /\ FetchedAt(b)' = FetchedAt(b)
PROOF
  <1>1. b \in DOMAIN bronze' /\ bronze'[b] = bronze[b]
    BY HistoryKept
  <1>2. BronzeRow(b)' = BronzeRow(b)
    BY <1>1, RowFacts, HistoryKept DEF BronzeRow
  <1>3. FetchedAt(b)' = FetchedAt(b)
    BY <1>2 DEF FetchedAt
  <1>4. KeysOf(BronzeRow(b))' = KeysOf(BronzeRow(b))
    BY <1>2 DEF KeysOf, Parsed, RecordKeys, DocumentKeys, IsSuccess, Endpoint
  <1> QED
    BY <1>1, <1>2, <1>3, <1>4

-----------------------------------------------------------------------------
\* The CDC flow

\* Of some rows the latest one exists.
LEMMA LatestFacts ==
  ASSUME TypeOK, NEW B, B # {}, B \subseteq DOMAIN bronze
  PROVE  /\ Latest(B) \in B
         /\ \A c \in B : FetchedAt(c) <= FetchedAt(Latest(B))
PROOF
  <1> DEFINE top == MaxRuns * NumSpecs
             T == {top - FetchedAt(b) : b \in B}
  <1>1. top \in Nat
    BY ConstantFacts, RoomFacts
  <1>2. \A b \in B : FetchedAt(b) \in 1..top
    BY RowFacts
  <1> HIDE DEF top
  <1>3. T \subseteq Nat /\ T # {}
    BY <1>1, <1>2
  <1>4. PICK x \in T : \A y \in T : x <= y
    <2> HIDE DEF T
    <2> QED
      BY <1>3, LeastExists
  <1>5. PICK b \in B : x = top - FetchedAt(b)
    OBVIOUS
  <1>6. \A c \in B : top - FetchedAt(b) <= top - FetchedAt(c)
    BY <1>4, <1>5
  <1>7. \A c \in B : FetchedAt(c) <= FetchedAt(b)
    BY <1>1, <1>2, <1>6
  <1> QED
    BY <1>7 DEF Latest

\* A batch leaves each key it brings at the latest of its rows, those of the
\* batch and the one silver had, and the other keys alone.
LEMMA SilverBatchFacts ==
  ASSUME TypeOK, SilverLatest, NEW n \in 1..Len(bronze), SilverBatch(n)
  PROVE  /\ silverRead' = silverRead + n
         /\ silverRead + n \in 1..Len(bronze)
         /\ DOMAIN silver' = UNION {KeysOf(BronzeRow(b)) : b \in 1..(silverRead + n)}
         /\ \A k \in DOMAIN silver' :
              /\ silver'[k] \in 1..(silverRead + n)
              /\ k \in KeysOf(BronzeRow(silver'[k]))
              /\ \A c \in 1..(silverRead + n) :
                   k \in KeysOf(BronzeRow(c)) => FetchedAt(c) <= FetchedAt(silver'[k])
         /\ \A k \in DOMAIN silver :
              k \in DOMAIN silver' /\ (silver'[k] = silver[k] \/ silver'[k] > silverRead)
PROOF
  <1> DEFINE m == silverRead + n
             batch == (silverRead + 1)..m
             arriving == UNION {KeysOf(BronzeRow(b)) : b \in batch}
             RowsOf(k) == {b \in batch : k \in KeysOf(BronzeRow(b))}
                            \cup (IF k \in DOMAIN silver THEN {silver[k]} ELSE {})
  <1>1. /\ n \in 1..(Len(bronze) - silverRead)
        /\ silver' = [k \in DOMAIN silver \cup arriving |-> Latest(RowsOf(k))]
        /\ silverRead' = m
    BY DEF SilverBatch
  <1>2. silverRead \in Nat /\ Len(bronze) \in Nat /\ DOMAIN bronze = 1..Len(bronze)
    BY SequenceFacts DEF TypeOK
  <1>3. n \in Nat /\ n >= 1 /\ m \in 1..Len(bronze) /\ silverRead < m
    BY <1>1, <1>2
  <1>4. /\ 1..m = 1..silverRead \cup batch
        /\ 1..m \subseteq DOMAIN bronze
        /\ \A b \in batch : b > silverRead
    BY <1>2, <1>3
  <1>5. \A b \in 1..m : FetchedAt(b) \in Nat
    <2>1. MaxRuns * NumSpecs \in Nat
      BY ConstantFacts, RoomFacts
    <2> QED
      BY <1>4, <2>1, RowFacts
  <1> HIDE DEF m, batch
  <1>6. DOMAIN silver' = UNION {KeysOf(BronzeRow(b)) : b \in 1..m}
    BY <1>1, <1>4 DEF SilverLatest
  <1>7. ASSUME NEW k \in DOMAIN silver'
        PROVE  /\ silver'[k] \in RowsOf(k)
               /\ \A c \in RowsOf(k) : FetchedAt(c) <= FetchedAt(silver'[k])
    <2>1. RowsOf(k) # {} /\ RowsOf(k) \subseteq DOMAIN bronze
      BY <1>1, <1>4 DEF SilverLatest
    <2>2. silver'[k] = Latest(RowsOf(k))
      BY <1>1
    <2> HIDE DEF RowsOf
    <2> QED
      BY <2>1, <2>2, LatestFacts
  <1>8. ASSUME NEW k \in DOMAIN silver'
        PROVE  silver'[k] \in 1..m /\ k \in KeysOf(BronzeRow(silver'[k]))
    BY <1>4, <1>7 DEF SilverLatest
  <1>9. ASSUME NEW k \in DOMAIN silver', NEW c \in 1..m, k \in KeysOf(BronzeRow(c))
        PROVE  FetchedAt(c) <= FetchedAt(silver'[k])
    <2>1. CASE c \in batch
      BY <1>7, <1>9, <2>1
    <2>2. CASE c \in 1..silverRead
      <3>1. k \in DOMAIN silver
        BY <1>9, <2>2 DEF SilverLatest
      <3>2. silver[k] \in 1..silverRead /\ FetchedAt(c) <= FetchedAt(silver[k])
        BY <1>9, <2>2, <3>1 DEF SilverLatest
      <3>3. FetchedAt(silver[k]) <= FetchedAt(silver'[k])
        BY <1>7, <3>1
      <3>4. silver[k] \in 1..m /\ silver'[k] \in 1..m
        BY <1>4, <1>8, <3>2
      <3> QED
        BY <1>5, <3>2, <3>3, <3>4
    <2> QED
      BY <1>4, <2>1, <2>2
  <1>10. ASSUME NEW k \in DOMAIN silver
         PROVE  k \in DOMAIN silver' /\ (silver'[k] = silver[k] \/ silver'[k] > silverRead)
    BY <1>1, <1>4, <1>7
  <1> HIDE DEF arriving, RowsOf
  <1> QED
    BY <1>1, <1>3, <1>6, <1>8, <1>9, <1>10 DEF m

\* Only a batch of its flow changes silver.
LEMMA SilverMoves ==
  ASSUME [Next]_vars
  PROVE  \/ UNCHANGED <<silver, silverRead>>
         \/ \E n \in 1..Len(bronze) : SilverBatch(n)
PROOF
  BY DEF Next, SourceChanges, NextDay, StartRun, Serve, Complete, Land, FetchFails, StartUpdate,
     BronzeBatch, BronzeDone, SilverDone, HealthRefresh, PerDayRefresh, UpdateCompletes,
     UpdateFails, UpdateEnds, vars, tableVars

\* Silver stays the latest row of each key read.
LEMMA SilverStep ==
  ASSUME TypeOK, SilverLatest, [Next]_vars
  PROVE  SilverLatest'
PROOF
  <1>1. silverRead \in 0..Len(bronze) /\ Len(bronze) \in Nat /\ DOMAIN bronze = 1..Len(bronze)
    BY SequenceFacts DEF TypeOK
  <1>2. \A b \in 1..Len(bronze) : /\ KeysOf(BronzeRow(b))' = KeysOf(BronzeRow(b))
                                 /\ FetchedAt(b)' = FetchedAt(b)
    BY <1>1, RowsKept
  <1>3. CASE UNCHANGED <<silver, silverRead>>
    <2>1. \A b \in 1..silverRead : b \in 1..Len(bronze)
      BY <1>1
    <2>2. DOMAIN silver = UNION {KeysOf(BronzeRow(b))' : b \in 1..silverRead}
      BY <1>2, <2>1 DEF SilverLatest
    <2>3. \A k \in DOMAIN silver :
            /\ silver[k] \in 1..silverRead
            /\ k \in KeysOf(BronzeRow(silver[k]))'
            /\ \A c \in 1..silverRead :
                 k \in KeysOf(BronzeRow(c))' => FetchedAt(c)' <= FetchedAt(silver[k])'
      BY <1>2, <1>3, <2>1 DEF SilverLatest
    <2> QED
      BY <1>3, <2>2, <2>3 DEF SilverLatest
  <1>4. ASSUME NEW n \in 1..Len(bronze), SilverBatch(n) PROVE SilverLatest'
    <2> DEFINE m == silverRead + n
    <2>1. /\ silverRead' = m
          /\ m \in 1..Len(bronze)
          /\ DOMAIN silver' = UNION {KeysOf(BronzeRow(b)) : b \in 1..m}
          /\ \A k \in DOMAIN silver' :
               /\ silver'[k] \in 1..m
               /\ k \in KeysOf(BronzeRow(silver'[k]))
               /\ \A c \in 1..m :
                    k \in KeysOf(BronzeRow(c)) => FetchedAt(c) <= FetchedAt(silver'[k])
      BY <1>4, SilverBatchFacts
    <2> HIDE DEF m
    <2>2. \A b \in 1..m : b \in 1..Len(bronze)
      BY <1>1, <2>1
    <2>3. UNCHANGED <<landing, bronze>>
      BY <1>4 DEF SilverBatch
    <2>4. \A b : KeysOf(BronzeRow(b))' = KeysOf(BronzeRow(b)) /\ FetchedAt(b)' = FetchedAt(b)
      BY <2>3 DEF KeysOf, Parsed, RecordKeys, DocumentKeys, IsSuccess, Endpoint, BronzeRow, FetchedAt
    <2>5. DOMAIN silver' = UNION {KeysOf(BronzeRow(b))' : b \in 1..m}
      BY <2>1, <2>4
    <2>6. \A k \in DOMAIN silver' :
            /\ silver'[k] \in 1..m
            /\ k \in KeysOf(BronzeRow(silver[k]))'
            /\ \A c \in 1..m :
                 k \in KeysOf(BronzeRow(c))' => FetchedAt(c)' <= FetchedAt(silver[k])'
      <3>1. \A k \in DOMAIN silver' :
              /\ KeysOf(BronzeRow(silver[k]))' = KeysOf(BronzeRow(silver'[k]))
              /\ FetchedAt(silver[k])' = FetchedAt(silver'[k])
        BY <2>3 DEF KeysOf, Parsed, RecordKeys, DocumentKeys, IsSuccess, Endpoint, BronzeRow, FetchedAt
      <3> QED
        BY <2>1, <2>4, <3>1
    <2> QED
      BY <2>1, <2>5, <2>6 DEF SilverLatest
  <1> QED
    BY <1>3, <1>4, SilverMoves

-----------------------------------------------------------------------------
\* Type correctness

\* The initial state has its types.
LEMMA TypeInit == Init => TypeOK
PROOF
  <1> SUFFICES ASSUME Init PROVE TypeOK
    OBVIOUS
  <1>1. /\ today = 0 /\ run = 0 /\ phase = "idle" /\ landing = <<>> /\ bronze = <<>>
        /\ bronzeRead = 0 /\ silver = <<>> /\ silverRead = 0 /\ refreshed = {}
    BY DEF Init
  <1>2. /\ seen = [s \in Specs |-> Unasked] /\ answer = [s \in Specs |-> Unasked]
        /\ source \in [Records -> [ver : {1}, on : Specs \cup {Nowhere}]]
    BY DEF Init
  <1>3. source \in [Records -> [ver : 1..MaxVersion, on : Specs \cup {Nowhere}]]
    <2>1. 1 \in 1..MaxVersion
      BY ConstantFacts
    <2> QED
      BY <1>2, <2>1
  <1>4. /\ seen \in [Specs -> Body \cup {Unasked}] /\ answer \in [Specs -> LandedRow \cup {Unasked}]
    BY <1>2
  <1>5. landing \in Seq(LandedRow) /\ Len(landing) = 0 /\ Len(bronze) = 0
        /\ bronze \in Seq([of : 1..Len(landing), day : Days]) /\ DOMAIN silver = {}
    BY <1>1
  <1>6. today \in Days /\ run \in 0..MaxRuns
    BY <1>1, ConstantFacts DEF Days
  <1> QED
    BY <1>1, <1>3, <1>4, <1>5, <1>6 DEF TypeOK

\* While a spec is unanswered, fewer are answered than there are.
LEMMA AnsweredFacts ==
  ASSUME NEW s \in Specs, answer[s] = Unasked
  PROVE  Cardinality(Answered) \in Nat /\ Cardinality(Answered) + 1 <= NumSpecs
PROOF
  <1>1. IsFiniteSet(Specs) /\ Cardinality(Specs) = NumSpecs
    BY ConstantFacts, FS_Interval DEF Specs
  <1>2. Answered \subseteq Specs \ {s}
    BY DEF Answered
  <1>3. IsFiniteSet(Specs \ {s}) /\ Cardinality(Specs \ {s}) = NumSpecs - 1
    BY <1>1, FS_RemoveElement
  <1>4. Cardinality(Answered) <= NumSpecs - 1 /\ IsFiniteSet(Answered)
    BY <1>2, <1>3, FS_Subset
  <1>5. Cardinality(Answered) \in Nat
    BY <1>4, FS_CardinalityType
  <1> QED
    BY <1>4, <1>5, ConstantFacts

\* A spec that is answered has a row of this run, stamped within the bound.
LEMMA CompleteFacts ==
  ASSUME TypeOK, LandingCounted, NEW s \in Specs, NEW a \in Answers, Complete(s, a)
  PROVE  /\ answer' \in [Specs -> LandedRow \cup {Unasked}]
         /\ seen' \in [Specs -> Body \cup {Unasked}]
PROOF
  <1>1. PICK b : /\ b \in IF IsSuccess([status |-> StatusOf(a)])
                          THEN {seen[s]} \cup (IF Garbage THEN {NotJson} ELSE {})
                          ELSE {None}
                 /\ answer' = [answer EXCEPT ![s] =
                      [run |-> run, spec |-> s, answer |-> a, status |-> StatusOf(a),
                       body |-> b, at |-> Stamp]]
    BY DEF Complete
  <1>2. /\ phase = "fetching" /\ answer[s] = Unasked
        /\ IsSuccess([status |-> StatusOf(a)]) => seen[s] # Unasked
        /\ seen' = [seen EXCEPT ![s] = Unasked]
    BY DEF Complete
  <1>3. /\ seen \in [Specs -> Body \cup {Unasked}] /\ answer \in [Specs -> LandedRow \cup {Unasked}]
        /\ run \in 0..MaxRuns /\ landing \in Seq(LandedRow)
    BY DEF TypeOK
  <1>4. b \in Body \cup {NotJson, None}
    BY <1>1, <1>2, <1>3
  <1>5. StatusOf(a) \in Statuses \cup {None}
    BY DEF StatusOf
  <1>6. run \in 1..MaxRuns
    BY <1>2, <1>3, ConstantFacts DEF LandingCounted
  <1>7. Stamp \in 1..(MaxRuns * NumSpecs)
    <2>1. Len(landing) \in Nat /\ Len(landing) <= (run - 1) * NumSpecs
      BY <1>2, <1>3 DEF LandingCounted
    <2>2. /\ (run - 1) * NumSpecs \in Nat
          /\ (run - 1) * NumSpecs + NumSpecs <= MaxRuns * NumSpecs
          /\ MaxRuns * NumSpecs \in Nat
      <3>1. run - 1 \in Nat /\ run \in Nat /\ run <= MaxRuns /\ (run - 1) + 1 = run
        BY <1>6, ConstantFacts
      <3>2. ((run - 1) + 1) * NumSpecs = (run - 1) * NumSpecs + NumSpecs /\ (run - 1) * NumSpecs \in Nat
        BY <3>1, RoomFacts
      <3>3. run * NumSpecs <= MaxRuns * NumSpecs /\ MaxRuns * NumSpecs \in Nat
        BY <3>1, RoomFacts
      <3>4. run * NumSpecs = (run - 1) * NumSpecs + NumSpecs
        BY <3>1, <3>2
      <3> QED
        BY <3>2, <3>3, <3>4
    <2>3. Cardinality(Answered) \in Nat /\ Cardinality(Answered) + 1 <= NumSpecs
      BY <1>2, AnsweredFacts
    <2> DEFINE room == (run - 1) * NumSpecs
               top == MaxRuns * NumSpecs
               c == Cardinality(Answered)
    <2>4. Len(landing) <= room /\ room \in Nat /\ room + NumSpecs <= top /\ top \in Nat
      BY <2>1, <2>2
    <2>5. c \in Nat /\ c + 1 <= NumSpecs /\ Stamp = Len(landing) + c + 1
      BY <2>3 DEF Stamp
    <2> HIDE DEF room, top, c
    <2>6. Stamp \in 1..top
      BY <2>1, <2>4, <2>5, ConstantFacts
    <2> QED
      BY <2>6 DEF top
  <1> HIDE DEF Stamp
  <1>8. [run |-> run, spec |-> s, answer |-> a, status |-> StatusOf(a), body |-> b,
         at |-> Stamp] \in LandedRow
    BY <1>4, <1>5, <1>6, <1>7 DEF LandedRow
  <1> HIDE DEF LandedRow, Body
  <1> QED
    BY <1>1, <1>2, <1>3, <1>8

\* No step of the world, the fetch task or the pipeline leaves the types.
LEMMA TypeStep ==
  ASSUME TypeOK, LandingCounted, SilverLatest, [Next]_vars
  PROVE  TypeOK'
PROOF
  <1>1. ASSUME NEW r \in Records, SourceChanges(r) PROVE TypeOK'
    <2>1. /\ source[r].ver < MaxVersion
          /\ UNCHANGED <<today, jobVars, tableVars>>
      BY <1>1 DEF SourceChanges
    <2>2. PICK p \in Places[r] : source' = [source EXCEPT ![r] = [ver |-> @.ver + 1, on |-> p]]
      BY <1>1 DEF SourceChanges
    <2>3. source \in [Records -> [ver : 1..MaxVersion, on : Specs \cup {Nowhere}]]
      BY DEF TypeOK
    <2>4. source[r].ver + 1 \in 1..MaxVersion /\ p \in Specs \cup {Nowhere}
      BY <2>1, <2>3, ConstantFacts
    <2>5. source' \in [Records -> [ver : 1..MaxVersion, on : Specs \cup {Nowhere}]]
      BY <2>2, <2>3, <2>4
    <2> QED
      BY <2>1, <2>5 DEF TypeOK, jobVars, tableVars
  <1>2. CASE NextDay
    BY <1>2, ConstantFacts DEF NextDay, Days, TypeOK, jobVars, tableVars
  <1>3. CASE StartRun
    BY <1>3, ConstantFacts DEF StartRun, TypeOK, tableVars
  <1>4. ASSUME NEW s \in Specs, Serve(s) PROVE TypeOK'
    <2>1. /\ seen' = [seen EXCEPT ![s] = Response(s)]
          /\ UNCHANGED <<source, today, run, phase, answer, tableVars>>
      BY <1>4 DEF Serve
    <2>2. Response(s) \in Body
      <3>1. \A r \in Records : source[r].ver \in 0..MaxVersion
        BY ConstantFacts DEF TypeOK
      <3>2. 0 \in 0..MaxVersion
        BY ConstantFacts
      <3> QED
        BY <3>1, <3>2 DEF Response, Body
    <2>3. seen \in [Specs -> Body \cup {Unasked}]
      BY DEF TypeOK
    <2> HIDE DEF Response, Body
    <2>4. seen' \in [Specs -> Body \cup {Unasked}]
      BY <2>1, <2>2, <2>3
    <2> QED
      BY <2>1, <2>4 DEF TypeOK, tableVars
  <1>5. ASSUME NEW s \in Specs, NEW a \in Answers, Complete(s, a) PROVE TypeOK'
    <2>1. UNCHANGED <<source, today, run, phase, tableVars>>
      BY <1>5 DEF Complete
    <2> QED
      BY <1>5, <2>1, CompleteFacts DEF TypeOK, tableVars
  <1>6. ASSUME Forget
        PROVE  /\ seen' \in [Specs -> Body \cup {Unasked}]
               /\ answer' \in [Specs -> LandedRow \cup {Unasked}]
    BY <1>6 DEF Forget
  <1>7. CASE Land
    <2>1. /\ landing' \in Seq(LandedRow) /\ Len(landing') = Len(landing) + NumSpecs
      BY <1>7, LandFacts
    <2>2. Len(landing) \in Nat /\ Len(landing) <= Len(landing')
      BY <2>1, SequenceFacts, ConstantFacts DEF TypeOK
    <2>3. /\ Forget /\ phase' = "landed"
          /\ UNCHANGED <<source, today, run, bronze, bronzeRead, silver, silverRead, refreshed>>
      BY <1>7 DEF Land
    <2>4. bronzeRead' \in 0..Len(landing')
      BY <2>2, <2>3 DEF TypeOK
    <2>5. bronze \in Seq([of : 1..Len(landing'), day : Days])
      <3> DEFINE Old == [of : 1..Len(landing), day : Days]
                 S == [of : 1..Len(landing'), day : Days]
      <3>1. 1..Len(landing) \subseteq 1..Len(landing')
        BY <2>1, <2>2
      <3>2. Old \subseteq S /\ bronze \in Seq(Old)
        BY <3>1 DEF TypeOK
      <3> HIDE DEF Old, S
      <3>3. \A b \in DOMAIN bronze : bronze[b] \in S
        BY <3>2, SequenceFacts
      <3>4. bronze \in Seq(S)
        BY <3>2, <3>3, SequenceOver
      <3> QED
        BY <3>4 DEF S
    <2> QED
      BY <1>6, <2>1, <2>3, <2>4, <2>5 DEF TypeOK
  <1>8. CASE FetchFails
    <2>1. Forget /\ phase' = "idle" /\ UNCHANGED <<source, today, run, tableVars>>
      BY <1>8 DEF FetchFails
    <2> QED
      BY <1>6, <2>1 DEF TypeOK, tableVars
  <1>9. CASE StartUpdate \/ BronzeDone \/ SilverDone
    BY <1>9 DEF StartUpdate, BronzeDone, SilverDone, TypeOK, tableVars
  <1>10. ASSUME NEW n \in 1..Len(landing), BronzeBatch(n) PROVE TypeOK'
    <2>1. UNCHANGED <<source, today, jobVars, landing, silver, silverRead, refreshed, gold>>
      BY <1>10 DEF BronzeBatch
    <2>2. /\ bronze' \in Seq([of : 1..Len(landing), day : Days])
          /\ Len(bronze') = Len(bronze) + n
          /\ DOMAIN bronze' = 1..(Len(bronze) + n)
          /\ bronzeRead' \in 0..Len(landing)
      BY <1>10, BronzeBatchFacts
    <2>3. /\ Len(bronze) \in Nat /\ DOMAIN bronze = 1..Len(bronze) /\ Len(landing) \in Nat
          /\ silverRead \in 0..Len(bronze) /\ \A k \in DOMAIN silver : silver[k] \in DOMAIN bronze
      BY SequenceFacts DEF TypeOK
    <2>4. n \in Nat
      BY <2>3
    <2>5. silverRead \in 0..Len(bronze') /\ \A k \in DOMAIN silver : silver[k] \in DOMAIN bronze'
      BY <2>2, <2>3, <2>4
    <2> QED
      BY <2>1, <2>2, <2>5 DEF TypeOK, jobVars
  <1>11. ASSUME NEW n \in 1..Len(bronze), SilverBatch(n) PROVE TypeOK'
    <2> DEFINE m == silverRead + n
    <2>1. UNCHANGED <<source, today, jobVars, landing, bronze, bronzeRead, refreshed, gold>>
      BY <1>11 DEF SilverBatch
    <2>2. /\ silverRead' = m
          /\ m \in 1..Len(bronze)
          /\ \A k \in DOMAIN silver' : /\ silver'[k] \in 1..m
                                      /\ k \in KeysOf(BronzeRow(silver'[k]))
      BY <1>11, SilverBatchFacts
    <2> HIDE DEF m
    <2>3. DOMAIN bronze = 1..Len(bronze) /\ Len(bronze) \in Nat
      BY SequenceFacts DEF TypeOK
    <2>4. \A k \in DOMAIN silver' : silver'[k] \in DOMAIN bronze
      BY <2>2, <2>3
    <2>5. DOMAIN silver' \subseteq Keys
      BY <2>2, <2>4, RowFacts
    <2>6. silverRead' \in 0..Len(bronze)
      BY <2>2, <2>3
    <2> QED
      BY <2>1, <2>4, <2>5, <2>6 DEF TypeOK, jobVars
  <1>12. CASE HealthRefresh \/ PerDayRefresh
    <2>1. /\ refreshed' \subseteq Views
          /\ UNCHANGED <<source, today, jobVars, landing, bronze, bronzeRead, silver, silverRead>>
      BY <1>12 DEF HealthRefresh, PerDayRefresh, TypeOK, Views
    <2> QED
      BY <2>1 DEF TypeOK, jobVars
  <1>13. CASE UpdateCompletes \/ UpdateFails
    BY <1>13 DEF UpdateCompletes, UpdateFails, UpdateEnds, TypeOK
  <1>14. CASE UNCHANGED vars
    BY <1>14 DEF vars, jobVars, tableVars, TypeOK
  <1> QED
    BY <1>1, <1>2, <1>3, <1>4, <1>5, <1>7, <1>8, <1>9, <1>10, <1>11, <1>12, <1>13, <1>14 DEF Next

-----------------------------------------------------------------------------
\* Landing and bronze

\* A run that begins leaves room for the runs before it, and lands once.
LEMMA CountStep ==
  ASSUME TypeOK, LandingCounted, [Next]_vars
  PROVE  LandingCounted'
PROOF
  <1>1. run \in Nat /\ run <= MaxRuns /\ Len(landing) \in Nat
    BY ConstantFacts, SequenceFacts DEF TypeOK
  <1>2. CASE StartRun
    <2>1. /\ phase' = "fetching" /\ run' = run + 1 /\ landing' = landing
      BY <1>2 DEF StartRun, tableVars
    <2>2. (run + 1) - 1 = run /\ run + 1 >= 1
      BY <1>1
    <2>3. (run' - 1) * NumSpecs = run * NumSpecs
      BY <2>1, <2>2
    <2>4. run * NumSpecs \in Nat /\ run' * NumSpecs = run * NumSpecs + NumSpecs
      BY <1>1, <2>1, RoomFacts
    <2> DEFINE room == run * NumSpecs
    <2>5. Len(landing) <= room /\ room \in Nat /\ run' * NumSpecs = room + NumSpecs
          /\ (run' - 1) * NumSpecs = room
      BY <2>3, <2>4 DEF LandingCounted
    <2> HIDE DEF room
    <2>6. Len(landing') <= run' * NumSpecs
      BY <1>1, <2>1, <2>5, ConstantFacts
    <2>7. run' >= 1 /\ Len(landing') <= (run' - 1) * NumSpecs
      BY <2>1, <2>2, <2>5
    <2> QED
      BY <2>6, <2>7 DEF LandingCounted
  <1>3. CASE Land
    <2>1. phase = "fetching" /\ phase' = "landed" /\ run' = run
      BY <1>3 DEF Land
    <2>2. Len(landing') = Len(landing) + NumSpecs
      BY <1>3, LandFacts
    <2>3. run >= 1 /\ Len(landing) <= (run - 1) * NumSpecs
      BY <2>1 DEF LandingCounted
    <2>4. run - 1 \in Nat /\ (run - 1) + 1 = run
      BY <1>1, <2>3
    <2>5. (run - 1) * NumSpecs \in Nat /\ ((run - 1) + 1) * NumSpecs = (run - 1) * NumSpecs + NumSpecs
      BY <2>4, RoomFacts
    <2> DEFINE room == (run - 1) * NumSpecs
    <2>6. Len(landing) <= room /\ room \in Nat /\ run * NumSpecs = room + NumSpecs
      BY <2>3, <2>4, <2>5
    <2> HIDE DEF room
    <2>7. Len(landing') <= run * NumSpecs
      BY <1>1, <2>2, <2>6, ConstantFacts
    <2> QED
      BY <2>1, <2>7 DEF LandingCounted
  <1>4. ASSUME UNCHANGED <<run, landing>>, phase' = phase \/ phase' # "fetching"
        PROVE  LandingCounted'
    BY <1>4 DEF LandingCounted
  <1>5. CASE FetchFails \/ StartUpdate \/ BronzeDone \/ SilverDone \/ UpdateCompletes \/ UpdateFails
    BY <1>4, <1>5 DEF FetchFails, StartUpdate, BronzeDone, SilverDone, UpdateCompletes,
       UpdateFails, UpdateEnds, tableVars
  <1>6. CASE HealthRefresh \/ PerDayRefresh
    BY <1>4, <1>6 DEF HealthRefresh, PerDayRefresh, jobVars
  <1> QED
    BY <1>2, <1>3, <1>4, <1>5, <1>6
    DEF Next, SourceChanges, NextDay, Serve, Complete, BronzeBatch, SilverBatch, vars,
        jobVars, tableVars

\* Bronze takes the landed rows in their order, and a stage waits for the one
\* before it.
LEMMA BronzeStep ==
  ASSUME TypeOK, BronzeFollows, [Next]_vars
  PROVE  BronzeFollows'
PROOF
  <1>1. Len(bronze) \in Nat /\ DOMAIN bronze = 1..Len(bronze) /\ Len(landing) \in Nat
    BY SequenceFacts DEF TypeOK
  <1>2. ASSUME NEW n \in 1..Len(landing), BronzeBatch(n) PROVE BronzeFollows'
    <2>1. phase = "bronze" /\ phase' = phase
      BY <1>2 DEF BronzeBatch, jobVars
    <2>2. /\ Len(bronze') = Len(bronze) + n
          /\ DOMAIN bronze' = 1..(Len(bronze) + n)
          /\ \A b \in 1..Len(bronze) : bronze'[b] = bronze[b]
          /\ \A i \in 1..n : bronze'[Len(bronze) + i].of = bronzeRead + i
          /\ bronzeRead' = bronzeRead + n
      BY <1>2, BronzeBatchFacts
    <2>3. Len(bronze) = bronzeRead /\ \A b \in DOMAIN bronze : bronze[b].of = b
      BY DEF BronzeFollows
    <2>4. n \in Nat
      BY <1>1
    <2>5. ASSUME NEW b \in DOMAIN bronze' PROVE bronze'[b].of = b
      <3>1. CASE b \in 1..Len(bronze)
        BY <1>1, <2>2, <2>3, <3>1
      <3>2. CASE b \notin 1..Len(bronze)
        <4>1. b - Len(bronze) \in 1..n /\ b = Len(bronze) + (b - Len(bronze))
          BY <1>1, <2>2, <2>4, <3>2
        <4> QED
          BY <2>2, <2>3, <4>1
      <3> QED
        BY <3>1, <3>2
    <2> QED
      BY <2>1, <2>2, <2>3, <2>5 DEF BronzeFollows
  <1>3. ASSUME UNCHANGED <<bronze, bronzeRead>>,
               \/ UNCHANGED <<phase, landing, silverRead>>
               \/ phase' \in {"idle", "fetching", "landed", "bronze"}
        PROVE  BronzeFollows'
    BY <1>3 DEF BronzeFollows
  <1>4. CASE StartRun \/ Land \/ FetchFails \/ StartUpdate \/ UpdateFails
    BY <1>3, <1>4 DEF StartRun, Land, FetchFails, StartUpdate, UpdateFails, UpdateEnds, tableVars
  <1>5. CASE BronzeDone
    BY <1>5 DEF BronzeDone, tableVars, BronzeFollows
  <1>6. ASSUME NEW n \in 1..Len(bronze), SilverBatch(n) PROVE BronzeFollows'
    BY <1>6 DEF SilverBatch, jobVars, BronzeFollows
  <1>7. CASE SilverDone
    BY <1>7 DEF SilverDone, tableVars, BronzeFollows
  <1>8. CASE UpdateCompletes
    BY <1>8 DEF UpdateCompletes, UpdateEnds, BronzeFollows
  <1>9. CASE HealthRefresh \/ PerDayRefresh
    BY <1>3, <1>9 DEF HealthRefresh, PerDayRefresh, jobVars
  <1> QED
    BY <1>2, <1>3, <1>4, <1>5, <1>6, <1>7, <1>8, <1>9
    DEF Next, SourceChanges, NextDay, Serve, Complete, vars, jobVars, tableVars

\* Days pass one by one.
LEMMA TodayRises ==
  ASSUME TypeOK, [Next]_vars
  PROVE  today \in Nat /\ today' \in Nat /\ today <= today'
PROOF
  <1>1. today \in Nat
    BY ConstantFacts DEF TypeOK, Days
  <1>2. today' \in {today, today + 1}
    BY DEF Next, SourceChanges, NextDay, StartRun, Serve, Complete, Land, FetchFails,
       StartUpdate, BronzeBatch, BronzeDone, SilverBatch, SilverDone, HealthRefresh,
       PerDayRefresh, UpdateCompletes, UpdateFails, UpdateEnds, vars
  <1> QED
    BY <1>1, <1>2

\* The days on which rows were ingested are days.
LEMMA DayFacts ==
  ASSUME TypeOK
  PROVE  \A b \in DOMAIN bronze : bronze[b].day \in Nat
PROOF
  <1>1. \A b \in DOMAIN bronze : bronze[b] \in [of : 1..Len(landing), day : Days]
    BY SequenceFacts DEF TypeOK
  <1> QED
    BY <1>1, ConstantFacts DEF Days

\* A row is stamped with the day of its batch.
LEMMA DaysPastStep ==
  ASSUME TypeOK, DaysPast, [Next]_vars
  PROVE  DaysPast'
PROOF
  <1>1. today \in Nat /\ today' \in Nat /\ today <= today'
    BY TodayRises
  <1>2. CASE UNCHANGED bronze
    BY <1>1, <1>2, DayFacts DEF DaysPast
  <1>3. ASSUME NEW n \in 1..Len(landing), BronzeBatch(n) PROVE DaysPast'
    <2>1. /\ DOMAIN bronze' = 1..(Len(bronze) + n)
          /\ \A b \in 1..Len(bronze) : bronze'[b] = bronze[b]
          /\ \A i \in 1..n : bronze'[Len(bronze) + i].day = today
      BY <1>3, BronzeBatchFacts
    <2>2. /\ Len(bronze) \in Nat /\ DOMAIN bronze = 1..Len(bronze)
          /\ Len(landing) \in Nat
      BY SequenceFacts DEF TypeOK
    <2>3. ASSUME NEW b \in DOMAIN bronze' PROVE bronze'[b].day <= today
      <3>1. CASE b \in 1..Len(bronze)
        BY <2>1, <2>2, <3>1 DEF DaysPast
      <3>2. CASE b \notin 1..Len(bronze)
        <4>1. b - Len(bronze) \in 1..n /\ b = Len(bronze) + (b - Len(bronze))
          BY <2>1, <2>2, <3>2
        <4>2. bronze'[b].day = today
          BY <2>1, <4>1
        <4> QED
          BY <1>1, <4>2
      <3> QED
        BY <3>1, <3>2
    <2>4. today' = today
      BY <1>3 DEF BronzeBatch
    <2> QED
      BY <2>3, <2>4 DEF DaysPast
  <1> QED
    BY <1>2, <1>3
    DEF Next, SourceChanges, NextDay, StartRun, Serve, Complete, Land, FetchFails,
        StartUpdate, BronzeDone, SilverBatch, SilverDone, HealthRefresh, PerDayRefresh,
        UpdateCompletes, UpdateFails, UpdateEnds, vars, jobVars, tableVars

-----------------------------------------------------------------------------
\* The health view

\* Of the recent calls of an endpoint each is a success or a network error, and
\* an error is no success.
LEMMA HealthFacts ==
  ASSUME TypeOK, NEW e
  PROVE  /\ Health(e).success + Health(e).network = Health(e).total
         /\ Health(e).error <= Health(e).network
         /\ Health(e).total = Cardinality({b \in Recent : Endpoint(BronzeRow(b).spec) = e})
PROOF
  <1> DEFINE A == {b \in Recent : Endpoint(BronzeRow(b).spec) = e}
             S == {b \in A : IsSuccess(BronzeRow(b))}
             N == {b \in A : ~IsSuccess(BronzeRow(b))}
             E == {b \in A : BronzeRow(b).status \in Statuses \cap (400..599)}
  <1>1. Health(e).total = Cardinality(A) /\ Health(e).network = Cardinality(N)
    <2>1. /\ A = {b \in Recent : Endpoint(BronzeRow(b).spec) = e /\ TRUE}
          /\ N = {b \in Recent : Endpoint(BronzeRow(b).spec) = e /\ ~IsSuccess(BronzeRow(b))}
      OBVIOUS
    <2> QED
      BY <2>1 DEF Health, Calls
  <1>2. Health(e).success = Cardinality(S)
    <2>1. \A x \in Statuses : x \in 200..299 <=> 200 <= x /\ x < 300
      BY AnswerAssumption
    <2>2. S = {b \in Recent : Endpoint(BronzeRow(b).spec) = e
                               /\ BronzeRow(b).status \in Statuses \cap (200..299)}
      BY <2>1 DEF IsSuccess
    <2> QED
      BY <2>2 DEF Health, Calls
  <1>3. Health(e).error = Cardinality(E)
    <2>1. E = {b \in Recent : Endpoint(BronzeRow(b).spec) = e
                               /\ BronzeRow(b).status \in Statuses \cap (400..599)}
      OBVIOUS
    <2> QED
      BY <2>1 DEF Health, Calls
  <1>4. S \cup N = A /\ S \cap N = {} /\ E \subseteq N
    <2>1. \A x \in Statuses : x \in 400..599 => ~(x < 300)
      BY AnswerAssumption
    <2> QED
      BY <2>1 DEF IsSuccess
  <1>5. IsFiniteSet(A)
    <2>1. DOMAIN bronze = 1..Len(bronze) /\ Len(bronze) \in Nat
      BY SequenceFacts DEF TypeOK
    <2>2. IsFiniteSet(DOMAIN bronze) /\ A \subseteq DOMAIN bronze
      BY <2>1, FS_Interval DEF Recent
    <2> QED
      BY <2>2, FS_Subset
  <1> HIDE DEF A, S, N, E
  <1>6. IsFiniteSet(S) /\ IsFiniteSet(N) /\ Cardinality(E) <= Cardinality(N)
    <2>1. S \subseteq A /\ N \subseteq A
      BY <1>4
    <2>2. IsFiniteSet(S) /\ IsFiniteSet(N)
      BY <1>5, <2>1, FS_Subset
    <2> QED
      BY <1>4, <2>2, FS_Subset
  <1>7. Cardinality(A) = Cardinality(S) + Cardinality(N)
    <2>1. Cardinality(S \cup N) = Cardinality(S) + Cardinality(N) - Cardinality(S \cap N)
      BY <1>6, FS_Union
    <2>2. Cardinality(S) \in Nat /\ Cardinality(N) \in Nat
      BY <1>6, FS_CardinalityType
    <2>3. Cardinality(S \cap N) = 0
      BY <1>4, FS_EmptySet
    <2>4. \A x, y, z : x \in Nat /\ y \in Nat /\ z = 0 => x + y - z = x + y
      OBVIOUS
    <2>5. Cardinality(S \cup N) = Cardinality(S) + Cardinality(N)
      BY <2>1, <2>2, <2>3, <2>4
    <2> QED
      BY <1>4, <2>5
  <1> QED
    BY <1>1, <1>2, <1>3, <1>6, <1>7 DEF A

\* The calls ingested since a day are finitely many, and more the earlier it is.
LEMMA SinceFacts ==
  ASSUME TypeOK, NEW e
  PROVE  /\ \A d : Cardinality(IngestedSince(e, d)) \in Nat
         /\ \A c, d \in Int :
              c <= d => Cardinality(IngestedSince(e, d)) <= Cardinality(IngestedSince(e, c))
PROOF
  <1>1. IsFiniteSet(DOMAIN bronze)
    BY SequenceFacts, FS_Interval DEF TypeOK
  <1>2. \A d : IsFiniteSet(IngestedSince(e, d))
    <2>1. \A d : IngestedSince(e, d) \subseteq DOMAIN bronze
      BY DEF IngestedSince
    <2> QED
      BY <1>1, <2>1, FS_Subset
  <1>3. \A c, d \in Int : c <= d => IngestedSince(e, d) \subseteq IngestedSince(e, c)
    BY DayFacts DEF IngestedSince
  <1> QED
    BY <1>2, <1>3, FS_Subset, FS_CardinalityType

\* A refresh counts the calls of the window: every landed row as long as no day
\* has left it, since bronze is complete by then.
LEMMA RefreshCounts ==
  ASSUME TypeOK, BronzeFollows, DaysPast, HealthShows, HealthRefresh
  PROVE  CallsAccounted' /\ DOMAIN gold' = Views
PROOF
  <1> DEFINE h == [e \in Endpoints |-> Health(e)]
  <1>1. gold' = [gold EXCEPT !.health = h]
    BY DEF HealthRefresh
  <1>2. UNCHANGED <<today, landing, bronze>> /\ phase \in {"silver", "gold"}
    BY DEF HealthRefresh
  <1>3. \A e \in Endpoints : h[e] = Health(e)
    OBVIOUS
  <1> HIDE DEF h
  <1>4. gold'.health = h /\ DOMAIN gold' = Views
    BY <1>1 DEF HealthShows, Views
  <1>5. today \in Nat /\ Window \in Nat /\ \A b \in DOMAIN bronze : bronze[b].day \in Nat
    BY ConstantFacts, DayFacts DEF TypeOK, Days
  <1>6. \A e : Health(e).total = Cardinality(IngestedSince(e, today - Window))
    <2>1. \A e : {b \in Recent : Endpoint(BronzeRow(b).spec) = e}
                   = IngestedSince(e, today - Window)
      BY DEF Recent, IngestedSince
    <2> QED
      BY <2>1, HealthFacts
  <1>7. ASSUME today <= Window, NEW e
        PROVE  IngestedSince(e, today - Window)
                 = {p \in DOMAIN landing : Endpoint(landing[p].spec) = e}
    <2>1. /\ DOMAIN bronze = 1..Len(bronze) /\ DOMAIN landing = 1..Len(landing)
          /\ Len(bronze) = Len(landing)
          /\ \A b \in DOMAIN bronze : bronze[b].of = b
      BY <1>2, SequenceFacts DEF TypeOK, BronzeFollows
    <2>2. \A b \in DOMAIN bronze : BronzeRow(b) = landing[b]
      BY <2>1 DEF BronzeRow
    <2>3. \A b \in DOMAIN bronze : bronze[b].day >= today - Window
      BY <1>5, <1>7
    <2> QED
      BY <2>1, <2>2, <2>3 DEF IngestedSince
  <1>8. ASSUME NEW e, NEW b \in DOMAIN bronze
        PROVE  Cardinality(IngestedSince(e, today - Window))
                 <= Cardinality(IngestedSince(e, bronze[b].day - Window))
    <2>1. /\ today - Window \in Int /\ bronze[b].day - Window \in Int
          /\ bronze[b].day - Window <= today - Window
      BY <1>5 DEF DaysPast
    <2> QED
      BY <2>1, SinceFacts
  <1>9. \A e : Cardinality(IngestedSince(e, today - Window)) \in Nat
    BY SinceFacts
  <1>10. ASSUME NEW e \in Endpoints
         PROVE  /\ h[e].total \in Nat
                /\ h[e].success + h[e].network = h[e].total
                /\ h[e].error <= h[e].network
                /\ today <= Window => h[e].total =
                     Cardinality({p \in DOMAIN landing : Endpoint(landing[p].spec) = e})
                /\ Cardinality(IngestedSince(e, today - Window)) <= h[e].total
                /\ \A b \in DOMAIN bronze :
                     h[e].total <= Cardinality(IngestedSince(e, bronze[b].day - Window))
    <2> DEFINE n == Cardinality(IngestedSince(e, today - Window))
    <2>1. h[e].total = n
      BY <1>3, <1>6
    <2>2. n \in Nat
      BY <1>9
    <2>3. \A b \in DOMAIN bronze : n <= Cardinality(IngestedSince(e, bronze[b].day - Window))
      BY <1>8
    <2>4. today <= Window =>
            n = Cardinality({p \in DOMAIN landing : Endpoint(landing[p].spec) = e})
      BY <1>7
    <2> HIDE DEF n
    <2>5. h[e].success + h[e].network = h[e].total /\ h[e].error <= h[e].network
      BY <1>3, HealthFacts
    <2>6. n <= h[e].total
      BY <2>1, <2>2
    <2> QED
      BY <2>1, <2>2, <2>3, <2>4, <2>5, <2>6 DEF n
  <1>11. \A e, d : IngestedSince(e, d)' = IngestedSince(e, d)
    BY <1>2 DEF IngestedSince, BronzeRow
  <1>12. CallsAccounted'
    BY <1>2, <1>4, <1>10, <1>11 DEF CallsAccounted, Endpoints, Endpoint
  <1> QED
    BY <1>4, <1>12

\* What a view showed it shows until it is refreshed, and nothing lands and
\* nothing is ingested in between.
LEMMA CallsKept ==
  ASSUME TypeOK, CallsAccounted, [Next]_vars, UNCHANGED <<landing, bronze>>,
         gold'.health = gold.health
  PROVE  CallsAccounted'
PROOF
  <1>1. today \in Nat /\ today' \in Nat /\ today <= today' /\ Window \in Nat
    BY TodayRises, ConstantFacts
  <1>3. ASSUME NEW e \in Endpoints
        PROVE  Cardinality(IngestedSince(e, today' - Window)) <= gold.health[e].total
    <2> DEFINE c == today - Window
               d == today' - Window
               total == gold.health[e].total
    <2>1. c \in Int /\ d \in Int /\ c <= d
      <3>1. \A x, y, w \in Nat : x <= y => x - w \in Int /\ y - w \in Int /\ x - w <= y - w
        OBVIOUS
      <3> QED
        BY <1>1, <3>1, Zenon
    <2>2. Cardinality(IngestedSince(e, c)) <= total /\ total \in Nat
      BY DEF CallsAccounted
    <2> HIDE DEF c, d, total
    <2>3. /\ Cardinality(IngestedSince(e, c)) \in Nat /\ Cardinality(IngestedSince(e, d)) \in Nat
          /\ Cardinality(IngestedSince(e, d)) <= Cardinality(IngestedSince(e, c))
      BY <2>1, SinceFacts, Zenon
    <2>4. Cardinality(IngestedSince(e, d)) <= total
      BY <2>2, <2>3
    <2> QED
      BY <2>4 DEF d, total
  <1>4. ASSUME NEW e \in Endpoints'
        PROVE  /\ e \in Endpoints
               /\ Cardinality(IngestedSince(e, today - Window))' <= gold'.health[e].total
    <2>1. e \in Endpoints
      BY DEF Endpoints, Endpoint, Specs
    <2>2. IngestedSince(e, today - Window)' = IngestedSince(e, today' - Window)
      BY DEF IngestedSince, BronzeRow
    <2> QED
      BY <1>3, <2>1, <2>2
  <1>5. \A e : \A b \in DOMAIN bronze :
          IngestedSince(e, bronze[b].day - Window)' = IngestedSince(e, bronze[b].day - Window)
    BY DEF IngestedSince, BronzeRow
  <1>6. today' <= Window => today <= Window
    BY <1>1
  <1> QED
    BY <1>4, <1>5, <1>6 DEF CallsAccounted, Endpoint

\* A completed update has refreshed the health view after bronze was complete.
LEMMA HealthStep ==
  ASSUME TypeOK, BronzeFollows, DaysPast, HealthShows, [Next]_vars
  PROVE  HealthShows'
PROOF
  <1>1. CASE HealthRefresh
    <2>1. phase \in {"silver", "gold"} /\ phase' = phase
      BY <1>1 DEF HealthRefresh, jobVars
    <2> QED
      BY <1>1, <2>1, RefreshCounts DEF HealthShows
  <1>2. CASE PerDayRefresh
    <2> DEFINE p == [e \in Endpoints |-> [d \in Days |-> PerDay(e, d)]]
    <2>1. /\ gold' = [gold EXCEPT !.perDay = p] /\ refreshed' = refreshed \cup {"perDay"}
          /\ phase = "gold" /\ phase' = phase /\ UNCHANGED <<landing, bronze>>
      BY <1>2 DEF PerDayRefresh, jobVars
    <2> HIDE DEF p
    <2>2. gold'.health = gold.health /\ DOMAIN gold' = Views
      BY <2>1 DEF HealthShows, Views
    <2> QED
      BY <2>1, <2>2, CallsKept DEF HealthShows
  <1>3. CASE UpdateCompletes
    <2>1. /\ "health" \in refreshed /\ refreshed' = {} /\ phase' = "updated"
          /\ gold' = gold /\ UNCHANGED <<landing, bronze>>
      BY <1>3 DEF UpdateCompletes, UpdateEnds, Views
    <2> QED
      BY <2>1, CallsKept DEF HealthShows
  <1>4. CASE UpdateFails
    BY <1>4 DEF UpdateFails, UpdateEnds, HealthShows
  <1>5. ASSUME UNCHANGED <<gold, refreshed>>,
               phase \notin {"silver", "gold"}, phase' # "updated"
        PROVE  HealthShows'
    BY <1>5 DEF HealthShows
  <1>6. CASE StartRun \/ Land \/ FetchFails \/ StartUpdate \/ BronzeDone
    BY <1>5, <1>6 DEF StartRun, Land, FetchFails, StartUpdate, BronzeDone, tableVars
  <1>7. ASSUME UNCHANGED <<gold, refreshed, landing, bronze>>,
               phase' = phase \/ (phase = "silver" /\ phase' = "gold")
        PROVE  HealthShows'
    BY <1>7, CallsKept DEF HealthShows
  <1>8. CASE SilverDone
    BY <1>7, <1>8 DEF SilverDone, tableVars
  <1>9. CASE NextDay
    BY <1>7, <1>9 DEF NextDay, jobVars, tableVars
  <1>10. ASSUME NEW r \in Records, SourceChanges(r) PROVE HealthShows'
    BY <1>7, <1>10 DEF SourceChanges, jobVars, tableVars
  <1>11. ASSUME NEW s \in Specs, Serve(s) PROVE HealthShows'
    BY <1>7, <1>11 DEF Serve, tableVars
  <1>12. ASSUME NEW s \in Specs, NEW a \in Answers, Complete(s, a) PROVE HealthShows'
    BY <1>7, <1>12 DEF Complete, tableVars
  <1>13. ASSUME NEW n \in 1..Len(landing), BronzeBatch(n) PROVE HealthShows'
    BY <1>5, <1>13 DEF BronzeBatch, jobVars
  <1>14. ASSUME NEW n \in 1..Len(bronze), SilverBatch(n) PROVE HealthShows'
    BY <1>7, <1>14 DEF SilverBatch, jobVars
  <1>15. CASE UNCHANGED vars
    BY <1>7, <1>15 DEF vars, jobVars, tableVars
  <1> QED
    BY <1>1, <1>2, <1>3, <1>4, <1>6, <1>8, <1>9, <1>10, <1>11, <1>12, <1>13, <1>14, <1>15
    DEF Next

-----------------------------------------------------------------------------
\* The daily view

\* While silver stays, each endpoint has the keys of each day that it had.
LEMMA PerDayKept ==
  ASSUME TypeOK, [Next]_vars, UNCHANGED silver
  PROVE  \A e \in Endpoints : \A d \in Days : PerDay(e, d)' = PerDay(e, d)
PROOF
  <1>1. \A k \in DOMAIN silver : bronze'[silver[k]] = bronze[silver[k]]
    BY HistoryKept DEF TypeOK
  <1> QED
    BY <1>1 DEF PerDay

\* The view is refreshed once silver is done, and silver rests until the update
\* ends.
LEMMA PerDayStep ==
  ASSUME TypeOK, PerDayShows, [Next]_vars
  PROVE  PerDayShows'
PROOF
  <1> DEFINE PerDays == [e \in Endpoints |-> [d \in Days |-> PerDay(e, d)]]
  <1>1. UNCHANGED silver => PerDays' = PerDays
    <2> SUFFICES ASSUME UNCHANGED silver PROVE PerDays' = PerDays
      OBVIOUS
    <2>1. \A e \in Endpoints : \A d \in Days : PerDay(e, d)' = PerDay(e, d)
      BY PerDayKept
    <2>2. Days' = Days /\ Endpoints' = Endpoints
      BY DEF Days, Endpoints, Endpoint, Specs
    <2> QED
      BY <2>1, <2>2
  <1>2. /\ DOMAIN gold = Views
        /\ "perDay" \in refreshed => phase = "gold"
        /\ "perDay" \in refreshed \/ phase = "updated" => gold.perDay = PerDays
    BY DEF PerDayShows
  <1> SUFFICES /\ DOMAIN gold' = Views
               /\ "perDay" \in refreshed' => phase' = "gold"
               /\ "perDay" \in refreshed' \/ phase' = "updated" => gold'.perDay = PerDays'
    BY DEF PerDayShows
  <1> HIDE DEF PerDays
  <1>3. CASE PerDayRefresh
    <2>1. /\ gold' = [gold EXCEPT !.perDay = PerDays]
          /\ refreshed' = refreshed \cup {"perDay"} /\ phase = "gold"
          /\ UNCHANGED <<phase, silver>>
      BY <1>3 DEF PerDayRefresh, PerDays, jobVars
    <2>2. gold'.perDay = PerDays /\ DOMAIN gold' = Views
      BY <1>2, <2>1 DEF Views
    <2> QED
      BY <1>1, <2>1, <2>2
  <1>4. CASE HealthRefresh
    <2> DEFINE h == [e \in Endpoints |-> Health(e)]
    <2>1. /\ gold' = [gold EXCEPT !.health = h] /\ refreshed' = refreshed \cup {"health"}
          /\ UNCHANGED <<phase, silver>> /\ phase # "updated"
      BY <1>4 DEF HealthRefresh, jobVars
    <2> HIDE DEF h
    <2>2. gold'.perDay = gold.perDay /\ DOMAIN gold' = Views
      BY <1>2, <2>1 DEF Views
    <2> QED
      BY <1>1, <1>2, <2>1, <2>2
  <1>5. CASE UpdateCompletes
    BY <1>1, <1>2, <1>5 DEF UpdateCompletes, UpdateEnds, Views
  <1>6. CASE UpdateFails
    <2>1. refreshed' = {} /\ phase' # "updated" /\ gold' = gold
      BY <1>6 DEF UpdateFails, UpdateEnds
    <2> QED
      BY <1>2, <2>1
  <1>7. ASSUME UNCHANGED <<gold, refreshed>>,
               \/ phase # "gold" /\ phase' # "updated"
               \/ UNCHANGED <<phase, silver>>
        PROVE  /\ DOMAIN gold' = Views
               /\ "perDay" \in refreshed' => phase' = "gold"
               /\ "perDay" \in refreshed' \/ phase' = "updated" => gold'.perDay = PerDays'
    BY <1>1, <1>2, <1>7
  <1>8. CASE StartRun \/ Land \/ FetchFails \/ StartUpdate \/ BronzeDone \/ SilverDone
    BY <1>7, <1>8 DEF StartRun, Land, FetchFails, StartUpdate, BronzeDone, SilverDone, tableVars
  <1>9. CASE NextDay
    BY <1>7, <1>9 DEF NextDay, jobVars, tableVars
  <1>10. CASE \E r \in Records : SourceChanges(r)
    BY <1>7, <1>10 DEF SourceChanges, jobVars, tableVars
  <1>11. CASE \E s \in Specs : Serve(s)
    BY <1>7, <1>11 DEF Serve, tableVars
  <1>12. CASE \E s \in Specs, a \in Answers : Complete(s, a)
    BY <1>7, <1>12 DEF Complete, tableVars
  <1>13. CASE \E n \in 1..Len(landing) : BronzeBatch(n)
    BY <1>7, <1>13 DEF BronzeBatch, jobVars
  <1>14. CASE \E n \in 1..Len(bronze) : SilverBatch(n)
    BY <1>7, <1>14 DEF SilverBatch, jobVars
  <1>15. CASE UNCHANGED vars
    BY <1>7, <1>15 DEF vars, jobVars, tableVars
  <1> QED
    BY <1>3, <1>4, <1>5, <1>6, <1>8, <1>9, <1>10, <1>11, <1>12, <1>13, <1>14, <1>15 DEF Next

\* There are finitely many days, and finitely many keys of an endpoint.
LEMMA FiniteFacts ==
  ASSUME NEW e
  PROVE  /\ IsFiniteSet(Days)
         /\ IsFiniteSet({k \in Keys : k[1] = e})
PROOF
  <1> DEFINE I == IF Shape = "records" THEN Records \ Keyless ELSE 1..MaxRuns
  <1>1. IsFiniteSet(Days)
    BY ConstantFacts, FS_Interval DEF Days
  <1>2. IsFiniteSet(I)
    <2>1. IsFiniteSet(Records \ Keyless)
      BY DomainAssumption, FS_Difference
    <2>2. IsFiniteSet(1..MaxRuns)
      BY ConstantFacts, FS_Interval
    <2> QED
      BY <2>1, <2>2
  <1>3. Keys = Endpoints \X I
    BY DEF Keys
  <1> HIDE DEF I
  <1>4. IsFiniteSet({e} \X I)
    BY <1>2, FS_Singleton, FS_Product
  <1>5. {k \in Keys : k[1] = e} \subseteq {e} \X I
    BY <1>3
  <1> QED
    BY <1>1, <1>4, <1>5, FS_Subset

\* Finite sets and their sizes are the same in the instance for perDay.
LEMMA PerDaySumSets ==
  \A S : (PerDaySum!IsFiniteSet(S) <=> IsFiniteSet(S)) /\ PerDaySum!Cardinality(S) = Cardinality(S)
PROOF
  BY DEF PerDaySum!IsFiniteSet, IsFiniteSet, PerDaySum!Cardinality, Cardinality

-----------------------------------------------------------------------------
\* The theorems

\* The initial state satisfies the inductive invariant.
LEMMA InvInit == Init => IInv
PROOF
  <1> SUFFICES ASSUME Init PROVE IInv
    OBVIOUS
  <1>1. /\ phase = "idle" /\ run = 0 /\ landing = <<>> /\ bronze = <<>> /\ bronzeRead = 0
        /\ silver = <<>> /\ silverRead = 0 /\ refreshed = {}
    BY DEF Init
  <1>2. DOMAIN gold = Views
    BY DEF Init, Views
  <1>3. LandingCounted
    BY <1>1, ConstantFacts DEF LandingCounted
  <1>4. BronzeFollows /\ DaysPast
    BY <1>1 DEF BronzeFollows, DaysPast
  <1>5. SilverLatest
    <2>1. 1..silverRead = {} /\ DOMAIN silver = {}
      BY <1>1
    <2> QED
      BY <2>1 DEF SilverLatest
  <1>6. HealthShows /\ PerDayShows
    BY <1>1, <1>2 DEF HealthShows, PerDayShows
  <1> QED
    BY <1>3, <1>4, <1>5, <1>6, TypeInit DEF IInv

\* Every step preserves the inductive invariant.
LEMMA InvStep == IInv /\ [Next]_vars => IInv'
PROOF
  <1> SUFFICES ASSUME IInv, [Next]_vars PROVE IInv'
    OBVIOUS
  <1>1. /\ TypeOK /\ LandingCounted /\ BronzeFollows /\ DaysPast /\ SilverLatest
        /\ HealthShows /\ PerDayShows
    BY DEF IInv
  <1>2. TypeOK'
    BY <1>1, TypeStep
  <1>3. LandingCounted'
    BY <1>1, CountStep
  <1>4. BronzeFollows' /\ DaysPast'
    BY <1>1, BronzeStep, DaysPastStep
  <1>5. SilverLatest'
    BY <1>1, SilverStep
  <1>6. HealthShows'
    BY <1>1, HealthStep
  <1>7. PerDayShows'
    BY <1>1, PerDayStep
  <1> QED
    BY <1>2, <1>3, <1>4, <1>5, <1>6, <1>7 DEF IInv

\* What the theorems below rest on: the stages of an update follow each other
\* through the tables without losing or repeating a row.
THEOREM InductiveInvariant == Spec => []IInv
PROOF
  BY InvInit, InvStep, PTL DEF Spec

\* Every row has its columns, every stamp is one of a run's, and the stream
\* checkpoints never point past their tables.
THEOREM TypeCorrect == Spec => []TypeOK
PROOF
  <1>1. IInv => TypeOK
    BY DEF IInv
  <1> QED
    BY <1>1, InductiveInvariant, PTL

\* Whichever runs and updates failed before, a completed update has every landed
\* row in bronze, and bronze never has one twice.
THEOREM LandedOnce == Spec => []LandedRowsReachBronzeOnce
PROOF
  <1>1. IInv => LandedRowsReachBronzeOnce
    <2> SUFFICES ASSUME IInv PROVE LandedRowsReachBronzeOnce
      OBVIOUS
    <2>1. TypeOK /\ BronzeFollows
      BY DEF IInv
    <2>2. DOMAIN bronze = 1..Len(bronze) /\ DOMAIN landing = 1..Len(landing)
      BY <2>1, SequenceFacts DEF TypeOK
    <2>3. \A b \in DOMAIN bronze : bronze[b].of = b
      BY <2>1 DEF BronzeFollows
    <2>4. phase = "updated" => Len(bronze) = Len(landing)
      BY <2>1 DEF BronzeFollows
    <2> QED
      BY <2>2, <2>3, <2>4 DEF LandedRowsReachBronzeOnce
  <1> QED
    BY <1>1, InductiveInvariant, PTL

\* Once an update completes, bronze is the landing table row by row and silver
\* has read it all.
LEMMA UpdatedFacts ==
  ASSUME TypeOK, BronzeFollows, phase = "updated"
  PROVE  /\ DOMAIN landing = 1..silverRead
         /\ \A b \in 1..silverRead : bronze[b].of = b /\ BronzeRow(b) = landing[b]
PROOF
  <1>1. DOMAIN bronze = 1..Len(bronze) /\ DOMAIN landing = 1..Len(landing)
    BY SequenceFacts DEF TypeOK
  <1>2. /\ Len(bronze) = Len(landing) /\ silverRead = Len(bronze)
        /\ \A b \in DOMAIN bronze : bronze[b].of = b
    BY DEF BronzeFollows
  <1> QED
    BY <1>1, <1>2 DEF BronzeRow

\* Once an update completes, the latest landed row of each key is the one silver
\* was made from.
LEMMA SilverLatestAtEnd == IInv => SilverIsLatestAnswer
PROOF
  <1> SUFFICES ASSUME IInv, phase = "updated", NEW k \in Keys
               PROVE  IF LandedFor(k) = {} THEN k \notin DOMAIN silver
                      ELSE /\ k \in DOMAIN silver
                           /\ bronze[silver[k]].of \in LandedFor(k)
                           /\ \A p \in LandedFor(k) : landing[p].at <= FetchedAt(silver[k])
    BY DEF SilverIsLatestAnswer
  <1>1. TypeOK /\ BronzeFollows /\ SilverLatest
    BY DEF IInv
  <1>2. /\ DOMAIN landing = 1..silverRead
        /\ \A b \in 1..silverRead : bronze[b].of = b /\ BronzeRow(b) = landing[b]
    BY <1>1, UpdatedFacts
  <1>3. \A b \in 1..silverRead : FetchedAt(b) = landing[b].at
    BY <1>2 DEF FetchedAt
  <1>4. LandedFor(k) = {b \in 1..silverRead : k \in KeysOf(BronzeRow(b))}
    BY <1>2 DEF LandedFor
  <1>5. k \in DOMAIN silver <=> LandedFor(k) # {}
    BY <1>1, <1>4 DEF SilverLatest
  <1>6. ASSUME k \in DOMAIN silver
        PROVE  /\ silver[k] \in LandedFor(k)
               /\ bronze[silver[k]].of = silver[k]
               /\ \A p \in LandedFor(k) : landing[p].at <= FetchedAt(silver[k])
    <2>1. silver[k] \in 1..silverRead /\ k \in KeysOf(BronzeRow(silver[k]))
      BY <1>1, <1>6 DEF SilverLatest
    <2>2. \A c \in 1..silverRead :
            k \in KeysOf(BronzeRow(c)) => FetchedAt(c) <= FetchedAt(silver[k])
      BY <1>1, <1>6 DEF SilverLatest
    <2> QED
      BY <1>2, <1>3, <1>4, <2>1, <2>2
  <1> QED
    BY <1>5, <1>6

\* Applied batch by batch, over updates that failed half way, silver is what one
\* pass over everything ever landed gives, in either shape.
THEOREM LatestAnswer == Spec => []SilverIsLatestAnswer
PROOF
  BY SilverLatestAtEnd, InductiveInvariant, PTL

\* Each call of the health view that a completed update leaves is a success or a
\* failure, and none is both.  Whatever the window, the view has every landed call
\* as long as no date is outside it, every call still inside afterwards, and none
\* that had left when another came in, at each day until the next update
\* (gold_api_metrics.py:38-60, ingest_columns.py:34-48).
THEOREM EveryCallAccounted == Spec => []HealthAccountsForEveryCall
PROOF
  <1>1. IInv => HealthAccountsForEveryCall
    BY DEF IInv, HealthShows, CallsAccounted, HealthAccountsForEveryCall
  <1> QED
    BY <1>1, InductiveInvariant, PTL

\* Each key of silver is counted on the day its row reached bronze and no other,
\* and silver has the keys ever landed.
LEMMA PerDayAddsUp ==
  ASSUME IInv
  PROVE  KeysCountedOnce
PROOF
  <1> SUFFICES ASSUME phase = "updated", NEW e \in Endpoints
               PROVE  MapThenSumSet(LAMBDA d : gold.perDay[e][d], Days)
                        = Cardinality({k \in Keys : k[1] = e /\ LandedFor(k) # {}})
    BY DEF KeysCountedOnce
  <1>1. TypeOK /\ PerDayShows
    BY DEF IInv
  <1> DEFINE A == [d \in Days |-> {k \in DOMAIN silver : k[1] = e /\ bronze[silver[k]].day = d}]
             f == gold.perDay[e]
             U == {k \in Keys : k[1] = e /\ LandedFor(k) # {}}
  <1>2. U = {k \in DOMAIN silver : k[1] = e}
    <2>1. \A k \in Keys : k \in DOMAIN silver <=> LandedFor(k) # {}
      BY SilverLatestAtEnd DEF SilverIsLatestAnswer
    <2> QED
      BY <1>1, <2>1 DEF TypeOK
  <1>3. IsFiniteSet(U)
    <2>1. U \subseteq {k \in Keys : k[1] = e}
      OBVIOUS
    <2> HIDE DEF U
    <2> QED
      BY <2>1, FiniteFacts, FS_Subset
  <1>4. ASSUME NEW d \in Days PROVE IsFiniteSet(A[d]) /\ f[d] = Cardinality(A[d])
    <2>1. /\ A[d] \subseteq U
          /\ A[d] = {k \in DOMAIN silver : k[1] = e /\ bronze[silver[k]].day = d}
      BY <1>2
    <2>2. f[d] = PerDay(e, d)
      BY <1>1 DEF PerDayShows
    <2> HIDE DEF A, U, f
    <2> QED
      BY <1>3, <2>1, <2>2, FS_Subset DEF PerDay
  <1>5. \A d, c \in Days : \A k : k \in A[d] /\ k \in A[c] => d = c
    OBVIOUS
  <1>6. \A k \in U : k \in DOMAIN silver /\ k[1] = e /\ bronze[silver[k]].day \in Days
    <2>1. \A b \in DOMAIN bronze : bronze[b] \in [of : 1..Len(landing), day : Days]
      BY <1>1, SequenceFacts DEF TypeOK
    <2> QED
      BY <1>1, <1>2, <2>1 DEF TypeOK
  <1>7. \A k : k \in U <=> \E d \in Days : k \in A[d]
    BY <1>2, <1>6
  <1> HIDE DEF A, f, U
  <1>8. PerDaySum!Total(f, Days) = Cardinality(U)
    <2>1. IsFiniteSet(Days)
      BY FiniteFacts
    <2> QED
      BY <1>4, <1>5, <1>7, <2>1, PerDaySum!TotalCounts, PerDaySumSets
  <1>9. PerDaySum!Total(f, Days) = MapThenSumSet(LAMBDA d : gold.perDay[e][d], Days)
    BY DEF f, PerDaySum!Total, PerDaySum!MapThenSumSet, PerDaySum!MapThenFoldSet, MapThenSumSet,
       MapThenFoldSet
  <1> QED
    BY <1>8, <1>9 DEF U

\* The daily counts a completed update leaves add up to the distinct keys ever
\* landed, however often each was fetched again and on whichever days.
THEOREM KeysAreCountedOnce == Spec => []KeysCountedOnce
PROOF
  <1>1. IInv => KeysCountedOnce
    BY PerDayAddsUp
  <1> QED
    BY <1>1, InductiveInvariant, PTL

-----------------------------------------------------------------------------
\* The refinement

\* The feed is bronze, row by row.
LEMMA FeedFacts ==
  ASSUME TypeOK
  PROVE  /\ Len(bronze) \in Nat
         /\ DOMAIN bronze = 1..Len(bronze)
         /\ Len(Feed) = Len(bronze)
         /\ \A b \in DOMAIN bronze : /\ Feed[b].keys = KeysOf(BronzeRow(b))
                                    /\ Feed[b].at = FetchedAt(b)
PROOF
  <1>1. Len(bronze) \in Nat /\ DOMAIN bronze = 1..Len(bronze)
    BY SequenceFacts DEF TypeOK
  <1>2. Len(Feed) = Len(bronze)
    BY <1>1 DEF Feed
  <1> QED
    BY <1>1, <1>2 DEF Feed

\* Two sequences of which one begins with the other.
LEMMA PrefixFacts ==
  ASSUME NEW S, NEW m \in Nat, NEW n \in Nat, m <= n,
         NEW s \in [1..m -> S], NEW t \in [1..n -> S], \A i \in 1..m : t[i] = s[i]
  PROVE  Scd!IsPrefix(s, t)
PROOF
  <1>1. s \in Seq(S) /\ Len(s) = m /\ t \in Seq(S) /\ Len(t) = n
    OBVIOUS
  <1>2. Len(s) <= Len(t) /\ \A i \in 1..Len(s) : t[i] = s[i]
    BY <1>1
  <1>3. SubSeq(s, 1, Len(s)) = SubSeq(t, 1, Len(s))
    BY <1>1, <1>2
  <1> QED
    BY <1>2, <1>3 DEF Scd!IsPrefix

\* What reached bronze stays at the beginning of the feed, with its keys and its
\* stamp.
LEMMA FeedGrows ==
  ASSUME IInv, [Next]_vars
  PROVE  Scd!IsPrefix(Feed, Feed')
PROOF
  <1>1. TypeOK /\ TypeOK'
    BY InvStep DEF IInv
  <1>2. /\ Len(bronze) \in Nat /\ DOMAIN bronze = 1..Len(bronze)
        /\ Len(bronze') \in Nat /\ DOMAIN bronze' = 1..Len(bronze')
    BY <1>1, SequenceFacts DEF TypeOK
  <1>3. \A b \in DOMAIN bronze : /\ b \in DOMAIN bronze'
                                /\ KeysOf(BronzeRow(b))' = KeysOf(BronzeRow(b))
                                /\ FetchedAt(b)' = FetchedAt(b)
    BY <1>1, RowsKept
  <1>4. Len(bronze) <= Len(bronze')
    BY <1>2, <1>3
  <1> DEFINE S == {Feed[b] : b \in DOMAIN bronze} \cup {Feed'[b] : b \in DOMAIN bronze'}
             m == Len(bronze)
             n == Len(bronze')
  <1>5. Feed \in [1..m -> S] /\ Feed' \in [1..n -> S]
    BY <1>2 DEF Feed
  <1>6. \A b \in 1..m : Feed'[b] = Feed[b]
    BY <1>2, <1>3 DEF Feed
  <1>7. m \in Nat /\ n \in Nat /\ m <= n
    BY <1>2, <1>4
  <1> HIDE DEF S, m, n
  <1>8. \A s \in [1..m -> S], t \in [1..n -> S] :
          (\A i \in 1..m : t[i] = s[i]) => Scd!IsPrefix(s, t)
    BY <1>7, PrefixFacts
  <1> QED
    BY <1>5, <1>6, <1>8

\* A batch of the flow is the abstract flow's Apply.
LEMMA BatchIsApply ==
  ASSUME IInv, NEW n \in 1..Len(bronze), SilverBatch(n)
  PROVE  Scd!Apply
PROOF
  <1> DEFINE m == silverRead + n
  <1>1. TypeOK /\ SilverLatest
    BY DEF IInv
  <1>2. /\ silverRead' = m
        /\ m \in 1..Len(bronze)
        /\ DOMAIN silver' = UNION {KeysOf(BronzeRow(b)) : b \in 1..m}
        /\ \A k \in DOMAIN silver' :
             /\ silver'[k] \in 1..m
             /\ k \in KeysOf(BronzeRow(silver'[k]))
             /\ \A c \in 1..m :
                  k \in KeysOf(BronzeRow(c)) => FetchedAt(c) <= FetchedAt(silver'[k])
        /\ \A k \in DOMAIN silver : silver'[k] = silver[k] \/ silver'[k] > silverRead
    BY <1>1, SilverBatchFacts
  <1>3. silverRead \in Nat /\ silverRead < m
    <2>1. n \in Nat /\ n >= 1 /\ silverRead \in Nat
      BY <1>1, FeedFacts DEF TypeOK
    <2> QED
      BY <2>1
  <1>4. landing' = landing /\ bronze' = bronze
    BY DEF SilverBatch
  <1>5. Feed' = Feed
    BY <1>4 DEF Feed, KeysOf, Parsed, RecordKeys, DocumentKeys, IsSuccess, Endpoint,
       BronzeRow, FetchedAt
  <1> HIDE DEF m
  <1>6. /\ Len(Feed) = Len(bronze)
        /\ \A b \in 1..m : Feed[b].keys = KeysOf(BronzeRow(b)) /\ Feed[b].at = FetchedAt(b)
    BY <1>1, <1>2, FeedFacts
  <1>7. m \in (silverRead + 1)..Len(Feed)
    BY <1>1, <1>2, <1>3, <1>6, FeedFacts
  <1>8. DOMAIN silver' = UNION {Feed[b].keys : b \in 1..m}
    BY <1>2, <1>6
  <1>9. \A k \in DOMAIN silver' :
          /\ silver'[k] \in 1..m
          /\ k \in Feed[silver'[k]].keys
          /\ \A c \in 1..m : k \in Feed[c].keys => Feed[c].at <= Feed[silver'[k]].at
    BY <1>2, <1>6
  <1> HIDE DEF Feed
  <1>10. Scd!IsCurrent'
    BY <1>2, <1>5, <1>8, <1>9 DEF Scd!IsCurrent, Scd!Newest
  <1> QED
    BY <1>2, <1>5, <1>7, <1>10 DEF Scd!Apply

\* However runs and updates fail, silver is at every moment the latest row of
\* each key read: the domain's silver table, records or documents, implements
\* ScdType1.
THEOREM Refinement == Spec => SilverIsScdType1
PROOF
  <1>1. Init => Scd!Init
    <2> SUFFICES ASSUME Init PROVE Scd!Init
      OBVIOUS
    <2>1. bronze = <<>> /\ silver = <<>> /\ silverRead = 0
      BY DEF Init
    <2>2. Feed = <<>>
      BY <2>1 DEF Feed
    <2> QED
      BY <2>1, <2>2 DEF Scd!Init
  <1>2. IInv /\ [Next]_vars => [Scd!Next]_Scd!vars
    <2> SUFFICES ASSUME IInv, [Next]_vars PROVE Scd!Next
      OBVIOUS
    <2>1. CASE UNCHANGED <<silver, silverRead>>
      BY <2>1, FeedGrows DEF Scd!Next, Scd!Arrive
    <2>2. CASE \E n \in 1..Len(bronze) : SilverBatch(n)
      BY <2>2, BatchIsApply DEF Scd!Next
    <2> QED
      BY <2>1, <2>2, SilverMoves
  <1> QED
    BY <1>1, <1>2, InductiveInvariant, PTL DEF Spec, SilverIsScdType1, Scd!Spec

-----------------------------------------------------------------------------
\* The latest fetch is the latest state

\* Each record is served under one spec only.
OneSpec == \A r \in Records : \A s, t \in Places[r] \cap Specs : s = t

\* A row that brings a version of record r.
Shows(row, r) == Parsed(row) /\ row.body[r] > 0

\* A response of spec s that the source gave since the last landing.
Fresh(s, body) ==
  \A r \in Records :
    body[r] > 0 => /\ s \in Places[r]
                   /\ body[r] <= source[r].ver
                   /\ \A p \in DOMAIN landing :
                        Shows(landing[p], r) => landing[p].body[r] <= body[r]

SourcePlaced == \A r \in Records : source[r].on \in Places[r]

\* The stamps of landed rows order the versions they bring.
LandedRise ==
  /\ \A p \in DOMAIN landing : landing[p].at <= Len(landing)
  /\ \A p \in DOMAIN landing :
       Parsed(landing[p]) =>
         /\ landing[p].body \in Body
         /\ \A r \in Records : landing[p].body[r] <= source[r].ver
  /\ \A p, q \in DOMAIN landing : \A r \in Records :
       Shows(landing[p], r) /\ Shows(landing[q], r) /\ landing[p].at <= landing[q].at =>
         landing[p].body[r] <= landing[q].body[r]

\* Responses in flight are fresh.
SeenFresh == \A s \in Specs : seen[s] # Unasked => Fresh(s, seen[s])

\* Answers of the run are fresh and stamped after everything landed.
AnswersFresh ==
  \A s \in Specs : answer[s] # Unasked =>
    /\ answer[s].at > Len(landing)
    /\ answer[s].at <= Len(landing) + NumSpecs
    /\ Parsed(answer[s]) => answer[s].body \in Body /\ Fresh(s, answer[s].body)

VersionsRise == SourcePlaced /\ LandedRise /\ SeenFresh /\ AnswersFresh

\* Nothing is landed, in flight or answered at the start.
LEMMA RiseInit == Init => VersionsRise
PROOF
  BY DEF Init, VersionsRise, SourcePlaced, LandedRise, SeenFresh, AnswersFresh

\* A record that changes at the source only gets a later version.
LEMMA RiseChanges ==
  ASSUME TypeOK, VersionsRise, NEW x \in Records, SourceChanges(x)
  PROVE  VersionsRise'
PROOF
  <1>1. source \in [Records -> [ver : 1..MaxVersion, on : Specs \cup {Nowhere}]]
    BY DEF TypeOK
  <1>2. UNCHANGED <<landing, seen, answer>>
    BY DEF SourceChanges, jobVars, tableVars
  <1>3. PICK p \in Places[x] : source' = [source EXCEPT ![x] = [ver |-> @.ver + 1, on |-> p]]
    BY DEF SourceChanges
  <1>4. /\ \A r \in Records : source[r].ver \in Nat /\ source'[r].ver \in Nat
        /\ \A r \in Records : source[r].ver <= source'[r].ver
    BY <1>1, <1>3, ConstantFacts
  <1>5. SourcePlaced'
    BY <1>1, <1>3 DEF VersionsRise, SourcePlaced
  <1>6. \A body \in Body : \A r \in Records : body[r] \in Nat
    BY ConstantFacts DEF Body
  <1>7. ASSUME NEW b \in Body, NEW r \in Records, b[r] <= source[r].ver
        PROVE  b[r] <= source'[r].ver
    BY <1>4, <1>6, <1>7
  <1>8. LandedRise'
    BY <1>2, <1>7 DEF VersionsRise, LandedRise, Shows, Parsed, IsSuccess, Body
  <1>9. \A s, b : b \in Body /\ Fresh(s, b) => Fresh(s, b)'
    BY <1>2, <1>7 DEF Fresh, Shows, Parsed, IsSuccess
  <1>10. \A s \in Specs : seen[s] # Unasked => seen[s] \in Body
    BY DEF TypeOK
  <1>11. SeenFresh'
    BY <1>2, <1>9, <1>10 DEF VersionsRise, SeenFresh
  <1>12. AnswersFresh'
    BY <1>2, <1>9 DEF VersionsRise, AnswersFresh, Parsed, IsSuccess, Body
  <1> QED
    BY <1>5, <1>8, <1>11, <1>12 DEF VersionsRise

\* A response is what the source has at that moment.
LEMMA RiseServes ==
  ASSUME TypeOK, VersionsRise, NEW s \in Specs, Serve(s)
  PROVE  VersionsRise'
PROOF
  <1>1. UNCHANGED <<source, landing, answer>> /\ seen' = [seen EXCEPT ![s] = Response(s)]
    BY DEF Serve, tableVars
  <1>2. \A b, t : Fresh(t, b) => Fresh(t, b)'
    BY <1>1 DEF Fresh, Shows, Parsed, IsSuccess
  <1>3. Fresh(s, Response(s))
    <2> SUFFICES ASSUME NEW r \in Records, Response(s)[r] > 0
                 PROVE  /\ s \in Places[r]
                        /\ Response(s)[r] <= source[r].ver
                        /\ \A p \in DOMAIN landing :
                             Shows(landing[p], r) => landing[p].body[r] <= Response(s)[r]
      BY DEF Fresh
    <2>1. source[r].on = s /\ Response(s)[r] = source[r].ver
      BY DEF Response
    <2>2. source[r].ver \in Nat
      BY ConstantFacts DEF TypeOK
    <2> QED
      BY <2>1, <2>2 DEF VersionsRise, SourcePlaced, LandedRise, Shows
  <1> DEFINE served == Response(s)
  <1>4. SeenFresh'
    <2> SUFFICES ASSUME NEW t \in Specs, seen'[t] # Unasked PROVE Fresh(t, seen[t])'
      BY DEF SeenFresh
    <2>1. seen \in [Specs -> Body \cup {Unasked}]
      BY DEF TypeOK
    <2>2. seen'[t] = IF t = s THEN served ELSE seen[t]
      BY <1>1, <2>1
    <2>3. Fresh(t, IF t = s THEN served ELSE seen[t])
      BY <1>3, <2>2 DEF VersionsRise, SeenFresh
    <2> HIDE DEF served
    <2> QED
      BY <1>1, <2>2, <2>3 DEF Fresh, Shows, Parsed, IsSuccess
  <1> QED
    BY <1>1, <1>4 DEF VersionsRise, SourcePlaced, LandedRise, AnswersFresh, Fresh, Shows,
       Parsed, IsSuccess, Body

\* A row has the response it was made of, and a stamp after all that landed.
LEMMA RiseCompletes ==
  ASSUME TypeOK, VersionsRise, NEW s \in Specs, NEW a \in Answers, Complete(s, a)
  PROVE  VersionsRise'
PROOF
  <1>1. PICK b : /\ b \in IF IsSuccess([status |-> StatusOf(a)])
                          THEN {seen[s]} \cup (IF Garbage THEN {NotJson} ELSE {})
                          ELSE {None}
                 /\ answer' = [answer EXCEPT ![s] =
                      [run |-> run, spec |-> s, answer |-> a, status |-> StatusOf(a),
                       body |-> b, at |-> Stamp]]
    BY DEF Complete
  <1> DEFINE row == [run |-> run, spec |-> s, answer |-> a, status |-> StatusOf(a),
                     body |-> b, at |-> Stamp]
  <1>2. /\ answer[s] = Unasked
        /\ IsSuccess([status |-> StatusOf(a)]) => seen[s] # Unasked
        /\ seen' = [seen EXCEPT ![s] = Unasked]
        /\ UNCHANGED <<source, landing>>
    BY DEF Complete, tableVars
  <1>3. /\ seen \in [Specs -> Body \cup {Unasked}] /\ answer \in [Specs -> LandedRow \cup {Unasked}]
        /\ Len(landing) \in Nat
    BY SequenceFacts DEF TypeOK
  <1>4. row.at > Len(landing) /\ row.at <= Len(landing) + NumSpecs
    <2>1. Cardinality(Answered) \in Nat /\ Cardinality(Answered) + 1 <= NumSpecs
      BY <1>2, AnsweredFacts
    <2> QED
      BY <1>3, <2>1, ConstantFacts DEF Stamp
  <1>5. Parsed(row) => row.body \in Body /\ Fresh(s, row.body)
    <2> SUFFICES ASSUME Parsed(row) PROVE b \in Body /\ Fresh(s, b)
      OBVIOUS
    <2>1. IsSuccess([status |-> StatusOf(a)]) /\ b # NotJson
      BY DEF Parsed, IsSuccess
    <2>2. b = seen[s] /\ seen[s] # Unasked
      BY <1>1, <1>2, <2>1
    <2> QED
      BY <1>3, <2>2 DEF VersionsRise, SeenFresh
  <1>6. \A t \in Specs : answer'[t] = IF t = s THEN row ELSE answer[t]
    BY <1>1, <1>3
  <1> HIDE DEF row
  <1>7. AnswersFresh'
    <2> SUFFICES ASSUME NEW t \in Specs, answer'[t] # Unasked
                 PROVE  /\ answer'[t].at > Len(landing)
                        /\ answer'[t].at <= Len(landing) + NumSpecs
                        /\ Parsed(answer[t])' => answer'[t].body \in Body /\ Fresh(t, answer[t].body)'
      BY <1>2 DEF AnswersFresh, Body
    <2> DEFINE new == answer'[t]
    <2>1. /\ new.at > Len(landing) /\ new.at <= Len(landing) + NumSpecs
          /\ Parsed(new) => new.body \in Body /\ Fresh(t, new.body)
      <3>1. CASE t = s
        BY <1>4, <1>5, <1>6, <3>1
      <3>2. CASE t # s
        BY <1>6, <3>2 DEF VersionsRise, AnswersFresh
      <3> QED
        BY <3>1, <3>2
    <2> QED
      BY <1>2, <2>1 DEF Fresh, Shows, Parsed, IsSuccess
  <1>8. SeenFresh'
    <2>1. \A t \in Specs : seen'[t] = IF t = s THEN Unasked ELSE seen[t]
      BY <1>2, <1>3
    <2> QED
      BY <1>2, <2>1 DEF VersionsRise, SeenFresh, Fresh, Shows, Parsed, IsSuccess
  <1> QED
    BY <1>2, <1>7, <1>8 DEF VersionsRise, SourcePlaced, LandedRise, Shows, Parsed, IsSuccess, Body

\* The rows of a run come after those landed before, in stamps as in versions,
\* and no two of them bring the same record.
LEMMA RiseLands ==
  ASSUME TypeOK, VersionsRise, OneSpec, Land
  PROVE  VersionsRise'
PROOF
  <1> DEFINE m == Len(landing)
             Old(p) == p \in 1..m
             s(p) == p - m
  <1>1. /\ UNCHANGED source /\ \A t \in Specs : answer[t] # Unasked
        /\ seen' = [t \in Specs |-> Unasked] /\ answer' = [t \in Specs |-> Unasked]
    BY DEF Land, Forget
  <1>2. /\ Len(landing') = m + NumSpecs /\ DOMAIN landing' = 1..(m + NumSpecs)
        /\ \A p \in 1..m : landing'[p] = landing[p]
        /\ \A t \in Specs : landing'[m + t] = answer[t]
    BY LandFacts
  <1>3. m \in Nat /\ NumSpecs \in Nat /\ DOMAIN landing = 1..m
    BY SequenceFacts, ConstantFacts DEF TypeOK
  <1>4. \A p \in DOMAIN landing' :
          \/ Old(p) /\ p \in DOMAIN landing /\ landing'[p] = landing[p]
          \/ ~Old(p) /\ s(p) \in Specs /\ landing'[p] = answer[s(p)]
    <2> SUFFICES ASSUME NEW p \in DOMAIN landing', ~Old(p)
                 PROVE  s(p) \in Specs /\ landing'[p] = answer[s(p)]
      BY <1>2, <1>3
    <2>1. s(p) \in Specs /\ p = m + s(p)
      BY <1>2, <1>3 DEF Specs
    <2> QED
      BY <1>2, <2>1
  <1>5. /\ \A p \in DOMAIN landing :
             /\ landing[p].at \in Nat /\ landing[p].at <= m
             /\ Parsed(landing[p]) =>
                  /\ landing[p].body \in Body
                  /\ \A r \in Records : landing[p].body[r] <= source[r].ver
        /\ \A p, q \in DOMAIN landing : \A r \in Records :
             Shows(landing[p], r) /\ Shows(landing[q], r) /\ landing[p].at <= landing[q].at =>
               landing[p].body[r] <= landing[q].body[r]
    <2>1. \A p \in DOMAIN landing : landing[p].at \in Nat
      <3>1. \A p \in DOMAIN landing : landing[p] \in LandedRow
        <4>1. landing \in Seq(LandedRow)
          BY DEF TypeOK
        <4> HIDE DEF LandedRow
        <4> QED
          BY <4>1, SequenceFacts
      <3>2. MaxRuns * NumSpecs \in Nat
        BY ConstantFacts, RoomFacts
      <3> QED
        BY <3>1, <3>2 DEF LandedRow
    <2> QED
      BY <2>1 DEF VersionsRise, LandedRise
  <1>6. \A t \in Specs :
          /\ answer[t].at \in Nat /\ answer[t].at > m /\ answer[t].at <= m + NumSpecs
          /\ Parsed(answer[t]) => answer[t].body \in Body /\ Fresh(t, answer[t].body)
    <2>1. \A t \in Specs : answer[t].at \in Nat
      <3>1. \A t \in Specs : answer[t] \in LandedRow
        BY <1>1 DEF TypeOK
      <3>2. MaxRuns * NumSpecs \in Nat
        BY ConstantFacts, RoomFacts
      <3> QED
        BY <3>1, <3>2 DEF LandedRow
    <2> QED
      BY <1>1, <2>1 DEF VersionsRise, AnswersFresh
  <1> HIDE DEF m
  <1>7. \A p \in DOMAIN landing' :
          /\ landing'[p].at <= m + NumSpecs
          /\ Parsed(landing'[p]) =>
               /\ landing'[p].body \in Body
               /\ \A r \in Records : landing'[p].body[r] <= source[r].ver
    <2> SUFFICES ASSUME NEW p \in DOMAIN landing'
                 PROVE  /\ landing'[p].at <= m + NumSpecs
                        /\ Parsed(landing'[p]) =>
                             /\ landing'[p].body \in Body
                             /\ \A r \in Records : landing'[p].body[r] <= source[r].ver
      OBVIOUS
    <2>1. CASE Old(p)
      <3>1. p \in DOMAIN landing /\ landing'[p] = landing[p]
        BY <1>4, <2>1
      <3> QED
        BY <1>3, <1>5, <3>1
    <2>2. CASE ~Old(p)
      <3>1. s(p) \in Specs /\ landing'[p] = answer[s(p)]
        BY <1>4, <2>2
      <3> HIDE DEF s
      <3>2. ASSUME Parsed(answer[s(p)]), NEW r \in Records
            PROVE  answer[s(p)].body[r] <= source[r].ver
        <4>1. answer[s(p)].body[r] \in Nat /\ source[r].ver \in Nat
          BY <1>6, <3>1, <3>2, ConstantFacts DEF Body, TypeOK
        <4>2. answer[s(p)].body[r] > 0 => answer[s(p)].body[r] <= source[r].ver
          BY <1>6, <3>1, <3>2 DEF Fresh
        <4> QED
          BY <4>1, <4>2
      <3> QED
        BY <1>6, <3>1, <3>2
    <2> QED
      BY <2>1, <2>2
  <1>8. ASSUME NEW p \in DOMAIN landing', NEW q \in DOMAIN landing', NEW r \in Records,
               Shows(landing'[p], r), Shows(landing'[q], r), landing'[p].at <= landing'[q].at
        PROVE  landing'[p].body[r] <= landing'[q].body[r]
    <2>1. CASE Old(p) /\ Old(q)
      <3>1. p \in DOMAIN landing /\ q \in DOMAIN landing
            /\ landing'[p] = landing[p] /\ landing'[q] = landing[q]
        BY <1>4, <2>1
      <3> QED
        BY <1>5, <1>8, <3>1
    <2>2. CASE Old(p) /\ ~Old(q)
      <3>1. p \in DOMAIN landing /\ landing'[p] = landing[p]
            /\ s(q) \in Specs /\ landing'[q] = answer[s(q)]
        BY <1>4, <2>2
      <3> HIDE DEF s
      <3>2. Parsed(answer[s(q)]) /\ answer[s(q)].body[r] > 0 /\ Shows(landing[p], r)
        BY <1>8, <3>1 DEF Shows
      <3> QED
        BY <1>6, <3>1, <3>2 DEF Fresh
    <2>3. CASE ~Old(p) /\ Old(q)
      <3>1. q \in DOMAIN landing /\ landing'[q] = landing[q]
            /\ s(p) \in Specs /\ landing'[p] = answer[s(p)]
        BY <1>4, <2>3
      <3> HIDE DEF s
      <3>2. landing[q].at <= m /\ answer[s(p)].at > m /\ answer[s(p)].at <= landing[q].at
            /\ landing[q].at \in Nat /\ answer[s(p)].at \in Nat
        BY <1>5, <1>6, <1>8, <3>1
      <3> QED
        BY <1>3, <3>2
    <2>4. CASE ~Old(p) /\ ~Old(q)
      <3>1. s(p) \in Specs /\ landing'[p] = answer[s(p)]
            /\ s(q) \in Specs /\ landing'[q] = answer[s(q)]
        BY <1>4, <2>4
      <3> HIDE DEF s
      <3>2. /\ Parsed(answer[s(p)]) /\ answer[s(p)].body[r] > 0
            /\ Parsed(answer[s(q)]) /\ answer[s(q)].body[r] > 0
        BY <1>8, <3>1 DEF Shows
      <3>3. s(p) \in Places[r] /\ s(q) \in Places[r]
        BY <1>6, <3>1, <3>2 DEF Fresh
      <3>4. s(p) = s(q)
        BY <3>1, <3>3 DEF OneSpec
      <3>5. answer[s(p)].body[r] \in Nat
        BY <1>6, <3>1, <3>2, ConstantFacts DEF Body
      <3> QED
        BY <3>1, <3>4, <3>5
    <2> QED
      BY <2>1, <2>2, <2>3, <2>4
  <1>9. LandedRise'
    BY <1>1, <1>2, <1>7, <1>8 DEF LandedRise, Shows, Parsed, IsSuccess, Body
  <1>10. SourcePlaced' /\ SeenFresh' /\ AnswersFresh'
    BY <1>1 DEF VersionsRise, SourcePlaced, SeenFresh, AnswersFresh
  <1> QED
    BY <1>9, <1>10 DEF VersionsRise

\* Every step keeps stamps and versions in one order.
LEMMA RiseStep ==
  ASSUME TypeOK, VersionsRise, OneSpec, [Next]_vars
  PROVE  VersionsRise'
PROOF
  <1>1. ASSUME UNCHANGED <<source, landing>>, UNCHANGED <<seen, answer>> \/ Forget
        PROVE  VersionsRise'
    <2>1. CASE UNCHANGED <<seen, answer>>
      BY <1>1, <2>1 DEF VersionsRise, SourcePlaced, LandedRise, SeenFresh, AnswersFresh, Fresh,
         Shows, Parsed, IsSuccess, Body
    <2>2. CASE Forget
      BY <1>1, <2>2 DEF Forget, VersionsRise, SourcePlaced, LandedRise, SeenFresh, AnswersFresh,
         Shows, Parsed, IsSuccess, Body
    <2> QED
      BY <1>1, <2>1, <2>2
  <1>2. ASSUME NEW r \in Records, SourceChanges(r) PROVE VersionsRise'
    BY <1>2, RiseChanges
  <1>3. ASSUME NEW s \in Specs, Serve(s) PROVE VersionsRise'
    BY <1>3, RiseServes
  <1>4. ASSUME NEW s \in Specs, NEW a \in Answers, Complete(s, a) PROVE VersionsRise'
    BY <1>4, RiseCompletes
  <1>5. CASE Land
    BY <1>5, RiseLands
  <1>6. CASE FetchFails
    BY <1>1, <1>6 DEF FetchFails, tableVars
  <1>7. ASSUME \/ NextDay \/ StartRun \/ StartUpdate \/ BronzeDone \/ SilverDone
               \/ HealthRefresh \/ PerDayRefresh \/ UpdateCompletes \/ UpdateFails
               \/ \E n \in 1..Len(landing) : BronzeBatch(n)
               \/ \E n \in 1..Len(bronze) : SilverBatch(n)
               \/ UNCHANGED vars
        PROVE  VersionsRise'
    <2>1. UNCHANGED <<source, landing>> /\ UNCHANGED <<seen, answer>>
      BY <1>7 DEF NextDay, StartRun, StartUpdate, BronzeDone, SilverDone, HealthRefresh,
         PerDayRefresh, UpdateCompletes, UpdateFails, UpdateEnds, BronzeBatch, SilverBatch,
         vars, jobVars, tableVars
    <2> QED
      BY <1>1, <2>1
  <1> QED
    BY <1>2, <1>3, <1>4, <1>5, <1>6, <1>7 DEF Next

\* A record key is the key of the rows that bring its record.
LEMMA RecordKeyFacts ==
  ASSUME Shape = "records", NEW row, NEW k \in KeysOf(row)
  PROVE  k[2] \in Records /\ Shows(row, k[2])
PROOF
  <1>1. Parsed(row) /\ KeysOf(row) = RecordKeys(row)
    BY DEF KeysOf
  <1>2. k \in {Endpoint(row.spec)} \X {r \in Records \ Keyless : row.body[r] > 0}
    BY <1>1 DEF RecordKeys
  <1> QED
    BY <1>1, <1>2 DEF Shows

\* Where each record is served under one spec, silver is never behind a version
\* that was landed: the latest fetch is the latest state, though rows are stamped
\* when a request is over and the source changes meanwhile.
THEOREM NeverBehind ==
  ASSUME OneSpec, Shape = "records"
  PROVE  Spec => []SilverNeverBehindLanding
PROOF
  <1>1. IInv /\ VersionsRise /\ [Next]_vars => VersionsRise'
    BY RiseStep DEF IInv
  <1>2. IInv /\ VersionsRise => SilverNeverBehindLanding
    <2> SUFFICES ASSUME IInv, VersionsRise, phase = "updated",
                        NEW k \in Keys, NEW p \in LandedFor(k)
                 PROVE  landing[p].body[k[2]] <= BronzeRow(silver[k]).body[k[2]]
      BY DEF SilverNeverBehindLanding
    <2> DEFINE q == bronze[silver[k]].of
    <2>1. q \in LandedFor(k) /\ landing[p].at <= FetchedAt(silver[k])
      BY SilverLatestAtEnd DEF SilverIsLatestAnswer
    <2>2. FetchedAt(silver[k]) = landing[q].at /\ BronzeRow(silver[k]) = landing[q]
      BY DEF FetchedAt, BronzeRow
    <2> HIDE DEF q
    <2>3. /\ p \in DOMAIN landing /\ k \in KeysOf(landing[p])
          /\ q \in DOMAIN landing /\ k \in KeysOf(landing[q])
      BY <2>1 DEF LandedFor
    <2>4. k[2] \in Records /\ Shows(landing[p], k[2]) /\ Shows(landing[q], k[2])
      BY <2>3, RecordKeyFacts
    <2>5. landing[p].body[k[2]] <= landing[q].body[k[2]]
      BY <2>1, <2>2, <2>3, <2>4 DEF VersionsRise, LandedRise
    <2> QED
      BY <2>2, <2>5
  <1> QED
    BY <1>1, <1>2, RiseInit, InductiveInvariant, PTL DEF Spec

================================================================================
