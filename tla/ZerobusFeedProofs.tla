--------------------------- MODULE ZerobusFeedProofs ---------------------------
(***************************************************************************)
(* Theorems about ZerobusFeed, for batches of any size and any number of   *)
(* batches, runs and dropped streams, and a day of any length.             *)
(***************************************************************************)
EXTENDS ZerobusFeed, FiniteSetTheorems, WellFoundedInduction, TLAPS

\* The event ids drawn until batch b of push run r.
Drawn(r, b) == ((r - 1) * MaxBatches + b) * BatchSize

\* Event ids are drawn for the batches of the runs so far.
EventsCounted ==
  /\ phase = "pushing" => run >= 1
  /\ run = 0 => made = 0
  /\ run >= 1 => made <= Drawn(run, batches)

\* What the current stream wrote, and what was acknowledged, is in the table; an
\* update begins after the last acknowledgement and is past what was there then
\* when silver is done.
DeliveriesLand ==
  /\ sent # <<>> => phase = "pushing"
  /\ \A i \in 1..written : \E b \in DOMAIN bronze : bronze[b] = sent[i]
  /\ \A r \in acked : \E b \in DOMAIN bronze : bronze[b] = r
  /\ phase \in {"silver", "gold", "updated"} =>
       \A r \in acked : \E b \in 1..upTo : bronze[b] = r
  /\ phase \in {"gold", "updated"} => upTo <= silverRead

\* Silver has a row for each event read, made from a delivery of it, and no
\* delivery read is later.
SilverLatest ==
  /\ DOMAIN silver = {bronze[b].event : b \in 1..silverRead}
  /\ \A e \in DOMAIN silver :
       /\ bronze[silver[e]].event = e
       /\ \A c \in 1..silverRead : bronze[c].event = e => bronze[c].at <= bronze[silver[e]].at

\* On the days of the window the health view counts fewer events than arrivals
\* where an event arrived twice before the update.
DuplicatesCounted ==
  Today <= Window =>
    \A b, c \in 1..upTo :
      b # c /\ bronze[b].event = bronze[c].event /\ DayOf(bronze[c].at) = DayOf(bronze[b].at) =>
        gold.health[DayOf(bronze[b].at)].distinct < gold.health[DayOf(bronze[b].at)].arrived

\* Only an update under way has refreshed views, and one that refreshed the
\* health view did so after it began.
HealthShows ==
  /\ DOMAIN gold = Views
  /\ phase \notin {"silver", "gold"} => refreshed = {}
  /\ "health" \in refreshed \/ phase = "updated" => DuplicatesCounted

\* The daily view's counts, as a sum.
PerDaySum == INSTANCE SetSums WITH Weight <- LAMBDA f, d : f[d]

\* The daily view that was refreshed shows silver as it is, and silver rests until
\* the update ends.
PerDayShows ==
  /\ DOMAIN gold = Views
  /\ "perDay" \in refreshed => phase = "gold"
  /\ "perDay" \in refreshed \/ phase = "updated" => gold.perDay = [d \in Days |-> PerDay(d)]

IInv ==
  /\ TypeOK /\ EventsCounted /\ DeliveriesLand /\ SilverLatest
  /\ HealthShows /\ PerDayShows

-----------------------------------------------------------------------------
\* Arithmetic

\* The assumptions on the constants, one by one.
LEMMA ConstantFacts ==
  /\ BatchSize \in Nat /\ BatchSize >= 1
  /\ MaxRecent \in Nat /\ MaxRecent >= 1
  /\ TicksPerDay \in Nat /\ TicksPerDay >= 1
  /\ MaxBatches \in Nat /\ MaxRuns \in Nat /\ MaxDrops \in Nat
  /\ MaxTick \in Nat /\ Window \in Nat
PROOF
  BY FeedAssumption

\* A product grows with its first factor.
LEMMA ProductGrows ==
  ASSUME NEW a \in Nat, NEW b \in Nat, NEW c \in Nat, a <= b
  PROVE  a * c \in Nat /\ b * c \in Nat /\ a * c <= b * c
PROOF
  <1>1. b * c = a * c + (b - a) * c
    OBVIOUS
  <1>2. (b - a) * c \in Nat /\ a * c \in Nat /\ b * c \in Nat
    OBVIOUS
  <1> QED
    BY <1>1, <1>2

\* A batch draws BatchSize ids, a new run goes on where any run may have ended,
\* and there are ids for all batches of all runs.
LEMMA DrawnFacts ==
  ASSUME NEW r \in Nat \ {0}, NEW b \in 0..MaxBatches
  PROVE  /\ Drawn(r, b) \in Nat
         /\ Drawn(r, b + 1) = Drawn(r, b) + BatchSize
         /\ Drawn(r, b) <= Drawn(r + 1, 0)
         /\ r <= MaxRuns => Drawn(r, b) <= MaxRuns * MaxBatches * BatchSize
PROOF
  <1>1. BatchSize \in Nat /\ MaxBatches \in Nat /\ MaxRuns \in Nat /\ b \in Nat /\ b <= MaxBatches
    BY ConstantFacts
  <1> DEFINE before == (r - 1) * MaxBatches
             n == before + b
  <1>2. before \in Nat /\ r * MaxBatches = before + MaxBatches
    BY <1>1
  <1> HIDE DEF before
  <1>3. n \in Nat /\ n <= r * MaxBatches /\ r * MaxBatches \in Nat
    BY <1>1, <1>2
  <1>4. Drawn(r, b) = n * BatchSize
    BY DEF Drawn, before
  <1>5. Drawn(r, b + 1) = (n + 1) * BatchSize
    <2>1. before + (b + 1) = n + 1
      BY <1>1, <1>2
    <2> QED
      BY <2>1 DEF Drawn, before
  <1> HIDE DEF n
  <1>6. n * BatchSize \in Nat /\ (n + 1) * BatchSize = n * BatchSize + BatchSize
    BY <1>1, <1>3
  <1>7. Drawn(r + 1, 0) = (r * MaxBatches) * BatchSize
    <2>1. ((r + 1) - 1) * MaxBatches + 0 = r * MaxBatches
      BY <1>1, <1>3
    <2> QED
      BY <2>1 DEF Drawn
  <1>8. n * BatchSize <= (r * MaxBatches) * BatchSize
    BY <1>1, <1>3, ProductGrows
  <1>9. ASSUME r <= MaxRuns
        PROVE  (r * MaxBatches) * BatchSize <= MaxRuns * MaxBatches * BatchSize
    <2>1. r * MaxBatches <= MaxRuns * MaxBatches /\ MaxRuns * MaxBatches \in Nat
      BY <1>1, <1>9, ProductGrows
    <2> QED
      BY <1>1, <1>3, <2>1, ProductGrows
  <1>10. (r * MaxBatches) * BatchSize \in Nat /\ MaxRuns * MaxBatches * BatchSize \in Nat
    <2>1. MaxRuns * MaxBatches \in Nat
      BY <1>1
    <2> QED
      BY <1>1, <1>3, <2>1
  <1> HIDE DEF Drawn
  <1> QED
    BY <1>4, <1>5, <1>6, <1>7, <1>8, <1>9, <1>10

\* A set of numbers has a least one.
LEMMA LeastExists ==
  ASSUME NEW T, T \subseteq Nat, T # {}
  PROVE  \E x \in T : \A y \in T : x <= y
PROOF
  <1>1. PICK x \in T : \A y \in T : ~(<<y, x>> \in OpToRel(<, Nat))
    BY NatLessThanWellFounded, WFMin
  <1>2. \A y \in Nat, z \in Nat : y < z => <<y, z>> \in OpToRel(<, Nat)
    BY Zenon DEF OpToRel
  <1>3. \A y \in T : ~(y < x)
    BY <1>1, <1>2
  <1> QED
    BY <1>3

-----------------------------------------------------------------------------
\* Sequences

\* What the positions of a sequence hold.
LEMMA SequenceFacts ==
  ASSUME NEW S, NEW q \in Seq(S)
  PROVE  /\ Len(q) \in Nat
         /\ DOMAIN q = 1..Len(q)
         /\ \A i \in DOMAIN q : q[i] \in S
PROOF
  <1>1. Len(q) \in Nat /\ DOMAIN q = 1..Len(q)
    OBVIOUS
  <1> QED
    BY <1>1

\* Appending keeps the sequence and adds one element at its end.
LEMMA AppendFacts ==
  ASSUME NEW S, NEW q \in Seq(S), NEW e \in S
  PROVE  /\ Append(q, e) \in Seq(S)
         /\ Len(Append(q, e)) = Len(q) + 1
         /\ DOMAIN Append(q, e) = 1..(Len(q) + 1)
         /\ \A i \in 1..Len(q) : Append(q, e)[i] = q[i]
         /\ Append(q, e)[Len(q) + 1] = e
PROOF
  OBVIOUS

\* The deque forgets the oldest events only.
LEMMA NewestFacts ==
  ASSUME NEW S, NEW s \in Seq(S)
  PROVE  Newest(s) \in Seq(S) /\ Len(Newest(s)) <= MaxRecent
PROOF
  <1> DEFINE k == IF Len(s) < MaxRecent THEN Len(s) ELSE MaxRecent
  <1>1. k \in 0..Len(s) /\ k <= MaxRecent /\ Len(s) \in Nat
    BY ConstantFacts
  <1> HIDE DEF k
  <1>2. /\ SubSeq(s, Len(s) - k + 1, Len(s)) \in Seq(S)
        /\ Len(SubSeq(s, Len(s) - k + 1, Len(s))) = k
    BY <1>1
  <1> QED
    BY <1>1, <1>2 DEF Newest, k

\* A choice of at most n elements is a sequence of them.
LEMMA SeqOfFacts ==
  ASSUME NEW S, NEW n \in Nat, NEW q \in SeqOf(S, n)
  PROVE  q \in Seq(S)
PROOF
  <1>1. PICK m \in 0..n : q \in [1..m -> S]
    BY DEF SeqOf
  <1> QED
    BY <1>1

\* Of some deliveries the latest one exists.
LEMMA LatestFacts ==
  ASSUME TypeOK, NEW B, B # {}, B \subseteq DOMAIN bronze
  PROVE  /\ Latest(B) \in B
         /\ \A c \in B : bronze[c].at <= bronze[Latest(B)].at
PROOF
  <1> DEFINE top == 2 * MaxTick + 1
             T == {top - bronze[b].at : b \in B}
  <1>1. \A b \in B : bronze[b].at \in 0..top
    <2>1. \A b \in DOMAIN bronze : bronze[b] \in Record
      BY SequenceFacts DEF TypeOK
    <2> QED
      BY <2>1 DEF Record, Stamps
  <1>2. top \in Nat
    BY ConstantFacts
  <1> HIDE DEF top
  <1>3. T \subseteq Nat /\ T # {}
    BY <1>1, <1>2
  <1>4. PICK x \in T : \A y \in T : x <= y
    <2> HIDE DEF T
    <2> QED
      BY <1>3, LeastExists
  <1>5. PICK b \in B : x = top - bronze[b].at
    OBVIOUS
  <1>6. \A c \in B : top - bronze[b].at <= top - bronze[c].at
    BY <1>4, <1>5
  <1>7. \A c \in B : bronze[c].at <= bronze[b].at
    BY <1>1, <1>2, <1>6
  <1> QED
    BY <1>7 DEF Latest

\* A batch leaves each event it brings at the latest of its deliveries, those of
\* the batch and the one silver had, and the other events alone.
LEMMA SilverBatchFacts ==
  ASSUME TypeOK, NEW n \in 1..Len(bronze), SilverBatch(n)
  PROVE  /\ silverRead' = silverRead + n
         /\ silverRead + n \in 1..Len(bronze)
         /\ DOMAIN silver' \subseteq Events
         /\ DOMAIN silver' = DOMAIN silver \cup
                {bronze[b].event : b \in (silverRead + 1)..(silverRead + n)}
         /\ \A e \in DOMAIN silver' : silver'[e] \in 1..(silverRead + n)
         /\ \A e \in DOMAIN silver' :
              \/ silver'[e] \in (silverRead + 1)..(silverRead + n) /\ bronze[silver'[e]].event = e
              \/ e \in DOMAIN silver /\ silver'[e] = silver[e]
         /\ \A e \in DOMAIN silver' :
              /\ \A c \in (silverRead + 1)..(silverRead + n) :
                   bronze[c].event = e => bronze[c].at <= bronze[silver'[e]].at
              /\ e \in DOMAIN silver => bronze[silver[e]].at <= bronze[silver'[e]].at
PROOF
  <1> DEFINE batch == (silverRead + 1)..(silverRead + n)
             arriving == {bronze[b].event : b \in batch}
             RowsOf(e) == {b \in batch : bronze[b].event = e}
                            \cup (IF e \in DOMAIN silver THEN {silver[e]} ELSE {})
  <1>1. /\ n \in 1..(Len(bronze) - silverRead)
        /\ silver' = [e \in DOMAIN silver \cup arriving |-> Latest(RowsOf(e))]
        /\ silverRead' = silverRead + n
    BY DEF SilverBatch
  <1>2. /\ silverRead \in Nat /\ n \in Nat /\ n >= 1 /\ Len(bronze) \in Nat
        /\ DOMAIN bronze = 1..Len(bronze)
        /\ silverRead + n \in 1..Len(bronze)
    BY <1>1, SequenceFacts DEF TypeOK
  <1>3. batch \subseteq DOMAIN bronze /\ batch \subseteq 1..(silverRead + n)
    BY <1>2
  <1>4. \A e \in DOMAIN silver : /\ silver[e] \in 1..silverRead
                                /\ silver[e] \in DOMAIN bronze
                                /\ silver[e] \in 1..(silverRead + n)
    BY <1>2 DEF TypeOK
  <1>5. arriving \subseteq Events
    <2>1. \A b \in DOMAIN bronze : bronze[b] \in Record
      BY SequenceFacts DEF TypeOK
    <2> QED
      BY <1>3, <2>1 DEF Record
  <1> HIDE DEF batch
  <1>6. ASSUME NEW e \in DOMAIN silver \cup arriving
        PROVE  /\ silver'[e] \in RowsOf(e)
               /\ \A c \in RowsOf(e) : bronze[c].at <= bronze[silver'[e]].at
    <2>1. RowsOf(e) # {} /\ RowsOf(e) \subseteq DOMAIN bronze
      BY <1>3, <1>4
    <2>2. silver'[e] = Latest(RowsOf(e))
      BY <1>1
    <2> HIDE DEF RowsOf
    <2> QED
      BY <2>1, <2>2, LatestFacts
  <1>7. DOMAIN silver' = DOMAIN silver \cup arriving
    BY <1>1
  <1>8. \A e \in DOMAIN silver' :
          \/ silver'[e] \in batch /\ bronze[silver'[e]].event = e
          \/ e \in DOMAIN silver /\ silver'[e] = silver[e]
    BY <1>6, <1>7
  <1>9. \A e \in DOMAIN silver' : silver'[e] \in 1..(silverRead + n)
    BY <1>3, <1>4, <1>8
  <1>10. \A e \in DOMAIN silver' :
           /\ \A c \in batch : bronze[c].event = e => bronze[c].at <= bronze[silver'[e]].at
           /\ e \in DOMAIN silver => bronze[silver[e]].at <= bronze[silver'[e]].at
    BY <1>6, <1>7
  <1>11. DOMAIN silver' \subseteq Events
    BY <1>5, <1>7 DEF TypeOK
  <1> QED
    BY <1>1, <1>2, <1>7, <1>8, <1>9, <1>10, <1>11 DEF batch

-----------------------------------------------------------------------------
\* Type correctness

\* The initial state has its types.
LEMMA TypeInit == Init => TypeOK
PROOF
  <1> SUFFICES ASSUME Init PROVE TypeOK
    OBVIOUS
  <1>1. /\ clock = 0 /\ run = 0 /\ phase = "idle" /\ batches = 0 /\ recent = <<>>
        /\ made = 0 /\ sent = <<>> /\ written = 0 /\ drops = 0 /\ wire = <<>>
        /\ acked = {} /\ bronze = <<>> /\ upTo = 0 /\ silverRead = 0 /\ silver = <<>>
        /\ refreshed = {}
    BY DEF Init
  <1>2. /\ recent \in Seq(Events) /\ sent \in Seq(Record) /\ wire \in Seq(Record)
        /\ bronze \in Seq(Record)
        /\ Len(recent) = 0 /\ Len(sent) = 0 /\ Len(bronze) = 0 /\ DOMAIN silver = {}
    BY <1>1
  <1>3. /\ clock \in 0..MaxTick /\ run \in 0..MaxRuns /\ batches \in 0..MaxBatches
        /\ drops \in 0..MaxDrops /\ Len(recent) <= MaxRecent
    BY <1>1, <1>2, ConstantFacts
  <1> QED
    BY <1>1, <1>2, <1>3 DEF TypeOK

\* The ids a batch draws are events.
LEMMA EventRoom ==
  ASSUME TypeOK, EventsCounted, phase = "pushing", batches < MaxBatches
  PROVE  /\ made \in Nat
         /\ run >= 1
         /\ made + BatchSize <= Drawn(run, batches + 1)
         /\ \A i \in 1..BatchSize : made + i \in Events
         /\ made + BatchSize \in Events
PROOF
  <1> DEFINE last == MaxRuns * MaxBatches * BatchSize
  <1>1. /\ run \in Nat \ {0} /\ run >= 1 /\ run <= MaxRuns
        /\ batches \in 0..MaxBatches /\ batches + 1 \in 0..MaxBatches
    BY ConstantFacts DEF TypeOK, EventsCounted
  <1>2. made \in Nat /\ made <= Drawn(run, batches)
    BY <1>1, ConstantFacts DEF TypeOK, EventsCounted, Events
  <1>3. /\ Drawn(run, batches) \in Nat
        /\ Drawn(run, batches + 1) = Drawn(run, batches) + BatchSize
        /\ Drawn(run, batches + 1) <= last
    BY <1>1, DrawnFacts
  <1>4. last \in Nat
    <2>1. MaxRuns * MaxBatches \in Nat
      BY ConstantFacts
    <2> QED
      BY <2>1, ConstantFacts
  <1> HIDE DEF last
  <1>5. made + BatchSize <= Drawn(run, batches + 1) /\ made + BatchSize <= last
    BY <1>2, <1>3, <1>4, ConstantFacts
  <1>6. \A i \in 1..BatchSize : made + i \in 1..last
    BY <1>2, <1>4, <1>5, ConstantFacts
  <1>7. BatchSize \in 1..BatchSize
    BY ConstantFacts
  <1> QED
    BY <1>1, <1>2, <1>5, <1>6, <1>7 DEF Events, last

\* A batch of fresh events and re-deliveries is a sequence of records.
LEMMA BatchFacts ==
  ASSUME TypeOK, EventsCounted, phase = "pushing", batches < MaxBatches,
         NEW t \in 0..MaxTick, NEW es \in Seq(Events)
  PROVE  /\ Fresh(t) \o Again(es, t) \in Seq(Record)
         /\ EventsOf(Fresh(t) \o Again(es, t)) \in Seq(Events)
PROOF
  <1>1. 2 * t \in Stamps /\ 2 * t + 1 \in Stamps
    BY ConstantFacts DEF Stamps
  <1>2. Fresh(t) \in Seq(Record)
    <2>1. \A i \in 1..BatchSize : [event |-> made + i, at |-> 2 * t] \in Record
      BY <1>1, EventRoom DEF Record
    <2> QED
      BY <2>1, ConstantFacts DEF Fresh
  <1>3. Again(es, t) \in Seq(Record)
    <2>1. Len(es) \in Nat /\ DOMAIN es = 1..Len(es) /\ \A i \in DOMAIN es : es[i] \in Events
      BY SequenceFacts
    <2>2. \A i \in 1..Len(es) : [event |-> es[i], at |-> 2 * t + 1] \in Record
      BY <1>1, <2>1 DEF Record
    <2> QED
      BY <2>1, <2>2 DEF Again
  <1> DEFINE batch == Fresh(t) \o Again(es, t)
  <1>4. batch \in Seq(Record)
    BY <1>2, <1>3
  <1> HIDE DEF batch
  <1>5. EventsOf(batch) \in Seq(Events)
    <2>1. Len(batch) \in Nat /\ DOMAIN batch = 1..Len(batch) /\ \A i \in DOMAIN batch : batch[i] \in Record
      BY <1>4, SequenceFacts
    <2>2. \A i \in 1..Len(batch) : batch[i].event \in Events
      BY <2>1 DEF Record
    <2> QED
      BY <2>1, <2>2 DEF EventsOf
  <1> QED
    BY <1>4, <1>5 DEF batch

\* A pushed batch keeps the producer's types.
LEMMA PushTypes ==
  ASSUME TypeOK, EventsCounted, NEW t \in 0..MaxTick, NEW es \in Seq(Events),
         Push(Fresh(t) \o Again(es, t))
  PROVE  /\ sent' \in Seq(Record)
         /\ written' \in 0..Len(sent')
         /\ made' \in Events
         /\ batches' \in 0..MaxBatches
PROOF
  <1> DEFINE batch == Fresh(t) \o Again(es, t)
  <1>1. /\ phase = "pushing" /\ batches < MaxBatches
        /\ sent' = batch /\ written' = 0 /\ made' = made + BatchSize /\ batches' = batches + 1
    BY DEF Push
  <1>2. batch \in Seq(Record) /\ made + BatchSize \in Events
    BY <1>1, BatchFacts, EventRoom
  <1>3. batches + 1 \in 0..MaxBatches
    BY <1>1, ConstantFacts DEF TypeOK
  <1> HIDE DEF batch
  <1> QED
    BY <1>1, <1>2, <1>3, SequenceFacts

\* What a streaming batch may deliver again are events.
LEMMA RedeliveryFacts ==
  ASSUME TypeOK, NEW es \in SeqOf(Range(recent), BatchSize)
  PROVE  es \in Seq(Events)
PROOF
  <1>1. Range(recent) \subseteq Events
    BY SequenceFacts DEF Range, TypeOK
  <1>2. es \in Seq(Range(recent))
    BY SeqOfFacts, ConstantFacts
  <1> QED
    BY <1>1, <1>2

\* What a single batch delivers again are its own events.
LEMMA RepeatFacts ==
  ASSUME TypeOK, EventsCounted, phase = "pushing", batches < MaxBatches,
         NEW es \in SeqOf((made + 1)..(made + BatchSize), BatchSize)
  PROVE  es \in Seq(Events)
PROOF
  <1> DEFINE own == (made + 1)..(made + BatchSize)
  <1>1. own \subseteq Events
    <2>1. \A e \in own : e - made \in 1..BatchSize /\ e = made + (e - made)
      BY EventRoom, ConstantFacts
    <2> QED
      BY <2>1, EventRoom
  <1>2. es \in Seq(own)
    BY SeqOfFacts, ConstantFacts
  <1> HIDE DEF own
  <1> QED
    BY <1>1, <1>2

\* No step of the job, the service or the pipeline leaves the types.
LEMMA TypeStep ==
  ASSUME TypeOK, EventsCounted, [Next]_vars
  PROVE  TypeOK'
PROOF
  <1>1. ASSUME NEW es \in SeqOf(Range(recent), BatchSize), StreamBatch(es) PROVE TypeOK'
    <2> DEFINE t == IF batches = 0 THEN clock ELSE clock + 1
               batch == Fresh(t) \o Again(es, t)
    <2>1. t <= MaxTick /\ Push(batch) /\ clock' = t /\ recent' = Newest(recent \o EventsOf(batch))
      BY <1>1 DEF StreamBatch
    <2>2. t \in 0..MaxTick
      BY <2>1, ConstantFacts DEF TypeOK
    <2> HIDE DEF t
    <2>3. es \in Seq(Events)
      BY RedeliveryFacts
    <2>4. /\ sent' \in Seq(Record) /\ written' \in 0..Len(sent')
          /\ made' \in Events /\ batches' \in 0..MaxBatches
      BY <2>1, <2>2, <2>3, PushTypes
    <2>5. EventsOf(batch) \in Seq(Events)
      BY <2>1, <2>2, <2>3, BatchFacts DEF Push
    <2> HIDE DEF batch
    <2>6. recent \o EventsOf(batch) \in Seq(Events)
      BY <2>5 DEF TypeOK
    <2>7. recent' \in Seq(Events) /\ Len(recent') <= MaxRecent
      BY <2>1, <2>6, NewestFacts
    <2>8. UNCHANGED <<run, phase, drops, wire, acked, bronze, pipelineVars>>
      BY <1>1 DEF StreamBatch
    <2> QED
      BY <2>1, <2>2, <2>4, <2>7, <2>8 DEF TypeOK, pipelineVars
  <1>2. ASSUME NEW es \in SeqOf((made + 1)..(made + BatchSize), BatchSize), OneBatch(es)
        PROVE  TypeOK'
    <2>1. Push(Fresh(clock) \o Again(es, clock))
      BY <1>2 DEF OneBatch
    <2>2. clock \in 0..MaxTick /\ es \in Seq(Events)
      BY <2>1, RepeatFacts DEF TypeOK, Push
    <2>3. /\ sent' \in Seq(Record) /\ written' \in 0..Len(sent')
          /\ made' \in Events /\ batches' \in 0..MaxBatches
      BY <2>1, <2>2, PushTypes
    <2>4. UNCHANGED <<clock, run, phase, recent, drops, wire, acked, bronze, pipelineVars>>
      BY <1>2 DEF OneBatch
    <2> QED
      BY <2>3, <2>4 DEF TypeOK, pipelineVars
  <1>3. CASE Tick
    BY <1>3, ConstantFacts DEF Tick, TypeOK, producerVars, pipelineVars
  <1>4. CASE Prepare \/ PushDone \/ SilverDone
    BY <1>4 DEF Prepare, PushDone, SilverDone, TypeOK, producerVars, pipelineVars
  <1>5. CASE StartPush
    <2>1. run' \in 0..MaxRuns /\ batches' \in 0..MaxBatches
      BY <1>5, ConstantFacts DEF StartPush, TypeOK
    <2>2. recent' \in Seq(Events) /\ Len(recent') <= MaxRecent
      BY <1>5, ConstantFacts DEF StartPush
    <2> QED
      BY <1>5, <2>1, <2>2 DEF StartPush, TypeOK, pipelineVars
  <1>6. CASE PushFails
    <2>1. PICK k \in written..Len(sent) : wire' = wire \o SubSeq(sent, written + 1, k)
      BY <1>6 DEF PushFails
    <2>2. SubSeq(sent, written + 1, k) \in Seq(Record)
      BY <2>1 DEF TypeOK
    <2>3. wire' \in Seq(Record)
      BY <2>1, <2>2 DEF TypeOK
    <2>4. sent' \in Seq(Record) /\ Len(sent') = 0 /\ written' = 0
      BY <1>6 DEF PushFails
    <2>5. written' \in 0..Len(sent')
      BY <2>4
    <2> QED
      BY <1>6, <2>3, <2>4, <2>5 DEF PushFails, TypeOK, pipelineVars
  <1>7. CASE Write
    <2>1. /\ written < Len(sent) /\ bronze' = Append(bronze, sent[written + 1])
          /\ written' = written + 1
      BY <1>7 DEF Write
    <2>2. written + 1 \in 0..Len(sent) /\ sent[written + 1] \in Record
      BY <2>1, SequenceFacts DEF TypeOK
    <2>3. bronze' \in Seq(Record) /\ Len(bronze') = Len(bronze) + 1 /\ Len(bronze) \in Nat
      BY <2>1, <2>2, AppendFacts, SequenceFacts DEF TypeOK
    <2>4. {upTo, silverRead} \subseteq 0..Len(bronze')
      BY <2>3 DEF TypeOK
    <2> QED
      BY <1>7, <2>1, <2>2, <2>3, <2>4 DEF Write, TypeOK, pipelineVars
  <1>8. CASE LateWrite
    <2>1. wire # <<>> /\ bronze' = Append(bronze, Head(wire)) /\ wire' = Tail(wire)
      BY <1>8 DEF LateWrite
    <2>2. Head(wire) \in Record /\ wire' \in Seq(Record)
      BY <2>1 DEF TypeOK
    <2>3. bronze' \in Seq(Record) /\ Len(bronze') = Len(bronze) + 1 /\ Len(bronze) \in Nat
      BY <2>1, <2>2, AppendFacts, SequenceFacts DEF TypeOK
    <2>4. {upTo, silverRead} \subseteq 0..Len(bronze')
      BY <2>3 DEF TypeOK
    <2> QED
      BY <1>8, <2>2, <2>3, <2>4 DEF LateWrite, TypeOK, pipelineVars
  <1>9. CASE Drop
    <2>1. written' \in 0..Len(sent) /\ drops' \in 0..MaxDrops
      BY <1>9, ConstantFacts, SequenceFacts DEF Drop, TypeOK
    <2> QED
      BY <1>9, <2>1 DEF Drop, TypeOK, pipelineVars
  <1>10. CASE Ack
    <2>1. Range(sent) \subseteq Record
      BY SequenceFacts DEF Range, TypeOK
    <2>2. sent' \in Seq(Record) /\ Len(sent') = 0 /\ written' = 0
      BY <1>10 DEF Ack
    <2>3. written' \in 0..Len(sent')
      BY <2>2
    <2> QED
      BY <1>10, <2>1, <2>2, <2>3 DEF Ack, TypeOK, pipelineVars
  <1>11. CASE StartUpdate
    <2>1. upTo' \in 0..Len(bronze)
      BY <1>11, SequenceFacts DEF StartUpdate, TypeOK
    <2> QED
      BY <1>11, <2>1 DEF StartUpdate, TypeOK, producerVars
  <1>12. ASSUME NEW n \in 1..Len(bronze), SilverBatch(n) PROVE TypeOK'
    <2>1. /\ silverRead' = silverRead + n
          /\ silverRead + n \in 1..Len(bronze)
          /\ DOMAIN silver' \subseteq Events
          /\ \A e \in DOMAIN silver' : silver'[e] \in 1..(silverRead + n)
      BY <1>12, SilverBatchFacts
    <2>2. silverRead' \in 0..Len(bronze)
      BY <2>1
    <2>3. UNCHANGED <<clock, run, phase, producerVars, bronze, upTo, refreshed, gold>>
      BY <1>12 DEF SilverBatch
    <2> QED
      BY <2>1, <2>2, <2>3 DEF TypeOK, producerVars
  <1>13. CASE HealthRefresh \/ PerDayRefresh
    BY <1>13 DEF HealthRefresh, PerDayRefresh, TypeOK, producerVars, Views
  <1>14. CASE UpdateCompletes \/ UpdateFails
    BY <1>14 DEF UpdateCompletes, UpdateFails, UpdateEnds, TypeOK, producerVars
  <1>15. CASE UNCHANGED vars
    BY <1>15 DEF vars, producerVars, pipelineVars, TypeOK
  <1> QED
    BY <1>1, <1>2, <1>3, <1>4, <1>5, <1>6, <1>7, <1>8, <1>9, <1>10, <1>11, <1>12,
       <1>13, <1>14, <1>15
    DEF Next

-----------------------------------------------------------------------------
\* What a step leaves as it was

\* Whatever is in the bronze table stays where it is.
LEMMA HistoryKept ==
  ASSUME TypeOK, [Next]_vars
  PROVE  \A b \in DOMAIN bronze : b \in DOMAIN bronze' /\ bronze'[b] = bronze[b]
PROOF
  <1>1. ASSUME NEW e \in Record, bronze' = Append(bronze, e)
        PROVE  \A b \in DOMAIN bronze : b \in DOMAIN bronze' /\ bronze'[b] = bronze[b]
    <2>1. /\ Len(bronze) \in Nat /\ DOMAIN bronze = 1..Len(bronze)
          /\ DOMAIN bronze' = 1..(Len(bronze) + 1)
          /\ \A b \in 1..Len(bronze) : bronze'[b] = bronze[b]
      BY <1>1, SequenceFacts, AppendFacts DEF TypeOK
    <2> QED
      BY <2>1
  <1>2. CASE bronze' = bronze
    BY <1>2
  <1>3. CASE Write
    <2>1. written + 1 \in DOMAIN sent /\ sent[written + 1] \in Record
      BY <1>3, SequenceFacts DEF Write, TypeOK
    <2> QED
      BY <1>1, <1>3, <2>1 DEF Write
  <1>4. CASE LateWrite
    <2>1. Head(wire) \in Record
      BY <1>4 DEF LateWrite, TypeOK
    <2> QED
      BY <1>1, <1>4, <2>1 DEF LateWrite
  <1> QED
    BY <1>2, <1>3, <1>4
    DEF Next, Tick, Prepare, StartPush, StreamBatch, OneBatch, PushDone, PushFails,
        Drop, Ack, StartUpdate, SilverBatch, SilverDone, HealthRefresh, PerDayRefresh,
        UpdateCompletes, UpdateFails, UpdateEnds, vars

\* Only a batch of its flow changes silver.
LEMMA SilverMoves ==
  ASSUME [Next]_vars
  PROVE  \/ UNCHANGED <<silver, silverRead>>
         \/ \E n \in 1..Len(bronze) : SilverBatch(n)
PROOF
  BY DEF Next, Tick, Prepare, StartPush, StreamBatch, OneBatch, PushDone, PushFails, Write,
     LateWrite, Drop, Ack, StartUpdate, SilverDone, HealthRefresh, PerDayRefresh,
     UpdateCompletes, UpdateFails, UpdateEnds, vars, pipelineVars

-----------------------------------------------------------------------------
\* The event ids

\* A batch draws its ids from the room of its batch, and a new run goes on after
\* the room of the last one.
LEMMA CountStep ==
  ASSUME TypeOK, EventsCounted, [Next]_vars
  PROVE  EventsCounted'
PROOF
  <1>1. run \in 0..MaxRuns /\ batches \in 0..MaxBatches /\ run \in Nat
    BY ConstantFacts DEF TypeOK
  <1>2. ASSUME NEW batch, Push(batch), UNCHANGED <<run, phase>> PROVE EventsCounted'
    <2>1. /\ phase = "pushing" /\ batches < MaxBatches
          /\ made' = made + BatchSize /\ batches' = batches + 1
      BY <1>2 DEF Push
    <2>2. run >= 1 /\ made + BatchSize <= Drawn(run, batches + 1)
      BY <2>1, EventRoom
    <2>3. Drawn(run, batches)' = Drawn(run, batches + 1)
      BY <1>2, <2>1 DEF Drawn
    <2> QED
      BY <1>1, <1>2, <2>1, <2>2, <2>3 DEF EventsCounted
  <1>3. CASE StartPush
    <2>1. /\ phase' = "pushing" /\ run' = run + 1 /\ batches' = 0 /\ made' = made
      BY <1>3 DEF StartPush
    <2>2. Drawn(run, batches)' = Drawn(run + 1, 0)
      BY <2>1 DEF Drawn
    <2>3. made <= Drawn(run + 1, 0)
      <3>1. CASE run = 0
        <4>1. Drawn(1, 0) = 0
          <5>1. (1 - 1) * MaxBatches + 0 = 0
            BY ConstantFacts
          <5> QED
            BY <5>1, ConstantFacts DEF Drawn
        <4> QED
          BY <3>1, <4>1 DEF EventsCounted
      <3>2. CASE run # 0
        <4>1. run \in Nat \ {0} /\ run >= 1 /\ run + 1 \in Nat \ {0} /\ 0 \in 0..MaxBatches
          BY <1>1, <3>2, ConstantFacts
        <4>2. Drawn(run, batches) <= Drawn(run + 1, 0) /\ Drawn(run, batches) \in Nat
          BY <1>1, <4>1, DrawnFacts
        <4>3. Drawn(run + 1, 0) \in Nat
          BY <4>1, DrawnFacts
        <4>4. made \in Nat /\ made <= Drawn(run, batches)
          BY <4>1 DEF EventsCounted, TypeOK, Events
        <4> QED
          BY <4>2, <4>3, <4>4
      <3> QED
        BY <3>1, <3>2
    <2> QED
      BY <1>1, <2>1, <2>2, <2>3 DEF EventsCounted
  <1>4. ASSUME UNCHANGED <<run, batches, made>>, phase' = phase \/ phase' # "pushing"
        PROVE  EventsCounted'
    BY <1>4 DEF EventsCounted, Drawn
  <1>5. ASSUME Prepare \/ PushDone \/ PushFails \/ StartUpdate \/ SilverDone
                 \/ UpdateCompletes \/ UpdateFails
        PROVE  UNCHANGED <<run, batches, made>> /\ phase' # "pushing"
    BY <1>5 DEF Prepare, PushDone, PushFails, StartUpdate, SilverDone, UpdateCompletes,
       UpdateFails, UpdateEnds, producerVars
  <1> QED
    BY <1>2, <1>3, <1>4, <1>5
    DEF Next, Tick, StreamBatch, OneBatch, Write, LateWrite, Drop, Ack, SilverBatch,
        HealthRefresh, PerDayRefresh, vars, producerVars

-----------------------------------------------------------------------------
\* Deliveries

\* The current stream's writes are in the table; a drop and a failed push forget
\* them, never the table.
LEMMA SentStep ==
  ASSUME TypeOK, DeliveriesLand, [Next]_vars
  PROVE  /\ sent' # <<>> => phase' = "pushing"
         /\ \A i \in 1..written' : \E b \in DOMAIN bronze' : bronze'[b] = sent'[i]
PROOF
  <1> DEFINE Goal == /\ sent' # <<>> => phase' = "pushing"
                     /\ \A i \in 1..written' : \E b \in DOMAIN bronze' : bronze'[b] = sent'[i]
  <1>1. written \in 0..Len(sent) /\ Len(sent) \in Nat
    BY SequenceFacts DEF TypeOK
  <1>2. \A i \in 1..written : \E b \in DOMAIN bronze' : bronze'[b] = sent[i]
    BY HistoryKept DEF DeliveriesLand
  <1>3. ASSUME sent' = sent, phase' = phase \/ sent = <<>>, written' \in 0..written PROVE Goal
    BY <1>1, <1>2, <1>3 DEF DeliveriesLand
  <1>4. ASSUME written' = 0, sent' = <<>> \/ phase' = "pushing" PROVE Goal
    BY <1>4
  <1>5. ASSUME Write PROVE Goal
    <2>1. /\ bronze' = Append(bronze, sent[written + 1]) /\ written' = written + 1
          /\ sent' = sent /\ phase' = phase /\ written < Len(sent)
      BY <1>5 DEF Write
    <2>2. sent[written + 1] \in Record
      BY <1>1, <2>1, SequenceFacts DEF TypeOK
    <2>3. /\ Len(bronze) \in Nat
          /\ DOMAIN bronze' = 1..(Len(bronze) + 1)
          /\ bronze'[Len(bronze) + 1] = sent[written + 1]
      BY <2>1, <2>2, AppendFacts, SequenceFacts DEF TypeOK
    <2>4. Len(bronze) + 1 \in DOMAIN bronze'
      BY <2>3
    <2>5. \A i \in 1..(written + 1) : i \in 1..written \/ i = written + 1
      BY <1>1
    <2>6. \A i \in 1..(written + 1) : \E b \in DOMAIN bronze' : bronze'[b] = sent[i]
      BY <1>2, <2>3, <2>4, <2>5
    <2> QED
      BY <2>1, <2>6 DEF DeliveriesLand
  <1>6. ASSUME Ack \/ PushFails PROVE written' = 0 /\ sent' = <<>>
    BY <1>6 DEF Ack, PushFails
  <1>7. ASSUME NEW batch, Push(batch), phase' = phase PROVE written' = 0 /\ phase' = "pushing"
    BY <1>7 DEF Push
  <1>8. ASSUME Prepare \/ PushDone \/ StartPush \/ StartUpdate \/ SilverDone
                 \/ UpdateCompletes \/ UpdateFails
        PROVE  sent' = sent /\ sent = <<>> /\ written' \in 0..written
    BY <1>1, <1>8 DEF Prepare, PushDone, StartPush, StartUpdate, SilverDone, UpdateCompletes,
       UpdateFails, UpdateEnds, producerVars, DeliveriesLand
  <1>9. written \in 0..written
    BY <1>1
  <1> HIDE DEF Goal
  <1>10. Goal
    BY <1>3, <1>4, <1>5, <1>6, <1>7, <1>8, <1>9
    DEF Next, Tick, StreamBatch, OneBatch, LateWrite, Drop, SilverBatch,
        HealthRefresh, PerDayRefresh, vars, producerVars
  <1> QED
    BY <1>10 DEF Goal

\* A batch is acknowledged when all of it is written, and nothing is deleted.
LEMMA AckedStep ==
  ASSUME TypeOK, DeliveriesLand, [Next]_vars
  PROVE  \A r \in acked' : \E b \in DOMAIN bronze' : bronze'[b] = r
PROOF
  <1>1. CASE Ack
    <2>1. /\ written = Len(sent) /\ acked' = acked \cup Range(sent) /\ bronze' = bronze
      BY <1>1 DEF Ack, Durable
    <2>2. DOMAIN sent = 1..written
      BY <2>1, SequenceFacts DEF TypeOK
    <2>3. \A r \in Range(sent) : \E b \in DOMAIN bronze : bronze[b] = r
      BY <2>2 DEF Range, DeliveriesLand
    <2> QED
      BY <2>1, <2>3 DEF DeliveriesLand
  <1>2. CASE acked' = acked
    BY <1>2, HistoryKept DEF DeliveriesLand
  <1> QED
    BY <1>1, <1>2
    DEF Next, Tick, Prepare, StartPush, StreamBatch, OneBatch, PushDone, PushFails,
        Write, LateWrite, Drop, StartUpdate, SilverBatch, SilverDone, HealthRefresh,
        PerDayRefresh, UpdateCompletes, UpdateFails, UpdateEnds, vars, producerVars

\* An update begins after the last acknowledgement, and its silver flow reads at
\* least what was in the table when it began.
LEMMA UpdateStep ==
  ASSUME TypeOK, DeliveriesLand, [Next]_vars
  PROVE  /\ phase' \in {"silver", "gold", "updated"} =>
              \A r \in acked' : \E b \in 1..upTo' : bronze'[b] = r
         /\ phase' \in {"gold", "updated"} => upTo' <= silverRead'
PROOF
  <1> DEFINE Goal == /\ phase' \in {"silver", "gold", "updated"} =>
                          \A r \in acked' : \E b \in 1..upTo' : bronze'[b] = r
                     /\ phase' \in {"gold", "updated"} => upTo' <= silverRead'
  <1>1. /\ Len(bronze) \in Nat /\ DOMAIN bronze = 1..Len(bronze)
        /\ upTo \in 0..Len(bronze) /\ silverRead \in 0..Len(bronze)
    BY SequenceFacts DEF TypeOK
  <1>2. \A b \in 1..upTo : bronze'[b] = bronze[b]
    BY <1>1, HistoryKept
  <1>3. ASSUME phase' \notin {"silver", "gold", "updated"} PROVE Goal
    BY <1>3
  <1>4. ASSUME StartUpdate PROVE Goal
    <2>1. phase' = "silver" /\ upTo' = Len(bronze) /\ UNCHANGED <<acked, bronze>>
      BY <1>4 DEF StartUpdate, producerVars
    <2> QED
      BY <1>1, <2>1 DEF DeliveriesLand
  <1>5. ASSUME UNCHANGED <<acked, upTo, silverRead>>,
               phase' = phase \/ (phase = "gold" /\ phase' = "updated")
        PROVE  Goal
    BY <1>2, <1>5 DEF DeliveriesLand
  <1>6. ASSUME SilverDone PROVE Goal
    <2>1. /\ phase = "silver" /\ upTo <= silverRead
          /\ UNCHANGED <<acked, upTo, silverRead>>
      BY <1>1, <1>6 DEF SilverDone, producerVars, pipelineVars
    <2> QED
      BY <1>2, <2>1 DEF DeliveriesLand
  <1>7. ASSUME NEW n \in 1..Len(bronze), SilverBatch(n) PROVE Goal
    <2>1. phase = "silver" /\ phase' = phase /\ UNCHANGED <<acked, upTo>>
      BY <1>7 DEF SilverBatch, producerVars
    <2> QED
      BY <1>2, <2>1 DEF DeliveriesLand
  <1>8. ASSUME Ack PROVE Goal
    BY <1>8 DEF Ack, Durable, DeliveriesLand
  <1>9. ASSUME NEW batch, Push(batch), phase' = phase PROVE Goal
    BY <1>9 DEF Push
  <1>10. CASE Prepare \/ StartPush \/ PushDone \/ PushFails \/ UpdateFails
    <2>1. phase' \notin {"silver", "gold", "updated"}
      BY <1>10 DEF Prepare, StartPush, PushDone, PushFails, UpdateFails, UpdateEnds
    <2> QED
      BY <1>3, <2>1
  <1>11. CASE UpdateCompletes
    <2>1. /\ UNCHANGED <<acked, upTo, silverRead>>
          /\ phase = "gold" /\ phase' = "updated"
      BY <1>11 DEF UpdateCompletes, UpdateEnds, producerVars
    <2> QED
      BY <1>5, <2>1
  <1>12. CASE HealthRefresh \/ PerDayRefresh
    <2>1. UNCHANGED <<acked, upTo, silverRead>> /\ phase' = phase
      BY <1>12 DEF HealthRefresh, PerDayRefresh, producerVars
    <2> QED
      BY <1>5, <2>1
  <1>13. CASE Tick \/ Write \/ LateWrite \/ Drop
    <2>1. UNCHANGED <<acked, upTo, silverRead>> /\ phase' = phase
      BY <1>13 DEF Tick, Write, LateWrite, Drop, producerVars, pipelineVars
    <2> QED
      BY <1>5, <2>1
  <1>14. ASSUME NEW es \in SeqOf(Range(recent), BatchSize), StreamBatch(es) PROVE Goal
    <2> HIDE DEF Goal
    <2> QED
      BY <1>9, <1>14 DEF StreamBatch
  <1>15. ASSUME NEW es \in SeqOf((made + 1)..(made + BatchSize), BatchSize), OneBatch(es)
         PROVE  Goal
    <2> HIDE DEF Goal
    <2> QED
      BY <1>9, <1>15 DEF OneBatch
  <1>16. CASE UNCHANGED vars
    <2>1. UNCHANGED <<acked, upTo, silverRead>> /\ phase' = phase
      BY <1>16 DEF vars, producerVars, pipelineVars
    <2> QED
      BY <1>5, <2>1
  <1> QED
    BY <1>4, <1>6, <1>7, <1>8, <1>10, <1>11, <1>12, <1>13, <1>14, <1>15, <1>16 DEF Next

-----------------------------------------------------------------------------
\* Silver

\* Silver stays the latest delivery of each event read.
LEMMA SilverStep ==
  ASSUME TypeOK, SilverLatest, [Next]_vars
  PROVE  SilverLatest'
PROOF
  <1>1. /\ silverRead \in 0..Len(bronze) /\ Len(bronze) \in Nat /\ DOMAIN bronze = 1..Len(bronze)
        /\ \A e \in DOMAIN silver : silver[e] \in 1..silverRead
        /\ \A b \in DOMAIN bronze : bronze[b] \in Record
    BY SequenceFacts DEF TypeOK
  <1>2. \A b \in DOMAIN bronze : bronze[b].at \in Nat
    BY <1>1, ConstantFacts DEF Record, Stamps
  <1>3. CASE UNCHANGED <<silver, silverRead>>
    <2>1. \A b \in 1..silverRead : bronze'[b] = bronze[b]
      BY <1>1, HistoryKept
    <2>2. DOMAIN silver = {bronze'[b].event : b \in 1..silverRead}
      BY <2>1 DEF SilverLatest
    <2>3. \A e \in DOMAIN silver :
            /\ bronze'[silver[e]].event = e
            /\ \A c \in 1..silverRead :
                 bronze'[c].event = e => bronze'[c].at <= bronze'[silver[e]].at
      BY <1>1, <2>1 DEF SilverLatest
    <2> QED
      BY <1>3, <2>2, <2>3 DEF SilverLatest
  <1>4. ASSUME NEW n \in 1..Len(bronze), SilverBatch(n) PROVE SilverLatest'
    <2> DEFINE m == silverRead + n
               batch == (silverRead + 1)..m
    <2>1. /\ silverRead' = m
          /\ m \in 1..Len(bronze)
          /\ DOMAIN silver' = DOMAIN silver \cup {bronze[b].event : b \in batch}
          /\ \A e \in DOMAIN silver' : silver'[e] \in 1..m
          /\ \A e \in DOMAIN silver' :
               \/ silver'[e] \in batch /\ bronze[silver'[e]].event = e
               \/ e \in DOMAIN silver /\ silver'[e] = silver[e]
          /\ \A e \in DOMAIN silver' :
               /\ \A c \in batch : bronze[c].event = e => bronze[c].at <= bronze[silver'[e]].at
               /\ e \in DOMAIN silver => bronze[silver[e]].at <= bronze[silver'[e]].at
      BY <1>4, SilverBatchFacts
    <2>2. bronze' = bronze
      BY <1>4 DEF SilverBatch
    <2>3. 1..m = 1..silverRead \cup batch
      BY <1>1, <2>1
    <2> HIDE DEF m, batch
    <2>4. DOMAIN silver' = {bronze[b].event : b \in 1..m}
      BY <2>1, <2>3 DEF SilverLatest
    <2>5. \A e \in DOMAIN silver' : bronze[silver'[e]].event = e
      BY <2>1 DEF SilverLatest
    <2>6. ASSUME NEW e \in DOMAIN silver', NEW c \in 1..m, bronze[c].event = e
          PROVE  bronze[c].at <= bronze[silver'[e]].at
      <3>1. CASE c \in batch
        BY <2>1, <2>6, <3>1
      <3>2. CASE c \in 1..silverRead
        <4>1. e \in DOMAIN silver /\ bronze[c].at <= bronze[silver[e]].at
          BY <2>6, <3>2 DEF SilverLatest
        <4>2. bronze[silver[e]].at <= bronze[silver'[e]].at
          BY <2>1, <4>1
        <4>3. /\ c \in DOMAIN bronze /\ silver[e] \in DOMAIN bronze
              /\ silver'[e] \in DOMAIN bronze
          BY <1>1, <2>1, <3>2, <4>1
        <4>4. /\ bronze[c].at \in Nat /\ bronze[silver[e]].at \in Nat
              /\ bronze[silver'[e]].at \in Nat
          BY <1>2, <4>3
        <4> QED
          BY <4>1, <4>2, <4>4
      <3> QED
        BY <2>3, <3>1, <3>2
    <2>7. DOMAIN silver' = {bronze'[b].event : b \in 1..silverRead'}
      BY <2>1, <2>2, <2>4
    <2>8. \A e \in DOMAIN silver' :
            /\ bronze'[silver'[e]].event = e
            /\ \A c \in 1..silverRead' :
                 bronze'[c].event = e => bronze'[c].at <= bronze'[silver'[e]].at
      BY <2>1, <2>2, <2>5, <2>6
    <2> QED
      BY <2>7, <2>8 DEF SilverLatest
  <1> QED
    BY <1>3, <1>4, SilverMoves

-----------------------------------------------------------------------------
\* The health view

\* Days are numbered from 0 and grow with the time.
LEMMA DayFacts ==
  ASSUME NEW x \in Nat, NEW y \in Nat, x <= y
  PROVE  DayOf(x) \in Nat /\ DayOf(y) \in Nat /\ DayOf(x) <= DayOf(y)
PROOF
  <1> DEFINE k == 2 * TicksPerDay
             p == x \div k
             q == y \div k
  <1>1. k \in Nat \ {0}
    BY ConstantFacts
  <1> HIDE DEF k
  <1>2. p \in Int /\ q \in Int /\ k * p <= x /\ x < k * (p + 1) /\ k * q <= y /\ y < k * (q + 1)
    BY <1>1
  <1> HIDE DEF p, q
  <1>3. \A i \in Int, j \in Int : i <= j => k * i <= k * j
    BY <1>1
  <1>4. p >= 0 /\ q >= 0
    <2>1. k * 0 = 0
      BY <1>1
    <2>2. ASSUME NEW i \in Int, i < 0 PROVE k * (i + 1) <= 0
      BY <1>3, <2>1, <2>2
    <2> QED
      BY <1>1, <1>2, <2>2
  <1>5. p <= q
    <2>1. ASSUME q < p PROVE FALSE
      <3>1. k * (q + 1) <= k * p
        BY <1>2, <1>3, <2>1
      <3>2. k * (q + 1) \in Int /\ k * p \in Int
        BY <1>1, <1>2
      <3> QED
        BY <1>2, <3>1, <3>2
    <2> QED
      BY <1>2, <2>1
  <1> QED
    BY <1>2, <1>4, <1>5 DEF DayOf, k, p, q

\* The date never goes back.
LEMMA TodayGrows ==
  ASSUME TypeOK, [Next]_vars
  PROVE  Today \in Nat /\ Today' \in Nat /\ Today <= Today'
PROOF
  <1>1. clock \in Nat
    BY ConstantFacts DEF TypeOK
  <1>2. clock' \in {clock, clock + 1}
    BY DEF Next, Tick, Prepare, StartPush, StreamBatch, OneBatch, PushDone, PushFails, Write,
       LateWrite, Drop, Ack, StartUpdate, SilverBatch, SilverDone, HealthRefresh,
       PerDayRefresh, UpdateCompletes, UpdateFails, UpdateEnds, vars
  <1>3. 2 * clock \in Nat /\ 2 * clock' \in Nat /\ 2 * clock <= 2 * clock'
    <2>1. \A x, y \in Nat : x <= y => 2 * x \in Nat /\ 2 * y \in Nat /\ 2 * x <= 2 * y
      OBVIOUS
    <2>2. clock' \in Nat /\ clock <= clock'
      BY <1>1, <1>2
    <2> QED
      BY <1>1, <2>1, <2>2
  <1>4. Today = DayOf(2 * clock) /\ Today' = DayOf(2 * clock')
    BY DEF Today, DayOf
  <1>5. /\ DayOf(2 * clock) \in Nat /\ DayOf(2 * clock') \in Nat
        /\ DayOf(2 * clock) <= DayOf(2 * clock')
    BY <1>3, DayFacts
  <1> QED
    BY <1>4, <1>5

\* Two arrivals of an event on a day are counted as fewer events than arrivals.
LEMMA CountFacts ==
  ASSUME TypeOK, NEW d, NEW b \in ArrivedOn(d), NEW c \in ArrivedOn(d), b # c,
         bronze[b].event = bronze[c].event
  PROVE  DistinctEvents(d) < Cardinality(ArrivedOn(d))
PROOF
  <1> DEFINE A == ArrivedOn(d)
             E == {bronze[x].event : x \in A}
             f == [x \in A |-> bronze[x].event]
  <1>1. IsFiniteSet(A)
    <2>1. DOMAIN bronze = 1..Len(bronze) /\ Len(bronze) \in Nat
      BY SequenceFacts DEF TypeOK
    <2>2. IsFiniteSet(DOMAIN bronze)
      BY <2>1, FS_Interval
    <2> QED
      BY <2>2, FS_Subset DEF ArrivedOn
  <1>2. f \in Surjection(A, E)
    BY DEF Surjection
  <1>3. f \notin Injection(A, E)
    BY DEF Injection, IsInjective
  <1>4. DistinctEvents(d) = Cardinality(E)
    BY DEF DistinctEvents
  <1> HIDE DEF A, E, f
  <1>5. IsFiniteSet(E) /\ Cardinality(E) <= Cardinality(A) /\ Cardinality(E) # Cardinality(A)
    BY <1>1, <1>2, <1>3, FS_Surjection
  <1>6. Cardinality(E) \in Nat /\ Cardinality(A) \in Nat
    BY <1>1, <1>5, FS_CardinalityType
  <1> QED
    BY <1>4, <1>5, <1>6 DEF A

\* What a view showed it shows until it is refreshed, of rows that stay.
LEMMA CountedKept ==
  ASSUME TypeOK, DuplicatesCounted, [Next]_vars, upTo' = upTo, gold'.health = gold.health
  PROVE  DuplicatesCounted'
PROOF
  <1>1. Today' <= Window => Today <= Window
    BY TodayGrows, ConstantFacts
  <1>2. \A b \in 1..upTo : bronze'[b] = bronze[b]
    <2>1. \A b \in 1..upTo : b \in DOMAIN bronze
      BY SequenceFacts DEF TypeOK
    <2> QED
      BY <2>1, HistoryKept
  <1> QED
    BY <1>1, <1>2 DEF DuplicatesCounted, DayOf

\* A refresh counts what is in the table then.
LEMMA RefreshCounts ==
  ASSUME TypeOK, HealthShows, HealthRefresh
  PROVE  DuplicatesCounted' /\ DOMAIN gold' = Views
PROOF
  <1> DEFINE h == [d \in Days |-> Health(d)]
  <1>1. gold' = [gold EXCEPT !.health = h]
    BY DEF HealthRefresh
  <1>2. UNCHANGED <<clock, bronze, upTo>>
    BY DEF HealthRefresh
  <1>3. \A d \in Days : h[d] = Health(d)
    OBVIOUS
  <1> HIDE DEF h
  <1>4. gold'.health = h /\ DOMAIN gold' = Views
    BY <1>1 DEF HealthShows, Views
  <1>5. ASSUME Today <= Window, NEW b \in 1..upTo, NEW c \in 1..upTo, b # c,
               bronze[b].event = bronze[c].event, DayOf(bronze[c].at) = DayOf(bronze[b].at)
        PROVE  h[DayOf(bronze[b].at)].distinct < h[DayOf(bronze[b].at)].arrived
    <2> DEFINE d == DayOf(bronze[b].at)
    <2>1. b \in DOMAIN bronze /\ c \in DOMAIN bronze
      BY SequenceFacts DEF TypeOK
    <2>2. bronze[b] \in Record
      BY <2>1, SequenceFacts DEF TypeOK
    <2>3. bronze[b].at \in Stamps /\ bronze[b].at \in Nat
      BY <2>2, ConstantFacts DEF Record, Stamps
    <2>4. d \in Days /\ d \in Nat
      BY <2>3, DayFacts DEF Days
    <2>5. b \in ArrivedOn(d) /\ c \in ArrivedOn(d)
      BY <1>5, <2>1 DEF ArrivedOn
    <2>6. Today \in Nat
      <3>1. 2 * clock \in Nat
        BY ConstantFacts DEF TypeOK
      <3> QED
        BY <3>1, DayFacts DEF Today
    <2> HIDE DEF d
    <2>7. d >= Today - Window
      BY <1>5, <2>4, <2>6, ConstantFacts
    <2>8. h[d] = [arrived |-> Cardinality(ArrivedOn(d)), distinct |-> DistinctEvents(d)]
      BY <1>3, <2>4, <2>7 DEF Health
    <2>9. DistinctEvents(d) < Cardinality(ArrivedOn(d))
      BY <1>5, <2>5, CountFacts
    <2> QED
      BY <2>8, <2>9 DEF d
  <1>6. Today' = Today
    BY <1>2 DEF Today, DayOf
  <1>7. DuplicatesCounted'
    BY <1>2, <1>4, <1>5, <1>6 DEF DuplicatesCounted, DayOf
  <1> QED
    BY <1>4, <1>7

\* A completed update has refreshed the health view after it began.
LEMMA HealthStep ==
  ASSUME TypeOK, HealthShows, [Next]_vars
  PROVE  HealthShows'
PROOF
  <1>1. CASE HealthRefresh
    <2>1. phase \in {"silver", "gold"} /\ phase' = phase
      BY <1>1 DEF HealthRefresh
    <2> QED
      BY <1>1, <2>1, RefreshCounts DEF HealthShows
  <1>2. CASE PerDayRefresh
    <2> DEFINE p == [d \in Days |-> PerDay(d)]
    <2>1. /\ gold' = [gold EXCEPT !.perDay = p] /\ refreshed' = refreshed \cup {"perDay"}
          /\ phase = "gold" /\ phase' = phase /\ upTo' = upTo
      BY <1>2 DEF PerDayRefresh
    <2> HIDE DEF p
    <2>2. gold'.health = gold.health /\ DOMAIN gold' = Views
      BY <2>1 DEF HealthShows, Views
    <2> QED
      BY <2>1, <2>2, CountedKept DEF HealthShows
  <1>3. CASE UpdateCompletes
    <2>1. /\ "health" \in refreshed /\ refreshed' = {} /\ phase' = "updated"
          /\ gold' = gold /\ upTo' = upTo
      BY <1>3 DEF UpdateCompletes, UpdateEnds, Views
    <2> QED
      BY <2>1, CountedKept DEF HealthShows
  <1>4. CASE UpdateFails
    BY <1>4 DEF UpdateFails, UpdateEnds, HealthShows
  <1>5. CASE StartUpdate
    BY <1>5 DEF StartUpdate, HealthShows
  <1>6. ASSUME UNCHANGED <<gold, refreshed, upTo>>,
               \/ phase' = phase
               \/ phase = "silver" /\ phase' = "gold"
               \/ phase \notin {"silver", "gold"} /\ phase' \notin {"silver", "gold", "updated"}
        PROVE  HealthShows'
    BY <1>6, CountedKept DEF HealthShows
  <1>7. CASE Prepare \/ StartPush \/ PushDone \/ PushFails
    BY <1>6, <1>7 DEF Prepare, StartPush, PushDone, PushFails, pipelineVars
  <1>8. CASE SilverDone
    BY <1>6, <1>8 DEF SilverDone, pipelineVars
  <1>9. CASE Tick \/ Write \/ LateWrite \/ Drop \/ Ack
    BY <1>6, <1>9 DEF Tick, Write, LateWrite, Drop, Ack, pipelineVars
  <1>10. ASSUME NEW es \in SeqOf(Range(recent), BatchSize), StreamBatch(es) PROVE HealthShows'
    BY <1>6, <1>10 DEF StreamBatch, pipelineVars
  <1>11. ASSUME NEW es \in SeqOf((made + 1)..(made + BatchSize), BatchSize), OneBatch(es)
         PROVE  HealthShows'
    BY <1>6, <1>11 DEF OneBatch, pipelineVars
  <1>12. ASSUME NEW n \in 1..Len(bronze), SilverBatch(n) PROVE HealthShows'
    BY <1>6, <1>12 DEF SilverBatch
  <1>13. CASE UNCHANGED vars
    BY <1>6, <1>13 DEF vars, pipelineVars
  <1> QED
    BY <1>1, <1>2, <1>3, <1>4, <1>5, <1>7, <1>8, <1>9, <1>10, <1>11, <1>12, <1>13 DEF Next

-----------------------------------------------------------------------------
\* The daily view

\* While silver stays, each day has the events it had.
LEMMA PerDayKept ==
  ASSUME TypeOK, [Next]_vars, UNCHANGED silver
  PROVE  \A d \in Days : PerDay(d)' = PerDay(d)
PROOF
  <1>1. \A e \in DOMAIN silver : bronze'[silver[e]] = bronze[silver[e]]
    <2>1. \A e \in DOMAIN silver : silver[e] \in DOMAIN bronze
      BY SequenceFacts DEF TypeOK
    <2> QED
      BY <2>1, HistoryKept
  <1> QED
    BY <1>1 DEF PerDay, DayOf

\* The view is refreshed once silver is done, and silver rests until the update
\* ends.
LEMMA PerDayStep ==
  ASSUME TypeOK, PerDayShows, [Next]_vars
  PROVE  PerDayShows'
PROOF
  <1> DEFINE PerDays == [d \in Days |-> PerDay(d)]
  <1>1. UNCHANGED silver => PerDays' = PerDays
    <2> SUFFICES ASSUME UNCHANGED silver PROVE PerDays' = PerDays
      OBVIOUS
    <2>1. \A d \in Days : PerDay(d)' = PerDay(d)
      BY PerDayKept
    <2>2. Days' = Days
      BY DEF Days, DayOf, Stamps
    <2> QED
      BY <2>1, <2>2
  <1>2. /\ DOMAIN gold = Views
        /\ "perDay" \in refreshed => phase = "gold"
        /\ "perDay" \in refreshed \/ phase = "updated" => gold.perDay = PerDays
    BY DEF PerDayShows
  <1> SUFFICES /\ DOMAIN gold' = Views
               /\ "perDay" \in refreshed' => phase' = "gold"
               /\ "perDay" \in refreshed' \/ phase' = "updated" => gold'.perDay = PerDays'
    BY DEF PerDayShows
  <1> HIDE DEF PerDays
  <1>3. CASE PerDayRefresh
    <2>1. /\ gold' = [gold EXCEPT !.perDay = PerDays]
          /\ refreshed' = refreshed \cup {"perDay"} /\ phase = "gold"
          /\ UNCHANGED <<phase, silver>>
      BY <1>3 DEF PerDayRefresh, PerDays
    <2>2. gold'.perDay = PerDays /\ DOMAIN gold' = Views
      BY <1>2, <2>1 DEF Views
    <2> QED
      BY <1>1, <2>1, <2>2
  <1>4. CASE HealthRefresh
    <2> DEFINE h == [d \in Days |-> Health(d)]
    <2>1. /\ gold' = [gold EXCEPT !.health = h] /\ refreshed' = refreshed \cup {"health"}
          /\ UNCHANGED <<phase, silver>>
      BY <1>4 DEF HealthRefresh
    <2> HIDE DEF h
    <2>2. gold'.perDay = gold.perDay /\ DOMAIN gold' = Views
      BY <1>2, <2>1 DEF Views
    <2> QED
      BY <1>1, <1>2, <2>1, <2>2
  <1>5. CASE UpdateCompletes
    BY <1>1, <1>2, <1>5 DEF UpdateCompletes, UpdateEnds, Views
  <1>6. ASSUME UpdateFails
        PROVE  refreshed' = {} /\ phase' # "updated" /\ gold' = gold
    BY <1>6 DEF UpdateFails, UpdateEnds
  <1>7. ASSUME UNCHANGED <<gold, refreshed>>,
               \/ phase # "gold" /\ phase' # "updated"
               \/ UNCHANGED <<phase, silver>>
        PROVE  /\ DOMAIN gold' = Views
               /\ "perDay" \in refreshed' => phase' = "gold"
               /\ "perDay" \in refreshed' \/ phase' = "updated" => gold'.perDay = PerDays'
    BY <1>1, <1>2, <1>7
  <1>8. CASE Prepare \/ StartPush \/ PushDone \/ PushFails \/ StartUpdate \/ SilverDone
    BY <1>7, <1>8 DEF Prepare, StartPush, PushDone, PushFails, StartUpdate, SilverDone, pipelineVars
  <1>9. CASE Tick \/ Write \/ LateWrite \/ Drop \/ Ack \/ UNCHANGED vars
    BY <1>7, <1>9 DEF Tick, Write, LateWrite, Drop, Ack, vars, pipelineVars
  <1>10. CASE \E es \in SeqOf(Range(recent), BatchSize) : StreamBatch(es)
    BY <1>7, <1>10 DEF StreamBatch, pipelineVars
  <1>11. CASE \E es \in SeqOf((made + 1)..(made + BatchSize), BatchSize) : OneBatch(es)
    BY <1>7, <1>11 DEF OneBatch, pipelineVars
  <1>12. CASE \E n \in 1..Len(bronze) : SilverBatch(n)
    BY <1>7, <1>12 DEF SilverBatch
  <1>13. CASE UpdateFails
    BY <1>2, <1>6, <1>13
  <1> QED
    BY <1>3, <1>4, <1>5, <1>8, <1>9, <1>10, <1>11, <1>12, <1>13 DEF Next

\* There are finitely many days and events.
LEMMA FiniteFacts == IsFiniteSet(Days) /\ IsFiniteSet(Events)
PROOF
  <1> DEFINE top == 2 * MaxTick + 1
             n == MaxRuns * MaxBatches * BatchSize
  <1>1. top \in Nat
    BY ConstantFacts
  <1>2. n \in Nat
    <2>1. MaxRuns * MaxBatches \in Nat
      BY ConstantFacts
    <2> QED
      BY <2>1, ConstantFacts
  <1>3. Stamps = 0..top /\ Events = 1..n
    BY DEF Stamps, Events
  <1> HIDE DEF top, n
  <1>4. DayOf(top) \in Nat /\ \A at \in Stamps : DayOf(at) \in 0..DayOf(top)
    <2>1. DayOf(top) \in Nat
      BY <1>1, DayFacts
    <2>2. ASSUME NEW at \in Stamps PROVE DayOf(at) \in 0..DayOf(top)
      <3>1. at \in Nat /\ at <= top
        BY <1>1, <1>3, <2>2
      <3>2. DayOf(at) \in Nat /\ DayOf(at) <= DayOf(top)
        BY <1>1, <3>1, DayFacts
      <3> QED
        BY <2>1, <3>2
    <2> QED
      BY <2>1, <2>2
  <1>5. Days \subseteq 0..DayOf(top)
    BY <1>4 DEF Days
  <1>6. IsFiniteSet(0..DayOf(top)) /\ IsFiniteSet(Events)
    BY <1>2, <1>3, <1>4, FS_Interval
  <1> QED
    BY <1>5, <1>6, FS_Subset

\* Finite sets and their sizes are the same in the instance for perDay.
LEMMA PerDaySumSets ==
  \A S : (PerDaySum!IsFiniteSet(S) <=> IsFiniteSet(S)) /\ PerDaySum!Cardinality(S) = Cardinality(S)
PROOF
  BY DEF PerDaySum!IsFiniteSet, IsFiniteSet, PerDaySum!Cardinality, Cardinality

\* Each event of silver is counted on the day of its latest delivery and no other.
LEMMA PerDayAddsUp ==
  ASSUME TypeOK, SilverLatest, PerDayShows
  PROVE  EventsCountedOnce
PROOF
  <1> SUFFICES ASSUME phase = "updated"
               PROVE  MapThenSumSet(LAMBDA d : gold.perDay[d], Days) = Cardinality(DOMAIN silver)
    BY DEF EventsCountedOnce, SilverLatest
  <1> DEFINE A == [d \in Days |-> {e \in DOMAIN silver : DayOf(bronze[silver[e]].at) = d}]
             f == gold.perDay
             U == DOMAIN silver
  <1>1. IsFiniteSet(U)
    BY FiniteFacts, FS_Subset DEF TypeOK
  <1>2. ASSUME NEW d \in Days PROVE IsFiniteSet(A[d]) /\ f[d] = Cardinality(A[d])
    <2>1. A[d] \subseteq U /\ A[d] = {e \in DOMAIN silver : DayOf(bronze[silver[e]].at) = d}
      OBVIOUS
    <2>2. f[d] = PerDay(d)
      BY DEF PerDayShows
    <2> HIDE DEF A, U, f
    <2> QED
      BY <1>1, <2>1, <2>2, FS_Subset DEF PerDay
  <1>3. \A d, e \in Days : \A k : k \in A[d] /\ k \in A[e] => d = e
    OBVIOUS
  <1>4. \A e \in U : DayOf(bronze[silver[e]].at) \in Days
    <2>1. \A e \in U : bronze[silver[e]] \in Record
      BY SequenceFacts DEF TypeOK
    <2> QED
      BY <2>1 DEF Record, Days
  <1>5. \A k : k \in U <=> \E d \in Days : k \in A[d]
    BY <1>4
  <1> HIDE DEF A, f, U
  <1>6. PerDaySum!Total(f, Days) = Cardinality(U)
    BY <1>2, <1>3, <1>5, FiniteFacts, PerDaySum!TotalCounts, PerDaySumSets
  <1>7. PerDaySum!Total(f, Days) = MapThenSumSet(LAMBDA d : gold.perDay[d], Days)
    BY DEF f, PerDaySum!Total, PerDaySum!MapThenSumSet, PerDaySum!MapThenFoldSet, MapThenSumSet,
       MapThenFoldSet
  <1> QED
    BY <1>6, <1>7 DEF U

-----------------------------------------------------------------------------
\* The theorems

\* The inductive invariant holds at the start.
LEMMA InvInit == Init => IInv
PROOF
  <1> SUFFICES ASSUME Init PROVE IInv
    OBVIOUS
  <1>1. /\ phase = "idle" /\ run = 0 /\ made = 0 /\ sent = <<>> /\ written = 0 /\ acked = {}
        /\ bronze = <<>> /\ silver = <<>> /\ silverRead = 0 /\ refreshed = {}
    BY DEF Init
  <1>2. DOMAIN silver = {} /\ DOMAIN gold = Views
    BY <1>1 DEF Init, Views
  <1>3. EventsCounted /\ DeliveriesLand /\ SilverLatest /\ HealthShows /\ PerDayShows
    BY <1>1, <1>2 DEF EventsCounted, DeliveriesLand, SilverLatest, HealthShows, PerDayShows
  <1> QED
    BY <1>3, TypeInit DEF IInv

\* The inductive invariant survives every step.
LEMMA InvStep == IInv /\ [Next]_vars => IInv'
PROOF
  <1> SUFFICES ASSUME IInv, [Next]_vars PROVE IInv'
    OBVIOUS
  <1>1. TypeOK /\ EventsCounted /\ DeliveriesLand /\ SilverLatest /\ HealthShows /\ PerDayShows
    BY DEF IInv
  <1>2. TypeOK' /\ EventsCounted' /\ SilverLatest' /\ HealthShows' /\ PerDayShows'
    BY <1>1, TypeStep, CountStep, SilverStep, HealthStep, PerDayStep
  <1>3. DeliveriesLand'
    BY <1>1, SentStep, AckedStep, UpdateStep DEF DeliveriesLand
  <1> QED
    BY <1>2, <1>3 DEF IInv

\* IInv holds of every reachable state; it is what the rest is read off.
THEOREM InductiveInvariant == Spec => []IInv
PROOF
  BY InvInit, InvStep, PTL DEF Spec

\* The Zerobus module keeps its types: no batch runs out of event ids, and silver
\* refers to rows it has read.
THEOREM TypeCorrect == Spec => []TypeOK
PROOF
  <1>1. IInv => TypeOK
    BY DEF IInv
  <1> QED
    BY <1>1, InductiveInvariant, PTL

\* Every acknowledged event is in silver after the next update, as late as it was
\* acknowledged or later, however streams drop and push tasks die.
THEOREM AckedIsInSilver == Spec => []AckedEventsReachSilver
PROOF
  <1>1. IInv => AckedEventsReachSilver
    <2> SUFFICES ASSUME IInv, phase = "updated", NEW r \in acked
                 PROVE  /\ r.event \in DOMAIN silver
                        /\ r.at <= bronze[silver[r.event]].at
      BY DEF AckedEventsReachSilver
    <2>1. PICK b \in 1..upTo : bronze[b] = r
      BY DEF IInv, DeliveriesLand
    <2>2. b \in 1..silverRead
      <3>1. upTo <= silverRead /\ upTo \in Nat /\ silverRead \in Nat
        BY SequenceFacts DEF IInv, DeliveriesLand, TypeOK
      <3> QED
        BY <3>1
    <2> QED
      BY <2>1, <2>2 DEF IInv, SilverLatest
  <1> QED
    BY <1>1, InductiveInvariant, PTL

\* An event that arrived twice on a day before an update lowers that day's count
\* of events below its count of arrivals, whatever is written meanwhile.
THEOREM DuplicatesAreShown == Spec => []DuplicatesShow
PROOF
  <1>1. IInv => DuplicatesShow
    BY DEF IInv, HealthShows, DuplicatesCounted, DuplicatesShow
  <1> QED
    BY <1>1, InductiveInvariant, PTL

\* The daily counts of silver add up to the events read: one delivered again, on
\* another day even, is counted once.
THEOREM EventsAreCountedOnce == Spec => []EventsCountedOnce
PROOF
  <1>1. IInv => EventsCountedOnce
    BY PerDayAddsUp DEF IInv
  <1> QED
    BY <1>1, InductiveInvariant, PTL

-----------------------------------------------------------------------------
\* Refinement of ScdType1

\* Feed is a sequence as long as bronze.
LEMMA FeedFacts ==
  ASSUME TypeOK
  PROVE  /\ Len(bronze) \in Nat
         /\ DOMAIN bronze = 1..Len(bronze)
         /\ Len(Feed) = Len(bronze)
         /\ \A b \in DOMAIN bronze : /\ Feed[b].keys = {bronze[b].event}
                                    /\ Feed[b].at = bronze[b].at
PROOF
  <1>1. Len(bronze) \in Nat /\ DOMAIN bronze = 1..Len(bronze)
    BY SequenceFacts DEF TypeOK
  <1>2. Len(Feed) = Len(bronze)
    BY <1>1 DEF Feed
  <1> QED
    BY <1>1, <1>2 DEF Feed

\* Two sequences of which one begins with the other.
LEMMA PrefixFacts ==
  ASSUME NEW S, NEW m \in Nat, NEW n \in Nat, m <= n,
         NEW s \in [1..m -> S], NEW t \in [1..n -> S], \A i \in 1..m : t[i] = s[i]
  PROVE  Scd!IsPrefix(s, t)
PROOF
  <1>1. s \in Seq(S) /\ Len(s) = m
    OBVIOUS
  <1>2. t \in Seq(S) /\ Len(t) = n
    OBVIOUS
  <1>3. Len(s) <= Len(t) /\ \A i \in 1..Len(s) : t[i] = s[i]
    BY <1>1, <1>2
  <1>4. SubSeq(s, 1, Len(s)) = SubSeq(t, 1, Len(s))
    BY <1>1, <1>2, <1>3
  <1> QED
    BY <1>3, <1>4 DEF Scd!IsPrefix

\* What arrived stays at the beginning of the feed.
LEMMA FeedGrows ==
  ASSUME IInv, [Next]_vars
  PROVE  Scd!IsPrefix(Feed, Feed')
PROOF
  <1>1. TypeOK /\ TypeOK'
    BY InvStep DEF IInv
  <1>2. /\ Len(bronze) \in Nat /\ DOMAIN bronze = 1..Len(bronze)
        /\ Len(bronze') \in Nat /\ DOMAIN bronze' = 1..Len(bronze')
    BY <1>1, SequenceFacts DEF TypeOK
  <1>3. \A b \in DOMAIN bronze : b \in DOMAIN bronze' /\ bronze'[b] = bronze[b]
    BY <1>1, HistoryKept
  <1>4. Len(bronze) <= Len(bronze')
    BY <1>2, <1>3
  <1> DEFINE S == {Feed[b] : b \in DOMAIN bronze} \cup {Feed'[b] : b \in DOMAIN bronze'}
             m == Len(bronze)
             n == Len(bronze')
  <1>5. Feed \in [1..m -> S] /\ Feed' \in [1..n -> S]
    BY <1>2 DEF Feed
  <1>6. \A b \in 1..m : Feed'[b] = Feed[b]
    BY <1>2, <1>3 DEF Feed
  <1>7. m \in Nat /\ n \in Nat /\ m <= n
    BY <1>2, <1>4
  <1> HIDE DEF S, m, n
  <1>8. \A s \in [1..m -> S], t \in [1..n -> S] :
          (\A i \in 1..m : t[i] = s[i]) => Scd!IsPrefix(s, t)
    BY <1>7, PrefixFacts
  <1> QED
    BY <1>5, <1>6, <1>8

\* A batch of the flow is the abstract flow's Apply.
LEMMA BatchIsApply ==
  ASSUME IInv, NEW n \in 1..Len(bronze), SilverBatch(n)
  PROVE  Scd!Apply
PROOF
  <1> DEFINE m == silverRead + n
  <1>1. TypeOK /\ SilverLatest /\ TypeOK' /\ SilverLatest'
    <2>1. Next
      BY DEF Next
    <2> QED
      BY <2>1, InvStep DEF IInv
  <1>2. /\ silverRead' = m
        /\ m \in 1..Len(bronze)
        /\ \A e \in DOMAIN silver' : silver'[e] \in 1..m
        /\ \A e \in DOMAIN silver' :
             silver'[e] \in (silverRead + 1)..m \/ (e \in DOMAIN silver /\ silver'[e] = silver[e])
        /\ DOMAIN silver \subseteq DOMAIN silver'
    BY <1>1, SilverBatchFacts
  <1>3. silverRead \in Nat /\ silverRead < m
    <2>1. n \in Nat /\ n >= 1 /\ silverRead \in Nat
      BY <1>1, FeedFacts DEF TypeOK
    <2> QED
      BY <2>1
  <1>4. bronze' = bronze
    BY DEF SilverBatch
  <1>5. Feed' = Feed
    BY <1>4 DEF Feed
  <1>6. \A e \in DOMAIN silver : silver'[e] = silver[e] \/ silver'[e] > silverRead
    BY <1>2, <1>3
  <1> HIDE DEF m
  <1>7. /\ Len(Feed) = Len(bronze)
        /\ \A b \in 1..m : /\ b \in DOMAIN bronze
                           /\ Feed[b].keys = {bronze[b].event} /\ Feed[b].at = bronze[b].at
    BY <1>1, <1>2, FeedFacts
  <1>8. m \in (silverRead + 1)..Len(Feed)
    BY <1>1, <1>2, <1>3, <1>7, FeedFacts
  <1>9. /\ DOMAIN silver' = {bronze[b].event : b \in 1..m}
        /\ \A e \in DOMAIN silver' :
             /\ bronze[silver'[e]].event = e
             /\ \A c \in 1..m : bronze[c].event = e => bronze[c].at <= bronze[silver'[e]].at
    BY <1>1, <1>2, <1>4 DEF SilverLatest
  <1>10. DOMAIN silver' = UNION {Feed[b].keys : b \in 1..m}
    BY <1>7, <1>9
  <1>11. \A e \in DOMAIN silver' :
           /\ silver'[e] \in 1..m
           /\ e \in Feed[silver'[e]].keys
           /\ \A c \in 1..m : e \in Feed[c].keys => Feed[c].at <= Feed[silver'[e]].at
    <2> SUFFICES ASSUME NEW e \in DOMAIN silver'
                 PROVE  /\ silver'[e] \in 1..m
                        /\ e \in Feed[silver'[e]].keys
                        /\ \A c \in 1..m : e \in Feed[c].keys => Feed[c].at <= Feed[silver'[e]].at
      OBVIOUS
    <2> DEFINE b == silver'[e]
    <2>1. b \in 1..m
      BY <1>2
    <2>2. bronze[b].event = e /\ \A c \in 1..m : bronze[c].event = e => bronze[c].at <= bronze[b].at
      BY <1>9
    <2> HIDE DEF b
    <2>3. e \in Feed[b].keys /\ Feed[b].at = bronze[b].at
      BY <1>7, <2>1, <2>2
    <2>4. \A c \in 1..m : e \in Feed[c].keys => bronze[c].event = e /\ Feed[c].at = bronze[c].at
      BY <1>7
    <2>5. \A c \in 1..m : e \in Feed[c].keys => Feed[c].at <= Feed[b].at
      BY <2>2, <2>3, <2>4
    <2> QED
      BY <2>1, <2>3, <2>5 DEF b
  <1> HIDE DEF Feed
  <1>12. Scd!IsCurrent'
    BY <1>2, <1>5, <1>10, <1>11 DEF Scd!IsCurrent, Scd!Newest
  <1> QED
    BY <1>2, <1>5, <1>6, <1>8, <1>12 DEF Scd!Apply

\* Silver is at every moment the latest delivery of each event read, however the
\* service writes and updates fail: the Zerobus module implements ScdType1.
THEOREM Refinement == Spec => SilverIsScdType1
PROOF
  <1>1. Init => Scd!Init
    <2> SUFFICES ASSUME Init PROVE Scd!Init
      OBVIOUS
    <2>1. bronze = <<>> /\ silver = <<>> /\ silverRead = 0
      BY DEF Init
    <2>2. Feed = <<>>
      BY <2>1 DEF Feed
    <2> QED
      BY <2>1, <2>2 DEF Scd!Init
  <1>2. IInv /\ [Next]_vars => [Scd!Next]_Scd!vars
    <2> SUFFICES ASSUME IInv, [Next]_vars PROVE Scd!Next
      OBVIOUS
    <2>1. CASE UNCHANGED <<silver, silverRead>>
      BY <2>1, FeedGrows DEF Scd!Next, Scd!Arrive
    <2>2. CASE \E n \in 1..Len(bronze) : SilverBatch(n)
      BY <2>2, BatchIsApply DEF Scd!Next
    <2> QED
      BY <2>1, <2>2, SilverMoves
  <1> QED
    BY <1>1, <1>2, InductiveInvariant, PTL DEF Spec, SilverIsScdType1, Scd!Spec

=============================================================================
