--------------------------- MODULE CloudFilesProofs ---------------------------
(***************************************************************************)
(* Theorems about CloudFiles, for any keys, drops, exports, tries and runs *)
(* and every configuration of the feed.                                    *)
(***************************************************************************)
EXTENDS CloudFiles, FiniteSetTheorems, TLAPS

\* Where the files of start t of the seed task in job run r begin.
Slot(r, t) == ((r - 1) * MaxTries + (t - 1)) * Drops

\* There are no more files than the writers had turns to write one, and their
\* times grow no faster than their number.
FilesCounted ==
  /\ \A i \in DOMAIN files : files[i].at <= i
  /\ IsFiniteSet(exports)
  /\ run >= 1 => tries >= 1
  /\ phase = "seeding" => run >= 1
  /\ cleared => drop <= Drops
  /\ config.seeded => /\ exports = {}
                      /\ run = 0 => files = <<>>
                      /\ run >= 1 => Len(files) <= Slot(run, tries)
                           + (IF phase = "seeding" THEN drop - 1 ELSE Drops)
  /\ ~config.seeded => /\ phase # "seeding"
                       /\ Len(files) + Cardinality(exports) <= MaxFiles

\* The files bronze has read.
FilesRead == {bronze[b].of : b \in DOMAIN bronze}

\* What is in the volume and was discovered is read or waits to be, and nothing
\* waits after bronze.  What an update found stays there until the job goes on.
ReadsAccounted ==
  /\ \A b, c \in DOMAIN bronze : bronze[b].of = bronze[c].of => b = c
  /\ volume \cap listed \subseteq FilesRead \cup backlog
  /\ phase \in {"bronze", "silver", "gold", "updated"} => held \subseteq volume \cap listed
  /\ phase \in {"silver", "gold", "updated"} => backlog = {}

\* A row of silver has its key, and no row read with that key is later.
SilverLatest ==
  \A k \in DOMAIN silver :
    /\ k \in SilverKeys(silver[k])
    /\ \A c \in 1..silverRead : k \in SilverKeys(c) => ModifiedAt(c) <= ModifiedAt(silver[k])

\* The counts of the two views, and those of bronze, as sums.
PerDaySum == INSTANCE SetSums WITH Weight <- LAMBDA f, d : f[d]
FilesSum == INSTANCE SetSums WITH Weight <- LAMBDA f, d : f[d].files
RowsSum == INSTANCE SetSums WITH Weight <- LAMBDA f, d : f[d].rows
ReadSum == INSTANCE SetSums WITH Weight <- LAMBDA f, b : Cardinality(RowKeys(b))

\* The rows of the elements B of bronze, and the files they come from.
RowsIn(B) == {r \in B \X Keys : r[2] \in RowKeys(r[1])}

FilesIn(B) == {bronze[b].of : b \in B}

\* A view that is refreshed shows the tables as they are, and the tables do not
\* move again before the update ends.
ViewsTrue ==
  /\ gold = [health |-> gold.health, perDay |-> gold.perDay]
  /\ "health" \in refreshed => phase \in {"silver", "gold"}
  /\ "perDay" \in refreshed => phase = "gold"
  /\ phase \in {"gold", "updated"} => silverRead = Len(bronze)
  /\ "perDay" \in refreshed \/ phase = "updated" => gold.perDay = [d \in Days |-> PerDay(d)]
  /\ ("health" \in refreshed \/ phase = "updated") /\ today <= Window =>
       gold.health = [d \in Days |-> [files |-> Cardinality(FilesIn(IngestedOn(d))),
                                      rows |-> Cardinality(RowsIn(IngestedOn(d)))]]

\* In the demo every file is a drop's, later than those before it.  The volume
\* has the newest file of a drop or, while it is overwritten, none; once the
\* seeder is done it has every drop, and an update finds it as it stays.
DemoFiles ==
  config.seeded =>
    /\ \A f \in DOMAIN files : /\ files[f].drop \in 1..Drops
                               /\ DOMAIN files[f].rows = Holds[files[f].drop]
    /\ \A f, g \in DOMAIN files : f < g => files[f].at < files[g].at
    /\ \A f \in volume, g \in DOMAIN files : files[g].drop = files[f].drop => g <= f
    /\ cleared => \A f \in volume : files[f].drop # drop
    /\ phase = "seeding" => \A d \in 1..(drop - 1) : \E f \in volume : files[f].drop = d
    /\ phase \in {"ready", "bronze", "silver", "gold", "updated"} =>
         \A d \in 1..Drops : \E f \in volume : files[f].drop = d
    /\ phase \in {"bronze", "silver", "gold", "updated"} => held = volume

IInv ==
  TypeOK /\ FilesCounted /\ ReadsAccounted /\ SilverLatest /\ ViewsTrue /\ DemoFiles

-----------------------------------------------------------------------------
\* Arithmetic and sequences

\* The assumptions on the constants, one by one.
LEMMA ConstantFacts ==
  /\ Drops \in Nat /\ Drops >= 1
  /\ MaxTries \in Nat /\ MaxTries >= 1
  /\ MaxVersion \in Nat /\ MaxVersion >= 1
  /\ Window \in Nat /\ MaxRuns \in Nat /\ MaxFiles \in Nat /\ MaxDay \in Nat
  /\ \A d \in 1..Drops : Holds[d] \in SUBSET Keys
PROOF
  BY FilesAssumption

\* The seeder's turns, over all runs and tries.
LEMMA TurnsFacts == MaxRuns * MaxTries * Drops \in Nat
PROOF
  <1>1. MaxRuns * MaxTries \in Nat
    BY ConstantFacts
  <1> QED
    BY <1>1, ConstantFacts

\* A product grows with its first factor.
LEMMA ProductGrows ==
  ASSUME NEW a \in Nat, NEW b \in Nat, NEW c \in Nat, a <= b
  PROVE  a * c \in Nat /\ b * c \in Nat /\ a * c <= b * c
PROOF
  <1>1. b * c = a * c + (b - a) * c
    OBVIOUS
  <1>2. (b - a) * c \in Nat /\ a * c \in Nat /\ b * c \in Nat
    OBVIOUS
  <1> QED
    BY <1>1, <1>2

\* A start of the seed task has room for all its drops before the next one, and
\* the last start of the last run ends within the bound of Times.
LEMMA SlotFacts ==
  ASSUME NEW r \in Nat \ {0}, NEW t \in 1..MaxTries
  PROVE  /\ Slot(r, t) \in Nat
         /\ t + 1 <= MaxTries => Slot(r, t + 1) = Slot(r, t) + Drops
         /\ Slot(r, t) + Drops <= Slot(r + 1, 1)
         /\ r <= MaxRuns => Slot(r, t) + Drops <= MaxRuns * MaxTries * Drops
PROOF
  <1>1. Drops \in Nat \ {0} /\ MaxTries \in Nat \ {0} /\ MaxRuns \in Nat
    BY FilesAssumption
  <1> DEFINE before == (r - 1) * MaxTries
             n == before + (t - 1)
  <1>2. before \in Nat /\ r * MaxTries = before + MaxTries
    BY <1>1
  <1> HIDE DEF before
  <1>3. n \in Nat /\ n + 1 \in Nat /\ n + 1 <= r * MaxTries /\ r * MaxTries \in Nat
    BY <1>1, <1>2
  <1> HIDE DEF n
  <1>4. Slot(r, t) = n * Drops
    BY DEF Slot, n, before
  <1>5. n * Drops \in Nat /\ (n + 1) * Drops = n * Drops + Drops
    BY <1>1, <1>3
  <1>6. Slot(r, t + 1) = (n + 1) * Drops
    <2>1. (t + 1) - 1 = (t - 1) + 1
      BY <1>1
    <2>2. before + ((t + 1) - 1) = n + 1
      BY <2>1, <1>1, <1>2 DEF n
    <2> QED
      BY <2>2 DEF Slot, before
  <1>7. Slot(r + 1, 1) = (r * MaxTries) * Drops
    <2>1. ((r + 1) - 1) * MaxTries + (1 - 1) = r * MaxTries
      BY <1>1, <1>3
    <2> QED
      BY <2>1 DEF Slot
  <1>8. (n + 1) * Drops <= (r * MaxTries) * Drops
    BY <1>1, <1>3, ProductGrows
  <1>9. ASSUME r <= MaxRuns PROVE (r * MaxTries) * Drops <= MaxRuns * MaxTries * Drops
    <2>1. r * MaxTries <= MaxRuns * MaxTries /\ MaxRuns * MaxTries \in Nat
      BY <1>1, <1>9, ProductGrows
    <2> QED
      BY <1>1, <1>3, <2>1, ProductGrows
  <1>10. (r * MaxTries) * Drops \in Nat /\ MaxRuns * MaxTries * Drops \in Nat
    <2>1. MaxRuns * MaxTries \in Nat
      BY <1>1
    <2> QED
      BY <1>1, <1>3, <2>1
  <1> HIDE DEF Slot
  <1> QED
    BY <1>1, <1>4, <1>5, <1>6, <1>7, <1>8, <1>9, <1>10

\* Appending keeps the sequence and adds one element at its end.
LEMMA AppendFacts ==
  ASSUME NEW S, NEW q \in Seq(S), NEW e \in S
  PROVE  /\ Append(q, e) \in Seq(S)
         /\ Len(Append(q, e)) = Len(q) + 1
         /\ DOMAIN Append(q, e) = 1..(Len(q) + 1)
         /\ \A i \in 1..Len(q) : Append(q, e)[i] = q[i]
         /\ Append(q, e)[Len(q) + 1] = e
PROOF
  OBVIOUS

\* What the positions of a sequence hold.
LEMMA SequenceFacts ==
  ASSUME NEW S, NEW q \in Seq(S)
  PROVE  /\ Len(q) \in Nat
         /\ DOMAIN q = 1..Len(q)
         /\ \A i \in DOMAIN q : q[i] \in S
PROOF
  <1>1. Len(q) \in Nat /\ DOMAIN q = 1..Len(q)
    OBVIOUS
  <1> QED
    BY <1>1

\* A sequence is one over every set that has its elements.
LEMMA SequenceOver ==
  ASSUME NEW S, NEW T, NEW q \in Seq(S), \A i \in DOMAIN q : q[i] \in T
  PROVE  q \in Seq(T)
PROOF
  OBVIOUS

\* The latest file's time is that of a file, or 0.
LEMMA LastTimeFacts ==
  ASSUME TypeOK, FilesCounted
  PROVE  LastTime \in 0..Len(files)
PROOF
  <1>1. files \in Seq(File)
    BY DEF TypeOK
  <1>2. CASE files = <<>>
    BY <1>1, <1>2 DEF LastTime
  <1>3. CASE files # <<>>
    <2>1. Len(files) \in DOMAIN files /\ Len(files) \in Nat
      BY <1>1, <1>3
    <2>2. files[Len(files)] \in File /\ files[Len(files)].at <= Len(files)
      BY <1>1, <2>1, SequenceFacts DEF FilesCounted
    <2>3. files[Len(files)].at \in Nat
      BY <2>2 DEF File, Times
    <2> QED
      BY <1>3, <2>1, <2>2, <2>3 DEF LastTime, Last
  <1> QED
    BY <1>2, <1>3

-----------------------------------------------------------------------------
\* What a step leaves as it was

\* A file that lands comes last, and the ones before it stay what they were.
LEMMA LandsFacts ==
  ASSUME TypeOK, NEW d \in 0..Drops, NEW rows \in Rows, NEW at \in Times,
         Lands(d, rows, at)
  PROVE  /\ files' \in Seq(File)
         /\ Len(files') = Len(files) + 1
         /\ DOMAIN files' = 1..(Len(files) + 1)
         /\ \A i \in 1..Len(files) : files'[i] = files[i]
         /\ files'[Len(files) + 1].at = at
         /\ volume' = volume \cup {Len(files) + 1}
PROOF
  <1> DEFINE f == [drop |-> d, rows |-> rows, at |-> at]
  <1>1. f \in File /\ files \in Seq(File)
    BY DEF File, TypeOK
  <1>2. files' = Append(files, f) /\ volume' = volume \cup {Len(files) + 1}
    BY DEF Lands
  <1> HIDE DEF f
  <1>3. /\ files' \in Seq(File)
        /\ Len(files') = Len(files) + 1
        /\ DOMAIN files' = 1..(Len(files) + 1)
        /\ \A i \in 1..Len(files) : files'[i] = files[i]
        /\ files'[Len(files) + 1] = f
    BY <1>1, <1>2, AppendFacts
  <1> QED
    BY <1>2, <1>3 DEF f

\* An export lands as a file of the connector's rows, at the time of the latest
\* file or one later.
LEMMA ExportLandsFacts ==
  ASSUME TypeOK, FilesCounted, NEW rows \in exports, ExportLands(rows)
  PROVE  \E at \in Times : Lands(0, rows, at) /\ rows \in Rows /\ at <= Len(files) + 1
PROOF
  <1>1. PICK at \in {LastTime, LastTime + 1} : Lands(0, rows, at)
    BY DEF ExportLands
  <1>2. LastTime \in 0..Len(files) /\ Len(files) \in Nat
    BY LastTimeFacts, SequenceFacts DEF TypeOK
  <1>3. Len(files) + 1 <= MaxFiles
    <2>1. /\ IsFiniteSet(exports)
          /\ ~config.seeded
          /\ Len(files) + Cardinality(exports) <= MaxFiles
      BY FilesAssumption DEF FilesCounted, TypeOK
    <2>2. Cardinality(exports) \in Nat /\ Cardinality(exports) # 0
      BY <2>1, FS_CardinalityType, FS_EmptySet
    <2> QED
      BY <1>2, <2>1, <2>2, ConstantFacts
  <1>4. at \in Times /\ at <= Len(files) + 1
    BY <1>1, <1>2, <1>3, ConstantFacts, TurnsFacts DEF Times
  <1> QED
    BY <1>1, <1>4 DEF TypeOK

\* A drop lands as a file of its keys, later than any file before it.
LEMMA WriteDropFacts ==
  ASSUME TypeOK, FilesCounted, WriteDrop
  PROVE  /\ drop \in 1..Drops
         /\ LastTime + 1 \in Times
         /\ LastTime + 1 <= Len(files) + 1
         /\ [k \in Holds[drop] |-> LastTime + 1] \in Rows
         /\ Lands(drop, [k \in Holds[drop] |-> LastTime + 1], LastTime + 1)
PROOF
  <1>1. drop \in 1..Drops /\ Holds[drop] \in SUBSET Keys
    <2>1. drop <= Drops /\ drop \in 1..(Drops + 1)
      BY DEF WriteDrop, FilesCounted, TypeOK
    <2> QED
      BY <2>1, ConstantFacts
  <1>2. LastTime \in 0..Len(files) /\ Len(files) \in Nat
    BY LastTimeFacts, SequenceFacts DEF TypeOK
  <1> DEFINE bound == MaxRuns * MaxTries * Drops
  <1>3. Len(files) + 1 <= bound /\ bound \in Nat
    <2>1. config.seeded /\ run >= 1 /\ tries >= 1
      BY FilesAssumption DEF WriteDrop, FilesCounted, TypeOK
    <2>2. run \in Nat \ {0} /\ run <= MaxRuns /\ tries \in 1..MaxTries
      BY <2>1, ConstantFacts DEF TypeOK
    <2>3. Len(files) <= Slot(run, tries) + (drop - 1)
      BY <2>1 DEF FilesCounted, WriteDrop
    <2>4. Slot(run, tries) \in Nat /\ Slot(run, tries) + Drops <= bound
      BY <2>2, SlotFacts
    <2>5. bound \in Nat
      BY TurnsFacts
    <2> HIDE DEF bound
    <2> QED
      BY <1>1, <1>2, <2>3, <2>4, <2>5, ConstantFacts
  <1>4. LastTime + 1 \in Times /\ LastTime + 1 <= Len(files) + 1
    <2> HIDE DEF bound
    <2>1. LastTime + 1 \in 0..(bound + MaxFiles) /\ LastTime + 1 <= Len(files) + 1
      BY <1>2, <1>3, ConstantFacts
    <2> QED
      BY <2>1 DEF Times, bound
  <1>5. [k \in Holds[drop] |-> LastTime + 1] \in [Holds[drop] -> Times]
    BY <1>4
  <1>6. [k \in Holds[drop] |-> LastTime + 1] \in Rows
    BY <1>1, <1>5 DEF Rows
  <1> QED
    BY <1>1, <1>4, <1>6 DEF WriteDrop

\* A file that is read comes last in bronze.
LEMMA IngestFacts ==
  ASSUME TypeOK, NEW f \in backlog, Ingest(f)
  PROVE  /\ bronze' \in Seq([of : listed \ backlog', day : 0..today])
         /\ Len(bronze) \in Nat
         /\ DOMAIN bronze = 1..Len(bronze)
         /\ DOMAIN bronze' = 1..(Len(bronze) + 1)
         /\ Len(bronze') = Len(bronze) + 1
         /\ \A b \in DOMAIN bronze : b \in DOMAIN bronze' /\ bronze'[b] = bronze[b]
         /\ bronze'[Len(bronze) + 1].of = f
PROOF
  <1> DEFINE row == [of |-> f, day |-> today]
             Read == [of : listed \ backlog', day : 0..today]
  <1>1. bronze' = Append(bronze, row) /\ backlog' = backlog \ {f}
    BY DEF Ingest
  <1>2. today \in 0..today /\ f \in listed
    BY ConstantFacts DEF TypeOK, Days
  <1>3. row \in Read
    BY <1>1, <1>2
  <1>4. Len(bronze) \in Nat /\ DOMAIN bronze = 1..Len(bronze)
    BY SequenceFacts DEF TypeOK
  <1>5. bronze \in Seq(Read)
    <2> DEFINE Old == [of : listed \ backlog, day : 0..today]
    <2>1. Old \subseteq Read /\ bronze \in Seq(Old)
      BY <1>1 DEF TypeOK
    <2> HIDE DEF Read, Old
    <2>2. \A b \in DOMAIN bronze : bronze[b] \in Read
      BY <2>1, SequenceFacts
    <2> QED
      BY <2>1, <2>2, SequenceOver
  <1>6. row.of = f
    OBVIOUS
  <1> HIDE DEF row, Read
  <1>7. /\ bronze' \in Seq(Read)
        /\ Len(bronze') = Len(bronze) + 1
        /\ DOMAIN bronze' = 1..(Len(bronze) + 1)
        /\ \A b \in 1..Len(bronze) : bronze'[b] = bronze[b]
        /\ bronze'[Len(bronze) + 1] = row
    BY <1>1, <1>3, <1>5, AppendFacts
  <1> QED
    BY <1>4, <1>6, <1>7 DEF Read

\* Files and bronze only grow at their ends, and the configuration stays.
LEMMA HistoryKept ==
  ASSUME TypeOK, FilesCounted, [Next]_vars
  PROVE  /\ config' = config
         /\ \A f \in DOMAIN files : f \in DOMAIN files' /\ files'[f] = files[f]
         /\ \A b \in DOMAIN bronze : b \in DOMAIN bronze' /\ bronze'[b] = bronze[b]
PROOF
  <1>1. DOMAIN files = 1..Len(files) /\ Len(files) \in Nat
    BY SequenceFacts DEF TypeOK
  <1>2. CASE UNCHANGED <<config, files, bronze>>
    BY <1>2
  <1>3. ASSUME NEW rows \in exports, ExportLands(rows)
        PROVE  /\ config' = config /\ bronze' = bronze
               /\ \A f \in DOMAIN files : f \in DOMAIN files' /\ files'[f] = files[f]
    <2>1. PICK at \in Times : Lands(0, rows, at) /\ rows \in Rows
      BY <1>3, ExportLandsFacts
    <2>2. 0 \in 0..Drops
      BY ConstantFacts
    <2>3. /\ DOMAIN files' = 1..(Len(files) + 1)
          /\ \A f \in 1..Len(files) : files'[f] = files[f]
      BY <2>1, <2>2, LandsFacts
    <2> QED
      BY <1>1, <1>3, <2>3 DEF ExportLands, tableVars
  <1>4. CASE WriteDrop
    <2>1. drop \in 0..Drops
      BY <1>4, WriteDropFacts
    <2>2. /\ DOMAIN files' = 1..(Len(files) + 1)
          /\ \A f \in 1..Len(files) : files'[f] = files[f]
      BY <1>4, <2>1, WriteDropFacts, LandsFacts
    <2> QED
      BY <1>1, <1>4, <2>2 DEF WriteDrop, tableVars
  <1>5. ASSUME NEW f \in backlog, Ingest(f)
        PROVE  /\ config' = config /\ files' = files
               /\ \A b \in DOMAIN bronze : b \in DOMAIN bronze' /\ bronze'[b] = bronze[b]
    BY <1>5, IngestFacts DEF Ingest, volumeVars
  <1> QED
    BY <1>2, <1>3, <1>4, <1>5
    DEF Next, NextDay, SourceChanges, ExportBegins, StartRun, ClearDrop, SeedDone,
        SeedFails, StartUpdate, Forgo, BronzeDone, SilverBatch, SilverDone,
        HealthRefresh, PerDayRefresh, UpdateCompletes, UpdateFails, UpdateEnds,
        vars, volumeVars, tableVars

\* What bronze has read is a file, with a time.
LEMMA RowFacts ==
  ASSUME TypeOK, NEW b \in DOMAIN bronze
  PROVE  /\ bronze[b].of \in DOMAIN files
         /\ bronze[b].of \in listed \ backlog
         /\ ModifiedAt(b) \in Nat
PROOF
  <1>1. bronze[b] \in [of : listed \ backlog, day : 0..today]
    BY SequenceFacts DEF TypeOK
  <1>2. bronze[b].of \in DOMAIN files /\ bronze[b].of \in listed \ backlog
    BY <1>1 DEF TypeOK
  <1>3. FileOf(b) \in File
    BY <1>2, SequenceFacts DEF TypeOK, FileOf
  <1>4. ModifiedAt(b) \in Nat
    BY <1>3 DEF ModifiedAt, File, Times
  <1> QED
    BY <1>2, <1>4

\* The keys and the time of a row that was read stay what they were.
LEMMA RowsKept ==
  ASSUME TypeOK, FilesCounted, [Next]_vars, NEW b \in DOMAIN bronze
  PROVE  /\ b \in DOMAIN bronze'
         /\ SilverKeys(b)' = SilverKeys(b)
         /\ ModifiedAt(b)' = ModifiedAt(b)
PROOF
  <1>1. bronze'[b] = bronze[b] /\ b \in DOMAIN bronze' /\ config' = config
    BY HistoryKept
  <1>2. FileOf(b)' = FileOf(b)
    BY <1>1, RowFacts, HistoryKept DEF FileOf
  <1> QED
    BY <1>1, <1>2 DEF SilverKeys, RowKeys, ModifiedAt

-----------------------------------------------------------------------------
\* Type correctness

\* The initial state has its types, and counts no file.
LEMMA TypeInit == Init => TypeOK /\ FilesCounted
PROOF
  <1> SUFFICES ASSUME Init PROVE TypeOK /\ FilesCounted
    OBVIOUS
  <1>1. /\ config \in Configs /\ today = 0 /\ source = [k \in Keys |-> 1]
        /\ exports = {} /\ files = <<>> /\ volume = {} /\ phase = "idle"
        /\ run = 0 /\ tries = 0 /\ drop = 1 /\ cleared = FALSE
        /\ listed = {} /\ backlog = {} /\ held = {}
        /\ bronze = <<>> /\ silver = <<>> /\ silverRead = 0 /\ refreshed = {}
    BY DEF Init
  <1>2. files \in Seq(File) /\ bronze \in Seq([of : listed \ backlog, day : 0..today])
    BY <1>1
  <1>3. Len(files) = 0 /\ Len(bronze) = 0 /\ DOMAIN files = {} /\ DOMAIN silver = {}
    BY <1>1
  <1>4. DOMAIN silver = UNION {SilverKeys(b) : b \in 1..silverRead}
    BY <1>1, <1>3
  <1>5. TypeOK
    <2>1. \A k \in DOMAIN silver : silver[k] \in 1..silverRead
      BY <1>3
    <2>2. source \in [Keys -> 1..MaxVersion]
      BY <1>1, ConstantFacts
    <2>3. today \in Days /\ run \in 0..MaxRuns /\ tries \in 0..MaxTries /\ drop \in 1..(Drops + 1)
      BY <1>1, ConstantFacts DEF Days
    <2>4. /\ exports \subseteq Rows
          /\ listed \cup held \cup volume \subseteq DOMAIN files
          /\ silverRead \in 0..Len(bronze)
          /\ refreshed \subseteq Views
      BY <1>1, <1>3
    <2> QED
      BY <1>1, <1>2, <1>3, <1>4, <2>1, <2>2, <2>3, <2>4 DEF TypeOK
  <1>6. IsFiniteSet(exports) /\ Cardinality(exports) = 0
    BY <1>1, FS_EmptySet
  <1>7. FilesCounted
    BY <1>1, <1>3, <1>6, ConstantFacts DEF FilesCounted
  <1> QED
    BY <1>5, <1>7

\* What the connector and the volume hold keeps its types.
LEMMA VolumeTypeStep ==
  ASSUME TypeOK, FilesCounted, [Next]_vars
  PROVE  /\ source' \in [Keys -> 1..MaxVersion]
         /\ exports' \subseteq Rows
         /\ files' \in Seq(File)
         /\ listed' \cup held' \cup volume' \subseteq DOMAIN files'
PROOF
  <1>1. ASSUME NEW k \in Keys, SourceChanges(k)
        PROVE  source' \in [Keys -> 1..MaxVersion]
    BY <1>1, ConstantFacts DEF SourceChanges, TypeOK
  <1>2. ASSUME NEW K \in Extents, ExportBegins(K)
        PROVE  exports' \subseteq Rows
    <2>1. K \in SUBSET Keys
      BY FilesAssumption
    <2>2. [k \in K |-> source[k]] \in [K -> 1..MaxVersion]
      BY <2>1 DEF TypeOK
    <2>3. [k \in K |-> source[k]] \in Rows
      BY <2>1, <2>2 DEF Rows
    <2> QED
      BY <1>2, <2>3 DEF ExportBegins, TypeOK
  <1>3. ASSUME NEW d \in 0..Drops, NEW rows \in Rows, NEW at \in Times, Lands(d, rows, at),
               UNCHANGED <<listed, held>>
        PROVE  /\ files' \in Seq(File)
               /\ listed' \cup held' \cup volume' \subseteq DOMAIN files'
    <2>1. DOMAIN files = 1..Len(files) /\ Len(files) \in Nat
      BY SequenceFacts DEF TypeOK
    <2>2. /\ files' \in Seq(File)
          /\ DOMAIN files' = 1..(Len(files) + 1)
          /\ volume' = volume \cup {Len(files) + 1}
      BY <1>3, LandsFacts
    <2>3. DOMAIN files \subseteq DOMAIN files' /\ Len(files) + 1 \in DOMAIN files'
      BY <2>1, <2>2
    <2> QED
      BY <1>3, <2>2, <2>3 DEF TypeOK
  <1>4. ASSUME NEW rows \in exports, ExportLands(rows)
        PROVE  /\ exports' \subseteq Rows
               /\ files' \in Seq(File)
               /\ listed' \cup held' \cup volume' \subseteq DOMAIN files'
    <2>1. PICK at \in Times : Lands(0, rows, at) /\ rows \in Rows
      BY <1>4, ExportLandsFacts
    <2>2. 0 \in 0..Drops
      BY ConstantFacts
    <2> QED
      BY <1>3, <1>4, <2>1, <2>2 DEF ExportLands, loaderVars, TypeOK
  <1>5. CASE WriteDrop
    <2>1. drop \in 0..Drops
      BY <1>5, WriteDropFacts
    <2> QED
      BY <1>3, <1>5, <2>1, WriteDropFacts DEF WriteDrop, connectorVars, loaderVars, TypeOK
  <1>6. CASE ClearDrop
    BY <1>6 DEF ClearDrop, connectorVars, loaderVars, TypeOK
  <1>7. CASE StartUpdate
    BY <1>7 DEF StartUpdate, connectorVars, volumeVars, TypeOK
  <1>8. CASE UNCHANGED <<source, exports, files, volume, listed, held>>
    BY <1>8 DEF TypeOK
  <1>9. ASSUME NEW k \in Keys, SourceChanges(k)
        PROVE  UNCHANGED <<exports, files, volume, listed, held>>
    BY <1>9 DEF SourceChanges, volumeVars, loaderVars
  <1>10. ASSUME NEW K \in Extents, ExportBegins(K)
         PROVE  UNCHANGED <<source, files, volume, listed, held>>
    BY <1>10 DEF ExportBegins, volumeVars, loaderVars
  <1>11. ASSUME NEW rows \in exports, ExportLands(rows) PROVE UNCHANGED source
    BY <1>11 DEF ExportLands
  <1> QED
    BY <1>1, <1>2, <1>4, <1>5, <1>6, <1>7, <1>8, <1>9, <1>10, <1>11
    DEF Next, NextDay, StartRun, SeedDone, SeedFails, Ingest, Forgo, BronzeDone,
        SilverBatch, SilverDone, HealthRefresh, PerDayRefresh, UpdateCompletes,
        UpdateFails, UpdateEnds, vars, connectorVars, volumeVars, loaderVars, TypeOK

\* The job keeps its types: tries and drops do not run past their limits.
LEMMA JobTypeStep ==
  ASSUME TypeOK, FilesCounted, [Next]_vars
  PROVE  /\ config' \in Configs
         /\ today' \in Days
         /\ phase' \in {"idle", "seeding", "ready", "bronze", "silver", "gold", "updated"}
         /\ run' \in 0..MaxRuns
         /\ tries' \in 0..MaxTries
         /\ drop' \in 1..(Drops + 1)
         /\ cleared' \in BOOLEAN
         /\ refreshed' \subseteq Views
PROOF
  <1>0. /\ config \in Configs /\ today \in Days
        /\ phase \in {"idle", "seeding", "ready", "bronze", "silver", "gold", "updated"}
        /\ run \in 0..MaxRuns /\ tries \in 0..MaxTries /\ drop \in 1..(Drops + 1)
        /\ cleared \in BOOLEAN /\ refreshed \subseteq Views
    BY DEF TypeOK
  <1>1. CASE NextDay
    BY <1>1, ConstantFacts DEF NextDay, jobVars, tableVars, TypeOK, Days
  <1>2. CASE StartRun
    <2>1. /\ run < MaxRuns /\ run' = run + 1 /\ tries' = 1 /\ drop' = 1 /\ cleared' = FALSE
          /\ phase' \in {"seeding", "ready"}
          /\ UNCHANGED <<config, today, refreshed>>
      BY <1>2 DEF StartRun, tableVars
    <2>2. run' \in 0..MaxRuns /\ tries' \in 0..MaxTries /\ drop' \in 1..(Drops + 1)
      BY <1>0, <2>1, ConstantFacts
    <2> QED
      BY <1>0, <2>1, <2>2
  <1>3. CASE ClearDrop
    BY <1>3 DEF ClearDrop, tableVars, TypeOK
  <1>4. CASE WriteDrop
    <2>1. drop \in 1..Drops
      BY <1>4, WriteDropFacts
    <2>2. drop + 1 \in 1..(Drops + 1)
      BY <2>1, ConstantFacts
    <2> QED
      BY <1>4, <2>2 DEF WriteDrop, tableVars, TypeOK
  <1>5. CASE SeedDone
    BY <1>5 DEF SeedDone, tableVars, TypeOK
  <1>6. CASE SeedFails
    <2>1. /\ run' = run /\ drop' = 1 /\ cleared' = FALSE
          /\ UNCHANGED <<config, today, refreshed>>
      BY <1>6 DEF SeedFails, tableVars
    <2>2. phase' \in {phase, "idle"} /\ tries' \in 0..MaxTries
      BY <1>0, <1>6, ConstantFacts DEF SeedFails
    <2>3. drop' \in 1..(Drops + 1)
      BY <2>1, ConstantFacts
    <2> QED
      BY <1>0, <2>1, <2>2, <2>3
  <1>7. CASE StartUpdate \/ BronzeDone \/ SilverDone
    BY <1>7 DEF StartUpdate, BronzeDone, SilverDone, tableVars, TypeOK
  <1>8. CASE HealthRefresh \/ PerDayRefresh
    BY <1>8 DEF HealthRefresh, PerDayRefresh, jobVars, TypeOK, Views
  <1>9. CASE UpdateCompletes \/ UpdateFails
    BY <1>9 DEF UpdateCompletes, UpdateFails, UpdateEnds, TypeOK
  <1>10. CASE UNCHANGED <<config, today, phase, run, tries, drop, cleared, refreshed>>
    BY <1>10 DEF TypeOK
  <1> QED
    BY <1>1, <1>2, <1>3, <1>4, <1>5, <1>6, <1>7, <1>8, <1>9, <1>10
    DEF Next, SourceChanges, ExportBegins, ExportLands, Ingest, Forgo, SilverBatch,
        vars, jobVars, tableVars

\* Auto Loader and bronze keep their types: what is read was listed, waits no
\* longer and carries a day that has come.
LEMMA BronzeTypeStep ==
  ASSUME TypeOK, FilesCounted, [Next]_vars
  PROVE  /\ backlog' \subseteq listed'
         /\ bronze' \in Seq([of : listed' \ backlog', day : 0..today'])
         /\ silverRead' \in 0..Len(bronze')
PROOF
  <1>1. ASSUME listed \ backlog \subseteq listed' \ backlog', 0..today \subseteq 0..today',
               UNCHANGED <<bronze, silverRead>>
        PROVE  /\ bronze' \in Seq([of : listed' \ backlog', day : 0..today'])
               /\ silverRead' \in 0..Len(bronze')
    <2> DEFINE Old == [of : listed \ backlog, day : 0..today]
               New == [of : listed' \ backlog', day : 0..today']
    <2>1. Old \subseteq New /\ bronze \in Seq(Old)
      BY <1>1 DEF TypeOK
    <2> HIDE DEF Old, New
    <2>2. \A b \in DOMAIN bronze : bronze[b] \in New
      BY <2>1, SequenceFacts
    <2>3. bronze \in Seq(New)
      BY <2>1, <2>2, SequenceOver
    <2> QED
      BY <1>1, <2>3 DEF TypeOK, New
  <1>2. CASE NextDay
    <2>1. 0..today \subseteq 0..today' /\ UNCHANGED <<listed, backlog, bronze, silverRead>>
      BY <1>2, ConstantFacts DEF NextDay, loaderVars, tableVars, TypeOK, Days
    <2> QED
      BY <1>1, <2>1 DEF TypeOK
  <1>3. CASE StartUpdate
    BY <1>1, <1>3 DEF StartUpdate, tableVars, TypeOK
  <1>4. ASSUME NEW f \in backlog, Forgo(f)
        PROVE  /\ backlog' \subseteq listed'
               /\ bronze' \in Seq([of : listed' \ backlog', day : 0..today'])
               /\ silverRead' \in 0..Len(bronze')
    BY <1>1, <1>4 DEF Forgo, tableVars, TypeOK
  <1>5. ASSUME NEW f \in backlog, Ingest(f)
        PROVE  /\ backlog' \subseteq listed'
               /\ bronze' \in Seq([of : listed' \ backlog', day : 0..today'])
               /\ silverRead' \in 0..Len(bronze')
    <2>1. /\ bronze' \in Seq([of : listed \ backlog', day : 0..today])
          /\ Len(bronze') = Len(bronze) + 1
          /\ Len(bronze) \in Nat
      BY <1>5, IngestFacts
    <2>2. /\ backlog' = backlog \ {f}
          /\ UNCHANGED <<listed, today, silverRead>>
      BY <1>5 DEF Ingest
    <2>3. silverRead \in 0..Len(bronze) /\ backlog \subseteq listed
      BY DEF TypeOK
    <2> QED
      BY <2>1, <2>2, <2>3
  <1>6. ASSUME NEW n \in 1..Len(bronze), SilverBatch(n)
        PROVE  /\ silverRead' \in 0..Len(bronze')
               /\ UNCHANGED <<today, listed, backlog, bronze>>
    <2>1. /\ silverRead' = silverRead + n
          /\ n \in 1..(Len(bronze) - silverRead)
          /\ UNCHANGED <<today, listed, backlog, bronze>>
      BY <1>6 DEF SilverBatch, loaderVars
    <2>2. silverRead \in 0..Len(bronze) /\ Len(bronze) \in Nat
      BY SequenceFacts DEF TypeOK
    <2> QED
      BY <2>1, <2>2
  <1>7. CASE UNCHANGED <<today, listed, backlog, bronze, silverRead>>
    BY <1>7 DEF TypeOK
  <1> QED
    BY <1>2, <1>3, <1>4, <1>5, <1>6, <1>7
    DEF Next, SourceChanges, ExportBegins, ExportLands, StartRun, ClearDrop, WriteDrop,
        SeedDone, SeedFails, BronzeDone, SilverDone, HealthRefresh, PerDayRefresh,
        UpdateCompletes, UpdateFails, UpdateEnds, vars, loaderVars, tableVars, TypeOK

-----------------------------------------------------------------------------
\* Silver

\* A batch leaves every key it brings at the latest of its rows, those of the
\* batch and the one it had, and the others alone.
LEMMA SilverBatchFacts ==
  ASSUME TypeOK, SilverLatest, NEW n \in 1..Len(bronze), SilverBatch(n)
  PROVE  /\ silverRead' = silverRead + n
         /\ silverRead + n \in 1..Len(bronze)
         /\ DOMAIN silver' = UNION {SilverKeys(b) : b \in 1..(silverRead + n)}
         /\ \A k \in DOMAIN silver' :
              /\ silver'[k] \in 1..(silverRead + n)
              /\ k \in SilverKeys(silver'[k])
              /\ \A c \in 1..(silverRead + n) :
                   k \in SilverKeys(c) => ModifiedAt(c) <= ModifiedAt(silver'[k])
         /\ \A k \in DOMAIN silver :
              k \in DOMAIN silver' /\ (silver'[k] = silver[k] \/ silver'[k] > silverRead)
PROOF
  <1> DEFINE r == silverRead
             batch == (r + 1)..(r + n)
             arriving == UNION {SilverKeys(b) : b \in batch}
             RowsOf(k) == {b \in batch : k \in SilverKeys(b)}
                            \cup (IF k \in DOMAIN silver THEN {silver[k]} ELSE {})
  <1>1. /\ silverRead' = r + n
        /\ n \in 1..(Len(bronze) - r)
        /\ \E rows \in [arriving -> 1..(r + n)] :
             /\ \A k \in arriving : rows[k] \in Latest(RowsOf(k))
             /\ silver' = [k \in arriving \cup DOMAIN silver |->
                             IF k \in arriving THEN rows[k] ELSE silver[k]]
    BY DEF SilverBatch
  <1>2. PICK rows \in [arriving -> 1..(r + n)] :
          /\ \A k \in arriving : rows[k] \in Latest(RowsOf(k))
          /\ silver' = [k \in arriving \cup DOMAIN silver |->
                          IF k \in arriving THEN rows[k] ELSE silver[k]]
    BY <1>1
  <1>3. r \in Nat /\ n \in Nat /\ n >= 1 /\ Len(bronze) \in Nat /\ r + n \in 1..Len(bronze)
    BY <1>1, SequenceFacts DEF TypeOK
  <1>4. DOMAIN silver = UNION {SilverKeys(b) : b \in 1..r}
        /\ \A k \in DOMAIN silver : silver[k] \in 1..r
    BY DEF TypeOK
  <1>5. 1..(r + n) = (1..r) \cup batch
    BY <1>3
  <1>6. \A c \in 1..(r + n) : ModifiedAt(c) \in Nat
    <2>1. 1..(r + n) \subseteq DOMAIN bronze
      BY <1>3, SequenceFacts DEF TypeOK
    <2> QED
      BY <2>1, RowFacts
  <1> HIDE DEF r, batch
  <1>7. DOMAIN silver' = arriving \cup DOMAIN silver
    BY <1>2
  <1>8. DOMAIN silver' = UNION {SilverKeys(b) : b \in 1..(r + n)}
    BY <1>4, <1>5, <1>7
  <1>9. ASSUME NEW k \in arriving
        PROVE  /\ silver'[k] = rows[k]
               /\ silver'[k] \in 1..(r + n)
               /\ k \in SilverKeys(silver'[k])
               /\ \A c \in 1..(r + n) :
                    k \in SilverKeys(c) => ModifiedAt(c) <= ModifiedAt(silver'[k])
    <2>1. silver'[k] = rows[k] /\ rows[k] \in 1..(r + n)
      BY <1>2
    <2>2. rows[k] \in RowsOf(k) /\ \A c \in RowsOf(k) : ModifiedAt(c) <= ModifiedAt(rows[k])
      BY <1>2 DEF Latest
    <2>3. k \in SilverKeys(rows[k])
      BY <2>2 DEF SilverLatest
    <2>4. ASSUME NEW c \in 1..(r + n), k \in SilverKeys(c)
          PROVE  ModifiedAt(c) <= ModifiedAt(rows[k])
      <3>1. CASE c \in batch
        BY <2>2, <2>4, <3>1
      <3>2. CASE c \in 1..r
        <4>1. k \in DOMAIN silver
          BY <1>4, <2>4, <3>2
        <4>2. ModifiedAt(c) <= ModifiedAt(silver[k])
          BY <2>4, <3>2, <4>1 DEF SilverLatest, r
        <4>3. ModifiedAt(silver[k]) <= ModifiedAt(rows[k])
          BY <2>2, <4>1
        <4>4. silver[k] \in 1..(r + n)
          BY <1>3, <1>4, <1>5, <4>1
        <4> QED
          BY <1>6, <2>1, <4>2, <4>3, <4>4
      <3> QED
        BY <1>5, <3>1, <3>2
    <2> QED
      BY <2>1, <2>3, <2>4
  <1>10. ASSUME NEW k \in DOMAIN silver, k \notin arriving
         PROVE  /\ silver'[k] = silver[k]
                /\ silver'[k] \in 1..(r + n)
                /\ k \in SilverKeys(silver'[k])
                /\ \A c \in 1..(r + n) :
                     k \in SilverKeys(c) => ModifiedAt(c) <= ModifiedAt(silver'[k])
    <2>1. silver'[k] = silver[k]
      BY <1>2, <1>10
    <2>2. silver[k] \in 1..(r + n)
      BY <1>4, <1>5
    <2>3. \A c \in batch : k \notin SilverKeys(c)
      BY <1>10
    <2> QED
      BY <1>5, <2>1, <2>2, <2>3 DEF SilverLatest, r
  <1>11. ASSUME NEW k \in DOMAIN silver
         PROVE  k \in DOMAIN silver' /\ (silver'[k] = silver[k] \/ silver'[k] > r)
    <2>1. CASE k \in arriving
      <3>1. rows[k] \in batch \/ rows[k] = silver[k]
        BY <1>2, <2>1 DEF Latest
      <3>2. \A c \in batch : c > r
        BY <1>3 DEF batch
      <3> QED
        BY <1>7, <1>9, <2>1, <3>1, <3>2
    <2> QED
      BY <1>7, <1>10, <2>1
  <1> HIDE DEF arriving
  <1>12. \A k \in DOMAIN silver' : k \in arriving \/ (k \in DOMAIN silver /\ k \notin arriving)
    BY <1>7
  <1>13. \A k \in DOMAIN silver' :
           /\ silver'[k] \in 1..(r + n)
           /\ k \in SilverKeys(silver'[k])
           /\ \A c \in 1..(r + n) :
                k \in SilverKeys(c) => ModifiedAt(c) <= ModifiedAt(silver'[k])
    BY <1>9, <1>10, <1>12
  <1> QED
    BY <1>1, <1>3, <1>8, <1>11, <1>13 DEF r

\* Every step leaves silver what it was, or applies a batch.
LEMMA SilverMoves ==
  ASSUME [Next]_vars
  PROVE  \/ UNCHANGED <<silver, silverRead>>
         \/ \E n \in 1..Len(bronze) : SilverBatch(n)
PROOF
  BY DEF Next, NextDay, SourceChanges, ExportBegins, ExportLands, StartRun, ClearDrop,
     WriteDrop, SeedDone, SeedFails, StartUpdate, Ingest, Forgo, BronzeDone, SilverDone,
     HealthRefresh, PerDayRefresh, UpdateCompletes, UpdateFails, UpdateEnds, vars, tableVars

\* Silver keeps its types and stays the latest row of each key read.
LEMMA SilverStep ==
  ASSUME TypeOK, FilesCounted, SilverLatest, [Next]_vars
  PROVE  /\ DOMAIN silver' = UNION {SilverKeys(b)' : b \in 1..silverRead'}
         /\ \A k \in DOMAIN silver' : silver'[k] \in 1..silverRead'
         /\ SilverLatest'
PROOF
  <1>1. silverRead \in 0..Len(bronze) /\ Len(bronze) \in Nat /\ DOMAIN bronze = 1..Len(bronze)
    BY SequenceFacts DEF TypeOK
  <1>2. \A b \in 1..Len(bronze) : /\ SilverKeys(b)' = SilverKeys(b)
                                 /\ ModifiedAt(b)' = ModifiedAt(b)
    BY <1>1, RowsKept
  <1>3. CASE UNCHANGED <<silver, silverRead>>
    <2>1. \A b \in 1..silverRead : b \in 1..Len(bronze)
      BY <1>1
    <2>2. DOMAIN silver = UNION {SilverKeys(b)' : b \in 1..silverRead}
      BY <1>2, <2>1 DEF TypeOK
    <2>3. \A k \in DOMAIN silver : silver[k] \in 1..silverRead
      BY DEF TypeOK
    <2>4. \A k \in DOMAIN silver :
            /\ k \in SilverKeys(silver[k])'
            /\ \A c \in 1..silverRead :
                 k \in SilverKeys(c)' => ModifiedAt(c)' <= ModifiedAt(silver[k])'
      BY <1>2, <1>3, <2>1, <2>3 DEF SilverLatest
    <2> QED
      BY <1>3, <2>2, <2>3, <2>4 DEF SilverLatest
  <1>4. ASSUME NEW n \in 1..Len(bronze), SilverBatch(n)
        PROVE  /\ DOMAIN silver' = UNION {SilverKeys(b)' : b \in 1..silverRead'}
               /\ \A k \in DOMAIN silver' : silver'[k] \in 1..silverRead'
               /\ SilverLatest'
    <2> DEFINE m == silverRead + n
    <2>1. /\ silverRead' = m
          /\ m \in 1..Len(bronze)
          /\ DOMAIN silver' = UNION {SilverKeys(b) : b \in 1..m}
          /\ \A k \in DOMAIN silver' :
               /\ silver'[k] \in 1..m
               /\ k \in SilverKeys(silver'[k])
               /\ \A c \in 1..m : k \in SilverKeys(c) => ModifiedAt(c) <= ModifiedAt(silver'[k])
      BY <1>4, SilverBatchFacts
    <2> HIDE DEF m
    <2>2. \A b \in 1..m : b \in 1..Len(bronze)
      BY <1>1, <2>1
    <2>3. UNCHANGED <<config, files, bronze>>
      BY <1>4 DEF SilverBatch, volumeVars
    <2>4. \A k : /\ SilverKeys(silver[k])' = SilverKeys(silver'[k])
                 /\ ModifiedAt(silver[k])' = ModifiedAt(silver'[k])
      BY <2>3 DEF SilverKeys, RowKeys, ModifiedAt, FileOf
    <2>5. \A k \in DOMAIN silver' :
            /\ k \in SilverKeys(silver[k])'
            /\ \A c \in 1..m : k \in SilverKeys(c)' => ModifiedAt(c)' <= ModifiedAt(silver[k])'
      BY <1>2, <2>1, <2>2, <2>4
    <2> QED
      BY <1>2, <2>1, <2>2, <2>5 DEF SilverLatest
  <1> QED
    BY <1>3, <1>4, SilverMoves

-----------------------------------------------------------------------------
\* The writers' turns

\* Files come one for a turn of their writer: a drop of a start of the seed task,
\* or an export.
LEMMA CountStep ==
  ASSUME TypeOK, FilesCounted, [Next]_vars
  PROVE  FilesCounted'
PROOF
  <1>1. /\ Len(files) \in Nat /\ DOMAIN files = 1..Len(files)
        /\ config.seeded \in BOOLEAN
        /\ run \in Nat /\ tries \in Nat /\ drop \in Nat /\ drop >= 1 /\ drop <= Drops + 1
    BY FilesAssumption, ConstantFacts, SequenceFacts DEF TypeOK
  <1>2. ASSUME NEW K \in Extents, ExportBegins(K) PROVE FilesCounted'
    <2> DEFINE e == [k \in K |-> source[k]]
    <2>1. /\ ~config.seeded
          /\ Len(files) + Cardinality(exports) < MaxFiles
          /\ exports' = exports \cup {e}
          /\ UNCHANGED <<config, files, phase, run, tries, drop, cleared>>
      BY <1>2 DEF ExportBegins, volumeVars, jobVars
    <2>2. IsFiniteSet(exports) /\ Cardinality(exports) \in Nat
      BY FS_CardinalityType DEF FilesCounted
    <2> HIDE DEF e
    <2>3. IsFiniteSet(exports') /\ Cardinality(exports') \in {Cardinality(exports), Cardinality(exports) + 1}
      BY <2>1, <2>2, FS_AddElement
    <2>4. Len(files) + Cardinality(exports') <= MaxFiles
      BY <1>1, <2>1, <2>2, <2>3, ConstantFacts
    <2> QED
      BY <2>1, <2>3, <2>4 DEF FilesCounted
  <1>3. ASSUME NEW rows \in exports, ExportLands(rows) PROVE FilesCounted'
    <2>1. PICK at \in Times : Lands(0, rows, at) /\ rows \in Rows /\ at <= Len(files) + 1
      BY <1>3, ExportLandsFacts
    <2>2. 0 \in 0..Drops
      BY ConstantFacts
    <2>3. /\ Len(files') = Len(files) + 1
          /\ DOMAIN files' = 1..(Len(files) + 1)
          /\ \A i \in 1..Len(files) : files'[i] = files[i]
          /\ files'[Len(files) + 1].at = at
      BY <2>1, <2>2, LandsFacts
    <2>4. /\ exports' = exports \ {rows}
          /\ UNCHANGED <<config, phase, run, tries, drop, cleared>>
      BY <1>3 DEF ExportLands, jobVars
    <2>5. ~config.seeded
      BY <1>1, <1>3 DEF FilesCounted
    <2>6. /\ IsFiniteSet(exports') /\ Cardinality(exports') = Cardinality(exports) - 1
          /\ Cardinality(exports) \in Nat
      BY <1>3, <2>4, FS_RemoveElement, FS_CardinalityType DEF FilesCounted
    <2>7. Len(files') + Cardinality(exports') <= MaxFiles
      BY <1>1, <2>3, <2>5, <2>6, ConstantFacts DEF FilesCounted
    <2>8. \A i \in DOMAIN files' : files'[i].at <= i
      BY <1>1, <2>1, <2>3 DEF FilesCounted
    <2> QED
      BY <2>4, <2>5, <2>6, <2>7, <2>8 DEF FilesCounted
  <1>4. CASE WriteDrop
    <2>1. /\ drop \in 1..Drops
          /\ LastTime + 1 \in Times
          /\ LastTime + 1 <= Len(files) + 1
          /\ [k \in Holds[drop] |-> LastTime + 1] \in Rows
          /\ Lands(drop, [k \in Holds[drop] |-> LastTime + 1], LastTime + 1)
      BY <1>4, WriteDropFacts
    <2>2. drop \in 0..Drops
      BY <2>1
    <2>3. /\ Len(files') = Len(files) + 1
          /\ DOMAIN files' = 1..(Len(files) + 1)
          /\ \A i \in 1..Len(files) : files'[i] = files[i]
          /\ files'[Len(files) + 1].at = LastTime + 1
      BY <2>1, <2>2, LandsFacts
    <2>4. /\ phase = "seeding" /\ drop' = drop + 1 /\ cleared' = FALSE
          /\ UNCHANGED <<config, exports, phase, run, tries>>
      BY <1>4 DEF WriteDrop, connectorVars
    <2>5. config.seeded /\ run >= 1 /\ tries >= 1 /\ run <= MaxRuns /\ tries \in 1..MaxTries
      BY <1>1, <2>4, ConstantFacts DEF FilesCounted, TypeOK
    <2>6. Slot(run, tries) \in Nat
      BY <1>1, <2>5, SlotFacts
    <2>7. Len(files) <= Slot(run, tries) + (drop - 1)
      BY <2>4, <2>5 DEF FilesCounted
    <2>8. Len(files') <= Slot(run, tries) + (drop' - 1) /\ Slot(run, tries)' = Slot(run, tries)
      BY <1>1, <2>3, <2>4, <2>6, <2>7 DEF Slot
    <2>9. \A i \in DOMAIN files' : files'[i].at <= i
      BY <1>1, <2>1, <2>3 DEF FilesCounted
    <2>10. IsFiniteSet(exports') /\ exports' = {} /\ config'.seeded /\ run' # 0
      BY <2>4, <2>5, <1>1 DEF FilesCounted
    <2> QED
      BY <2>4, <2>5, <2>8, <2>9, <2>10 DEF FilesCounted
  <1>5. CASE StartRun
    <2>1. /\ phase # "seeding" /\ run' = run + 1 /\ tries' = 1 /\ drop' = 1 /\ cleared' = FALSE
          /\ phase' = (IF config.seeded THEN "seeding" ELSE "ready")
          /\ UNCHANGED <<config, exports, files>>
      BY <1>5 DEF StartRun, connectorVars, volumeVars
    <2>2. ASSUME config.seeded PROVE Len(files) <= Slot(run + 1, 1)
      <3>1. CASE run = 0
        <4>1. Slot(1, 1) \in Nat
          BY SlotFacts, ConstantFacts
        <4> QED
          BY <2>2, <3>1, <4>1 DEF FilesCounted
      <3>2. CASE run >= 1
        <4>1. run \in Nat \ {0} /\ tries \in 1..MaxTries
          BY <1>1, <3>2, ConstantFacts DEF FilesCounted, TypeOK
        <4>2. Slot(run, tries) \in Nat /\ Slot(run, tries) + Drops <= Slot(run + 1, 1)
          BY <4>1, SlotFacts
        <4>3. run + 1 \in Nat \ {0} /\ 1 \in 1..MaxTries
          BY <1>1, ConstantFacts
        <4>4. Slot(run + 1, 1) \in Nat
          BY <4>3, SlotFacts
        <4>5. Len(files) <= Slot(run, tries) + Drops
          BY <2>1, <2>2, <3>2 DEF FilesCounted
        <4> QED
          BY <1>1, <4>2, <4>4, <4>5, ConstantFacts
      <3> QED
        BY <1>1, <3>1, <3>2
    <2>3. Slot(run, tries)' = Slot(run + 1, 1)
      BY <2>1 DEF Slot
    <2>4. Slot(run + 1, 1) \in Nat
      <3>1. run + 1 \in Nat \ {0} /\ 1 \in 1..MaxTries
        BY <1>1, ConstantFacts
      <3> QED
        BY <3>1, SlotFacts
    <2>5. config.seeded => Len(files)' <= Slot(run, tries)' + (IF phase' = "seeding" THEN drop' - 1 ELSE Drops)
      BY <1>1, <2>1, <2>2, <2>3, <2>4
    <2>6. run' >= 1 /\ tries' >= 1 /\ run' # 0
      BY <1>1, <2>1
    <2> QED
      BY <1>1, <2>1, <2>5, <2>6 DEF FilesCounted
  <1>6. CASE SeedFails
    <2>1. /\ phase = "seeding" /\ drop' = 1 /\ cleared' = FALSE
          /\ UNCHANGED <<config, exports, files, run>>
      BY <1>6 DEF SeedFails, connectorVars, volumeVars
    <2>2. config.seeded /\ run >= 1 /\ tries >= 1 /\ tries \in 1..MaxTries /\ run \in Nat \ {0}
      BY <1>1, <2>1, ConstantFacts DEF FilesCounted, TypeOK
    <2>3. Slot(run, tries) \in Nat /\ Len(files) <= Slot(run, tries) + (drop - 1)
      BY <2>1, <2>2, SlotFacts DEF FilesCounted
    <2>4. CASE tries < MaxTries
      <3>1. tries' = tries + 1 /\ phase' = phase
        BY <1>6, <2>4 DEF SeedFails
      <3>2. Slot(run, tries + 1) = Slot(run, tries) + Drops
        BY <1>1, <2>2, <2>4, SlotFacts, ConstantFacts
      <3>3. Slot(run, tries)' = Slot(run, tries) + Drops
        BY <2>1, <3>1, <3>2 DEF Slot
      <3>4. Len(files') <= Slot(run, tries)' + (drop' - 1)
        BY <1>1, <2>1, <2>3, <3>3, ConstantFacts
      <3> QED
        BY <1>1, <2>1, <2>2, <3>1, <3>4 DEF FilesCounted
    <2>5. CASE ~(tries < MaxTries)
      <3>1. tries' = tries /\ phase' = "idle"
        BY <1>6, <2>5 DEF SeedFails
      <3>2. Slot(run, tries)' = Slot(run, tries)
        BY <2>1, <3>1 DEF Slot
      <3>3. Len(files') <= Slot(run, tries)' + Drops
        BY <1>1, <2>1, <2>3, <3>2, ConstantFacts
      <3> QED
        BY <1>1, <2>1, <2>2, <3>1, <3>3 DEF FilesCounted
    <2> QED
      BY <2>4, <2>5
  <1>7. CASE ClearDrop
    <2>1. /\ drop <= Drops /\ cleared' = TRUE
          /\ UNCHANGED <<config, exports, files, phase, run, tries, drop>>
      BY <1>7 DEF ClearDrop, connectorVars
    <2> QED
      BY <2>1 DEF FilesCounted, Slot
  <1>8. ASSUME UNCHANGED <<config, exports, files, run, tries, drop, cleared>>,
               phase' = phase \/ phase' # "seeding"
        PROVE  FilesCounted'
    <2>1. Slot(run, tries)' = Slot(run, tries)
      BY <1>8 DEF Slot
    <2>2. ASSUME config.seeded, run >= 1
          PROVE  Len(files) <= Slot(run, tries) + (IF phase' = "seeding" THEN drop - 1 ELSE Drops)
      <3>1. Slot(run, tries) \in Nat
        <4>1. run \in Nat \ {0} /\ tries \in 1..MaxTries
          BY <1>1, <2>2, ConstantFacts DEF FilesCounted, TypeOK
        <4> QED
          BY <4>1, SlotFacts
      <3>2. Len(files) <= Slot(run, tries) + (IF phase = "seeding" THEN drop - 1 ELSE Drops)
        BY <2>2 DEF FilesCounted
      <3> QED
        BY <1>1, <1>8, <3>1, <3>2, ConstantFacts
    <2> QED
      BY <1>8, <2>1, <2>2 DEF FilesCounted
  <1>9. ASSUME SeedDone \/ StartUpdate \/ BronzeDone \/ SilverDone \/ UpdateCompletes \/ UpdateFails
        PROVE  UNCHANGED <<config, exports, files, run, tries, drop, cleared>> /\ phase' # "seeding"
    BY <1>9 DEF SeedDone, StartUpdate, BronzeDone, SilverDone, UpdateCompletes, UpdateFails,
       UpdateEnds, connectorVars, volumeVars
  <1>10. ASSUME NEW k \in Keys, SourceChanges(k)
         PROVE  UNCHANGED <<config, exports, files, run, tries, drop, cleared, phase>>
    BY <1>10 DEF SourceChanges, volumeVars, jobVars
  <1> QED
    BY <1>2, <1>3, <1>4, <1>5, <1>6, <1>7, <1>8, <1>9, <1>10
    DEF Next, NextDay, Ingest, Forgo, SilverBatch, HealthRefresh, PerDayRefresh,
        vars, connectorVars, volumeVars, jobVars

-----------------------------------------------------------------------------
\* Auto Loader

\* A file that is read was waiting, one that is forgone is gone, and none comes
\* back to the volume: what was discovered and is there was read or waits.
LEMMA ReadsStep ==
  ASSUME TypeOK, FilesCounted, ReadsAccounted, [Next]_vars
  PROVE  ReadsAccounted'
PROOF
  <1>1. ASSUME NEW f \in backlog, Ingest(f) PROVE ReadsAccounted'
    <2>1. /\ phase = "bronze" /\ f \in backlog /\ backlog' = backlog \ {f}
          /\ UNCHANGED <<volume, listed, held, phase>>
      BY <1>1 DEF Ingest, volumeVars, jobVars
    <2>2. /\ Len(bronze) \in Nat
          /\ DOMAIN bronze = 1..Len(bronze)
          /\ DOMAIN bronze' = 1..(Len(bronze) + 1)
          /\ \A b \in DOMAIN bronze : b \in DOMAIN bronze' /\ bronze'[b] = bronze[b]
          /\ bronze'[Len(bronze) + 1].of = f
      BY <1>1, IngestFacts
    <2>3. \A b \in DOMAIN bronze : bronze[b].of # f
      BY <2>1, RowFacts
    <2>4. \A b \in DOMAIN bronze' : b \in DOMAIN bronze \/ b = Len(bronze) + 1
      BY <2>2
    <2>5. \A b, c \in DOMAIN bronze' : bronze'[b].of = bronze'[c].of => b = c
      BY <2>2, <2>3, <2>4 DEF ReadsAccounted
    <2>6. Len(bronze) + 1 \in DOMAIN bronze'
      BY <2>2
    <2>7. FilesRead \cup {f} \subseteq FilesRead'
      BY <2>2, <2>6 DEF FilesRead
    <2> QED
      BY <2>1, <2>5, <2>7 DEF ReadsAccounted
  <1>2. ASSUME NEW f \in backlog, Forgo(f) PROVE ReadsAccounted'
    BY <1>2 DEF Forgo, volumeVars, jobVars, tableVars, ReadsAccounted, FilesRead
  <1>3. ASSUME NEW d \in 0..Drops, NEW rows \in Rows, NEW at \in Times, Lands(d, rows, at),
               UNCHANGED <<bronze, listed, backlog, held, phase>>
        PROVE  ReadsAccounted'
    <2>1. volume' = volume \cup {Len(files) + 1}
      BY <1>3, LandsFacts
    <2>2. Len(files) + 1 \notin listed
      BY SequenceFacts DEF TypeOK
    <2> QED
      BY <1>3, <2>1, <2>2 DEF ReadsAccounted, FilesRead
  <1>4. ASSUME NEW rows \in exports, ExportLands(rows) PROVE ReadsAccounted'
    <2>1. PICK at \in Times : Lands(0, rows, at) /\ rows \in Rows
      BY <1>4, ExportLandsFacts
    <2>2. 0 \in 0..Drops
      BY ConstantFacts
    <2> QED
      BY <1>3, <1>4, <2>1, <2>2 DEF ExportLands, jobVars, loaderVars, tableVars
  <1>5. CASE WriteDrop
    <2>1. drop \in 0..Drops
      BY <1>5, WriteDropFacts
    <2> QED
      BY <1>3, <1>5, <2>1, WriteDropFacts DEF WriteDrop, loaderVars, tableVars
  <1>6. CASE ClearDrop
    BY <1>6 DEF ClearDrop, loaderVars, tableVars, ReadsAccounted, FilesRead
  <1>7. CASE StartUpdate
    BY <1>7 DEF StartUpdate, volumeVars, tableVars, ReadsAccounted, FilesRead
  <1>8. CASE BronzeDone
    BY <1>8 DEF BronzeDone, volumeVars, loaderVars, tableVars, ReadsAccounted, FilesRead
  <1>9. ASSUME UNCHANGED <<volume, listed, backlog, held, bronze>>,
               \/ phase' \in {phase, "idle", "seeding", "ready"}
               \/ phase \in {"silver", "gold"} /\ phase' \in {"gold", "updated"}
        PROVE  ReadsAccounted'
    BY <1>9 DEF ReadsAccounted, FilesRead
  <1>10. ASSUME StartRun \/ SeedDone \/ SeedFails \/ SilverDone \/ UpdateCompletes \/ UpdateFails
         PROVE  /\ UNCHANGED <<volume, listed, backlog, held, bronze>>
                /\ \/ phase' \in {phase, "idle", "seeding", "ready"}
                   \/ phase \in {"silver", "gold"} /\ phase' \in {"gold", "updated"}
    BY <1>10 DEF StartRun, SeedDone, SeedFails, SilverDone, UpdateCompletes, UpdateFails,
       UpdateEnds, volumeVars, loaderVars, tableVars
  <1> QED
    BY <1>1, <1>2, <1>4, <1>5, <1>6, <1>7, <1>8, <1>9, <1>10
    DEF Next, NextDay, SourceChanges, ExportBegins, SilverBatch, HealthRefresh,
        PerDayRefresh, vars, volumeVars, jobVars, loaderVars, tableVars

-----------------------------------------------------------------------------
\* The daily views

\* A file's rows have keys of Keys.
LEMMA RowKeysFacts ==
  ASSUME TypeOK, NEW b \in DOMAIN bronze
  PROVE  RowKeys(b) \subseteq Keys /\ IsFiniteSet(RowKeys(b))
PROOF
  <1>1. FileOf(b) \in File
    BY RowFacts, SequenceFacts DEF TypeOK, FileOf
  <1>2. FileOf(b).rows \in Rows
    BY <1>1 DEF File
  <1>3. RowKeys(b) \subseteq Keys
    BY <1>2 DEF Rows, RowKeys
  <1> QED
    BY <1>3, FilesAssumption, FS_Subset

\* Bronze, what its elements hold, and the days are finite.
LEMMA BronzeFinite ==
  ASSUME TypeOK
  PROVE  /\ IsFiniteSet(DOMAIN bronze)
         /\ \A B \in SUBSET DOMAIN bronze : IsFiniteSet(B) /\ IsFiniteSet(RowsIn(B))
                                                          /\ IsFiniteSet(FilesIn(B))
         /\ IsFiniteSet(Days)
PROOF
  <1>1. Len(bronze) \in Nat /\ DOMAIN bronze = 1..Len(bronze)
        /\ Len(files) \in Nat /\ DOMAIN files = 1..Len(files)
    BY SequenceFacts DEF TypeOK
  <1>2. IsFiniteSet(DOMAIN bronze) /\ IsFiniteSet(DOMAIN files)
    BY <1>1, FS_Interval
  <1>3. IsFiniteSet(Days)
    BY ConstantFacts, FS_Interval DEF Days
  <1>4. IsFiniteSet((DOMAIN bronze) \X Keys)
    BY <1>2, FilesAssumption, FS_Product
  <1>5. ASSUME NEW B \in SUBSET DOMAIN bronze
        PROVE  IsFiniteSet(B) /\ IsFiniteSet(RowsIn(B)) /\ IsFiniteSet(FilesIn(B))
    <2>1. RowsIn(B) \subseteq (DOMAIN bronze) \X Keys
      BY DEF RowsIn
    <2>2. FilesIn(B) \subseteq DOMAIN files
      BY RowFacts DEF FilesIn
    <2> QED
      BY <1>2, <1>4, <2>1, <2>2, FS_Subset
  <1> QED
    BY <1>2, <1>3, <1>5

\* Finite sets and their sizes are the same in the instance for perDay.
LEMMA PerDaySumSets ==
  \A S : (PerDaySum!IsFiniteSet(S) <=> IsFiniteSet(S)) /\ PerDaySum!Cardinality(S) = Cardinality(S)
PROOF
  BY DEF PerDaySum!IsFiniteSet, IsFiniteSet, PerDaySum!Cardinality, Cardinality

\* Finite sets and their sizes are the same in the instance for files.
LEMMA FilesSumSets ==
  \A S : (FilesSum!IsFiniteSet(S) <=> IsFiniteSet(S)) /\ FilesSum!Cardinality(S) = Cardinality(S)
PROOF
  BY DEF FilesSum!IsFiniteSet, IsFiniteSet, FilesSum!Cardinality, Cardinality

\* Finite sets and their sizes are the same in the instance for rows.
LEMMA RowsSumSets ==
  \A S : (RowsSum!IsFiniteSet(S) <=> IsFiniteSet(S)) /\ RowsSum!Cardinality(S) = Cardinality(S)
PROOF
  BY DEF RowsSum!IsFiniteSet, IsFiniteSet, RowsSum!Cardinality, Cardinality

\* Finite sets and their sizes are the same in the instance for bronze.
LEMMA ReadSumSets ==
  \A S : (ReadSum!IsFiniteSet(S) <=> IsFiniteSet(S)) /\ ReadSum!Cardinality(S) = Cardinality(S)
PROOF
  BY DEF ReadSum!IsFiniteSet, IsFiniteSet, ReadSum!Cardinality, Cardinality

\* The sum of the sizes of what some elements of bronze hold is the number of
\* the rows of bronze that are theirs.
LEMMA RowsAreCounted ==
  ASSUME TypeOK, NEW B \in SUBSET DOMAIN bronze
  PROVE  MapThenSumSet(LAMBDA b : Cardinality(RowKeys(b)), B) = Cardinality(RowsIn(B))
PROOF
  <1> DEFINE A == [b \in B |-> {b} \X RowKeys(b)]
  <1>1. IsFiniteSet(B)
    BY BronzeFinite
  <1>2. ASSUME NEW b \in B PROVE IsFiniteSet(A[b]) /\ Cardinality(RowKeys(b)) = Cardinality(A[b])
    <2>1. IsFiniteSet(RowKeys(b)) /\ Cardinality(RowKeys(b)) \in Nat
      BY RowKeysFacts, FS_CardinalityType
    <2>2. IsFiniteSet({b}) /\ Cardinality({b}) = 1
      BY FS_Singleton
    <2>3. /\ IsFiniteSet({b} \X RowKeys(b))
          /\ Cardinality({b} \X RowKeys(b)) = 1 * Cardinality(RowKeys(b))
      BY <2>1, <2>2, FS_Product
    <2> QED
      BY <2>1, <2>3
  <1>3. \A b, c \in B : \A r : r \in A[b] /\ r \in A[c] => b = c
    OBVIOUS
  <1>4. \A r : r \in RowsIn(B) <=> \E b \in B : r \in A[b]
    BY RowKeysFacts DEF RowsIn
  <1> HIDE DEF A
  <1>5. ReadSum!Total(0, B) = Cardinality(RowsIn(B))
    BY <1>1, <1>2, <1>3, <1>4, ReadSum!TotalCounts, ReadSumSets
  <1>6. ReadSum!Total(0, B) = MapThenSumSet(LAMBDA b : Cardinality(RowKeys(b)), B)
    BY DEF ReadSum!Total, ReadSum!MapThenSumSet, ReadSum!MapThenFoldSet, MapThenSumSet, MapThenFoldSet
  <1> QED
    BY <1>5, <1>6

\* The elements of bronze of different days are apart, and those of all days are
\* all of bronze.
LEMMA DaysFacts ==
  ASSUME TypeOK
  PROVE  /\ \A d \in Days : IngestedOn(d) \in SUBSET DOMAIN bronze
         /\ \A b \in DOMAIN bronze : bronze[b].day \in Days /\ b \in IngestedOn(bronze[b].day)
         /\ \A d \in Days : \A b \in IngestedOn(d) : bronze[b].day = d
PROOF
  <1>1. \A b \in DOMAIN bronze : bronze[b] \in [of : listed \ backlog, day : 0..today]
    BY SequenceFacts DEF TypeOK
  <1>2. today \in Days
    BY DEF TypeOK
  <1>3. \A b \in DOMAIN bronze : bronze[b].day \in Days
    BY <1>1, <1>2, ConstantFacts DEF Days
  <1> QED
    BY <1>3 DEF IngestedOn

\* Inside the window a day's health is the number of its files and of its rows.
LEMMA HealthCounts ==
  ASSUME TypeOK, today <= Window, NEW d \in Days
  PROVE  Health(d) = [files |-> Cardinality(FilesIn(IngestedOn(d))),
                      rows |-> Cardinality(RowsIn(IngestedOn(d)))]
PROOF
  <1>1. d >= today - Window
    BY ConstantFacts DEF TypeOK, Days
  <1>2. RowsIngested(d) = Cardinality(RowsIn(IngestedOn(d)))
    <2>1. IngestedOn(d) \in SUBSET DOMAIN bronze
      BY DaysFacts
    <2> QED
      BY <2>1, RowsAreCounted DEF RowsIngested
  <1> QED
    BY <1>1, <1>2 DEF Health, FilesIngested, FilesIn

\* The views count what was there: while bronze stays, what is counted stays.
LEMMA CountedKept ==
  ASSUME TypeOK, FilesCounted, [Next]_vars, UNCHANGED bronze
  PROVE  /\ \A d \in Days : /\ FilesIn(IngestedOn(d))' = FilesIn(IngestedOn(d))
                            /\ RowsIn(IngestedOn(d))' = RowsIn(IngestedOn(d))
         /\ UNCHANGED silver => \A d \in Days : PerDay(d)' = PerDay(d)
PROOF
  <1>1. \A d \in Days : IngestedOn(d)' = IngestedOn(d) /\ IngestedOn(d) \subseteq DOMAIN bronze
    BY DEF IngestedOn
  <1>2. \A b \in DOMAIN bronze : RowKeys(b)' = RowKeys(b)
    BY RowFacts, HistoryKept DEF RowKeys, FileOf
  <1> QED
    BY <1>1, <1>2 DEF FilesIn, RowsIn, PerDay

\* A view is refreshed from tables at rest, and they rest until the update ends.
LEMMA ViewsStep ==
  ASSUME TypeOK, FilesCounted, ViewsTrue, [Next]_vars
  PROVE  ViewsTrue'
PROOF
  <1> DEFINE Counts == [d \in Days |-> [files |-> Cardinality(FilesIn(IngestedOn(d))),
                                        rows |-> Cardinality(RowsIn(IngestedOn(d)))]]
             PerDays == [d \in Days |-> PerDay(d)]
  <1>1. UNCHANGED bronze => Counts' = Counts
    <2> SUFFICES ASSUME UNCHANGED bronze PROVE Counts' = Counts
      OBVIOUS
    <2>1. \A d \in Days : /\ FilesIn(IngestedOn(d))' = FilesIn(IngestedOn(d))
                          /\ RowsIn(IngestedOn(d))' = RowsIn(IngestedOn(d))
      BY CountedKept
    <2>2. \A d \in Days : /\ Cardinality(FilesIn(IngestedOn(d)))' = Cardinality(FilesIn(IngestedOn(d)))
                          /\ Cardinality(RowsIn(IngestedOn(d)))' = Cardinality(RowsIn(IngestedOn(d)))
      BY <2>1
    <2> QED
      BY <2>2
  <1>2. UNCHANGED <<bronze, silver>> => PerDays' = PerDays
    <2> SUFFICES ASSUME UNCHANGED <<bronze, silver>> PROVE PerDays' = PerDays
      OBVIOUS
    <2>1. \A d \in Days : PerDay(d)' = PerDay(d)
      BY CountedKept
    <2> QED
      BY <2>1
  <1>3. /\ gold = [health |-> gold.health, perDay |-> gold.perDay]
        /\ "health" \in refreshed => phase \in {"silver", "gold"}
        /\ "perDay" \in refreshed => phase = "gold"
        /\ phase \in {"gold", "updated"} => silverRead = Len(bronze)
        /\ "perDay" \in refreshed \/ phase = "updated" => gold.perDay = PerDays
        /\ ("health" \in refreshed \/ phase = "updated") /\ today <= Window => gold.health = Counts
    BY DEF ViewsTrue
  <1>4. /\ today \in Nat /\ refreshed \subseteq Views
        /\ today' \in Nat /\ (today' = today \/ today' = today + 1)
    <2>1. today' = today \/ today' = today + 1
      BY DEF Next, NextDay, vars, SourceChanges, ExportBegins, ExportLands, StartRun, ClearDrop,
         WriteDrop, SeedDone, SeedFails, StartUpdate, Ingest, Forgo, BronzeDone, SilverBatch,
         SilverDone, HealthRefresh, PerDayRefresh, UpdateCompletes, UpdateFails, UpdateEnds
    <2>2. today \in Nat /\ refreshed \subseteq Views
      BY ConstantFacts DEF TypeOK, Days
    <2> QED
      BY <2>1, <2>2
  <1> SUFFICES
        /\ gold' = [health |-> gold'.health, perDay |-> gold'.perDay]
        /\ "health" \in refreshed' => phase' \in {"silver", "gold"}
        /\ "perDay" \in refreshed' => phase' = "gold"
        /\ phase' \in {"gold", "updated"} => silverRead' = Len(bronze')
        /\ "perDay" \in refreshed' \/ phase' = "updated" => gold'.perDay = PerDays'
        /\ ("health" \in refreshed' \/ phase' = "updated") /\ today' <= Window =>
             gold'.health = Counts'
    BY DEF ViewsTrue
  <1> HIDE DEF Counts, PerDays
  <1>5. CASE HealthRefresh
    <2>1. /\ gold' = [gold EXCEPT !.health = [d \in Days |-> Health(d)]]
          /\ refreshed' = refreshed \cup {"health"} /\ phase \in {"silver", "gold"}
          /\ UNCHANGED <<phase, today, bronze, silver, silverRead>>
      BY <1>5 DEF HealthRefresh, jobVars
    <2>2. today <= Window => [d \in Days |-> Health(d)] = Counts
      BY HealthCounts DEF Counts
    <2>3. gold' = [health |-> [d \in Days |-> Health(d)], perDay |-> gold.perDay]
      BY <1>3, <2>1
    <2> QED
      BY <1>1, <1>2, <1>3, <2>1, <2>2, <2>3
  <1>6. CASE PerDayRefresh
    <2>1. /\ gold' = [gold EXCEPT !.perDay = PerDays]
          /\ refreshed' = refreshed \cup {"perDay"} /\ phase = "gold"
          /\ UNCHANGED <<phase, today, bronze, silver, silverRead>>
      BY <1>6 DEF PerDayRefresh, jobVars, PerDays
    <2>2. gold' = [health |-> gold.health, perDay |-> PerDays]
      BY <1>3, <2>1
    <2> QED
      BY <1>1, <1>2, <1>3, <2>1, <2>2
  <1>7. ASSUME NEW n \in 1..Len(bronze), SilverBatch(n)
        PROVE  /\ phase = "silver" /\ UNCHANGED <<phase, today, bronze, refreshed, gold>>
    BY <1>7 DEF SilverBatch, jobVars
  <1>8. ASSUME \/ \E rows \in exports : ExportLands(rows)
               \/ ClearDrop
               \/ WriteDrop
               \/ \E k \in Keys : SourceChanges(k)
               \/ \E K \in Extents : ExportBegins(K)
               \/ \E f \in backlog : Forgo(f)
               \/ NextDay
               \/ UNCHANGED vars
        PROVE  UNCHANGED <<phase, bronze, silver, silverRead, refreshed, gold>>
    BY <1>8 DEF ExportLands, ClearDrop, WriteDrop, SourceChanges, ExportBegins, Forgo, NextDay,
       vars, jobVars, tableVars
  <1>9. ASSUME StartRun \/ SeedDone \/ SeedFails \/ StartUpdate \/ BronzeDone
        PROVE  /\ phase \notin {"silver", "gold"} /\ phase' \notin {"gold", "updated"}
               /\ UNCHANGED <<refreshed, gold>>
    BY <1>9 DEF StartRun, SeedDone, ReadBack, SeedFails, StartUpdate, BronzeDone, tableVars
  <1>10. ASSUME NEW f \in backlog, Ingest(f)
         PROVE  phase = "bronze" /\ UNCHANGED <<phase, refreshed, gold>>
    BY <1>10 DEF Ingest, jobVars
  <1>11. CASE SilverDone
    BY <1>1, <1>2, <1>3, <1>11 DEF SilverDone, tableVars
  <1>12. ASSUME UpdateFails
         PROVE  refreshed' = {} /\ phase' \in {"ready", "idle"} /\ gold' = gold
    BY <1>12 DEF UpdateFails, UpdateEnds
  <1>13. CASE UpdateCompletes
    BY <1>1, <1>2, <1>3, <1>13 DEF UpdateCompletes, UpdateEnds, Views
  <1>14. ASSUME \E n \in 1..Len(bronze) : SilverBatch(n)
         PROVE  phase = "silver" /\ UNCHANGED <<phase, today, bronze, refreshed, gold>>
    BY <1>7, <1>14
  <1>15. ASSUME \E f \in backlog : Ingest(f)
         PROVE  phase = "bronze" /\ UNCHANGED <<phase, refreshed, gold>>
    BY <1>10, <1>15
  <1>16. ASSUME UNCHANGED <<phase, bronze, silver, silverRead, refreshed, gold>> PROVE
        /\ gold' = [health |-> gold'.health, perDay |-> gold'.perDay]
        /\ "health" \in refreshed' => phase' \in {"silver", "gold"}
        /\ "perDay" \in refreshed' => phase' = "gold"
        /\ phase' \in {"gold", "updated"} => silverRead' = Len(bronze')
        /\ "perDay" \in refreshed' \/ phase' = "updated" => gold'.perDay = PerDays'
        /\ ("health" \in refreshed' \/ phase' = "updated") /\ today' <= Window =>
             gold'.health = Counts'
    <2>1. today' <= Window => today <= Window
      BY <1>4, ConstantFacts
    <2> QED
      BY <1>1, <1>2, <1>3, <1>16, <2>1
  <1>17. CASE \E n \in 1..Len(bronze) : SilverBatch(n)
    BY <1>1, <1>3, <1>14, <1>17
  <1>18. CASE StartRun \/ SeedDone \/ SeedFails \/ StartUpdate \/ BronzeDone
    BY <1>3, <1>9, <1>18
  <1>19. CASE \E f \in backlog : Ingest(f)
    BY <1>3, <1>15, <1>19
  <1>20. CASE UpdateFails
    BY <1>3, <1>12, <1>20
  <1> QED
    BY <1>5, <1>6, <1>8, <1>11, <1>13, <1>16, <1>17, <1>18, <1>19, <1>20 DEF Next

\* Silver is finite.
LEMMA SilverFinite ==
  ASSUME TypeOK
  PROVE  IsFiniteSet(DOMAIN silver)
PROOF
  <1>1. Len(bronze) \in Nat /\ DOMAIN bronze = 1..Len(bronze) /\ silverRead \in 0..Len(bronze)
    BY SequenceFacts DEF TypeOK
  <1> DEFINE P == (0..Len(bronze)) \X Keys
  <1>2. IsFiniteSet(0..Len(bronze))
    BY <1>1, FS_Interval
  <1>3. IsFiniteSet(P)
    BY <1>2, FilesAssumption, FS_Product
  <1>4. \A b \in 1..silverRead : SilverKeys(b) \subseteq P
    <2> SUFFICES ASSUME NEW b \in 1..silverRead PROVE SilverKeys(b) \subseteq P
      OBVIOUS
    <2>1. b \in DOMAIN bronze /\ b \in 0..Len(bronze) /\ 0 \in 0..Len(bronze)
      BY <1>1
    <2>2. RowKeys(b) \subseteq Keys
      BY <2>1, RowKeysFacts
    <2> QED
      BY <2>1, <2>2 DEF SilverKeys
  <1>5. DOMAIN silver \subseteq P
    BY <1>4 DEF TypeOK
  <1> HIDE DEF P
  <1> QED
    BY <1>3, <1>5, FS_Subset

\* The rows of silver are counted on one day each.
LEMMA PerDayAddsUp ==
  ASSUME TypeOK, ViewsTrue
  PROVE  RowsCountedOnce
PROOF
  <1> SUFFICES ASSUME phase = "updated"
               PROVE  MapThenSumSet(LAMBDA d : gold.perDay[d], Days) =
                        Cardinality(UNION {SilverKeys(b) : b \in DOMAIN bronze})
    BY DEF RowsCountedOnce
  <1> DEFINE A == [d \in Days |-> {k \in DOMAIN silver : bronze[silver[k]].day = d}]
  <1>1. /\ silverRead = Len(bronze) /\ gold.perDay = [d \in Days |-> PerDay(d)]
        /\ DOMAIN bronze = 1..Len(bronze)
    BY SequenceFacts DEF ViewsTrue, TypeOK
  <1>2. DOMAIN silver = UNION {SilverKeys(b) : b \in DOMAIN bronze}
    BY <1>1 DEF TypeOK
  <1>3. \A k \in DOMAIN silver : bronze[silver[k]].day \in Days
    BY <1>1, DaysFacts DEF TypeOK
  <1>4. ASSUME NEW d \in Days
        PROVE  IsFiniteSet(A[d]) /\ gold.perDay[d] = Cardinality(A[d])
    <2>1. A[d] \subseteq DOMAIN silver /\ A[d] = {k \in DOMAIN silver : bronze[silver[k]].day = d}
      OBVIOUS
    <2>2. gold.perDay[d] = PerDay(d)
      BY <1>1
    <2> HIDE DEF A
    <2> QED
      BY <2>1, <2>2, SilverFinite, FS_Subset DEF PerDay
  <1>5. \A d, e \in Days : \A k : k \in A[d] /\ k \in A[e] => d = e
    OBVIOUS
  <1>6. \A k : k \in DOMAIN silver <=> \E d \in Days : k \in A[d]
    BY <1>3
  <1> HIDE DEF A
  <1>7. IsFiniteSet(Days)
    BY BronzeFinite
  <1> DEFINE f == gold.perDay
             U == DOMAIN silver
  <1>8. /\ \A d \in Days : IsFiniteSet(A[d]) /\ f[d] = Cardinality(A[d])
        /\ \A k : k \in U <=> \E d \in Days : k \in A[d]
    BY <1>4, <1>6
  <1> HIDE DEF f, U
  <1>9. PerDaySum!Total(f, Days) = Cardinality(U)
    BY <1>5, <1>7, <1>8, PerDaySum!TotalCounts, PerDaySumSets
  <1>10. PerDaySum!Total(f, Days) = MapThenSumSet(LAMBDA d : gold.perDay[d], Days)
    BY DEF f, PerDaySum!Total, PerDaySum!MapThenSumSet, PerDaySum!MapThenFoldSet, MapThenSumSet,
       MapThenFoldSet
  <1> QED
    BY <1>2, <1>9, <1>10 DEF U

\* A file and each of its rows are counted on the one day they were read.
LEMMA HealthAddsUp ==
  ASSUME TypeOK, ReadsAccounted, ViewsTrue
  PROVE  HealthAccountsForEveryFile
PROOF
  <1> SUFFICES ASSUME phase = "updated", today <= Window
               PROVE  /\ MapThenSumSet(LAMBDA d : gold.health[d].files, Days) =
                           Cardinality({bronze[b].of : b \in DOMAIN bronze})
                      /\ MapThenSumSet(LAMBDA d : gold.health[d].rows, Days) =
                           MapThenSumSet(LAMBDA b : Cardinality(RowKeys(b)), DOMAIN bronze)
    BY DEF HealthAccountsForEveryFile
  <1> DEFINE F == [d \in Days |-> FilesIn(IngestedOn(d))]
             R == [d \in Days |-> RowsIn(IngestedOn(d))]
             g == gold.health
  <1>1. \A d \in Days : g[d].files = Cardinality(F[d]) /\ g[d].rows = Cardinality(R[d])
    BY DEF ViewsTrue
  <1>2. IsFiniteSet(Days) /\ \A d \in Days : IsFiniteSet(F[d]) /\ IsFiniteSet(R[d])
    BY BronzeFinite, DaysFacts
  <1>3. \A d, e \in Days : \A x : x \in F[d] /\ x \in F[e] => d = e
    <2> SUFFICES ASSUME NEW d \in Days, NEW e \in Days, NEW x, x \in F[d], x \in F[e]
                 PROVE  d = e
      OBVIOUS
    <2>1. PICK b \in IngestedOn(d) : x = bronze[b].of
      BY DEF FilesIn
    <2>2. PICK c \in IngestedOn(e) : x = bronze[c].of
      BY DEF FilesIn
    <2>3. b = c
      BY <2>1, <2>2, DaysFacts DEF ReadsAccounted
    <2> QED
      BY <2>3, DaysFacts
  <1>4. \A x : x \in FilesIn(DOMAIN bronze) <=> \E d \in Days : x \in F[d]
    BY DaysFacts DEF FilesIn
  <1>5. \A d, e \in Days : \A x : x \in R[d] /\ x \in R[e] => d = e
    BY DaysFacts DEF RowsIn
  <1>6. \A x : x \in RowsIn(DOMAIN bronze) <=> \E d \in Days : x \in R[d]
    BY DaysFacts DEF RowsIn
  <1> HIDE DEF F, R, g
  <1>7. FilesSum!Total(g, Days) = Cardinality(FilesIn(DOMAIN bronze))
    BY <1>1, <1>2, <1>3, <1>4, FilesSum!TotalCounts, FilesSumSets
  <1>8. RowsSum!Total(g, Days) = Cardinality(RowsIn(DOMAIN bronze))
    BY <1>1, <1>2, <1>5, <1>6, RowsSum!TotalCounts, RowsSumSets
  <1>9. FilesSum!Total(g, Days) = MapThenSumSet(LAMBDA d : gold.health[d].files, Days)
    BY DEF g, FilesSum!Total, FilesSum!MapThenSumSet, FilesSum!MapThenFoldSet, MapThenSumSet,
       MapThenFoldSet
  <1>10. RowsSum!Total(g, Days) = MapThenSumSet(LAMBDA d : gold.health[d].rows, Days)
    BY DEF g, RowsSum!Total, RowsSum!MapThenSumSet, RowsSum!MapThenFoldSet, MapThenSumSet,
       MapThenFoldSet
  <1>11. MapThenSumSet(LAMBDA b : Cardinality(RowKeys(b)), DOMAIN bronze) =
           Cardinality(RowsIn(DOMAIN bronze))
    BY RowsAreCounted
  <1> QED
    BY <1>7, <1>8, <1>9, <1>10, <1>11 DEF FilesIn

-----------------------------------------------------------------------------
\* The demo

\* In the demo the latest time is that of the latest file and of no file before.
LEMMA DemoTimes ==
  ASSUME TypeOK, DemoFiles, config.seeded
  PROVE  \A f \in DOMAIN files : files[f].at <= LastTime /\ LastTime \in Nat
PROOF
  <1> SUFFICES ASSUME NEW f \in DOMAIN files
               PROVE  files[f].at <= LastTime /\ LastTime \in Nat
    OBVIOUS
  <1>1. /\ Len(files) \in Nat /\ DOMAIN files = 1..Len(files)
        /\ \A i \in DOMAIN files : files[i] \in File
    BY SequenceFacts DEF TypeOK
  <1>2. files # <<>> /\ Len(files) \in DOMAIN files
    BY <1>1
  <1>3. LastTime = files[Len(files)].at
    BY <1>2 DEF LastTime, Last
  <1>4. files[Len(files)].at \in Nat /\ files[f].at \in Nat
    BY <1>1, <1>2 DEF File, Times
  <1>5. f < Len(files) => files[f].at < files[Len(files)].at
    BY <1>2 DEF DemoFiles
  <1> QED
    BY <1>1, <1>3, <1>4, <1>5

\* A drop that is overwritten leaves the volume before its new file enters it.
LEMMA WriteDropKeeps ==
  ASSUME TypeOK, FilesCounted, DemoFiles, WriteDrop
  PROVE  DemoFiles'
PROOF
  <1> DEFINE n == Len(files)
             rows == [k \in Holds[drop] |-> LastTime + 1]
  <1>1. /\ drop \in 1..Drops /\ LastTime + 1 \in Times /\ rows \in Rows
        /\ Lands(drop, rows, LastTime + 1)
    BY WriteDropFacts
  <1>2. /\ phase = "seeding" /\ cleared /\ drop' = drop + 1 /\ cleared' = FALSE
        /\ UNCHANGED <<config, phase, held>>
    BY DEF WriteDrop, loaderVars
  <1>3. n \in Nat /\ DOMAIN files = 1..n /\ volume \subseteq DOMAIN files
    BY SequenceFacts DEF TypeOK
  <1>4. drop \in 0..Drops
    BY <1>1
  <1>5. /\ DOMAIN files' = 1..(n + 1)
        /\ \A i \in 1..n : files'[i] = files[i]
        /\ volume' = volume \cup {n + 1}
    BY <1>1, <1>4, LandsFacts
  <1>6. files'[n + 1] = [drop |-> drop, rows |-> rows, at |-> LastTime + 1]
    <2> DEFINE new == [drop |-> drop, rows |-> rows, at |-> LastTime + 1]
    <2>1. files' = Append(files, new) /\ files \in Seq(File)
      BY <1>1 DEF Lands, TypeOK
    <2>2. new \in File
      BY <1>1, <1>4 DEF File
    <2> HIDE DEF new
    <2>3. files'[n + 1] = new
      BY <2>1, <2>2, AppendFacts
    <2> QED
      BY <2>3 DEF new
  <1> HIDE DEF n
  <1> SUFFICES ASSUME config.seeded PROVE DemoFiles'
    BY <1>2 DEF DemoFiles
  <1>7. /\ files'[n + 1].drop = drop /\ DOMAIN files'[n + 1].rows = Holds[drop]
        /\ files'[n + 1].at = LastTime + 1
    BY <1>6
  <1> HIDE DEF rows
  <1>8. \A f \in DOMAIN files' : /\ files'[f].drop \in 1..Drops
                                 /\ DOMAIN files'[f].rows = Holds[files'[f].drop]
    BY <1>1, <1>3, <1>5, <1>7 DEF DemoFiles
  <1>9. \A f \in 1..n : files[f].at < LastTime + 1
    <2>1. \A f \in 1..n : files[f] \in File
      BY <1>3, SequenceFacts DEF TypeOK
    <2>2. \A f \in 1..n : files[f].at \in Nat
      BY <2>1 DEF File, Times
    <2> QED
      BY <1>3, <2>2, DemoTimes
  <1>10. \A f, g \in DOMAIN files' : f < g => files'[f].at < files'[g].at
    <2> SUFFICES ASSUME NEW f \in DOMAIN files', NEW g \in DOMAIN files', f < g
                 PROVE  files'[f].at < files'[g].at
      OBVIOUS
    <2>1. f \in 1..n
      BY <1>3, <1>5
    <2>2. CASE g = n + 1
      BY <1>5, <1>7, <1>9, <2>1, <2>2
    <2>3. CASE g \in 1..n
      BY <1>3, <1>5, <2>1, <2>3 DEF DemoFiles
    <2> QED
      BY <1>3, <1>5, <2>2, <2>3
  <1>11. \A f \in volume', g \in DOMAIN files' : files'[g].drop = files'[f].drop => g <= f
    <2> SUFFICES ASSUME NEW f \in volume', NEW g \in DOMAIN files', files'[g].drop = files'[f].drop
                 PROVE  g <= f
      OBVIOUS
    <2>1. CASE f = n + 1
      BY <1>3, <1>5, <2>1
    <2>2. CASE f \in volume
      <3>1. f \in 1..n /\ files[f].drop # drop
        BY <1>2, <1>3, <2>2 DEF DemoFiles
      <3>2. g \in 1..n
        BY <1>3, <1>5, <1>7, <3>1
      <3> QED
        BY <1>3, <1>5, <2>2, <3>1, <3>2 DEF DemoFiles
    <2> QED
      BY <1>5, <2>1, <2>2
  <1>12. \A d \in 1..(drop' - 1) : \E f \in volume' : files'[f].drop = d
    <2> SUFFICES ASSUME NEW d \in 1..(drop' - 1) PROVE \E f \in volume' : files'[f].drop = d
      OBVIOUS
    <2>1. CASE d = drop
      BY <1>5, <1>7, <2>1
    <2>2. CASE d \in 1..(drop - 1)
      BY <1>2, <1>3, <1>5, <2>2 DEF DemoFiles
    <2> QED
      BY <1>1, <1>2, <2>1, <2>2
  <1> QED
    BY <1>2, <1>8, <1>10, <1>11, <1>12 DEF DemoFiles

\* The demo's files are what DemoFiles says, whichever tries of the seeder fail.
LEMMA DemoStep ==
  ASSUME TypeOK, FilesCounted, DemoFiles, [Next]_vars
  PROVE  DemoFiles'
PROOF
  <1>1. config' = config
    BY HistoryKept
  <1> SUFFICES ASSUME config.seeded PROVE DemoFiles'
    BY <1>1 DEF DemoFiles
  <1>2. exports = {}
    BY DEF FilesCounted
  <1>3. CASE WriteDrop
    BY <1>3, WriteDropKeeps
  <1>4. CASE ClearDrop
    <2>1. /\ volume' = {f \in volume : files[f].drop # drop} /\ phase = "seeding"
          /\ UNCHANGED <<files, phase, drop, held>>
      BY <1>4 DEF ClearDrop, loaderVars
    <2>2. \A d \in 1..(drop - 1) : \E f \in volume' : files[f].drop = d
      <3> SUFFICES ASSUME NEW d \in 1..(drop - 1) PROVE \E f \in volume' : files[f].drop = d
        OBVIOUS
      <3>1. PICK f \in volume : files[f].drop = d
        BY <2>1 DEF DemoFiles
      <3>2. d # drop
        BY DEF TypeOK
      <3> QED
        BY <2>1, <3>1, <3>2
    <2> QED
      BY <1>1, <2>1, <2>2 DEF DemoFiles
  <1>5. CASE SeedDone
    <2>1. /\ phase = "seeding" /\ drop > Drops /\ phase' = "ready"
          /\ UNCHANGED <<files, volume, drop, cleared, held>>
      BY <1>5 DEF SeedDone, ReadBack, volumeVars, loaderVars
    <2>2. \A d \in 1..Drops : d \in 1..(drop - 1)
      BY <2>1, ConstantFacts DEF TypeOK
    <2> QED
      BY <1>1, <2>1, <2>2 DEF DemoFiles
  <1>6. ASSUME SeedFails \/ StartRun
        PROVE  /\ drop' = 1 /\ cleared' = FALSE /\ UNCHANGED <<files, volume>>
               /\ phase' \in {"seeding", "idle"}
    BY <1>6 DEF SeedFails, StartRun, volumeVars
  <1>7. CASE SeedFails \/ StartRun
    <2>1. /\ drop' = 1 /\ cleared' = FALSE /\ UNCHANGED <<files, volume>>
          /\ phase' \in {"seeding", "idle"}
      BY <1>6, <1>7
    <2>2. \A d \in 1..(drop' - 1) : FALSE
      BY <2>1
    <2> QED
      BY <1>1, <2>1, <2>2 DEF DemoFiles
  <1>8. CASE StartUpdate
    BY <1>1, <1>8 DEF StartUpdate, volumeVars, DemoFiles
  <1>9. ASSUME UNCHANGED <<files, volume, drop, cleared, held>>,
               \/ UNCHANGED phase
               \/ phase \in {"bronze", "silver", "gold"} /\ phase' # "seeding"
        PROVE  DemoFiles'
    BY <1>1, <1>9 DEF DemoFiles
  <1>10. ASSUME BronzeDone \/ SilverDone \/ UpdateCompletes \/ UpdateFails
         PROVE  /\ UNCHANGED <<files, volume, drop, cleared, held>>
                /\ phase \in {"bronze", "silver", "gold"} /\ phase' # "seeding"
    BY <1>10 DEF BronzeDone, SilverDone, UpdateCompletes, UpdateFails, UpdateEnds,
       volumeVars, loaderVars
  <1>11. CASE \E f \in backlog : Ingest(f)
    BY <1>9, <1>11 DEF Ingest, volumeVars, jobVars
  <1>12. CASE \E f \in backlog : Forgo(f)
    BY <1>9, <1>12 DEF Forgo, volumeVars, jobVars
  <1>13. CASE \E n \in 1..Len(bronze) : SilverBatch(n)
    BY <1>9, <1>13 DEF SilverBatch, volumeVars, jobVars, loaderVars
  <1> QED
    BY <1>2, <1>3, <1>4, <1>5, <1>7, <1>8, <1>9, <1>10, <1>11, <1>12, <1>13
    DEF Next, NextDay, SourceChanges, ExportBegins, HealthRefresh, PerDayRefresh,
        vars, volumeVars, jobVars, loaderVars

\* What silver shows after an update of the demo is the drops in the volume.
LEMMA DemoShows ==
  ASSUME TypeOK, ReadsAccounted, SilverLatest, ViewsTrue, DemoFiles
  PROVE  DemoShowsTheLastDrops
PROOF
  <1> SUFFICES ASSUME phase = "updated", config.seeded, config.dedup
               PROVE  /\ DOMAIN silver = {<<0, k>> : k \in UNION {Holds[d] : d \in 1..Drops}}
                      /\ \A k \in DOMAIN silver : bronze[silver[k]].of \in volume
    BY DEF DemoShowsTheLastDrops
  <1>1. /\ silverRead = Len(bronze) /\ DOMAIN bronze = 1..Len(bronze) /\ Len(bronze) \in Nat
        /\ held = volume
    BY SequenceFacts DEF ViewsTrue, DemoFiles, TypeOK
  <1>2. ASSUME NEW b \in DOMAIN bronze
        PROVE  /\ bronze[b].of \in DOMAIN files
               /\ files[bronze[b].of].drop \in 1..Drops
               /\ SilverKeys(b) = {<<0, k>> : k \in Holds[files[bronze[b].of].drop]}
               /\ ModifiedAt(b) = files[bronze[b].of].at /\ ModifiedAt(b) \in Nat
    <2>1. bronze[b].of \in DOMAIN files /\ ModifiedAt(b) \in Nat
      BY RowFacts
    <2>2. RowKeys(b) = Holds[files[bronze[b].of].drop] /\ files[bronze[b].of].drop \in 1..Drops
      BY <2>1 DEF DemoFiles, RowKeys, FileOf
    <2> QED
      BY <2>1, <2>2 DEF SilverKeys, ModifiedAt, FileOf
  <1>3. ASSUME NEW d \in 1..Drops
        PROVE  \E b \in DOMAIN bronze : bronze[b].of \in volume /\ files[bronze[b].of].drop = d
    <2>1. PICK f \in volume : files[f].drop = d
      BY DEF DemoFiles
    <2>2. f \in FilesRead
      BY <1>1, <2>1 DEF ReadsAccounted
    <2> QED
      BY <2>1, <2>2 DEF FilesRead
  <1>4. DOMAIN silver = UNION {SilverKeys(b) : b \in DOMAIN bronze}
    BY <1>1 DEF TypeOK
  <1>5. DOMAIN silver = {<<0, k>> : k \in UNION {Holds[d] : d \in 1..Drops}}
    <2> DEFINE K(d) == {<<0, k>> : k \in Holds[d]}
    <2>1. \A b \in DOMAIN bronze : \E d \in 1..Drops : SilverKeys(b) = K(d)
      BY <1>2
    <2>2. \A d \in 1..Drops : \E b \in DOMAIN bronze : SilverKeys(b) = K(d)
      BY <1>2, <1>3
    <2>3. DOMAIN silver = UNION {K(d) : d \in 1..Drops}
      <3> HIDE DEF K
      <3> QED
        BY <1>4, <2>1, <2>2
    <2>4. UNION {K(d) : d \in 1..Drops} = {<<0, k>> : k \in UNION {Holds[d] : d \in 1..Drops}}
      OBVIOUS
    <2> QED
      BY <2>3, <2>4
  <1>6. ASSUME NEW k \in DOMAIN silver PROVE bronze[silver[k]].of \in volume
    <2> DEFINE b == silver[k]
               f == bronze[b].of
    <2>1. b \in DOMAIN bronze /\ k \in SilverKeys(b)
      BY <1>1 DEF TypeOK, SilverLatest
    <2> HIDE DEF b
    <2>2. PICK c \in DOMAIN bronze : bronze[c].of \in volume /\ files[bronze[c].of].drop = files[f].drop
      BY <1>2, <1>3, <2>1
    <2> DEFINE g == bronze[c].of
    <2>3. SilverKeys(c) = SilverKeys(b)
      BY <1>2, <2>1, <2>2
    <2>4. ModifiedAt(c) <= ModifiedAt(b)
      BY <1>1, <2>1, <2>2, <2>3 DEF SilverLatest, b
    <2>5. f \in DOMAIN files /\ g \in DOMAIN files /\ files[g].at <= files[f].at
      BY <1>2, <2>1, <2>2, <2>4
    <2>6. files[f].at \in Nat /\ files[g].at \in Nat
      BY <1>2, <2>1, <2>2
    <2>7. f \in Nat /\ g \in Nat
      <3>1. DOMAIN files = 1..Len(files) /\ Len(files) \in Nat
        BY SequenceFacts DEF TypeOK
      <3> HIDE DEF f, g
      <3> QED
        BY <2>5, <3>1
    <2>8. g \in volume /\ files[g].drop = files[f].drop
      BY <2>2
    <2> HIDE DEF f, g
    <2>9. f <= g
      BY <2>5, <2>8 DEF DemoFiles
    <2>10. ~(f < g)
      BY <2>5, <2>6 DEF DemoFiles
    <2>11. f = g
      BY <2>7, <2>9, <2>10
    <2> QED
      BY <2>8, <2>11 DEF f, b
  <1> QED
    BY <1>5, <1>6

-----------------------------------------------------------------------------
\* The theorems

\* The inductive invariant holds at the start.
LEMMA InvInit == Init => IInv
PROOF
  <1> SUFFICES ASSUME Init PROVE IInv
    OBVIOUS
  <1>1. /\ bronze = <<>> /\ silver = <<>> /\ files = <<>> /\ volume = {} /\ phase = "idle"
        /\ cleared = FALSE /\ refreshed = {}
    BY DEF Init
  <1>2. DOMAIN bronze = {} /\ DOMAIN silver = {} /\ DOMAIN files = {}
    BY <1>1
  <1>3. ReadsAccounted /\ SilverLatest
    BY <1>1, <1>2 DEF ReadsAccounted, SilverLatest
  <1>4. gold = [health |-> gold.health, perDay |-> gold.perDay]
    BY DEF Init
  <1>5. ViewsTrue /\ DemoFiles
    BY <1>1, <1>2, <1>4 DEF ViewsTrue, DemoFiles
  <1> QED
    BY <1>3, <1>5, TypeInit DEF IInv

\* The inductive invariant survives every step.
LEMMA InvStep == IInv /\ [Next]_vars => IInv'
PROOF
  <1> SUFFICES ASSUME IInv, [Next]_vars PROVE IInv'
    OBVIOUS
  <1>1. TypeOK /\ FilesCounted /\ ReadsAccounted /\ SilverLatest /\ ViewsTrue /\ DemoFiles
    BY DEF IInv
  <1>2. /\ source' \in [Keys -> 1..MaxVersion]
        /\ exports' \subseteq Rows
        /\ files' \in Seq(File)
        /\ listed' \cup held' \cup volume' \subseteq DOMAIN files'
    BY <1>1, VolumeTypeStep
  <1>3. /\ config' \in Configs
        /\ today' \in Days
        /\ phase' \in {"idle", "seeding", "ready", "bronze", "silver", "gold", "updated"}
        /\ run' \in 0..MaxRuns
        /\ tries' \in 0..MaxTries
        /\ drop' \in 1..(Drops + 1)
        /\ cleared' \in BOOLEAN
        /\ refreshed' \subseteq Views
    BY <1>1, JobTypeStep
  <1>4. /\ backlog' \subseteq listed'
        /\ bronze' \in Seq([of : listed' \ backlog', day : 0..today'])
        /\ silverRead' \in 0..Len(bronze')
    BY <1>1, BronzeTypeStep
  <1>5. /\ DOMAIN silver' = UNION {SilverKeys(b)' : b \in 1..silverRead'}
        /\ \A k \in DOMAIN silver' : silver'[k] \in 1..silverRead'
        /\ SilverLatest'
    BY <1>1, SilverStep
  <1>6. TypeOK'
    BY <1>2, <1>3, <1>4, <1>5 DEF TypeOK
  <1> QED
    BY <1>1, <1>5, <1>6, CountStep, ReadsStep, ViewsStep, DemoStep DEF IInv

\* IInv holds of every reachable state; it is what the rest is read off.
THEOREM InductiveInvariant == Spec => []IInv
PROOF
  BY InvInit, InvStep, PTL DEF Spec

\* The files module keeps its types: what bronze read was discovered, and silver
\* has a row for each key read and for no other.
THEOREM TypeCorrect == Spec => []TypeOK
PROOF
  <1>1. IInv => TypeOK
    BY DEF IInv
  <1> QED
    BY <1>1, InductiveInvariant, PTL

\* No file is read twice, and a completed update has read all it found, whatever
\* was overwritten and whichever updates failed before.
THEOREM FilesAreReadOnce == Spec => []FilesReadOnce
PROOF
  <1>1. IInv => FilesReadOnce
    BY DEF IInv, ReadsAccounted, FilesReadOnce, FilesRead
  <1> QED
    BY <1>1, InductiveInvariant, PTL

\* After an update of the demo silver shows the drops that are in the volume and
\* no others, whichever seed tasks and updates failed before.
THEOREM DemoShowsThem == Spec => []DemoShowsTheLastDrops
PROOF
  <1>1. IInv => DemoShowsTheLastDrops
    BY DemoShows DEF IInv
  <1> QED
    BY <1>1, InductiveInvariant, PTL

\* The daily counts of silver add up to the keys read, each counted once.
THEOREM RowsAreCountedOnce == Spec => []RowsCountedOnce
PROOF
  <1>1. IInv => RowsCountedOnce
    BY PerDayAddsUp DEF IInv
  <1> QED
    BY <1>1, InductiveInvariant, PTL

\* Inside the window the health view accounts for every file and row of bronze.
THEOREM HealthAccounts == Spec => []HealthAccountsForEveryFile
PROOF
  <1>1. IInv => HealthAccountsForEveryFile
    BY HealthAddsUp DEF IInv
  <1> QED
    BY <1>1, InductiveInvariant, PTL

-----------------------------------------------------------------------------
\* Refinement of ScdType1

\* Feed is a sequence as long as bronze.
LEMMA FeedFacts ==
  ASSUME TypeOK
  PROVE  /\ Len(bronze) \in Nat
         /\ DOMAIN bronze = 1..Len(bronze)
         /\ Len(Feed) = Len(bronze)
         /\ \A b \in DOMAIN bronze : /\ Feed[b].keys = SilverKeys(b)
                                    /\ Feed[b].at = ModifiedAt(b)
PROOF
  <1>1. Len(bronze) \in Nat /\ DOMAIN bronze = 1..Len(bronze)
    BY SequenceFacts DEF TypeOK
  <1>2. Len(Feed) = Len(bronze)
    BY <1>1 DEF Feed
  <1> QED
    BY <1>1, <1>2 DEF Feed

\* Two sequences of which one begins with the other.
LEMMA PrefixFacts ==
  ASSUME NEW S, NEW m \in Nat, NEW n \in Nat, m <= n,
         NEW s \in [1..m -> S], NEW t \in [1..n -> S], \A i \in 1..m : t[i] = s[i]
  PROVE  Scd!IsPrefix(s, t)
PROOF
  <1>1. s \in Seq(S) /\ Len(s) = m
    OBVIOUS
  <1>2. t \in Seq(S) /\ Len(t) = n
    OBVIOUS
  <1>3. Len(s) <= Len(t) /\ \A i \in 1..Len(s) : t[i] = s[i]
    BY <1>1, <1>2
  <1>4. SubSeq(s, 1, Len(s)) = SubSeq(t, 1, Len(s))
    BY <1>1, <1>2, <1>3
  <1> QED
    BY <1>3, <1>4 DEF Scd!IsPrefix

\* What arrived stays at the beginning of the feed.
LEMMA FeedGrows ==
  ASSUME IInv, [Next]_vars
  PROVE  Scd!IsPrefix(Feed, Feed')
PROOF
  <1>1. TypeOK /\ FilesCounted /\ TypeOK'
    BY InvStep DEF IInv
  <1>2. /\ Len(bronze) \in Nat /\ DOMAIN bronze = 1..Len(bronze)
        /\ Len(bronze') \in Nat /\ DOMAIN bronze' = 1..Len(bronze')
    BY <1>1, SequenceFacts DEF TypeOK
  <1>3. \A b \in DOMAIN bronze : b \in DOMAIN bronze'
    BY <1>1, RowsKept
  <1>4. Len(bronze) <= Len(bronze')
    BY <1>2, <1>3
  <1>5. \A b \in DOMAIN bronze : Feed'[b] = Feed[b]
    BY <1>1, <1>3, RowsKept DEF Feed
  <1> DEFINE S == {Feed[b] : b \in DOMAIN bronze} \cup {Feed'[b] : b \in DOMAIN bronze'}
  <1>6. Feed \in [1..Len(bronze) -> S]
    BY <1>2 DEF Feed
  <1>7. Feed' \in [1..Len(bronze') -> S]
    BY <1>2 DEF Feed
  <1> HIDE DEF S
  <1>8. \A b \in 1..Len(bronze) : Feed'[b] = Feed[b]
    BY <1>2, <1>5
  <1> DEFINE m == Len(bronze)
             n == Len(bronze')
  <1>9. m \in Nat /\ n \in Nat /\ m <= n
    BY <1>2, <1>4
  <1> HIDE DEF m, n
  <1>10. \A s \in [1..m -> S], t \in [1..n -> S] :
           (\A i \in 1..m : t[i] = s[i]) => Scd!IsPrefix(s, t)
    BY <1>9, PrefixFacts
  <1> QED
    BY <1>6, <1>7, <1>8, <1>10 DEF m, n

\* A batch of the flow is the abstract flow's Apply.
LEMMA BatchIsApply ==
  ASSUME IInv, NEW n \in 1..Len(bronze), SilverBatch(n)
  PROVE  Scd!Apply
PROOF
  <1> DEFINE m == silverRead + n
  <1>1. TypeOK /\ SilverLatest
    BY DEF IInv
  <1>2. /\ silverRead' = m
        /\ m \in 1..Len(bronze)
        /\ DOMAIN silver' = UNION {SilverKeys(b) : b \in 1..m}
        /\ \A k \in DOMAIN silver' :
             /\ silver'[k] \in 1..m
             /\ k \in SilverKeys(silver'[k])
             /\ \A c \in 1..m : k \in SilverKeys(c) => ModifiedAt(c) <= ModifiedAt(silver'[k])
        /\ \A k \in DOMAIN silver :
             k \in DOMAIN silver' /\ (silver'[k] = silver[k] \/ silver'[k] > silverRead)
    BY <1>1, SilverBatchFacts
  <1>3. silverRead \in Nat /\ silverRead < m
    BY <1>1, SequenceFacts DEF TypeOK
  <1>4. UNCHANGED <<config, files, bronze>>
    BY DEF SilverBatch, volumeVars
  <1>5. Feed' = Feed
    BY <1>4 DEF Feed, SilverKeys, RowKeys, ModifiedAt, FileOf
  <1> HIDE DEF m
  <1>6. /\ Len(Feed) = Len(bronze)
        /\ \A b \in 1..m : b \in DOMAIN bronze /\ Feed[b].keys = SilverKeys(b)
                                                /\ Feed[b].at = ModifiedAt(b)
    BY <1>1, <1>2, FeedFacts
  <1>7. m \in (silverRead + 1)..Len(Feed)
    BY <1>1, <1>2, <1>3, <1>6, FeedFacts
  <1>8. DOMAIN silver' = UNION {Feed[b].keys : b \in 1..m}
    BY <1>2, <1>6
  <1>9. \A k \in DOMAIN silver' :
          /\ silver'[k] \in 1..m
          /\ k \in Feed[silver'[k]].keys
          /\ \A c \in 1..m : k \in Feed[c].keys => Feed[c].at <= Feed[silver'[k]].at
    BY <1>2, <1>6
  <1> HIDE DEF Feed
  <1>10. Scd!IsCurrent'
    BY <1>2, <1>5, <1>8, <1>9 DEF Scd!IsCurrent, Scd!Newest
  <1> QED
    BY <1>2, <1>5, <1>7, <1>10 DEF Scd!Apply

\* Silver is at every moment the latest row of each key read, however files come,
\* batches are cut and updates fail: the files module implements ScdType1.
THEOREM Refinement == Spec => SilverIsScdType1
PROOF
  <1>1. Init => Scd!Init
    <2> SUFFICES ASSUME Init PROVE Scd!Init
      OBVIOUS
    <2>1. bronze = <<>> /\ silver = <<>> /\ silverRead = 0
      BY DEF Init
    <2>2. Feed = <<>>
      BY <2>1 DEF Feed
    <2> QED
      BY <2>1, <2>2 DEF Scd!Init
  <1>2. IInv /\ [Next]_vars => [Scd!Next]_Scd!vars
    <2> SUFFICES ASSUME IInv, [Next]_vars PROVE Scd!Next
      OBVIOUS
    <2>1. CASE UNCHANGED <<silver, silverRead>>
      BY <2>1, FeedGrows DEF Scd!Next, Scd!Arrive
    <2>2. CASE \E n \in 1..Len(bronze) : SilverBatch(n)
      BY <2>2, BatchIsApply DEF Scd!Next
    <2> QED
      BY <2>1, <2>2, SilverMoves
  <1> QED
    BY <1>1, <1>2, InductiveInvariant, PTL DEF Spec, SilverIsScdType1, Scd!Spec

=============================================================================
