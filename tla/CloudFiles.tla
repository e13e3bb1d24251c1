------------------------------ MODULE CloudFiles ------------------------------
(***************************************************************************)
(* The files module end to end: what writes the files, the volume that     *)
(* holds them, Auto Loader, and the bronze, silver and gold tables.        *)
(*                                                                         *)
(* In the demo the job's seed task overwrites a few drops and run_pipeline *)
(* follows it.  In a real feed a connector exports parts of its source,    *)
(* whenever it likes, and the job only runs the pipeline.                  *)
(*                                                                         *)
(* A file is listed and read as a whole, so bronze is a sequence of files; *)
(* its rows are pairs of a position in bronze and a business key.  Auto    *)
(* Loader, streaming reads, Delta commits and AUTO CDC are the platform's, *)
(* modelled from how the code uses them.                                   *)
(***************************************************************************)
EXTENDS Integers, FiniteSets, SequencesExt

CONSTANTS
  Keys,        \* business keys
  Drops,       \* the seeder writes drops 1..Drops
  Holds,       \* Holds[d]: the keys of drop d
  Extents,     \* the sets of keys an export of the connector may cover
  MaxTries,    \* starts of the seed task in a job run (3 in the code)
  Window,      \* days recent_ingest_days looks back (7 in the code)
  Configs,     \* the configurations of feed and pipeline
  MaxRuns,     \* bound on the job runs
  MaxVersion,  \* bound on the changes of a row at the connector's source
  MaxFiles,    \* bound on the connector's files
  MaxDay       \* bound on the days

ASSUME FilesAssumption ==
  /\ {Drops, MaxTries, MaxVersion} \subseteq Nat \ {0}
  /\ {Window, MaxRuns, MaxFiles, MaxDay} \subseteq Nat
  /\ Holds \in [1..Drops -> SUBSET Keys]
  /\ IsFiniteSet(Keys)
  /\ Extents \subseteq SUBSET Keys
  /\ Configs \subseteq [seeded : BOOLEAN, dedup : BOOLEAN]

VARIABLES
  config,      \* demo or real feed, dedup_keys set or not
  today,       \* the date
  source,      \* source[k]: the version of row k at the connector's source
  exports,     \* the exports the connector has begun and not landed
  files,       \* every file ever landed
  volume,      \* those of them that exist
  phase,       \* where the job is
  run,         \* the number of the latest job run
  tries,       \* starts of the seed task in this run
  drop,        \* the drop the seeder is at
  cleared,     \* whether the old drop is deleted already
  listed,      \* the files Auto Loader has discovered
  backlog,     \* those of them it has still to read
  held,        \* the volume when the latest update listed it (history)
  bronze,      \* bronze_cloud_files, one element for each file read
  silver,      \* silver[k]: the element of bronze the silver row k comes from
  silverRead,  \* the checkpoint of the stream bronze -> silver
  refreshed,   \* the views the update under way has refreshed
  gold         \* the two materialized views

connectorVars == <<source, exports>>
volumeVars == <<files, volume>>
jobVars == <<phase, run, tries, drop, cleared>>
loaderVars == <<listed, backlog, held>>
tableVars == <<bronze, silver, silverRead, refreshed, gold>>
vars == <<config, today, connectorVars, volumeVars, jobVars, loaderVars, tableVars>>

Days == 0..MaxDay

Views == {"health", "perDay"}

-----------------------------------------------------------------------------
\* What the tables derive from a file

\* source_file and source_file_modified_at.
FileOf(b) == files[bronze[b].of]

RowKeys(b) == DOMAIN FileOf(b).rows

\* The keys of silver: business keys, or without dedup_keys the rows themselves.
SilverKeys(b) == {<<IF config.dedup THEN 0 ELSE b, k>> : k \in RowKeys(b)}

ModifiedAt(b) == FileOf(b).at

\* A slip: the rows read last win.
LastArrived(B) == {b \in B : \A c \in B : c <= b}

\* AUTO CDC, SCD type 1, sequenced by dedup_order_by: the rows that may stay.
\* Of rows with equal times any one does.
Latest(B) == {b \in B : \A c \in B : ModifiedAt(c) <= ModifiedAt(b)}

IngestedOn(d) == {b \in DOMAIN bronze : bronze[b].day = d}

RowsIngested(d) == MapThenSumSet(LAMBDA b : Cardinality(RowKeys(b)), IngestedOn(d))

\* countDistinct(source_file).
FilesIngested(d) == Cardinality({bronze[b].of : b \in IngestedOn(d)})

\* By day, for the days inside the window.
Health(d) ==
  IF d >= today - Window
  THEN [files |-> FilesIngested(d), rows |-> RowsIngested(d)]
  ELSE [files |-> 0, rows |-> 0]

\* A slip: the daily view counts bronze.
PerDayOfBronze(d) == RowsIngested(d)

PerDay(d) == Cardinality({k \in DOMAIN silver : bronze[silver[k]].day = d})

-----------------------------------------------------------------------------
\* The connector and its source

Init ==
  /\ config \in Configs
  /\ today = 0
  /\ source = [k \in Keys |-> 1]
  /\ exports = {}
  /\ files = <<>>
  /\ volume = {}
  /\ phase = "idle"
  /\ run = 0
  /\ tries = 0
  /\ drop = 1
  /\ cleared = FALSE
  /\ listed = {}
  /\ backlog = {}
  /\ held = {}
  /\ bronze = <<>>
  /\ silver = <<>>
  /\ silverRead = 0
  /\ refreshed = {}
  /\ gold = [health |-> [d \in Days |-> [files |-> 0, rows |-> 0]],
             perDay |-> [d \in Days |-> 0]]

NextDay ==
  /\ today < MaxDay
  /\ today' = today + 1
  /\ UNCHANGED <<config, connectorVars, volumeVars, jobVars, loaderVars, tableVars>>

SourceChanges(k) ==
  /\ ~config.seeded
  /\ source[k] < MaxVersion
  /\ source' = [source EXCEPT ![k] = @ + 1]
  /\ UNCHANGED <<config, today, exports, volumeVars, jobVars, loaderVars, tableVars>>

\* A full or an incremental export reads the rows K of the source.
ExportBegins(K) ==
  /\ ~config.seeded
  /\ Len(files) + Cardinality(exports) < MaxFiles
  /\ exports' = exports \cup {[k \in K |-> source[k]]}
  /\ UNCHANGED <<config, today, source, volumeVars, jobVars, loaderVars, tableVars>>

\* The modification time of the latest file; the next one's may be the same.
LastTime == IF files = <<>> THEN 0 ELSE Last(files).at

\* A file is new under its name.
Lands(d, rows, at) ==
  /\ files' = Append(files, [drop |-> d, rows |-> rows, at |-> at])
  /\ volume' = volume \cup {Len(files) + 1}

ExportLands(rows) ==
  /\ rows \in exports
  /\ \E at \in {LastTime, LastTime + 1} : Lands(0, rows, at)
  /\ exports' = exports \ {rows}
  /\ UNCHANGED <<config, today, source, jobVars, loaderVars, tableVars>>

-----------------------------------------------------------------------------
\* The job and its seed task

StartRun ==
  /\ phase \in {"idle", "updated"}
  /\ run < MaxRuns
  /\ run' = run + 1
  /\ phase' = IF config.seeded THEN "seeding" ELSE "ready"
  /\ tries' = 1
  /\ drop' = 1
  /\ cleared' = FALSE
  /\ UNCHANGED <<config, today, connectorVars, volumeVars, loaderVars, tableVars>>

\* mode("overwrite"), first half.
ClearDrop ==
  /\ phase = "seeding"
  /\ drop <= Drops
  /\ ~cleared
  /\ volume' = {f \in volume : files[f].drop # drop}
  /\ cleared' = TRUE
  /\ UNCHANGED <<config, today, connectorVars, files, phase, run, tries, drop,
                 loaderVars, tableVars>>

\* coalesce(1): one file, with the rows of the drop stamped anew.
WriteDrop ==
  /\ phase = "seeding"
  /\ cleared
  /\ Lands(drop, [k \in Holds[drop] |-> LastTime + 1], LastTime + 1)
  /\ drop' = drop + 1
  /\ cleared' = FALSE
  /\ UNCHANGED <<config, today, connectorVars, phase, run, tries, loaderVars, tableVars>>

\* A slip: the pipeline runs whatever became of the seed task.
SeedEnds == phase = "seeding"

\* The rows read back are those written.
ReadBack ==
  /\ phase = "seeding"
  /\ drop > Drops
  /\ MapThenSumSet(LAMBDA f : Cardinality(DOMAIN files[f].rows), volume) =
       MapThenSumSet(LAMBDA d : Cardinality(Holds[d]), 1..Drops)

SeedDone ==
  /\ ReadBack
  /\ phase' = "ready"
  /\ UNCHANGED <<config, today, connectorVars, volumeVars, run, tries, drop, cleared,
                 loaderVars, tableVars>>

\* The seed task dies, and is started again while it has tries left.
SeedFails ==
  /\ phase = "seeding"
  /\ IF tries < MaxTries
     THEN tries' = tries + 1 /\ UNCHANGED phase
     ELSE phase' = "idle" /\ UNCHANGED tries
  /\ drop' = 1
  /\ cleared' = FALSE
  /\ UNCHANGED <<config, today, connectorVars, volumeVars, run, loaderVars, tableVars>>

-----------------------------------------------------------------------------
\* The pipeline update: bronze, then silver, then gold

\* A slip: Auto Loader forgets the files it has listed.
StartUpdateAfresh ==
  /\ phase = "ready"
  /\ phase' = "bronze"
  /\ listed' = volume
  /\ backlog' = volume
  /\ held' = volume
  /\ UNCHANGED <<config, today, connectorVars, volumeVars, run, tries, drop, cleared,
                 tableVars>>

\* Auto Loader lists the files it has not seen.
StartUpdate ==
  /\ phase = "ready"
  /\ phase' = "bronze"
  /\ listed' = listed \cup volume
  /\ backlog' = backlog \cup (volume \ listed)
  /\ held' = volume
  /\ UNCHANGED <<config, today, connectorVars, volumeVars, run, tries, drop, cleared,
                 tableVars>>

\* A file is read and its rows stamped; a batch of files is several such steps.
Ingest(f) ==
  /\ phase = "bronze"
  /\ f \in backlog \cap volume
  /\ bronze' = Append(bronze, [of |-> f, day |-> today])
  /\ backlog' = backlog \ {f}
  /\ UNCHANGED <<config, today, connectorVars, volumeVars, jobVars, listed, held,
                 silver, silverRead, refreshed, gold>>

\* A file listed by an update that failed is gone when the next one reads it:
\* the stream leaves it out, or else the update fails once more.
Forgo(f) ==
  /\ phase = "bronze"
  /\ f \in backlog \ volume
  /\ backlog' = backlog \ {f}
  /\ UNCHANGED <<config, today, connectorVars, volumeVars, jobVars, listed, held, tableVars>>

BronzeDone ==
  /\ phase = "bronze"
  /\ backlog = {}
  /\ phase' = "silver"
  /\ UNCHANGED <<config, today, connectorVars, volumeVars, run, tries, drop, cleared,
                 loaderVars, tableVars>>

\* The flow applies the next n elements of bronze: upserts or, without
\* dedup_keys, appends.
SilverBatch(n) ==
  LET batch == (silverRead + 1)..(silverRead + n)
      arriving == UNION {SilverKeys(b) : b \in batch}
      RowsOf(k) == {b \in batch : k \in SilverKeys(b)}
                     \cup (IF k \in DOMAIN silver THEN {silver[k]} ELSE {})
  IN  /\ phase = "silver"
      /\ n \in 1..(Len(bronze) - silverRead)
      /\ \E rows \in [arriving -> 1..(silverRead + n)] :
           /\ \A k \in arriving : rows[k] \in Latest(RowsOf(k))
           /\ silver' = [k \in arriving \cup DOMAIN silver |->
                           IF k \in arriving THEN rows[k] ELSE silver[k]]
      /\ silverRead' = silverRead + n
      /\ UNCHANGED <<config, today, connectorVars, volumeVars, jobVars, loaderVars,
                     bronze, refreshed, gold>>

SilverDone ==
  /\ phase = "silver"
  /\ silverRead = Len(bronze)
  /\ phase' = "gold"
  /\ UNCHANGED <<config, today, connectorVars, volumeVars, run, tries, drop, cleared,
                 loaderVars, tableVars>>

\* The health view reads bronze, and need not wait for silver.
HealthRefresh ==
  /\ phase \in {"silver", "gold"}
  /\ "health" \notin refreshed
  /\ gold' = [gold EXCEPT !.health = [d \in Days |-> Health(d)]]
  /\ refreshed' = refreshed \cup {"health"}
  /\ UNCHANGED <<config, today, connectorVars, volumeVars, jobVars, loaderVars,
                 bronze, silver, silverRead>>

PerDayRefresh ==
  /\ phase = "gold"
  /\ "perDay" \notin refreshed
  /\ gold' = [gold EXCEPT !.perDay = [d \in Days |-> PerDay(d)]]
  /\ refreshed' = refreshed \cup {"perDay"}
  /\ UNCHANGED <<config, today, connectorVars, volumeVars, jobVars, loaderVars,
                 bronze, silver, silverRead>>

UpdateEnds(p) ==
  /\ phase' = p
  /\ refreshed' = {}
  /\ UNCHANGED <<config, today, connectorVars, volumeVars, run, tries, drop, cleared,
                 loaderVars, bronze, silver, silverRead, gold>>

UpdateCompletes == phase = "gold" /\ refreshed = Views /\ UpdateEnds("updated")

\* An update that fails keeps what its flows and views committed.  The platform
\* may start it again before the job gives up.
UpdateFails ==
  /\ phase \in {"bronze", "silver", "gold"}
  /\ \E p \in {"ready", "idle"} : UpdateEnds(p)

Next ==
  \/ NextDay
  \/ \E k \in Keys : SourceChanges(k)
  \/ \E K \in Extents : ExportBegins(K)
  \/ \E rows \in exports : ExportLands(rows)
  \/ StartRun
  \/ ClearDrop
  \/ WriteDrop
  \/ SeedDone
  \/ SeedFails
  \/ StartUpdate
  \/ \E f \in backlog : Ingest(f)
  \/ \E f \in backlog : Forgo(f)
  \/ BronzeDone
  \/ \E n \in 1..Len(bronze) : SilverBatch(n)
  \/ SilverDone
  \/ HealthRefresh
  \/ PerDayRefresh
  \/ UpdateCompletes
  \/ UpdateFails

Spec == Init /\ [][Next]_vars

-----------------------------------------------------------------------------
\* Properties

Times == 0..(MaxRuns * MaxTries * Drops + MaxFiles)

\* Rows by key, with the version of each.
Rows == UNION {[K -> 1..MaxVersion] \cup [K -> Times] : K \in SUBSET Keys}

File == [drop : 0..Drops, rows : Rows, at : Times]

TypeOK ==
  /\ config \in Configs
  /\ today \in Days
  /\ source \in [Keys -> 1..MaxVersion]
  /\ exports \subseteq Rows
  /\ files \in Seq(File)
  /\ phase \in {"idle", "seeding", "ready", "bronze", "silver", "gold", "updated"}
  /\ run \in 0..MaxRuns
  /\ tries \in 0..MaxTries
  /\ drop \in 1..(Drops + 1)
  /\ cleared \in BOOLEAN
  /\ backlog \subseteq listed
  /\ listed \cup held \cup volume \subseteq DOMAIN files
  /\ bronze \in Seq([of : listed \ backlog, day : 0..today])
  /\ silverRead \in 0..Len(bronze)
  /\ DOMAIN silver = UNION {SilverKeys(b) : b \in 1..silverRead}
  /\ \A k \in DOMAIN silver : silver[k] \in 1..silverRead
  /\ refreshed \subseteq Views

\* Auto Loader processes each file exactly once (bronze_cloud_files.py:4-6):
\* across failed updates no file is in bronze twice, and what the volume held
\* when a completed update began is there.
FilesReadOnce ==
  /\ \A b, c \in DOMAIN bronze : bronze[b].of = bronze[c].of => b = c
  /\ phase = "updated" => held \subseteq {bronze[b].of : b \in DOMAIN bronze}

\* Bronze as the silver flow reads it: the keys and the time of each element.
Feed == [b \in DOMAIN bronze |-> [keys |-> SilverKeys(b), at |-> ModifiedAt(b)]]

\* Silver is at every moment what SCD type 1 says of the rows read: files are
\* read in any order, and the one modified last wins for each key
\* (silver_cloud_files.py:36-60).
Scd == INSTANCE ScdType1 WITH feed <- Feed, read <- silverRead, table <- silver

SilverIsScdType1 == Scd!Spec

\* Re-running the demo keeps it at 100, not 200 (resources/files/demo.yml:39-41):
\* whichever seed tasks and updates failed before, silver has one row for each
\* key the seeder emits, from the drop that is in the volume now.
DemoShowsTheLastDrops ==
  phase = "updated" /\ config.seeded /\ config.dedup =>
    /\ DOMAIN silver = {<<0, k>> : k \in UNION {Holds[d] : d \in 1..Drops}}
    /\ \A k \in DOMAIN silver : bronze[silver[k]].of \in volume

\* The daily counts add up to the keys read or, without dedup_keys, to the rows
\* (gold_cloud_files.py:38-55).
RowsCountedOnce ==
  phase = "updated" =>
    MapThenSumSet(LAMBDA d : gold.perDay[d], Days) =
      Cardinality(UNION {SilverKeys(b) : b \in DOMAIN bronze})

\* The health view accounts for every file and row of bronze, re-exports and
\* overwritten drops included, until a day leaves the window
\* (gold_cloud_files.py:9-35).
HealthAccountsForEveryFile ==
  phase = "updated" /\ today <= Window =>
    /\ MapThenSumSet(LAMBDA d : gold.health[d].files, Days) =
         Cardinality({bronze[b].of : b \in DOMAIN bronze})
    /\ MapThenSumSet(LAMBDA d : gold.health[d].rows, Days) =
         MapThenSumSet(LAMBDA b : Cardinality(RowKeys(b)), DOMAIN bronze)

\* Overlapping exports converge to the current row of each key
\* (silver_cloud_files.py:4-6): no file that was finished earlier has a newer
\* version of the row than the one silver keeps.  Of files finished in the same
\* instant nothing is asked.
SilverIsCurrent ==
  phase = "updated" /\ config.dedup =>
    \A b \in DOMAIN bronze : \A k \in RowKeys(b) :
      LET kept == silver[<<0, k>>]
      IN  ModifiedAt(b) < ModifiedAt(kept) => FileOf(b).rows[k] <= FileOf(kept).rows[k]

=============================================================================
