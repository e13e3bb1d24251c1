------------------------------ MODULE ApiDomain ------------------------------
(***************************************************************************)
(* One API domain end to end: the job that fetches and then updates the    *)
(* pipeline, the landing table between the two, and the bronze, silver and *)
(* gold tables of the pipeline.  Runs of the job queue, so they do not     *)
(* overlap; any of them may fail at any point and the next one goes on     *)
(* from what the tables and the stream checkpoints hold.                   *)
(*                                                                         *)
(* The fetch task is taken as FetchTask promises it (FetchJob shows that   *)
(* the notebook keeps the promise), with what its rows say added: when     *)
(* each answer was observed at the source and when it was stamped.  A      *)
(* notebook started again by max_retries is a run like any other here.     *)
(*                                                                         *)
(* Rows are never changed once written, so bronze names its landing row by *)
(* position and silver its bronze row.  Streaming reads, Delta commits and *)
(* AUTO CDC are the platform's, modelled from how the code uses them.      *)
(***************************************************************************)
EXTENDS FetchRows, FiniteSetsExt

CONSTANTS
  Records,     \* the records the source may hold
  Keyless,     \* those of them whose JSON has no id
  Places,      \* Places[r]: the specs whose response may carry r, or Nowhere
  Nowhere,     \* where a record is that no response carries
  Shape,       \* the pipeline's silver_shape: "records" or "document"
  Window,      \* days recent_ingest_days looks back (7 in the code)
  Garbage,     \* whether a 2xx body may fail to parse
  Unasked,     \* no observation or no answer yet
  NotJson,     \* a body that does not parse
  MaxVersion,  \* bound on the changes of a record
  MaxRuns,     \* bound on the runs
  MaxDay       \* bound on the days

ASSUME DomainAssumption ==
  /\ IsFiniteSet(Records)
  /\ Places \in [Records -> SUBSET (Specs \cup {Nowhere})]
  /\ Shape \in {"records", "document"}
  /\ MaxVersion \in Nat \ {0}
  /\ {Window, MaxRuns, MaxDay} \subseteq Nat

VARIABLES
  source,      \* source[r]: the version of r at the source, and where it is
  today,       \* the date
  run,         \* the number of the latest run of the notebook
  phase,       \* where the job is
  seen,        \* seen[s]: what the source served for spec s, in flight
  answer,      \* answer[s]: the row of spec s in this run
  landing,     \* the landing table
  bronze,      \* bronze_api_responses
  bronzeRead,  \* the checkpoint of the stream landing -> bronze
  silver,      \* silver[k]: the bronze row the silver row of key k was made from
  silverRead,  \* the checkpoint of the stream bronze -> silver
  refreshed,   \* the views the update under way has refreshed
  gold         \* the two materialized views

jobVars == <<run, phase, seen, answer>>
tableVars == <<landing, bronze, bronzeRead, silver, silverRead, refreshed, gold>>
vars == <<source, today, jobVars, tableVars>>

Endpoints == {Endpoint(s) : s \in Specs}

Days == 0..MaxDay

Views == {"health", "perDay"}

-----------------------------------------------------------------------------
\* What the tables derive from a row

\* A row silver has a use for: the others are dropped before the CDC flow.
Parsed(row) == IsSuccess(row) /\ row.body # NotJson

\* A slip: a record without an id is keyed all the same.
RecordKeysOfAll(row) == {Endpoint(row.spec)} \X {r \in Records : row.body[r] > 0}

\* One key per record of the body that has an id.
RecordKeys(row) ==
  {Endpoint(row.spec)} \X {r \in Records \ Keyless : row.body[r] > 0}

\* One key per response.
DocumentKeys(row) == {<<Endpoint(row.spec), row.run>>}

\* The CDC keys a landed row upserts.
KeysOf(row) ==
  IF Parsed(row)
  THEN IF Shape = "records" THEN RecordKeys(row) ELSE DocumentKeys(row)
  ELSE {}

Keys ==
  Endpoints \X (IF Shape = "records" THEN Records \ Keyless ELSE 1..MaxRuns)

BronzeRow(b) == landing[bronze[b].of]

FetchedAt(b) == BronzeRow(b).at

\* The row bronze makes of landing row p.
Ingested(p) == [of |-> p, day |-> today]

\* A slip: the row that arrives last wins.
LastArrived(B) == Max(B)

\* AUTO CDC, SCD type 1: of the current row and the arriving ones of a key the
\* one with the greatest sequence_by stays.
Latest(B) == CHOOSE b \in B : \A c \in B : FetchedAt(c) <= FetchedAt(b)

\* A slip: the first day of the window is left out.
RecentExclusive == {b \in DOMAIN bronze : bronze[b].day > today - Window}

\* Both ends of the window count.
Recent == {b \in DOMAIN bronze : bronze[b].day >= today - Window}

\* Of the recent calls of endpoint e, how many P holds of.
Calls(e, P(_)) ==
  Cardinality({b \in Recent : Endpoint(BronzeRow(b).spec) = e /\ P(BronzeRow(b))})

\* A row has an error message unless fetch_one took its answer for a success.
Health(e) ==
  [total   |-> Calls(e, LAMBDA row : TRUE),
   success |-> Calls(e, LAMBDA row : row.status \in Statuses \cap (200..299)),
   error   |-> Calls(e, LAMBDA row : row.status \in Statuses \cap (400..599)),
   network |-> Calls(e, LAMBDA row : ~IsSuccess(row))]

\* A slip: the daily view counts bronze.
PerDayOfBronze(e, d) ==
  Cardinality({b \in DOMAIN bronze : Endpoint(BronzeRow(b).spec) = e /\ bronze[b].day = d})

PerDay(e, d) ==
  Cardinality({k \in DOMAIN silver : k[1] = e /\ bronze[silver[k]].day = d})

-----------------------------------------------------------------------------
\* The world

Init ==
  /\ source \in [Records -> [ver : {1}, on : Specs \cup {Nowhere}]]
  /\ \A r \in Records : source[r].on \in Places[r]
  /\ today = 0
  /\ run = 0
  /\ phase = "idle"
  /\ seen = [s \in Specs |-> Unasked]
  /\ answer = [s \in Specs |-> Unasked]
  /\ landing = <<>>
  /\ bronze = <<>>
  /\ bronzeRead = 0
  /\ silver = <<>>
  /\ silverRead = 0
  /\ refreshed = {}
  /\ gold = [health |-> [e \in Endpoints |-> [total |-> 0, success |-> 0, error |-> 0, network |-> 0]],
             perDay |-> [e \in Endpoints |-> [d \in Days |-> 0]]]

\* A record is written, moves to another page, appears or disappears.
SourceChanges(r) ==
  /\ source[r].ver < MaxVersion
  /\ \E p \in Places[r] :
       source' = [source EXCEPT ![r] = [ver |-> @.ver + 1, on |-> p]]
  /\ UNCHANGED <<today, jobVars, tableVars>>

NextDay ==
  /\ today < MaxDay
  /\ today' = today + 1
  /\ UNCHANGED <<source, jobVars, tableVars>>

-----------------------------------------------------------------------------
\* The fetch task

StartRun ==
  /\ phase \in {"idle", "updated"}
  /\ run < MaxRuns
  /\ run' = run + 1
  /\ phase' = "fetching"
  /\ UNCHANGED <<source, today, seen, answer, tableVars>>

Response(s) == [r \in Records |-> IF source[r].on = s THEN source[r].ver ELSE 0]

\* The source serves spec s; a call whose response is lost is made again.
Serve(s) ==
  /\ phase = "fetching"
  /\ answer[s] = Unasked
  /\ seen' = [seen EXCEPT ![s] = Response(s)]
  /\ UNCHANGED <<source, today, run, phase, answer, tableVars>>

Answered == {s \in Specs : answer[s] # Unasked}

\* A slip: stamps that start over with every run.
StampInRun == Cardinality(Answered) + 1

\* fetched_at.  Only its order matters, and runs do not overlap: every stamp is
\* later than those of the rows landed before.
Stamp == Len(landing) + Cardinality(Answered) + 1

\* fetch_one is through with spec s, and stamps the row only now.
Complete(s, a) ==
  LET body == IF IsSuccess([status |-> StatusOf(a)])
              THEN {seen[s]} \cup (IF Garbage THEN {NotJson} ELSE {})
              ELSE {None}
  IN  /\ phase = "fetching"
      /\ answer[s] = Unasked
      /\ IsSuccess([status |-> StatusOf(a)]) => seen[s] # Unasked
      /\ \E b \in body :
           answer' = [answer EXCEPT ![s] =
             [run |-> run, spec |-> s, answer |-> a, status |-> StatusOf(a),
              body |-> b, at |-> Stamp]]
      /\ seen' = [seen EXCEPT ![s] = Unasked]
      /\ UNCHANGED <<source, today, run, phase, tableVars>>

Forget ==
  /\ seen' = [s \in Specs |-> Unasked]
  /\ answer' = [s \in Specs |-> Unasked]

Land ==
  /\ phase = "fetching"
  /\ \A s \in Specs : answer[s] # Unasked
  /\ ~SortRaises(answer)
  /\ Successes(answer) # {}
  /\ landing' = landing \o answer
  /\ phase' = "landed"
  /\ Forget
  /\ UNCHANGED <<source, today, run, bronze, bronzeRead, silver,
                 silverRead, refreshed, gold>>

\* The run raises, or its cluster is lost, before or after the append.
FetchFails ==
  /\ phase \in {"fetching", "landed"}
  /\ phase' = "idle"
  /\ Forget
  /\ UNCHANGED <<source, today, run, tableVars>>

-----------------------------------------------------------------------------
\* The pipeline update: bronze, then silver, then gold

\* A slip: the update reads the landing table from its start.
StartUpdateAfresh ==
  /\ phase = "landed"
  /\ phase' = "bronze"
  /\ bronzeRead' = 0
  /\ UNCHANGED <<source, today, run, seen, answer, landing, bronze, silver,
                 silverRead, refreshed, gold>>

\* run_pipeline depends_on fetch.
StartUpdate ==
  /\ phase = "landed"
  /\ phase' = "bronze"
  /\ UNCHANGED <<source, today, run, seen, answer, tableVars>>

\* The bronze stream appends the next n landed rows with today's stamp, and is
\* done when it has read them all.
BronzeBatch(n) ==
  /\ phase = "bronze"
  /\ n \in 1..(Len(landing) - bronzeRead)
  /\ bronze' = bronze \o [i \in 1..n |-> Ingested(bronzeRead + i)]
  /\ bronzeRead' = bronzeRead + n
  /\ UNCHANGED <<source, today, jobVars, landing, silver, silverRead, refreshed, gold>>

BronzeDone ==
  /\ phase = "bronze"
  /\ bronzeRead = Len(landing)
  /\ phase' = "silver"
  /\ UNCHANGED <<source, today, run, seen, answer, tableVars>>

\* The CDC flow applies the next n bronze rows.
SilverBatch(n) ==
  LET batch == (silverRead + 1)..(silverRead + n)
      arriving == UNION {KeysOf(BronzeRow(b)) : b \in batch}
      RowsOf(k) == {b \in batch : k \in KeysOf(BronzeRow(b))}
                     \cup (IF k \in DOMAIN silver THEN {silver[k]} ELSE {})
  IN  /\ phase = "silver"
      /\ n \in 1..(Len(bronze) - silverRead)
      /\ silver' = [k \in DOMAIN silver \cup arriving |-> Latest(RowsOf(k))]
      /\ silverRead' = silverRead + n
      /\ UNCHANGED <<source, today, jobVars, landing, bronze, bronzeRead, refreshed, gold>>

SilverDone ==
  /\ phase = "silver"
  /\ silverRead = Len(bronze)
  /\ phase' = "gold"
  /\ UNCHANGED <<source, today, run, seen, answer, tableVars>>

\* A view is refreshed once what it reads is complete: the health view needs
\* bronze only, and need not wait for silver.
HealthRefresh ==
  /\ phase \in {"silver", "gold"}
  /\ "health" \notin refreshed
  /\ gold' = [gold EXCEPT !.health = [e \in Endpoints |-> Health(e)]]
  /\ refreshed' = refreshed \cup {"health"}
  /\ UNCHANGED <<source, today, jobVars, landing, bronze, bronzeRead, silver, silverRead>>

PerDayRefresh ==
  /\ phase = "gold"
  /\ "perDay" \notin refreshed
  /\ gold' = [gold EXCEPT !.perDay = [e \in Endpoints |-> [d \in Days |-> PerDay(e, d)]]]
  /\ refreshed' = refreshed \cup {"perDay"}
  /\ UNCHANGED <<source, today, jobVars, landing, bronze, bronzeRead, silver, silverRead>>

\* The update is over, with a result for the next one to start from.
UpdateEnds(p) ==
  /\ phase' = p
  /\ refreshed' = {}
  /\ UNCHANGED <<source, today, run, seen, answer, landing, bronze, bronzeRead,
                 silver, silverRead, gold>>

UpdateCompletes == phase = "gold" /\ refreshed = Views /\ UpdateEnds("updated")

\* An update that fails keeps what its flows and views committed.  The platform
\* may start it again before the job gives up.
UpdateFails ==
  /\ phase \in {"bronze", "silver", "gold"}
  /\ \E p \in {"landed", "idle"} : UpdateEnds(p)

Next ==
  \/ \E r \in Records : SourceChanges(r)
  \/ NextDay
  \/ StartRun
  \/ \E s \in Specs : Serve(s)
  \/ \E s \in Specs, a \in Answers : Complete(s, a)
  \/ Land
  \/ FetchFails
  \/ StartUpdate
  \/ \E n \in 1..Len(landing) : BronzeBatch(n)
  \/ BronzeDone
  \/ \E n \in 1..Len(bronze) : SilverBatch(n)
  \/ SilverDone
  \/ HealthRefresh
  \/ PerDayRefresh
  \/ UpdateCompletes
  \/ UpdateFails

Spec == Init /\ [][Next]_vars

-----------------------------------------------------------------------------
\* Properties

Body == [Records -> 0..MaxVersion]

LandedRow ==
  [run : 1..MaxRuns, spec : Specs, answer : Answers, status : Statuses \cup {None},
   body : Body \cup {NotJson, None}, at : 1..(MaxRuns * NumSpecs)]

TypeOK ==
  /\ source \in [Records -> [ver : 1..MaxVersion, on : Specs \cup {Nowhere}]]
  /\ today \in Days
  /\ run \in 0..MaxRuns
  /\ phase \in {"idle", "fetching", "landed", "bronze", "silver", "gold", "updated"}
  /\ seen \in [Specs -> Body \cup {Unasked}]
  /\ answer \in [Specs -> LandedRow \cup {Unasked}]
  /\ landing \in Seq(LandedRow)
  /\ bronze \in Seq([of : 1..Len(landing), day : Days])
  /\ bronzeRead \in 0..Len(landing)
  /\ DOMAIN silver \subseteq Keys
  /\ \A k \in DOMAIN silver : silver[k] \in DOMAIN bronze
  /\ silverRead \in 0..Len(bronze)
  /\ refreshed \subseteq Views

\* Whichever runs and updates failed before, an update that completes has every
\* landed row in bronze exactly once (bronze_api_responses.py:32-37), and no
\* row is there twice in between.
LandedRowsReachBronzeOnce ==
  /\ \A b, c \in DOMAIN bronze : bronze[b].of = bronze[c].of => b = c
  /\ phase = "updated" => \A p \in DOMAIN landing : \E b \in DOMAIN bronze : bronze[b].of = p

LandedFor(k) == {p \in DOMAIN landing : k \in KeysOf(landing[p])}

\* Applied batch by batch, over updates that failed half way, silver is what
\* one pass over everything ever landed would give: for each key the row with
\* the latest fetched_at (silver_api_records.py:3-12, 76-81).
SilverIsLatestAnswer ==
  phase = "updated" =>
    \A k \in Keys :
      IF LandedFor(k) = {} THEN k \notin DOMAIN silver
      ELSE /\ k \in DOMAIN silver
           /\ bronze[silver[k]].of \in LandedFor(k)
           /\ \A p \in LandedFor(k) : landing[p].at <= FetchedAt(silver[k])

\* Bronze as the CDC flow reads it: the keys and the stamp of each row.
Feed ==
  [b \in DOMAIN bronze |-> [keys |-> KeysOf(BronzeRow(b)), at |-> FetchedAt(b)]]

Scd == INSTANCE ScdType1 WITH feed <- Feed, read <- silverRead, table <- silver

\* Between updates too, silver is what SCD type 1 says of the bronze rows read
\* so far, in either shape (silver_api_records.py:76-81,
\* silver_api_documents.py:65-70).
SilverIsScdType1 == Scd!Spec

\* With every record served under one spec, the order of fetched_at stamps is
\* the order of the record's versions, so silver is never behind a version that
\* was landed: "latest fetch wins" is "latest state wins"
\* (silver_api_records.py:80, fetch_api_responses.py:232).
SilverNeverBehindLanding ==
  phase = "updated" =>
    \A k \in Keys : \A p \in LandedFor(k) :
      landing[p].body[k[2]] <= BronzeRow(silver[k]).body[k[2]]

\* The calls of endpoint e that bronze took in on day d or later.
IngestedSince(e, d) ==
  {b \in DOMAIN bronze : Endpoint(BronzeRow(b).spec) = e /\ bronze[b].day >= d}

\* A call in the health view is a success or a failure, and one of them only.  As
\* long as no date is outside the window, both of whose ends count, every call
\* ever landed is in it.  Afterwards every call still inside is, and none is that
\* had left when another came in, although the view is only as recent as its
\* refresh (gold_api_metrics.py:38-60, ingest_columns.py:34-48).
HealthAccountsForEveryCall ==
  phase = "updated" =>
    \A e \in Endpoints :
      LET health == gold.health[e]
      IN  /\ health.success + health.network = health.total
          /\ health.error <= health.network
          /\ today <= Window => health.total =
               Cardinality({p \in DOMAIN landing : Endpoint(landing[p].spec) = e})
          /\ Cardinality(IngestedSince(e, today - Window)) <= health.total
          /\ \A b \in DOMAIN bronze :
               health.total <= Cardinality(IngestedSince(e, bronze[b].day - Window))

\* The daily counts add up to the distinct keys ever landed, however often each
\* was fetched again and on whichever days (gold_api_metrics.py:63-83).
KeysCountedOnce ==
  phase = "updated" =>
    \A e \in Endpoints :
      MapThenSumSet(LAMBDA d : gold.perDay[e][d], Days) =
        Cardinality({k \in Keys : k[1] = e /\ LandedFor(k) # {}})

\* The rate-limited calls of the landed runs show in error_count, the column
\* docs/api-ingestion.md:336 says to watch for them.
ErrorCountShowsRateLimits ==
  phase = "updated" /\ today = 0 =>
    \A e \in Endpoints :
      Cardinality({p \in DOMAIN landing :
                     Endpoint(landing[p].spec) = e /\ landing[p].answer = 429})
        <= gold.health[e].error

\* In the document shape every parsed response of the run has a row of its own
\* (silver_api_documents.py:3-10, 65-70).
EveryDocumentKept ==
  phase = "updated" =>
    \A p \in DOMAIN landing :
      Parsed(landing[p]) => \E k \in DOMAIN silver : bronze[silver[k]].of = p

==============================================================================
