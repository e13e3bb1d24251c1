----------------------------- MODULE ZerobusFeed -----------------------------
(***************************************************************************)
(* The Zerobus module end to end: the job that prepares the bronze table,  *)
(* pushes events to it and updates the pipeline; the service between       *)
(* producer and table; silver and the two gold views.                      *)
(*                                                                         *)
(* A push blocks until the service acknowledges the batch as written.  The *)
(* service writes the records of a stream in order, writes them again when *)
(* the SDK recovers a dropped stream, and may still write what it received *)
(* from a producer that died.  A push task that fails is started again     *)
(* with nothing kept but the table.                                        *)
(*                                                                         *)
(* A record is an event id and its ingested_at.  Time is counted in half   *)
(* ticks of the stream: a re-delivery is stamped half a tick (5 seconds)   *)
(* ahead, the next batch follows a whole tick (10 seconds) later.          *)
(***************************************************************************)
EXTENDS Integers, FiniteSets, SequencesExt

CONSTANTS
  BatchSize,    \* fresh events of a batch
  MaxBatches,   \* bound on the batches of a run
  MaxRecent,    \* events a stream remembers for re-delivery (200 in the code)
  MaxRuns,      \* bound on the runs of the push task
  MaxDrops,     \* bound on the streams that drop
  MaxTick,      \* bound on the clock
  TicksPerDay,  \* ticks from one midnight to the next
  Window        \* days recent_ingest_days looks back (7 in the code)

ASSUME FeedAssumption ==
  /\ {BatchSize, MaxRecent, TicksPerDay} \subseteq Nat \ {0}
  /\ {MaxBatches, MaxRuns, MaxDrops, MaxTick, Window} \subseteq Nat

VARIABLES
  clock,       \* ticks since the first midnight
  run,         \* the number of the latest run of the push task
  phase,       \* where the job is
  batches,     \* batches generated by this run
  recent,      \* the events this run may deliver again, oldest first
  made,        \* event ids drawn so far
  sent,        \* the batch pushed and not acknowledged
  written,     \* how much of it the current stream has written
  drops,       \* streams dropped so far
  wire,        \* records of dead producers the service still holds
  acked,       \* the records acknowledged (history)
  bronze,      \* zerobus_events
  upTo,        \* the length of bronze when the update under way began
  silverRead,  \* the checkpoint of the stream bronze -> silver
  silver,      \* silver[e]: the bronze row the silver row of event e was made from
  refreshed,   \* the views the update under way has refreshed
  gold         \* the two materialized views

producerVars == <<batches, recent, made, sent, written, drops, wire, acked>>
pipelineVars == <<upTo, silverRead, silver, refreshed, gold>>
vars == <<clock, run, phase, producerVars, bronze, pipelineVars>>

Events == 1..(MaxRuns * MaxBatches * BatchSize)

\* Half ticks at which a record may be stamped, and the dates they fall on.
Stamps == 0..(2 * MaxTick + 1)

DayOf(at) == at \div (2 * TicksPerDay)

Days == {DayOf(at) : at \in Stamps}

Today == DayOf(2 * clock)

Record == [event : Events, at : Stamps]

Views == {"health", "perDay"}

-----------------------------------------------------------------------------
\* What the views derive from the tables

\* A slip: the delivery that arrives last wins.
LastArrived(B) == CHOOSE b \in B : \A c \in B : c <= b

\* AUTO CDC, SCD type 1: of the current row and the arriving ones of a key the
\* one with the greatest sequence_by stays.  Equal ones are copies of a record.
Latest(B) == CHOOSE b \in B : \A c \in B : bronze[c].at <= bronze[b].at

ArrivedOn(d) == {b \in DOMAIN bronze : DayOf(bronze[b].at) = d}

\* A slip: whole records are told apart.
DistinctRecords(d) == Cardinality({bronze[b] : b \in ArrivedOn(d)})

DistinctEvents(d) == Cardinality({bronze[b].event : b \in ArrivedOn(d)})

\* Arrivals and distinct events by day, for the days inside the window.
Health(d) ==
  IF d >= Today - Window
  THEN [arrived |-> Cardinality(ArrivedOn(d)), distinct |-> DistinctEvents(d)]
  ELSE [arrived |-> 0, distinct |-> 0]

\* A slip: the daily view counts bronze.
PerDayOfBronze(d) == Cardinality(ArrivedOn(d))

PerDay(d) == Cardinality({e \in DOMAIN silver : DayOf(bronze[silver[e]].at) = d})

-----------------------------------------------------------------------------
\* The job and the push task

Init ==
  /\ clock = 0
  /\ run = 0
  /\ phase = "idle"
  /\ batches = 0
  /\ recent = <<>>
  /\ made = 0
  /\ sent = <<>>
  /\ written = 0
  /\ drops = 0
  /\ wire = <<>>
  /\ acked = {}
  /\ bronze = <<>>
  /\ upTo = 0
  /\ silverRead = 0
  /\ silver = <<>>
  /\ refreshed = {}
  /\ gold = [health |-> [d \in Days |-> [arrived |-> 0, distinct |-> 0]],
             perDay |-> [d \in Days |-> 0]]

Tick ==
  /\ clock < MaxTick
  /\ clock' = clock + 1
  /\ UNCHANGED <<run, phase, producerVars, bronze, pipelineVars>>

\* A slip: the table is created afresh.
PrepareReplacing ==
  /\ phase \in {"idle", "updated"}
  /\ run < MaxRuns
  /\ phase' = "prepared"
  /\ bronze' = <<>>
  /\ UNCHANGED <<clock, run, producerVars, pipelineVars>>

\* CREATE TABLE IF NOT EXISTS and grants: what the table holds stays.
Prepare ==
  /\ phase \in {"idle", "updated"}
  /\ run < MaxRuns
  /\ phase' = "prepared"
  /\ UNCHANGED <<clock, run, producerVars, bronze, pipelineVars>>

\* The producer opens a stream of its own.
StartPush ==
  /\ phase = "prepared"
  /\ run < MaxRuns
  /\ run' = run + 1
  /\ phase' = "pushing"
  /\ batches' = 0
  /\ recent' = <<>>
  /\ UNCHANGED <<clock, made, sent, written, drops, wire, acked, bronze, pipelineVars>>

Fresh(t) == [i \in 1..BatchSize |-> [event |-> made + i, at |-> 2 * t]]

Again(es, t) == [i \in DOMAIN es |-> [event |-> es[i], at |-> 2 * t + 1]]

EventsOf(rs) == [i \in DOMAIN rs |-> rs[i].event]

\* The last MaxRecent elements of s, as a deque(maxlen) keeps them.
Newest(s) == SubSeq(s, Len(s) - (IF Len(s) < MaxRecent THEN Len(s) ELSE MaxRecent) + 1, Len(s))

Push(batch) ==
  /\ phase = "pushing"
  /\ sent = <<>>
  /\ batches < MaxBatches
  /\ batches' = batches + 1
  /\ made' = made + BatchSize
  /\ sent' = batch
  /\ written' = 0

\* Streaming mode: fresh events, and for each of them perhaps a re-delivery of
\* an event sent earlier in this stream.  The producer sleeps between batches.
StreamBatch(es) ==
  LET t == IF batches = 0 THEN clock ELSE clock + 1
      batch == Fresh(t) \o Again(es, t)
  IN  /\ t <= MaxTick
      /\ es \in SeqOf(Range(recent), BatchSize)
      /\ Push(batch)
      /\ clock' = t
      /\ recent' = Newest(recent \o EventsOf(batch))
      /\ UNCHANGED <<run, phase, drops, wire, acked, bronze, pipelineVars>>

\* Single batch mode: fresh events, and at least one of them delivered again.
OneBatch(es) ==
  /\ batches = 0
  /\ es \in SeqOf((made + 1)..(made + BatchSize), BatchSize) \ {<<>>}
  /\ IsInjective(es)
  /\ Push(Fresh(clock) \o Again(es, clock))
  /\ UNCHANGED <<clock, run, phase, recent, drops, wire, acked, bronze, pipelineVars>>

PushDone ==
  /\ phase = "pushing"
  /\ batches > 0
  /\ sent = <<>>
  /\ phase' = "pushed"
  /\ UNCHANGED <<clock, run, producerVars, bronze, pipelineVars>>

\* The push task dies.  The service writes some of what it had received, at
\* some later time.
PushFails ==
  /\ phase = "pushing"
  /\ \E k \in written..Len(sent) : wire' = wire \o SubSeq(sent, written + 1, k)
  /\ sent' = <<>>
  /\ written' = 0
  /\ phase' \in {"prepared", "idle"}
  /\ UNCHANGED <<clock, run, batches, recent, made, drops, acked, bronze, pipelineVars>>

-----------------------------------------------------------------------------
\* The service

Write ==
  /\ written < Len(sent)
  /\ bronze' = Append(bronze, sent[written + 1])
  /\ written' = written + 1
  /\ UNCHANGED <<clock, run, phase, batches, recent, made, sent, drops, wire,
                 acked, pipelineVars>>

LateWrite ==
  /\ wire # <<>>
  /\ bronze' = Append(bronze, Head(wire))
  /\ wire' = Tail(wire)
  /\ UNCHANGED <<clock, run, phase, batches, recent, made, sent, written, drops,
                 acked, pipelineVars>>

\* The stream drops before the acknowledgement: recovery sends again.
Drop ==
  /\ sent # <<>>
  /\ drops < MaxDrops
  /\ drops' = drops + 1
  /\ written' \in 0..written
  /\ UNCHANGED <<clock, run, phase, batches, recent, made, sent, wire, acked,
                 bronze, pipelineVars>>

\* A slip: the push returns when the batch is on its way.
Ingested == sent # <<>>

Durable == sent # <<>> /\ written = Len(sent)

\* wait_for_offset returns.
Ack ==
  /\ Durable
  /\ acked' = acked \cup Range(sent)
  /\ sent' = <<>>
  /\ written' = 0
  /\ UNCHANGED <<clock, run, phase, batches, recent, made, drops, wire, bronze,
                 pipelineVars>>

-----------------------------------------------------------------------------
\* The pipeline update: silver, then gold

StartUpdate ==
  /\ phase = "pushed"
  /\ phase' = "silver"
  /\ upTo' = Len(bronze)
  /\ UNCHANGED <<clock, run, producerVars, bronze, silverRead, silver, refreshed, gold>>

\* The CDC flow applies the next n bronze rows.
SilverBatch(n) ==
  LET batch == (silverRead + 1)..(silverRead + n)
      arriving == {bronze[b].event : b \in batch}
      RowsOf(e) == {b \in batch : bronze[b].event = e}
                     \cup (IF e \in DOMAIN silver THEN {silver[e]} ELSE {})
  IN  /\ phase = "silver"
      /\ n \in 1..(Len(bronze) - silverRead)
      /\ silver' = [e \in DOMAIN silver \cup arriving |-> Latest(RowsOf(e))]
      /\ silverRead' = silverRead + n
      /\ UNCHANGED <<clock, run, phase, producerVars, bronze, upTo, refreshed, gold>>

SilverDone ==
  /\ phase = "silver"
  /\ silverRead >= upTo
  /\ phase' = "gold"
  /\ UNCHANGED <<clock, run, producerVars, bronze, pipelineVars>>

\* The health view reads the table the service writes, and waits for no flow.
HealthRefresh ==
  /\ phase \in {"silver", "gold"}
  /\ "health" \notin refreshed
  /\ gold' = [gold EXCEPT !.health = [d \in Days |-> Health(d)]]
  /\ refreshed' = refreshed \cup {"health"}
  /\ UNCHANGED <<clock, run, phase, producerVars, bronze, upTo, silverRead, silver>>

PerDayRefresh ==
  /\ phase = "gold"
  /\ "perDay" \notin refreshed
  /\ gold' = [gold EXCEPT !.perDay = [d \in Days |-> PerDay(d)]]
  /\ refreshed' = refreshed \cup {"perDay"}
  /\ UNCHANGED <<clock, run, phase, producerVars, bronze, upTo, silverRead, silver>>

UpdateEnds(p) ==
  /\ phase' = p
  /\ refreshed' = {}
  /\ UNCHANGED <<clock, run, producerVars, bronze, upTo, silverRead, silver, gold>>

UpdateCompletes == phase = "gold" /\ refreshed = Views /\ UpdateEnds("updated")

\* An update that fails keeps what its flows and views committed.  The platform
\* may start it again before the job gives up.
UpdateFails ==
  /\ phase \in {"silver", "gold"}
  /\ \E p \in {"pushed", "idle"} : UpdateEnds(p)

Next ==
  \/ Tick
  \/ Prepare
  \/ StartPush
  \/ \E es \in SeqOf(Range(recent), BatchSize) : StreamBatch(es)
  \/ \E es \in SeqOf((made + 1)..(made + BatchSize), BatchSize) : OneBatch(es)
  \/ PushDone
  \/ PushFails
  \/ Write
  \/ LateWrite
  \/ Drop
  \/ Ack
  \/ StartUpdate
  \/ \E n \in 1..Len(bronze) : SilverBatch(n)
  \/ SilverDone
  \/ HealthRefresh
  \/ PerDayRefresh
  \/ UpdateCompletes
  \/ UpdateFails

Spec == Init /\ [][Next]_vars

-----------------------------------------------------------------------------
\* Properties

TypeOK ==
  /\ clock \in 0..MaxTick
  /\ run \in 0..MaxRuns
  /\ phase \in {"idle", "prepared", "pushing", "pushed", "silver", "gold", "updated"}
  /\ batches \in 0..MaxBatches
  /\ recent \in Seq(Events)
  /\ Len(recent) <= MaxRecent
  /\ made \in {0} \cup Events
  /\ sent \in Seq(Record)
  /\ written \in 0..Len(sent)
  /\ drops \in 0..MaxDrops
  /\ wire \in Seq(Record)
  /\ acked \subseteq Record
  /\ bronze \in Seq(Record)
  /\ {upTo, silverRead} \subseteq 0..Len(bronze)
  /\ DOMAIN silver \subseteq Events
  /\ \A e \in DOMAIN silver : silver[e] \in 1..silverRead
  /\ refreshed \subseteq Views

\* What the producer was told is durable is in silver after the next update,
\* at least as late as it was acknowledged, whatever dropped, died or was
\* started again in between (push_zerobus_events.py:84-88, 168-188).
AckedEventsReachSilver ==
  phase = "updated" =>
    \A r \in acked : /\ r.event \in DOMAIN silver
                     /\ r.at <= bronze[silver[r.event]].at

\* Bronze as the silver flow reads it: the key and the stamp of each row.
Feed == [b \in DOMAIN bronze |-> [keys |-> {bronze[b].event}, at |-> bronze[b].at]]

\* Replayed batches and late writes reorder deliveries; silver is at every
\* moment what SCD type 1 says of the rows read, one row for each event, the
\* one with the latest ingested_at (silver_zerobus_events.py:3-10, 63-68).
Scd == INSTANCE ScdType1 WITH feed <- Feed, read <- silverRead, table <- silver

SilverIsScdType1 == Scd!Spec

\* The daily counts add up to the distinct events read, re-deliveries on other
\* days included (gold_zerobus_metrics.py:56-76).
EventsCountedOnce ==
  phase = "updated" =>
    MapThenSumSet(LAMBDA d : gold.perDay[d], Days) =
      Cardinality({bronze[b].event : b \in 1..silverRead})

\* duplicate_rate surfaces re-deliveries (silver_zerobus_events.py:9-10,
\* gold_zerobus_metrics.py:6-7): two arrivals of an event on one day, of the
\* same or of different stamps, make the view count fewer events than arrivals
\* on that day.  Arrivals on different days stay invisible to it.
DuplicatesShow ==
  phase = "updated" /\ Today <= Window =>
    \A b, c \in 1..upTo :
      LET d == DayOf(bronze[b].at)
      IN  b # c /\ bronze[b].event = bronze[c].event /\ DayOf(bronze[c].at) = d =>
            gold.health[d].distinct < gold.health[d].arrived

=============================================================================
