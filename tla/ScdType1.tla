------------------------------ MODULE ScdType1 ------------------------------
(***************************************************************************)
(* What an AUTO CDC flow of SCD type 1 promises to those who read its      *)
(* target: whatever order the rows arrive in and however they are cut into *)
(* batches, the table is at every moment the latest row of each key among  *)
(* the rows read so far.  The silver tables of the modules implement it.   *)
(***************************************************************************)
EXTENDS Naturals, SequencesExt

VARIABLES
  feed,   \* the rows that arrived: the keys each upserts, and its sequence_by
  read,   \* how many of them the flow has read
  table   \* table[k]: the row the current row of key k was made from

vars == <<feed, read, table>>

\* Of the first n rows, the latest ones of key k.
Newest(k, n) ==
  {b \in 1..n :
     /\ k \in feed[b].keys
     /\ \A c \in 1..n : k \in feed[c].keys => feed[c].at <= feed[b].at}

IsCurrent ==
  /\ DOMAIN table = UNION {feed[b].keys : b \in 1..read}
  /\ \A k \in DOMAIN table : table[k] \in Newest(k, read)

Init ==
  /\ feed = <<>>
  /\ read = 0
  /\ table = <<>>

Arrive ==
  /\ IsPrefix(feed, feed')
  /\ UNCHANGED <<read, table>>

\* A row stays until a row read later takes its place.
Apply ==
  /\ read' \in (read + 1)..Len(feed)
  /\ IsCurrent'
  /\ \A k \in DOMAIN table : table'[k] = table[k] \/ table'[k] > read
  /\ UNCHANGED feed

Next == Arrive \/ Apply

Spec == Init /\ [][Next]_vars

=============================================================================
