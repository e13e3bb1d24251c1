----------------------------- MODULE MCCloudFiles -----------------------------
(***************************************************************************)
(* Instances of CloudFiles: the demo's two drops of a key each, and real   *)
(* feeds of the same keys.                                                 *)
(***************************************************************************)
EXTENDS CloudFiles

CONSTANTS k1, k2

MCKeys == {k1, k2}

MCHolds == <<{k1}, {k2}>>

\* A full and an incremental export.
MCExtents == {{k1, k2}, {k1}}

AllConfigs == [seeded : BOOLEAN, dedup : BOOLEAN]

RealFeed == {[seeded |-> FALSE, dedup |-> TRUE]}

=============================================================================
