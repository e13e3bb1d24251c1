----------------------------- MODULE MCApiDomain -----------------------------
(***************************************************************************)
(* Instances of ApiDomain.                                                 *)
(***************************************************************************)
EXTENDS ApiDomain, TLC

CONSTANTS r1, r2

\* Pages: two specs that share a name, the pages of one collection; r1 may
\* be on either page, r2 has no id.
PagesStatuses == {200}

PagesName == <<<<"", "orders">>, <<"", "orders">>>>

PagesPath == <<<<"/", "orders?page=1">>, <<"/", "orders?page=2">>>>

PagesPlaces == (r1 :> {1, 2}) @@ (r2 :> {2})

PagesKeyless == {r2}

\* Snapshots: two endpoints with a record each, which may disappear.
SnapshotsName == <<None, None>>

SnapshotsPath == <<<<"/", "posts">>, <<"/", "users">>>>

SnapshotsPlaces == (r1 :> {1, Nowhere}) @@ (r2 :> {2})

\* Documents: one endpoint of documents, one that redirects or is not found.
DocumentsStatuses == {200, 302, 404}

DocumentsPlaces == (r1 :> {1}) @@ (r2 :> {2})

\* Slices: two unnamed POST specs of one path, as the generator writes them.
SlicesPath == <<<<"/", "slice">>, <<"/", "slice">>>>

\* The error count: the snapshots' endpoints, with a rate limit.
LimitsStatuses == {200, 429}

MCRecords == {r1, r2}

=============================================================================
