------------------------------ MODULE FetchRows ------------------------------
(***************************************************************************)
(* The rows one run of src/jobs/fetch_api_responses.py produces, and the   *)
(* two checks the notebook makes on them before it appends anything.       *)
(*                                                                         *)
(* A request spec is its position in the ENDPOINTS list.  A row keeps the  *)
(* spec it answers (history: the program's tuple has only the endpoint     *)
(* label and the path) and the status.  Its body is non-NULL exactly for a *)
(* 2xx status and its error message exactly otherwise, so neither is kept. *)
(***************************************************************************)
EXTENDS Integers, Sequences, FiniteSets

CONSTANTS
  NumSpecs,     \* the number of request specs in ENDPOINTS
  Name,         \* Name[s]: the name spec s gives itself, None when it gives none
  Path,         \* Path[s]: the path of spec s; each a pair <<its slashes, the rest>>
  Statuses,     \* the HTTP status codes an API may answer with
  Unreachable,  \* a call that raises RequestException or DatabricksError
  Broken,       \* a call that raises anything else
  None          \* Python's None: the status of a row whose request raised

ASSUME NumSpecsAssumption == NumSpecs \in Nat

ASSUME AnswerAssumption ==
  /\ Statuses \subseteq Int
  /\ Unreachable \notin Int
  /\ Broken \notin Int
  /\ None \notin Int
  /\ Broken # Unreachable

Specs == 1..NumSpecs

\* The label a row carries, and silver is keyed on.
Endpoint(s) == IF Name[s] = None THEN Path[s] ELSE Name[s]

\* The path a row holds: lstrip takes the leading slashes.
StoredPath(s) == Path[s][2]

\* What one call of the API comes to.
Answers == Statuses \cup {Unreachable, Broken}

\* A slip: 429 is taken for a permanent failure, as any status below 500.
RetryableFrom500(a) == a = Unreachable \/ (a \in Statuses /\ a >= 500)

\* The exceptions tenacity retries: 429 and 5xx are raised as such by
\* request_with_retry itself.
Retryable(a) ==
  \/ a = Unreachable
  \/ a \in Statuses /\ (a = 429 \/ a >= 500)

\* The status fetch_one records: the answer's own, or None for an exception,
\* a 429 or 5xx that outlived its attempts among them.
StatusOf(a) == IF a \in Statuses /\ ~Retryable(a) THEN a ELSE None

Row == [spec : Specs, status : Statuses \cup {None}]

\* A slip: redirects count as successes.
IsSuccessOrRedirect(row) ==
  row.status \in Statuses /\ 200 <= row.status /\ row.status < 400

IsSuccess(row) == row.status \in Statuses /\ 200 <= row.status /\ row.status < 300

\* A snapshot: the rows of a run in which every spec is answered exactly once.
\* Positions are the order in which as_completed() handed the futures over.
Snapshot(rows) ==
  /\ rows \in [Specs -> Row]
  /\ \A i, j \in Specs : i # j => rows[i].spec # rows[j].spec
  /\ \A s \in Specs : \E i \in Specs : rows[i].spec = s

Successes(rows) == {i \in DOMAIN rows : IsSuccess(rows[i])}

\* sorted(rows) compares tuples: two rows equal in (endpoint, path) are ordered
\* by status, and Python cannot order None against an int.
SortRaises(rows) ==
  \E i, j \in DOMAIN rows :
    /\ Endpoint(rows[i].spec) = Endpoint(rows[j].spec)
    /\ StoredPath(rows[i].spec) = StoredPath(rows[j].spec)
    /\ rows[i].status = None
    /\ rows[j].status # None

=============================================================================
