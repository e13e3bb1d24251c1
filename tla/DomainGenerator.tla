---------------------------- MODULE DomainGenerator ----------------------------
(***************************************************************************)
(* The generator of API domains: one run reads the control table, groups   *)
(* its rows by domain and writes a YAML file for each domain.  Somebody    *)
(* edits the table at any time.                                            *)
(*                                                                         *)
(* A text is a sequence of tokens, of which only those that separate, pad  *)
(* or escape matter; "quot" is the double quote, "bslash" the backslash.   *)
(* A row's other cells are what strip, lower, upper and _truthy make of    *)
(* them.  A YAML file is a record of what the script puts into the         *)
(* template.                                                               *)
(***************************************************************************)
EXTENDS Integers, SequencesExt

CONSTANTS
  Rows,      \* rows the table may get
  MaxRows,   \* bound on the rows of the table
  MaxEdits,  \* bound on the edits of the table
  MaxRuns    \* bound on the runs of the script

VARIABLES
  table,    \* the control table, in the order it is read
  edits,    \* edits so far
  run,      \* runs so far
  phase,    \* where the script is, or how its latest run ended
  read,     \* the rows the latest run read
  todo,     \* the domains it has still to write
  preview   \* preview[d]: the YAML of domain d in the output directory

vars == <<table, edits, run, phase, read, todo, preview>>

-----------------------------------------------------------------------------
\* Texts

Hex ==
  [c \in {" ", ",", "=", "quot", "bslash"} |->
     CASE c = " " -> "20" [] c = "," -> "2C" [] c = "=" -> "3D" [] c = "quot" -> "22"
       [] c = "bslash" -> "5C"]

Split(text, sep) ==
  FoldLeft(LAMBDA pieces, c : IF c = sep THEN Append(pieces, <<>>)
                              ELSE [pieces EXCEPT ![Len(pieces)] = Append(@, c)],
           <<<<>>>>, text)

Join(pieces, sep) ==
  IF pieces = <<>> THEN <<>>
  ELSE FoldLeft(LAMBDA text, p : text \o <<sep>> \o p, Head(pieces), Tail(pieces))

Strip(text) ==
  LET inner == {i \in DOMAIN text : text[i] # " "}
  IN  IF inner = {} THEN <<>> ELSE SubSeq(text, Min(inner), Max(inner))

\* A slip: quote with its default safe characters.
QuoteAll(text) ==
  FoldLeft(LAMBDA quoted, c : quoted \o (IF c = "%" THEN <<"%", "25">>
                                         ELSE IF c \in DOMAIN Hex THEN <<"%", Hex[c]>> ELSE <<c>>),
           <<>>, text)

\* quote with safe="%".
Quote(text) ==
  FoldLeft(LAMBDA quoted, c : quoted \o (IF c \in DOMAIN Hex THEN <<"%", Hex[c]>> ELSE <<c>>),
           <<>>, text)

\* A key, or a key and a value split at the first =.
EncodePair(pair) ==
  LET eq == {i \in DOMAIN pair : pair[i] = "="}
  IN  IF eq = {} THEN Quote(Strip(pair))
      ELSE Quote(Strip(SubSeq(pair, 1, Min(eq) - 1))) \o <<"=">>
             \o Quote(Strip(SubSeq(pair, Min(eq) + 1, Len(pair))))

\* A loop that passes over the elements without P.
Keep(seq, P(_)) == FoldLeft(LAMBDA kept, x : IF P(x) THEN Append(kept, x) ELSE kept, <<>>, seq)

Pairs(params) == Keep(Split(params, "&"), LAMBDA p : p # <<>>)

EncodeParams(params) ==
  LET pairs == Pairs(params)
  IN  Join([i \in DOMAIN pairs |-> EncodePair(pairs[i])], "&")

-----------------------------------------------------------------------------
\* build_domains

\* A row, each cell as strip, lower, upper and _truthy leave it.
Row ==
  [domain : STRING, path : {text \in Seq(STRING) : Strip(text) = text}, method : STRING,
   params : Seq(STRING), body : STRING, schedule : STRING, auth_mode : STRING,
   silver_shape : STRING, enabled : BOOLEAN]

ASSUME GeneratorAssumption ==
  /\ Rows \subseteq Row
  /\ {MaxRows, MaxEdits, MaxRuns} \subseteq Nat

\* The rows that are neither incomplete nor disabled.
Live(row) == row.domain # "" /\ row.path # <<>> /\ row.enabled

\* The request a row asks for; body "" is none.
Request(row) ==
  [path |-> IF row.params = <<>> THEN row.path
            ELSE row.path \o <<"?">> \o EncodeParams(row.params),
   method |-> IF row.method = "" THEN "GET" ELSE row.method,
   body |-> row.body]

\* The settings of a domain, each with its default.
Default == [schedule |-> "", auth_mode |-> "connection", silver_shape |-> "records"]

Settings == DOMAIN Default

\* A slip: a later value replaces the first.
LastWins(key, old, value) == value # ""

\* Whether a row's value takes the place of the one the domain has.
Settles(key, old, value) == value \notin {"", Default[key]} /\ old = Default[key]

Conflicts(key, old, value) == value \notin {"", Default[key]} /\ old \notin {Default[key], value}

Put(map, key, value) ==
  [k \in DOMAIN map \cup {key} |-> IF k = key THEN value ELSE map[k]]

Fresh == [endpoints |-> <<>>, settings |-> Default]

AddRow(built, row) ==
  LET old == IF row.domain \in DOMAIN built.domains THEN built.domains[row.domain] ELSE Fresh
      new == [endpoints |-> Append(old.endpoints, Request(row)),
              settings |-> [key \in Settings |->
                IF Settles(key, old.settings[key], row[key]) THEN row[key]
                ELSE old.settings[key]]]
  IN  IF ~Live(row) THEN built
      ELSE [domains |-> Put(built.domains, row.domain, new),
            warned  |-> built.warned \cup
              {<<row.domain, key>> : key \in
                 {key \in Settings : Conflicts(key, old.settings[key], row[key])}}]

BuildDomains(rows) == FoldLeft(AddRow, [domains |-> <<>>, warned |-> {}], rows)

-----------------------------------------------------------------------------
\* The YAML, and how the notebook and the pipeline read it

\* A slip: bodies are not looked for.
AllGet(endpoints) == \A i \in DOMAIN endpoints : endpoints[i].method = "GET"

AllGetNoBody(endpoints) ==
  \A i \in DOMAIN endpoints : endpoints[i].method = "GET" /\ endpoints[i].body = ""

EndpointsBlock(endpoints) ==
  IF AllGetNoBody(endpoints)
  THEN [api_endpoints |-> Join([i \in DOMAIN endpoints |-> endpoints[i].path], ","),
        api_endpoints_json |-> <<>>]
  ELSE [api_endpoints |-> <<>>, api_endpoints_json |-> endpoints]

\* A line is written for basic_secret and for document only.
Render(entry) ==
  [endpoints |-> EndpointsBlock(entry.endpoints),
   schedule |-> entry.settings.schedule,
   basic_secret |-> entry.settings.auth_mode = "basic_secret",
   document |-> entry.settings.silver_shape = "document"]

\* What is cut off while it is written asks for nothing.
Torn == [endpoints |-> EndpointsBlock(<<>>)]

\* The first ends a double-quoted scalar, the second escapes what follows it.
Special == {"quot", "bslash"}

\* A double-quoted scalar as it is loaded; <<>> stands for whatever becomes of
\* a text that is not written as YAML wants it.
Loaded(text) == IF Range(text) \cap Special = {} THEN text ELSE <<>>

\* ENDPOINTS as the fetch notebook makes it of its widgets.
Fetched(block) ==
  IF block.api_endpoints_json # <<>> THEN block.api_endpoints_json
  ELSE LET paths == Split(Loaded(block.api_endpoints), ",")
           full == Keep([i \in DOMAIN paths |-> Strip(paths[i])], LAMBDA p : p # <<>>)
       IN  [i \in DOMAIN full |-> [path |-> full[i], method |-> "GET", body |-> ""]]

-----------------------------------------------------------------------------
\* The table and the script

Init ==
  /\ table = <<>>
  /\ edits = 0
  /\ run = 0
  /\ phase = "idle"
  /\ read = <<>>
  /\ todo = {}
  /\ preview = <<>>

\* A row is added, removed, paused or resumed.
Edit ==
  /\ edits < MaxEdits
  /\ edits' = edits + 1
  /\ \/ \E row \in Rows : Len(table) < MaxRows /\ table' = Append(table, row)
     \/ \E i \in DOMAIN table : table' = RemoveAt(table, i)
     \/ \E i \in DOMAIN table : table' = [table EXCEPT ![i].enabled = ~@]
  /\ UNCHANGED <<run, phase, read, todo, preview>>

Built == BuildDomains(read)

\* A slip: a table without an enabled row goes unnoticed.
Proceeds(domains) == "writing"

Outcome(domains) == IF domains = {} THEN "failed" ELSE "writing"

\* The table is read, or its query fails.
Start ==
  /\ phase # "writing"
  /\ run < MaxRuns
  /\ run' = run + 1
  /\ \/ /\ read' = table
        /\ todo' = DOMAIN BuildDomains(table).domains
        /\ phase' = Outcome(todo')
     \/ phase' = "failed" /\ UNCHANGED <<read, todo>>
  /\ UNCHANGED <<table, edits, preview>>

\* The next domain is written.  They go by name; any order is allowed here.
WriteDomain(d) ==
  /\ phase = "writing"
  /\ d \in todo
  /\ preview' = Put(preview, d, Render(Built.domains[d]))
  /\ todo' = todo \ {d}
  /\ phase' = IF todo' = {} THEN "done" ELSE "writing"
  /\ UNCHANGED <<table, edits, run, read>>

\* An interrupt, or a file that cannot be written, or not to its end.
Dies ==
  /\ phase = "writing"
  /\ phase' = "failed"
  /\ todo' = {}
  /\ preview' = preview \/ \E d \in todo : preview' = Put(preview, d, Torn)
  /\ UNCHANGED <<table, edits, run, read>>

Next ==
  \/ Edit
  \/ Start
  \/ \E d \in todo : WriteDomain(d)
  \/ Dies

Spec == Init /\ [][Next]_vars

-----------------------------------------------------------------------------
\* Properties

DomainsOf(rows) == {row.domain : row \in {r \in Range(rows) : Live(r)}}

RowsOf(rows, d) == Keep(rows, LAMBDA row : Live(row) /\ row.domain = d)

TableRows == {[row EXCEPT !.enabled = on] : row \in Rows, on \in BOOLEAN}

TypeOK ==
  /\ table \in Seq(TableRows)
  /\ Len(table) <= MaxRows
  /\ read \in Seq(TableRows)
  /\ edits \in 0..MaxEdits
  /\ run \in 0..MaxRuns
  /\ phase \in {"idle", "writing", "done", "failed"}
  /\ todo \subseteq DomainsOf(read)
  /\ phase = "writing" <=> todo # {}

\* The fetch notebook asks for what the enabled rows of the domain say, one
\* request for each and in their order, through the grouping, the encoding of
\* the query and the two forms of the widget (generate_api_domains.py:236-320,
\* fetch_api_responses.py:63-71), and whatever an earlier run left in the
\* directory, a file that was cut off included.  In the form without JSON a
\* path may hold no comma, double quote or backslash: its cell is not encoded,
\* the notebook splits at the comma, and YAML makes something else of the rest.
FetchRequestsTheRows ==
  phase = "done" =>
    \A d \in DomainsOf(read) :
      LET rows == RowsOf(read, d)
          wanted == [i \in DOMAIN rows |-> Request(rows[i])]
          plain == \A i \in DOMAIN rows : Range(rows[i].path) \cap ({","} \cup Special) = {}
      IN  plain \/ ~AllGetNoBody(wanted) =>
            d \in DOMAIN preview /\ Fetched(preview[d].endpoints) = wanted

\* The rows of domain d with a value for setting key that counts.
Setting(rows, d, key) ==
  {i \in DOMAIN rows : /\ Live(rows[i]) /\ rows[i].domain = d
                       /\ rows[i][key] \notin {"", Default[key]}}

\* A setting of a domain is the first value other than its default that one of
\* the enabled rows has, wherever other rows stand between, and a warning is
\* given exactly when two of them have different such values
\* (generate_api_domains.py:217-233, 275-288).
SettingsComeFromTheRows ==
  phase = "writing" =>
    LET built == Built
    IN  \A d \in DomainsOf(read), key \in Settings :
          LET setting == Setting(read, d, key)
          IN  /\ built.domains[d].settings[key] =
                   (IF setting = {} THEN Default[key] ELSE read[Min(setting)][key])
              /\ <<d, key>> \in built.warned <=>
                   \E i, j \in setting : read[i][key] # read[j][key]

\* Input that is encoded already is left alone (generate_api_domains.py:163-164),
\* but for pairs of blanks, which the first encoding empties.
EncodedCellsStay ==
  \A i \in DOMAIN table :
    LET encoded == EncodeParams(table[i].params)
    IN  Pairs(EncodeParams(encoded)) = Pairs(encoded)

\* Re-running the script after an endpoint is paused or removed refreshes the
\* YAML (examples/api/control_table.sql:13-14): a domain without endpoints has
\* no file among those to deploy, but for one that nobody could deploy.
PreviewFollowsTable ==
  phase = "done" => \A d \in DOMAIN preview : d \in DomainsOf(read) \/ preview[d] = Torn

=============================================================================
