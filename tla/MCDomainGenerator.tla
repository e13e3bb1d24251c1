--------------------------- MODULE MCDomainGenerator ---------------------------
(***************************************************************************)
(* Rows for the generator: two domains, GET and POST, cells to encode, a   *)
(* paths with a comma and a double quote, settings that conflict, rows     *)
(* that are not complete.                                                  *)
(***************************************************************************)
EXTENDS DomainGenerator

\* A GET row of domain d without anything optional.
Plain(d, path) ==
  [domain |-> d, path |-> path, method |-> "", params |-> <<>>, body |-> "",
   schedule |-> "", auth_mode |-> "", silver_shape |-> "", enabled |-> TRUE]

MCRows ==
  {[Plain("a", <<"/p">>) EXCEPT !.params = <<"k", "=", ",", " ", "w", "&", "&", "m", "&", " ">>,
                                !.schedule = "s1"],
   [Plain("a", <<"/p", ",", "/q">>) EXCEPT !.params = <<"k", "=", "%", "20", "quot", "=", " ">>,
                                           !.schedule = "s2", !.auth_mode = "connection"],
   [Plain("a", <<"/q", "bslash">>) EXCEPT !.method = "POST", !.auth_mode = "basic_secret"],
   [Plain("a", <<"/r">>) EXCEPT !.body = "{}", !.silver_shape = "document"],
   [Plain("a", <<"/s", "quot">>) EXCEPT !.method = "GET", !.silver_shape = "documents"],
   [Plain("b", <<"/p">>) EXCEPT !.auth_mode = "basic_secret", !.silver_shape = "document"],
   Plain("b", <<>>),
   Plain("", <<"/p">>)}

=============================================================================
