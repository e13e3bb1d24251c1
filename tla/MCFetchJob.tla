------------------------------ MODULE MCFetchJob ------------------------------
(***************************************************************************)
(* An instance of FetchJob: three specs on two threads, the first two with *)
(* the same endpoint label and path, as two unnamed POST slices of one     *)
(* path have.  Calls succeed or meet a rate limit.                         *)
(***************************************************************************)
EXTENDS FetchJob

ThreadsName == <<None, None, <<"", "grid">>>>

ThreadsPath == <<<<"/", "slice">>, <<"/", "slice">>, <<"/", "export">>>>

ThreadsStatuses == {200, 429}

=============================================================================
