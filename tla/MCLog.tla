------------------------------- MODULE MCLog -------------------------------
(* Instances of Log for TLC. *)
EXTENDS Log

\* One process with two threads, one with one.
MCProcOf == [t1 |-> "p", t2 |-> "p", t3 |-> "q"]

\* The configuration of main, and one that sets everything.
MCConfigs ==
  {[path |-> None, max_size |-> 0, level |-> LOG_LEVEL],
   [path |-> "default", max_size |-> 1, level |-> LOG_LEVEL - 1]}

=============================================================================
