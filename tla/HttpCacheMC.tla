------------------------------ MODULE HttpCacheMC ------------------------------
(* The HTTP cache with two commands and two hosts, each alike. *)
EXTENDS HttpCache, TLC

Alike == Permutations(Procs) \cup Permutations(Hosts)
=============================================================================
