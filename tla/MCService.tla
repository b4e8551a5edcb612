------------------------------- MODULE MCService -------------------------------
(* Instances of Service for TLC. *)
EXTENDS Service, TLC

\* Clients of one kind differ only in their name.
ClientSymmetry == Permutations(Sessions) \cup Permutations(Requests)
================================================================================
