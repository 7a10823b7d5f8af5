----------------------------- MODULE MCRequests -----------------------------
(* Names are interchangeable, and so are the requests.                      *)
EXTENDS Requests, TLC

Symmetry == Permutations(Name) \cup Permutations(Client)
=============================================================================
