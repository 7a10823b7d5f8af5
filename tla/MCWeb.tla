------------------------------- MODULE MCWeb -------------------------------
(* Visits: one types a lot, one writes a lot, and in two the tokens change *)
(* under a write or a search.                                              *)
EXTENDS Web

CONSTANTS t1, t2

Visit(typed, writing, keys) == [typed |-> typed, writes |-> writing, keys |-> keys]
MCVisits == {Visit(3, 0, 0), Visit(0, 2, 0), Visit(0, 1, 3), Visit(1, 0, 2)}
=============================================================================
