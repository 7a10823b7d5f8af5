----------------------------- MODULE MCRateLimit -----------------------------
(* Requests are interchangeable; one address is watched.                    *)
EXTENDS RateLimit, TLC

MCExcess == [t \in Table |-> [ip \in IP |-> IF ip = Watched THEN 2 ELSE 0]]

Symmetry == Permutations(Request)
=============================================================================
