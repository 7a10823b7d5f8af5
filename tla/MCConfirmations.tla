-------------------------- MODULE MCConfirmations --------------------------
(* Calls, tokens and tools are interchangeable.                             *)
EXTENDS Confirmations, TLC

Symmetry == Permutations(Client) \cup Permutations(Token) \cup Permutations(Tool)
=============================================================================
