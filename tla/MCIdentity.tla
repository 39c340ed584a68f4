----------------------------- MODULE MCIdentity -----------------------------
(* Identity with one account and addresses that nobody registered.           *)
EXTENDS Identity, TLC

AsTyped == [e \in Email |-> e]
Symmetry == Permutations(Email) \cup Permutations(Actor) \cup Permutations(Token)
=============================================================================
