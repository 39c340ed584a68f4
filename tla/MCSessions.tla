----------------------------- MODULE MCSessions -----------------------------
(* Sessions on small sets.  Tokens, workers and addresses are symmetric.     *)
EXTENDS Sessions, TLC

Symmetry == Permutations(Token) \cup Permutations(Actor) \cup Permutations(Ip)
=============================================================================
