-------------------------- MODULE MCCircuitBreaker --------------------------
(* CircuitBreaker on small sets; requests are symmetric. *)
EXTENDS CircuitBreaker, TLC

Symmetry == Permutations(Request)

\* One configuration, and a second one an administrator may switch to and back.
Strict == [threshold |-> 2, reset |-> 1, probes |-> 3]
Loose == [threshold |-> 1, reset |-> 0, probes |-> 0]
TwoConfigs == {Strict, Loose}
SingleProbe == {[threshold |-> 1, reset |-> 1, probes |-> 1]}
=============================================================================
