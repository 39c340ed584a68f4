----------------------------- MODULE MCWafRules -----------------------------
(* WafRules on two nodes with two administrators each.                       *)
EXTENDS WafRules, TLC

Symmetry == Permutations(Worker) \cup Permutations(Pattern \ Invalid)
NoConfig == [n \in Node |-> {<<>>}]
\* The node whose administrators write has a pattern in its configuration.
WritersConfig == [n \in Node |-> IF n \in Writers THEN {<<>>} \cup {<<p>> : p \in Pattern} ELSE {<<>>}]
NoReload == [n \in Node |-> 0]
WritersReload == [n \in Node |-> IF n \in Writers THEN 1 ELSE 0]
=============================================================================
