--------------------------- MODULE TokenLifecycle ---------------------------
(* What a session token promises its holder, with no map, list, row or       *)
(* thread: it is installed at most once and, once over, never usable again.  *)
CONSTANT Token
VARIABLE status

Init == status = [t \in Token |-> "fresh"]

\* create installs one token.
Install(t) ==
  /\ status[t] = "fresh"
  /\ status' = [status EXCEPT ![t] = "live"]

\* Logout, eviction, expiry, force logout and crashes retire tokens, installed or not.
Retire(S) == status' = [t \in Token |-> IF t \in S THEN "over" ELSE status[t]]

Next == (\E t \in Token : Install(t)) \/ (\E S \in SUBSET Token : Retire(S))

Spec == Init /\ [][Next]_status
=============================================================================
