----------------------------- MODULE SharedLimit -----------------------------
(* The rate limiter in Redis (src/middleware/redis_rate_limit.rs) for one    *)
(* client: INCR, and after the first of a window EXPIRE, as two calls.       *)
(* Either call may fail, a gateway may die between them, and several         *)
(* gateways share the key.                                                   *)
EXTENDS Integers

CONSTANTS
  Gateway,
  MaxRequests,
  Window,        \* window_secs
  MaxCounted       \* bound on the requests counted in one window

VARIABLES
  key,           \* the key's count (0: no key) and its time to live (-1: none)
  call,          \* call[g]: "idle", or "expire" between INCR and EXPIRE
  admitted,      \* requests their count admitted since the key came (history)
  unset          \* an EXPIRE failed or was never sent (history)

sharedVars == <<key, call, admitted, unset>>
NoKey == [count |-> 0, ttl |-> -1]

SharedInit ==
  /\ key = NoKey /\ call = [g \in Gateway |-> "idle"] /\ admitted = 0 /\ unset = FALSE

Incr(g) ==
  /\ call[g] = "idle" /\ key.count < MaxCounted
  /\ key' = [key EXCEPT !.count = @ + 1]
  /\ admitted' = admitted + IF key.count + 1 <= MaxRequests THEN 1 ELSE 0
  /\ call' = [call EXCEPT ![g] = IF key.count = 0 THEN "expire" ELSE "idle"]
  /\ UNCHANGED unset

\* An INCR that fails admits the request, and sends no EXPIRE even if it was the
\* first and Redis had counted it before its answer was lost.
LoseAnswer(g) ==
  /\ call[g] = "idle" /\ key.count < MaxCounted
  /\ key' = [key EXCEPT !.count = @ + 1] /\ unset' = (unset \/ key.count = 0)
  /\ UNCHANGED <<call, admitted>>

\* `let _ =`: a failed EXPIRE is not noticed, nor sent again.
Expire(g) ==
  /\ call[g] = "expire"
  /\ \/ key' = [key EXCEPT !.ttl = Window] /\ UNCHANGED unset
     \/ unset' = TRUE /\ UNCHANGED key
  /\ call' = [call EXCEPT ![g] = "idle"]
  /\ UNCHANGED admitted

Die(g) ==
  /\ call[g] = "expire" /\ call' = [call EXCEPT ![g] = "idle"] /\ unset' = TRUE
  /\ UNCHANGED <<key, admitted>>

WindowSecond ==
  /\ key.ttl > 0
  /\ IF key.ttl = 1 THEN key' = NoKey /\ admitted' = 0
     ELSE key' = [key EXCEPT !.ttl = @ - 1] /\ UNCHANGED admitted
  /\ UNCHANGED <<call, unset>>

SharedNext == WindowSecond \/ \E g \in Gateway : Incr(g) \/ LoseAnswer(g) \/ Expire(g) \/ Die(g)

SharedSpec == SharedInit /\ [][SharedNext]_sharedVars

-----------------------------------------------------------------------------
SharedTypeOK ==
  /\ key \in [count: 0..MaxCounted, ttl: -1..Window] /\ call \in [Gateway -> {"idle", "expire"}]
  /\ admitted \in 0..MaxCounted /\ unset \in BOOLEAN

\* A window admits at most the limit, ends, and is neither cut short nor drawn
\* out: a key without an end waits for the one gateway that opened it, which
\* finds it still without one; only after an EXPIRE was lost may a key stay for
\* good, and its client is refused from then on.
WindowEnds ==
  /\ admitted <= MaxRequests
  /\ key.count > 0 /\ key.ttl = -1 /\ ~unset => \E g \in Gateway : call[g] = "expire"
  /\ \A g \in Gateway : call[g] = "expire" =>
       key.count > 0 /\ key.ttl = -1 /\ \A h \in Gateway : call[h] = "expire" => h = g

=============================================================================
