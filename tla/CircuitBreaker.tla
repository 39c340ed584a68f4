--------------------------- MODULE CircuitBreaker ---------------------------
(* One service's circuit breaker (src/gateway/circuit_breaker.rs) and the    *)
(* part of gateway_handler around it (src/gateway/mod.rs): admission, cache   *)
(* lookup, choice of an upstream, proxying, and the record of the result.    *)
(*                                                                           *)
(* Breakers of different services share nothing but the configuration.  Each *)
(* allow_request and record_ call holds the entry's lock, so it is one step; *)
(* requests interleave between them.  What the handler does before the       *)
(* breaker rejects requests without a trace here, and what it does after the *)
(* record never comes back to the breaker: both are left out.                *)
EXTENDS Integers, FiniteSets

CONSTANTS
  Request,     \* requests in progress at a time; a slot is used again and again
  Upstreams,   \* number of upstreams of the service
  Strategy,    \* its load_balance
  Configs,     \* breaker configurations an administrator may set
  None,
  U32Max,      \* where the u32 counters saturate
  Horizon,     \* elapsed time is counted up to here
  CacheHits,   \* TRUE if responses may come from the cache
  MaxLeaked    \* bound on a connection counter up to which clients may disconnect

Config == [threshold: 0..U32Max, reset: Nat, probes: 0..U32Max]

ASSUME CircuitBreakerAssumption ==
  /\ IsFiniteSet(Request)
  /\ Upstreams \in Nat \ {0}
  /\ Strategy \in {"round-robin", "random", "least-connections"}
  /\ Configs \subseteq Config /\ Configs # {}
  /\ None \notin Nat
  /\ U32Max \in Nat \ {0}
  /\ Horizon \in Nat /\ \A c \in Configs : c.reset <= Horizon
  /\ CacheHits \in BOOLEAN
  /\ MaxLeaked \in Nat

Upstream == 1..Upstreams

VARIABLES
  brk,      \* the CircuitBreakerEntry
  cfg,      \* the CircuitBreakerConfigState
  req,      \* where each request is in gateway_handler
  conns,    \* LoadBalancer.connections
  turn,     \* LoadBalancer.counters, modulo the number of upstreams
  healthy,  \* the environment: upstreams have stopped failing
  good,     \* history: successes recorded since the last recorded failure
  stale     \* history: successes the current half-open period was credited with by
            \* requests it did not admit

history == <<good, stale>>
vars == <<brk, cfg, req, conns, turn, healthy, good, stale>>

Breaker == [state: {"Closed", "Open", "HalfOpen"},
            failures: 0..U32Max,           \* failure_count
            successes: 0..U32Max,          \* success_count_half_open
            inflight: 0..U32Max,           \* in_flight_probes
            elapsed: 0..Horizon \cup {None}]   \* last_failure_time.elapsed()

\* `probe` is history: the request was admitted in the current half-open period.
RequestState == [pc: {"idle", "admitted", "proxying"}, up: Upstream \cup {None}, probe: BOOLEAN]

TypeOK ==
  /\ brk \in Breaker
  /\ cfg \in [threshold: 1..U32Max, reset: Nat, probes: 1..U32Max]
  /\ req \in [Request -> RequestState]
  /\ conns \in [Upstream -> Nat]
  /\ turn \in 0..(Upstreams - 1)
  /\ healthy \in BOOLEAN
  /\ good \in 0..U32Max
  /\ stale \in Nat

AtLeastOne(n) == IF n = 0 THEN 1 ELSE n

\* new and update_config take max(1) of the two counts.
Effective(c) == [c EXCEPT !.threshold = AtLeastOne(@), !.probes = AtLeastOne(@)]

Idle == [pc |-> "idle", up |-> None, probe |-> FALSE]

Init ==
  /\ brk = [state |-> "Closed", failures |-> 0, successes |-> 0, inflight |-> 0,
            elapsed |-> None]
  /\ \E c \in Configs : cfg = Effective(c)
  /\ req = [r \in Request |-> Idle]
  /\ conns = [u \in Upstream |-> 0]
  /\ turn = 0
  /\ healthy = FALSE
  /\ good = 0
  /\ stale = 0

SatAdd(n) == IF n = U32Max THEN n ELSE n + 1
SatSub_Unguarded(n) == n - 1   \* mutant
SatSub(n) == IF n = 0 THEN 0 ELSE n - 1

At(r, pc) == req[r].pc = pc

-----------------------------------------------------------------------------
(* allow_request; a rejected request leaves no trace. *)

AllowClosed(r) ==
  /\ At(r, "idle")
  /\ brk.state = "Closed"
  /\ req' = [req EXCEPT ![r].pc = "admitted"]
  /\ UNCHANGED <<brk, cfg, conns, turn, healthy, history>>

\* The reset timeout is over: this request is the first probe of a half-open period.
AllowFirstProbe(r) ==
  /\ At(r, "idle")
  /\ brk.state = "Open"
  /\ brk.elapsed # None
  /\ brk.elapsed >= cfg.reset
  /\ brk' = [brk EXCEPT !.state = "HalfOpen", !.successes = 0, !.inflight = 1]
  /\ req' = [q \in Request |-> IF q = r THEN [req[r] EXCEPT !.pc = "admitted", !.probe = TRUE]
                               ELSE [req[q] EXCEPT !.probe = FALSE]]
  /\ stale' = 0
  /\ UNCHANGED <<cfg, conns, turn, healthy, good>>

\* Mutant: the counter is not compared with the limit.
AllowProbe_Unlimited(r) ==
  /\ At(r, "idle")
  /\ brk.state = "HalfOpen"
  /\ req' = [req EXCEPT ![r].pc = "admitted", ![r].probe = TRUE]
  /\ UNCHANGED <<brk, cfg, conns, turn, healthy, history>>

AllowProbe(r) ==
  /\ At(r, "idle")
  /\ brk.state = "HalfOpen"
  /\ brk.inflight < cfg.probes
  /\ brk' = [brk EXCEPT !.inflight = SatAdd(@)]
  /\ req' = [req EXCEPT ![r].pc = "admitted", ![r].probe = TRUE]
  /\ UNCHANGED <<cfg, conns, turn, healthy, history>>

-----------------------------------------------------------------------------
\* A cache hit returns without a record_ call.
ServeFromCache(r) ==
  /\ CacheHits
  /\ At(r, "admitted")
  /\ req' = [req EXCEPT ![r] = Idle]
  /\ UNCHANGED <<brk, cfg, conns, turn, healthy, history>>

\* select_upstream.  The least-connections scan is taken to read one snapshot.
Selected(u) ==
  \/ Upstreams = 1
  \/ Strategy = "round-robin" /\ u = turn + 1
  \/ Strategy = "random"
  \/ /\ Strategy = "least-connections"
     /\ \A v \in Upstream : conns[u] <= conns[v] /\ (v < u => conns[u] < conns[v])

\* acquire_connection
Acquire_Overwrites(u) == conns' = [conns EXCEPT ![u] = 1]   \* mutant: insert, not entry
Acquire(u) == conns' = [conns EXCEPT ![u] = @ + 1]

\* select_upstream, acquire_connection, and the request is on its way.
Forward(r) ==
  /\ At(r, "admitted")
  /\ \E u \in Upstream :
       /\ Selected(u)
       /\ Acquire(u)
       /\ req' = [req EXCEPT ![r].pc = "proxying", ![r].up = u]
  /\ turn' = IF Upstreams = 1 \/ Strategy # "round-robin" THEN turn
             ELSE IF turn + 1 = Upstreams THEN 0 ELSE turn + 1
  /\ UNCHANGED <<brk, cfg, healthy, history>>

\* What record_success and record_failure leave in the entry.
AfterSuccess(b) ==
  IF b.state = "HalfOpen"
  THEN LET counted == [b EXCEPT !.successes = SatAdd(@), !.inflight = SatSub(@)]
       IN IF counted.successes >= cfg.probes
          THEN [counted EXCEPT !.state = "Closed", !.failures = 0, !.inflight = 0]
          ELSE counted
  ELSE b

\* Mutant: a failing probe only gives its place back.
AfterFailure_StaysHalfOpen(b) ==
  LET counted == [b EXCEPT !.failures = SatAdd(@), !.elapsed = 0] IN
    CASE b.state = "Closed" /\ counted.failures >= cfg.threshold -> [counted EXCEPT !.state = "Open"]
      [] b.state = "HalfOpen" -> [counted EXCEPT !.inflight = SatSub(@)]
      [] OTHER -> counted

\* Mutant: a failing probe is counted and nothing else.
AfterFailure_KeepsProbe(b) ==
  LET counted == [b EXCEPT !.failures = SatAdd(@), !.elapsed = 0] IN
    IF b.state = "Closed" /\ counted.failures >= cfg.threshold
    THEN [counted EXCEPT !.state = "Open"] ELSE counted

AfterFailure(b) ==
  LET counted == [b EXCEPT !.failures = SatAdd(@), !.elapsed = 0] IN
    CASE b.state = "Closed" /\ counted.failures >= cfg.threshold -> [counted EXCEPT !.state = "Open"]
      [] b.state = "HalfOpen" -> [counted EXCEPT !.state = "Open", !.inflight = 0, !.successes = 0]
      [] OTHER -> counted

\* release_connection
Release(u) == conns' = [conns EXCEPT ![u] = SatSub(@)]

\* The upstream's answer: the connection is released and a status below 500 recorded ...
Succeed(r) ==
  /\ At(r, "proxying")
  /\ Release(req[r].up)
  /\ brk' = AfterSuccess(brk)
  /\ req' = [req EXCEPT ![r] = Idle]
  /\ good' = SatAdd(good)
  /\ stale' = IF brk.state = "HalfOpen" /\ ~req[r].probe THEN stale + 1 ELSE stale
  /\ UNCHANGED <<cfg, turn, healthy>>

\* ... or a 5xx, a failed connection or a timeout (the proxy's 502 and 504).
Fail(r) ==
  /\ ~healthy
  /\ At(r, "proxying")
  /\ Release(req[r].up)
  /\ brk' = AfterFailure(brk)
  /\ req' = [req EXCEPT ![r] = Idle]
  /\ good' = 0
  /\ UNCHANGED <<cfg, turn, healthy, stale>>

\* The client goes away: the handler's future is dropped where it awaits the upstream.
Disconnect(r) ==
  /\ At(r, "proxying")
  /\ conns[req[r].up] <= MaxLeaked
  /\ req' = [req EXCEPT ![r] = Idle]
  /\ UNCHANGED <<brk, cfg, conns, turn, healthy, history>>

-----------------------------------------------------------------------------
UpdateConfig ==
  /\ \E c \in Configs : cfg' = Effective(c)
  /\ UNCHANGED <<brk, req, conns, turn, healthy, history>>

Tick ==
  /\ brk.elapsed # None
  /\ brk.elapsed < Horizon
  /\ brk' = [brk EXCEPT !.elapsed = @ + 1]
  /\ UNCHANGED <<cfg, req, conns, turn, healthy, history>>

\* The environment: the upstreams recover for good.
Heal ==
  /\ ~healthy
  /\ healthy' = TRUE
  /\ UNCHANGED <<brk, cfg, req, conns, turn, history>>

Arrive(r) == AllowClosed(r) \/ AllowFirstProbe(r) \/ AllowProbe(r)
Finish(r) == Succeed(r) \/ Fail(r)

Next ==
  \/ \E r \in Request :
       Arrive(r) \/ ServeFromCache(r) \/ Forward(r) \/ Finish(r) \/ Disconnect(r)
  \/ UpdateConfig \/ Tick \/ Heal

Spec == Init /\ [][Next]_vars

\* Clients keep coming, time passes, the handler runs on and the proxy's timeout ends
\* every exchange; the upstreams recover some day.
Fairness ==
  /\ WF_vars(Tick)
  /\ WF_vars(Heal)
  /\ WF_vars(\E r \in Request : Arrive(r))
  /\ \A r \in Request : WF_vars(Forward(r)) /\ WF_vars(Finish(r))

FairSpec == Spec /\ Fairness

-----------------------------------------------------------------------------
(* Properties *)

Probing == {r \in Request : req[r].pc # "idle" /\ req[r].probe}

\* The herd that half-open lets through is what in_flight_probes says, give or take the
\* late answers of requests admitted before: the counter may forget a probe only when
\* such an answer was taken for one, whatever the cache, clients or administrator do.
HerdBound ==
  brk.state = "HalfOpen" => Cardinality(Probing) <= brk.inflight + stale

\* The breaker closes only after half_open_max_requests successes in a row.
RecoveryIsEarned ==
  [][brk.state = "HalfOpen" /\ brk'.state = "Closed" => good' >= cfg.probes]_vars

\* The requests now proxied to an upstream.
ProxiedTo(u) == {r \in Request : req[r].pc = "proxying" /\ req[r].up = u}

\* least-connections never takes a busy upstream for a free one: a connection counter is
\* at least the number of requests being proxied there (release never underflows it).
BusyIsCounted == \A u \in Upstream : conns[u] >= Cardinality(ProxiedTo(u))

\* Once its upstreams have recovered a service is served again, by every later request.
Recovers == <>[](brk.state = "Closed")

\* in_flight_probes is the number of probes in flight (the field's comment).
ProbesCounted ==
  brk.state = "HalfOpen" /\ Probing = {} => brk.inflight = 0
=============================================================================
