------------------------ MODULE CircuitBreaker_proofs ------------------------
(* Proofs about the circuit breaker: types, the bound on the half-open herd, *)
(* the connection counters, and that closing again has to be earned.         *)
EXTENDS CircuitBreaker, FiniteSetTheorems, TLAPS

\* A request is on an upstream while it is proxied; an idle slot is no probe.
RequestsWellFormed ==
  \A r \in Request : /\ req[r].pc = "proxying" => req[r].up \in Upstream
                     /\ req[r].pc = "idle" => ~req[r].probe

\* success_count_half_open counts successes recorded since the last failure.
SuccessesAreGood == brk.state = "HalfOpen" => brk.successes <= good

IInv == TypeOK /\ RequestsWellFormed /\ HerdBound /\ SuccessesAreGood /\ BusyIsCounted
-----------------------------------------------------------------------------
LEMMA SatAddType == \A n \in 0..U32Max : SatAdd(n) \in 0..U32Max /\ SatAdd(n) >= n
BY CircuitBreakerAssumption DEF SatAdd

LEMMA SatSubType ==
  /\ \A n \in 0..U32Max : SatSub(n) \in 0..U32Max
  /\ \A n \in Nat : SatSub(n) \in Nat /\ SatSub(n) >= n - 1
BY CircuitBreakerAssumption DEF SatSub

\* A request that moves on, as a probe or to an upstream, stays a request.
LEMMA RequestGoesOn ==
  ASSUME req \in [Request -> RequestState], NEW r \in Request,
         NEW pc \in {"idle", "admitted", "proxying"}, NEW u \in Upstream
  PROVE  /\ [req[r] EXCEPT !.pc = pc, !.probe = TRUE] \in RequestState
         /\ \A q \in Request : [req[q] EXCEPT !.probe = FALSE] \in RequestState
         /\ [req EXCEPT ![r].pc = pc, ![r].probe = TRUE] \in [Request -> RequestState]
         /\ [req EXCEPT ![r].pc = pc, ![r].up = u] \in [Request -> RequestState]
<1>1. /\ [req[r] EXCEPT !.pc = pc, !.probe = TRUE] \in RequestState
      /\ \A q \in Request : [req[q] EXCEPT !.probe = FALSE] \in RequestState
      /\ [req[r] EXCEPT !.pc = pc, !.up = u] \in RequestState
  BY DEF RequestState
<1> QED BY <1>1

LEMMA EffectiveType ==
  \A c \in Configs : Effective(c) \in [threshold: 1..U32Max, reset: Nat, probes: 1..U32Max]
<1> SUFFICES ASSUME NEW c \in Config
             PROVE  Effective(c) \in [threshold: 1..U32Max, reset: Nat, probes: 1..U32Max]
  BY CircuitBreakerAssumption
<1>1. \A n \in 0..U32Max : AtLeastOne(n) \in 1..U32Max
  BY CircuitBreakerAssumption DEF AtLeastOne
<1> QED BY <1>1 DEF Effective, Config

\* Every set of requests is finite.
LEMMA RequestSets ==
  ASSUME NEW S, S \subseteq Request
  PROVE  IsFiniteSet(S) /\ Cardinality(S) \in Nat
BY CircuitBreakerAssumption, FS_Subset, FS_CardinalityType

LEMMA Smaller ==
  ASSUME NEW S, NEW T, S \subseteq T, T \subseteq Request
  PROVE  Cardinality(S) <= Cardinality(T)
BY RequestSets, FS_Subset

LEMMA OneMore ==
  ASSUME NEW S, S \subseteq Request, NEW r \in Request
  PROVE  Cardinality(S \cup {r}) <= Cardinality(S) + 1
BY RequestSets, FS_AddElement

LEMMA OneLess ==
  ASSUME NEW S, S \subseteq Request, NEW r \in S, NEW T, T \subseteq S \ {r}
  PROVE  Cardinality(T) <= Cardinality(S) - 1
<1>1. Cardinality(S \ {r}) = Cardinality(S) - 1
  BY RequestSets, FS_RemoveElement
<1>2. Cardinality(T) <= Cardinality(S \ {r})
  BY Smaller
<1> QED BY <1>1, <1>2

LEMMA BreakerSteps ==
  ASSUME TypeOK
  PROVE  AfterSuccess(brk) \in Breaker /\ AfterFailure(brk) \in Breaker
<1> USE DEF TypeOK, Breaker
<1>0. 0 \in 0..U32Max /\ 0 \in 0..Horizon
  BY CircuitBreakerAssumption
<1>1. AfterSuccess(brk) \in Breaker
  <2>1. [brk EXCEPT !.successes = SatAdd(@), !.inflight = SatSub(@)] \in Breaker
    BY SatAddType, SatSubType
  <2>2. \A b \in Breaker :
          [b EXCEPT !.state = "Closed", !.failures = 0, !.inflight = 0] \in Breaker
    BY <1>0
  <2> QED BY <2>1, <2>2 DEF AfterSuccess
<1>2. AfterFailure(brk) \in Breaker
  <2>1. [brk EXCEPT !.failures = SatAdd(@), !.elapsed = 0] \in Breaker
    BY <1>0, SatAddType
  <2>2. \A b \in Breaker :
          /\ [b EXCEPT !.state = "Open"] \in Breaker
          /\ [b EXCEPT !.state = "Open", !.inflight = 0, !.successes = 0] \in Breaker
    BY <1>0
  <2> QED BY <2>1, <2>2 DEF AfterFailure
<1> QED BY <1>1, <1>2

LEMMA InitIInv == Init => IInv
<1> SUFFICES ASSUME Init PROVE IInv
  OBVIOUS
<1>1. TypeOK
  <2>1. brk \in Breaker
    BY CircuitBreakerAssumption DEF Init, Breaker
  <2>2. cfg \in [threshold: 1..U32Max, reset: Nat, probes: 1..U32Max]
    BY EffectiveType DEF Init
  <2>3. turn \in 0..(Upstreams - 1) /\ good \in 0..U32Max /\ stale \in Nat
    BY CircuitBreakerAssumption DEF Init
  <2>4. req \in [Request -> RequestState] /\ conns \in [Upstream -> Nat]
    BY DEF Init, RequestState, Idle
  <2> QED BY <2>1, <2>2, <2>3, <2>4 DEF Init, TypeOK
<1>2. \A u \in Upstream : ProxiedTo(u) = {}
  BY DEF Init, Idle, ProxiedTo
<1>3. BusyIsCounted
  BY <1>2, FS_EmptySet DEF Init, BusyIsCounted
<1> QED BY <1>1, <1>3 DEF Init, IInv, RequestsWellFormed, HerdBound, SuccessesAreGood, Idle
-----------------------------------------------------------------------------
(* Admission *)

LEMMA StepAllowClosed ==
  ASSUME IInv, NEW r \in Request, AllowClosed(r)
  PROVE  IInv'
<1> USE DEF IInv
<1>1. TypeOK'
  BY DEF AllowClosed, TypeOK, RequestState, history
<1>2. RequestsWellFormed'
  BY DEF AllowClosed, TypeOK, RequestState, RequestsWellFormed, At
<1>3. HerdBound' /\ SuccessesAreGood'
  BY DEF AllowClosed, HerdBound, SuccessesAreGood
<1>4. \A u \in Upstream : ProxiedTo(u)' = ProxiedTo(u)
  BY DEF AllowClosed, ProxiedTo, TypeOK, RequestState, At
<1>5. BusyIsCounted'
  BY <1>4 DEF AllowClosed, BusyIsCounted
<1> QED BY <1>1, <1>2, <1>3, <1>5

LEMMA StepAllowFirstProbe ==
  ASSUME IInv, NEW r \in Request, AllowFirstProbe(r)
  PROVE  IInv'
<1> USE DEF IInv
<1>1. TypeOK'
  <2>1. brk' \in Breaker
    <3>1. 0 \in 0..U32Max /\ 1 \in 0..U32Max
      BY CircuitBreakerAssumption
    <3> QED BY <3>1 DEF AllowFirstProbe, TypeOK, Breaker
  <2>2. req' \in [Request -> RequestState]
    <3>1. req \in [Request -> RequestState] /\ 1 \in Upstream
      BY CircuitBreakerAssumption DEF TypeOK, Upstream
    <3> QED BY <3>1, RequestGoesOn DEF AllowFirstProbe
  <2> QED BY <2>1, <2>2 DEF AllowFirstProbe, TypeOK
<1>2. RequestsWellFormed'
  BY DEF AllowFirstProbe, TypeOK, RequestState, RequestsWellFormed
<1>3. HerdBound'
  <2>1. Probing' = {r}
    BY DEF AllowFirstProbe, Probing, TypeOK, RequestState
  <2>2. brk'.inflight = 1 /\ stale' = 0
    BY DEF AllowFirstProbe, TypeOK, Breaker
  <2>3. Cardinality(Probing') = 1
    BY <2>1, FS_Singleton
  <2> QED BY <2>2, <2>3 DEF HerdBound
<1>4. SuccessesAreGood'
  BY DEF AllowFirstProbe, SuccessesAreGood, TypeOK, Breaker
<1>5. \A u \in Upstream : ProxiedTo(u)' = ProxiedTo(u)
  BY DEF AllowFirstProbe, ProxiedTo, TypeOK, RequestState, At
<1>6. BusyIsCounted'
  BY <1>5 DEF AllowFirstProbe, BusyIsCounted
<1> QED BY <1>1, <1>2, <1>3, <1>4, <1>6

LEMMA StepAllowProbe ==
  ASSUME IInv, NEW r \in Request, AllowProbe(r)
  PROVE  IInv'
<1> USE DEF IInv
<1>1. TypeOK'
  <2>1. brk' \in Breaker
    BY SatAddType DEF AllowProbe, TypeOK, Breaker
  <2>2. req' \in [Request -> RequestState]
    <3>1. req \in [Request -> RequestState] /\ 1 \in Upstream
      BY CircuitBreakerAssumption DEF TypeOK, Upstream
    <3> QED BY <3>1, RequestGoesOn DEF AllowProbe
  <2> QED BY <2>1, <2>2 DEF AllowProbe, TypeOK, history
<1>2. RequestsWellFormed'
  BY DEF AllowProbe, TypeOK, RequestState, RequestsWellFormed, At
<1>3. HerdBound'
  <2>1. Probing' \subseteq Probing \cup {r}
    BY DEF AllowProbe, Probing, TypeOK, RequestState
  <2>2. brk'.inflight = brk.inflight + 1 /\ stale' = stale /\ brk.state = "HalfOpen"
    BY DEF AllowProbe, TypeOK, Breaker, SatAdd, history
  <2>3. Cardinality(Probing') <= Cardinality(Probing) + 1
    <3>1. Probing \subseteq Request /\ Probing \cup {r} \subseteq Request
      BY DEF Probing
    <3>2. Cardinality(Probing') <= Cardinality(Probing \cup {r})
      BY <2>1, <3>1, Smaller
    <3> QED BY <2>1, <3>1, <3>2, OneMore, RequestSets
  <2>4. Cardinality(Probing) \in Nat /\ Cardinality(Probing') \in Nat
    BY RequestSets DEF Probing
  <2> QED BY <2>2, <2>3, <2>4 DEF HerdBound, TypeOK, Breaker
<1>4. SuccessesAreGood'
  BY DEF AllowProbe, SuccessesAreGood, TypeOK, Breaker, history
<1>5. \A u \in Upstream : ProxiedTo(u)' = ProxiedTo(u)
  BY DEF AllowProbe, ProxiedTo, TypeOK, RequestState, At
<1>6. BusyIsCounted'
  BY <1>5 DEF AllowProbe, BusyIsCounted
<1> QED BY <1>1, <1>2, <1>3, <1>4, <1>6
-----------------------------------------------------------------------------
(* After admission: requests only leave, probes included. *)

\* A request that stops probing and being proxied keeps the herd bound and the counters.
LEMMA Leaving ==
  ASSUME IInv, NEW r \in Request, req' = [req EXCEPT ![r] = Idle]
  PROVE  /\ RequestsWellFormed'
         /\ Probing' = Probing \ {r}
         /\ \A u \in Upstream : ProxiedTo(u)' = ProxiedTo(u) \ {r}
BY DEF IInv, TypeOK, RequestState, RequestsWellFormed, Probing, ProxiedTo, Idle

LEMMA StepServeFromCache ==
  ASSUME IInv, NEW r \in Request, ServeFromCache(r)
  PROVE  IInv'
<1> USE DEF IInv
<1>1. TypeOK'
  BY DEF ServeFromCache, TypeOK, RequestState, Idle, history
<1>2. req' = [req EXCEPT ![r] = Idle] /\ UNCHANGED <<brk, conns, good, stale>>
  BY DEF ServeFromCache, history
<1>3. HerdBound'
  <2>1. Cardinality(Probing') <= Cardinality(Probing)
    BY <1>2, Leaving, Smaller DEF Probing
  <2> QED BY <1>2, <2>1, RequestSets DEF HerdBound, TypeOK, Breaker, Probing
<1>4. SuccessesAreGood'
  BY <1>2 DEF SuccessesAreGood
<1>5. BusyIsCounted'
  <2> SUFFICES ASSUME NEW u \in Upstream PROVE conns[u] >= Cardinality(ProxiedTo(u)')
    BY <1>2 DEF BusyIsCounted
  <2>1. Cardinality(ProxiedTo(u)') <= Cardinality(ProxiedTo(u))
    BY <1>2, Leaving, Smaller DEF ProxiedTo
  <2> QED BY <2>1, RequestSets DEF BusyIsCounted, TypeOK, ProxiedTo
<1> QED BY <1>1, <1>2, <1>3, <1>4, <1>5, Leaving

LEMMA StepDisconnect ==
  ASSUME IInv, NEW r \in Request, Disconnect(r)
  PROVE  IInv'
<1> USE DEF IInv
<1>1. TypeOK'
  BY DEF Disconnect, TypeOK, RequestState, Idle, history
<1>2. req' = [req EXCEPT ![r] = Idle] /\ UNCHANGED <<brk, conns, good, stale>>
  BY DEF Disconnect, history
<1>3. HerdBound'
  <2>1. Cardinality(Probing') <= Cardinality(Probing)
    BY <1>2, Leaving, Smaller DEF Probing
  <2> QED BY <1>2, <2>1, RequestSets DEF HerdBound, TypeOK, Breaker, Probing
<1>4. SuccessesAreGood'
  BY <1>2 DEF SuccessesAreGood
<1>5. BusyIsCounted'
  <2> SUFFICES ASSUME NEW u \in Upstream PROVE conns[u] >= Cardinality(ProxiedTo(u)')
    BY <1>2 DEF BusyIsCounted
  <2>1. Cardinality(ProxiedTo(u)') <= Cardinality(ProxiedTo(u))
    BY <1>2, Leaving, Smaller DEF ProxiedTo
  <2> QED BY <2>1, RequestSets DEF BusyIsCounted, TypeOK, ProxiedTo
<1> QED BY <1>1, <1>2, <1>3, <1>4, <1>5, Leaving

LEMMA StepForward ==
  ASSUME IInv, NEW r \in Request, Forward(r)
  PROVE  IInv'
<1> USE DEF IInv
<1>1. PICK u \in Upstream :
        /\ conns' = [conns EXCEPT ![u] = @ + 1]
        /\ req' = [req EXCEPT ![r].pc = "proxying", ![r].up = u]
  BY DEF Forward, Acquire
<1>2. TypeOK'
  <2>1. turn' \in 0..(Upstreams - 1)
    BY CircuitBreakerAssumption DEF Forward, TypeOK
  <2>2. req' \in [Request -> RequestState]
    BY <1>1, RequestGoesOn DEF TypeOK
  <2>3. conns' \in [Upstream -> Nat]
    BY <1>1 DEF TypeOK
  <2> QED BY <2>1, <2>2, <2>3 DEF Forward, TypeOK, history
<1>3. RequestsWellFormed'
  BY <1>1 DEF TypeOK, RequestState, RequestsWellFormed
<1>4. Probing' = Probing
  BY <1>1 DEF Probing, TypeOK, RequestState, Forward, At
<1>5. HerdBound' /\ SuccessesAreGood'
  BY <1>4 DEF HerdBound, SuccessesAreGood, Forward, history
<1>6. BusyIsCounted'
  <2> SUFFICES ASSUME NEW v \in Upstream PROVE conns'[v] >= Cardinality(ProxiedTo(v)')
    BY DEF BusyIsCounted
  <2>0. conns[v] \in Nat /\ conns[v] >= Cardinality(ProxiedTo(v)) /\ Cardinality(ProxiedTo(v)) \in Nat
    BY RequestSets DEF BusyIsCounted, TypeOK, ProxiedTo
  <2>1. CASE v = u
    <3>1. ProxiedTo(v)' = ProxiedTo(v) \cup {r}
      BY <1>1, <2>1 DEF ProxiedTo, TypeOK, RequestState, Forward, At
    <3>2. Cardinality(ProxiedTo(v)') <= Cardinality(ProxiedTo(v)) + 1
      BY <3>1, OneMore DEF ProxiedTo
    <3>3. Cardinality(ProxiedTo(v)') \in Nat
      BY <3>1, RequestSets DEF ProxiedTo
    <3> QED BY <1>1, <2>0, <2>1, <3>2, <3>3 DEF TypeOK
  <2>2. CASE v # u
    <3>1. ProxiedTo(v)' = ProxiedTo(v)
      BY <1>1, <2>2 DEF ProxiedTo, TypeOK, RequestState, Forward, At
    <3> QED BY <1>1, <2>0, <2>2, <3>1 DEF TypeOK
  <2> QED BY <2>1, <2>2
<1> QED BY <1>2, <1>3, <1>5, <1>6
\* Whatever the answer, the connection it releases was counted.
LEMMA Releasing ==
  ASSUME IInv, NEW r \in Request, At(r, "proxying"), Release(req[r].up),
         req' = [req EXCEPT ![r] = Idle]
  PROVE  conns' \in [Upstream -> Nat] /\ BusyIsCounted'
<1> USE DEF IInv
<1>1. req[r].up \in Upstream
  BY DEF At, RequestsWellFormed
<1>2. conns' \in [Upstream -> Nat]
  BY <1>1, SatSubType DEF Release, TypeOK
<1>3. BusyIsCounted'
  <2> SUFFICES ASSUME NEW u \in Upstream PROVE conns'[u] >= Cardinality(ProxiedTo(u)')
    BY DEF BusyIsCounted
  <2>0. /\ conns[u] \in Nat /\ conns[u] >= Cardinality(ProxiedTo(u))
        /\ Cardinality(ProxiedTo(u)) \in Nat /\ Cardinality(ProxiedTo(u)') \in Nat
    <3>1. ProxiedTo(u) \subseteq Request /\ ProxiedTo(u)' \subseteq Request
      BY DEF ProxiedTo
    <3> QED BY <3>1, RequestSets DEF BusyIsCounted, TypeOK
  <2>1. CASE u = req[r].up
    <3>1. r \in ProxiedTo(u)
      BY <2>1 DEF ProxiedTo, At
    <3>2. ProxiedTo(u) \subseteq Request /\ ProxiedTo(u)' = ProxiedTo(u) \ {r}
      BY Leaving DEF ProxiedTo
    <3>3. Cardinality(ProxiedTo(u)') <= Cardinality(ProxiedTo(u)) - 1
      BY <3>1, <3>2, OneLess
    <3>4. conns'[u] \in Nat /\ conns'[u] >= conns[u] - 1
      BY <2>0, <2>1, SatSubType DEF Release, TypeOK
    <3> QED BY <2>0, <3>3, <3>4
  <2>2. CASE u # req[r].up
    <3>1. Cardinality(ProxiedTo(u)') <= Cardinality(ProxiedTo(u))
      BY Leaving, Smaller DEF ProxiedTo
    <3>2. conns'[u] = conns[u]
      BY <1>1, <2>2 DEF Release, TypeOK
    <3> QED BY <2>0, <3>1, <3>2
  <2> QED BY <2>1, <2>2
<1> QED BY <1>2, <1>3

\* What the entry of a breaker that is half-open after a success was before it.
LEMMA StillHalfOpen ==
  ASSUME TypeOK, AfterSuccess(brk).state = "HalfOpen"
  PROVE  /\ brk.state = "HalfOpen"
         /\ AfterSuccess(brk).successes = SatAdd(brk.successes)
         /\ AfterSuccess(brk).inflight = SatSub(brk.inflight)
<1>1. brk.state = "HalfOpen"
  BY DEF AfterSuccess
<1> DEFINE counted == [brk EXCEPT !.successes = SatAdd(@), !.inflight = SatSub(@)]
<1>2. counted.successes < cfg.probes /\ AfterSuccess(brk) = counted
  BY <1>1, SatAddType DEF AfterSuccess, TypeOK, Breaker
<1> QED BY <1>1, <1>2 DEF TypeOK, Breaker

LEMMA StepSucceed ==
  ASSUME IInv, NEW r \in Request, Succeed(r)
  PROVE  IInv'
<1> USE DEF IInv
<1>1. /\ req' = [req EXCEPT ![r] = Idle]
      /\ brk' = AfterSuccess(brk)
      /\ At(r, "proxying") /\ Release(req[r].up)
  BY DEF Succeed
<1>2. conns' \in [Upstream -> Nat] /\ BusyIsCounted'
  BY <1>1, Releasing
<1>3. TypeOK'
  <2>1. brk' \in Breaker
    BY <1>1, BreakerSteps
  <2>2. req' \in [Request -> RequestState]
    BY <1>1 DEF TypeOK, RequestState, Idle
  <2>3. good' \in 0..U32Max /\ stale' \in Nat
    BY SatAddType DEF Succeed, TypeOK
  <2> QED BY <1>2, <2>1, <2>2, <2>3 DEF Succeed, TypeOK
<1>4. HerdBound'
  <2> SUFFICES ASSUME brk'.state = "HalfOpen"
               PROVE  Cardinality(Probing') <= brk'.inflight + stale'
    BY DEF HerdBound
  <2>1. brk.state = "HalfOpen" /\ brk'.inflight = SatSub(brk.inflight)
    BY <1>1, StillHalfOpen
  <2>2. /\ Cardinality(Probing) <= brk.inflight + stale
        /\ Probing \subseteq Request /\ Probing' = Probing \ {r}
    BY <1>1, <2>1, Leaving DEF HerdBound, Probing
  <2>3. /\ Cardinality(Probing) \in Nat /\ Cardinality(Probing') \in Nat
        /\ brk.inflight \in Nat /\ stale \in Nat
        /\ SatSub(brk.inflight) \in Nat /\ SatSub(brk.inflight) >= brk.inflight - 1
    BY <2>2, RequestSets, SatSubType DEF TypeOK, Breaker
  <2>4. CASE req[r].probe
    <3>1. r \in Probing
      BY <1>1, <2>4 DEF Probing, At
    <3>2. Cardinality(Probing') <= Cardinality(Probing) - 1
      BY <2>2, <3>1, OneLess
    <3>3. stale' = stale
      BY <2>4 DEF Succeed
    <3> QED BY <2>1, <2>2, <2>3, <3>2, <3>3
  <2>5. CASE ~req[r].probe
    <3>1. Cardinality(Probing') <= Cardinality(Probing)
      BY <2>2, Smaller
    <3>2. stale' = stale + 1
      BY <2>1, <2>5 DEF Succeed
    <3> QED BY <2>1, <2>2, <2>3, <3>1, <3>2
  <2> QED BY <2>4, <2>5
<1>5. SuccessesAreGood'
  <2> SUFFICES ASSUME brk'.state = "HalfOpen" PROVE brk'.successes <= good'
    BY DEF SuccessesAreGood
  <2>1. /\ brk.state = "HalfOpen" /\ brk'.successes = SatAdd(brk.successes)
        /\ good' = SatAdd(good)
    BY <1>1, StillHalfOpen DEF Succeed
  <2> QED BY <2>1, CircuitBreakerAssumption DEF SuccessesAreGood, SatAdd, TypeOK, Breaker
<1> QED BY <1>1, <1>2, <1>3, <1>4, <1>5, Leaving

LEMMA StepFail ==
  ASSUME IInv, NEW r \in Request, Fail(r)
  PROVE  IInv'
<1> USE DEF IInv
<1>1. /\ req' = [req EXCEPT ![r] = Idle]
      /\ brk' = AfterFailure(brk)
      /\ At(r, "proxying") /\ Release(req[r].up)
  BY DEF Fail
<1>2. conns' \in [Upstream -> Nat] /\ BusyIsCounted'
  BY <1>1, Releasing
<1>3. TypeOK'
  <2>1. brk' \in Breaker
    BY <1>1, BreakerSteps
  <2>2. req' \in [Request -> RequestState]
    BY <1>1 DEF TypeOK, RequestState, Idle
  <2>3. good' \in 0..U32Max
    BY CircuitBreakerAssumption DEF Fail
  <2> QED BY <1>2, <2>1, <2>2, <2>3 DEF Fail, TypeOK
<1>4. brk'.state # "HalfOpen"
  BY <1>1 DEF AfterFailure, TypeOK, Breaker
<1> QED BY <1>1, <1>2, <1>3, <1>4, Leaving DEF HerdBound, SuccessesAreGood
-----------------------------------------------------------------------------
\* Configuration, time, the upstreams' recovery and stuttering leave requests alone.
LEMMA StepQuiet ==
  ASSUME IInv, UpdateConfig \/ Tick \/ Heal \/ UNCHANGED vars
  PROVE  IInv'
<1> USE DEF IInv
<1>1. /\ UNCHANGED <<req, conns, turn, good, stale>>
      /\ brk' = brk \/ brk' = [brk EXCEPT !.elapsed = @ + 1]
  BY DEF UpdateConfig, Tick, Heal, vars, history
<1>2. TypeOK'
  <2>1. CASE UpdateConfig
    BY <2>1, EffectiveType DEF UpdateConfig, TypeOK, history
  <2>2. CASE Tick
    <3>1. brk.elapsed + 1 \in 0..Horizon
      BY <2>2, CircuitBreakerAssumption DEF Tick, TypeOK, Breaker
    <3>2. brk' \in Breaker
      BY <2>2, <3>1 DEF Tick, TypeOK, Breaker
    <3> QED BY <2>2, <3>2 DEF Tick, TypeOK, history
  <2>3. CASE Heal \/ UNCHANGED vars
    BY <2>3 DEF Heal, vars, TypeOK, history
  <2> QED BY <2>1, <2>2, <2>3
<1>3. /\ brk'.state = brk.state /\ brk'.inflight = brk.inflight
      /\ brk'.successes = brk.successes
  BY <1>1 DEF TypeOK, Breaker
<1>4. RequestsWellFormed'
  BY <1>1 DEF RequestsWellFormed
<1>5. Probing' = Probing /\ \A u \in Upstream : ProxiedTo(u)' = ProxiedTo(u)
  BY <1>1 DEF Probing, ProxiedTo
<1> QED BY <1>1, <1>2, <1>3, <1>4, <1>5 DEF HerdBound, SuccessesAreGood, BusyIsCounted

LEMMA StepIInv == IInv /\ [Next]_vars => IInv'
BY StepAllowClosed, StepAllowFirstProbe, StepAllowProbe, StepServeFromCache, StepForward,
   StepSucceed, StepFail, StepDisconnect, StepQuiet
DEF Next, Arrive, Finish

LEMMA IInvInvariant == Spec => []IInv
BY InitIInv, StepIInv, PTL DEF Spec

\* The breaker's entry, its u32 counters included, and the connection counters keep
\* their types (circuit_breaker.rs, load_balancer.rs).
THEOREM TypeCorrect == Spec => []TypeOK
<1>1. IInv => TypeOK
  BY DEF IInv
<1> QED BY <1>1, IInvInvariant, PTL

\* For any number of requests, any limits and any sequence of configuration changes, the
\* half-open counter misses a running probe only by an answer to an earlier request.
THEOREM HerdIsBounded == Spec => []HerdBound
<1>1. IInv => HerdBound
  BY DEF IInv
<1> QED BY <1>1, IInvInvariant, PTL

\* A connection counter never falls below the requests being proxied to its upstream.
THEOREM BusyUpstreamsAreCounted == Spec => []BusyIsCounted
<1>1. IInv => BusyIsCounted
  BY DEF IInv
<1> QED BY <1>1, IInvInvariant, PTL

\* The breaker closes again only after as many successes since the last failure as the
\* configuration in force asks for.
THEOREM ClosingIsEarned == Spec => RecoveryIsEarned
<1>1. ASSUME IInv, [Next]_vars, brk.state = "HalfOpen", brk'.state = "Closed"
      PROVE  good' >= cfg.probes
  <2>1. PICK r \in Request : Succeed(r)
    <3>1. ASSUME NEW q \in Request, Fail(q) PROVE FALSE
      BY <1>1, <3>1 DEF Fail, AfterFailure, IInv, TypeOK, Breaker
    <3>2. ASSUME NEW q \in Request, Arrive(q) \/ ServeFromCache(q) \/ Forward(q) \/ Disconnect(q)
          PROVE FALSE
      BY <1>1, <3>2 DEF Arrive, AllowClosed, AllowFirstProbe, AllowProbe, ServeFromCache,
                        Forward, Disconnect, IInv, TypeOK, Breaker
    <3>3. ~(UpdateConfig \/ Tick \/ Heal \/ UNCHANGED vars)
      BY <1>1 DEF UpdateConfig, Tick, Heal, vars, IInv, TypeOK, Breaker
    <3> QED BY <1>1, <3>1, <3>2, <3>3 DEF Next, Finish
  <2>2. SatAdd(brk.successes) >= cfg.probes
    BY <1>1, <2>1 DEF Succeed, AfterSuccess, IInv, TypeOK, Breaker
  <2>3. good' = SatAdd(good) /\ brk.successes <= good
    BY <1>1, <2>1 DEF Succeed, IInv, SuccessesAreGood
  <2> QED BY <1>1, <2>2, <2>3, CircuitBreakerAssumption DEF SatAdd, IInv, TypeOK, Breaker
<1>2. IInv /\ [Next]_vars =>
        [brk.state = "HalfOpen" /\ brk'.state = "Closed" => good' >= cfg.probes]_vars
  BY <1>1
<1> QED BY <1>2, IInvInvariant, PTL DEF Spec, RecoveryIsEarned
=============================================================================
