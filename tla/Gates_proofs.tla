---------------------------- MODULE Gates_proofs ----------------------------
(* What the gates in front of the upstreams let through, and how long what   *)
(* they remember may be wrong: the request queue, the window in Redis, the   *)
(* daily quotas, the edge cache, the introspected tokens, the pinned         *)
(* addresses, the client's address, the response cache and the WebSocket     *)
(* tunnel, each for every value of its constants.                            *)
EXTENDS Backpressure, SharedLimit, Quota, EdgeCache, Introspection, Pins, Limiter, Pipeline,
        Tunnel, FiniteSetTheorems, TLAPS

-----------------------------------------------------------------------------
(* The request queue.                                                        *)
QueueConstants ==
  /\ IsFiniteSet(Client)
  /\ {MaxConcurrent, MaxAbandoned, MaxLeaving} \subseteq Nat

\* The clients that hold a permit are counted by the semaphore, the clients that
\* are anywhere in the queue by the depth.
Inside == {c \in Client : place[c] # "out"}
PermitsAreHeld == permits = Cardinality(In("holding"))
DepthCounts == enabled => depth = Cardinality(Inside) + leaving + abandoned
\* A queue that is off counts nobody and times nobody out.
OffIsEmpty == ~enabled => depth = 0 /\ In("refused") = {}

QueueInv == QueueTypeOK /\ PermitsAreHeld /\ DepthCounts /\ OffIsEmpty

\* No more requests are under way than max_concurrent.
ConcurrencyBound == Cardinality(In("holding")) <= MaxConcurrent
-----------------------------------------------------------------------------
LEMMA ClientSets ==
  ASSUME QueueConstants, NEW S, S \subseteq Client
  PROVE  IsFiniteSet(S) /\ Cardinality(S) \in Nat
BY FS_Subset, FS_CardinalityType DEF QueueConstants

LEMMA OneMore ==
  ASSUME QueueConstants, NEW S, S \subseteq Client, NEW c \in Client, c \notin S
  PROVE  Cardinality(S \cup {c}) = Cardinality(S) + 1
BY ClientSets, FS_AddElement

LEMMA OneLess ==
  ASSUME QueueConstants, NEW S, S \subseteq Client, NEW c \in S
  PROVE  Cardinality(S \ {c}) = Cardinality(S) - 1
BY ClientSets, FS_RemoveElement

LEMMA QueueInitInv == QueueConstants /\ QueueInit => QueueInv
<1> SUFFICES ASSUME QueueConstants, QueueInit
             PROVE  QueueInv
  OBVIOUS
<1>1. In("holding") = {} /\ Inside = {} /\ In("refused") = {}
  BY DEF QueueInit, In, Inside
<1>2. Cardinality({}) = 0
  BY FS_EmptySet
<1>3. QueueTypeOK
  BY DEF QueueConstants, QueueInit, QueueTypeOK, Full
<1> QED BY <1>1, <1>2, <1>3 DEF QueueInit, QueueInv, PermitsAreHeld, DepthCounts, OffIsEmpty

\* What a change of one client's place does to the sets that are counted.
LEMMA Moved ==
  ASSUME QueueConstants, QueueTypeOK, NEW c \in Client,
         NEW p \in {"out", "waiting", "holding", "refused"}, place' = [place EXCEPT ![c] = p]
  PROVE  /\ p = "holding" => In("holding")' = In("holding") \cup {c}
         /\ p # "holding" => In("holding")' = In("holding") \ {c}
         /\ p # "holding" /\ c \notin In("holding") => In("holding")' = In("holding")
         /\ p = "out" => Inside' = Inside \ {c}
         /\ p # "out" => Inside' = Inside \cup {c}
         /\ p # "out" /\ c \in Inside => Inside' = Inside
         /\ p # "refused" => In("refused")' \subseteq In("refused")
         /\ place' \in [Client -> {"out", "waiting", "holding", "refused"}]
BY DEF QueueTypeOK, In, Inside

LEMMA QueueStepInv == QueueConstants /\ QueueInv /\ [QueueNext]_queueVars => QueueInv'
<1> SUFFICES ASSUME QueueConstants, QueueInv, [QueueNext]_queueVars
             PROVE  QueueInv'
  OBVIOUS
<1>t. /\ QueueTypeOK /\ PermitsAreHeld /\ DepthCounts /\ OffIsEmpty
      /\ enabled \in BOOLEAN /\ depth \in 0..Full /\ permits \in 0..MaxConcurrent
      /\ place \in [Client -> {"out", "waiting", "holding", "refused"}]
      /\ leaving \in 0..MaxLeaving /\ abandoned \in 0..MaxAbandoned
      /\ MaxConcurrent \in Nat /\ MaxLeaving \in Nat /\ MaxAbandoned \in Nat /\ Full \in Nat
      /\ In("holding") \subseteq Client /\ Inside \subseteq Client
      /\ Cardinality(In("holding")) \in Nat /\ Cardinality(Inside) \in Nat
  BY ClientSets DEF QueueInv, QueueTypeOK, QueueConstants, Full, In, Inside
<1>q. ASSUME QueueTypeOK', PermitsAreHeld', DepthCounts', OffIsEmpty'
      PROVE  QueueInv'
  BY <1>q DEF QueueInv
<1>1. ASSUME NEW c \in Client, Enqueue(c)
      PROVE  QueueInv'
  <2>1. CASE place' = [place EXCEPT ![c] = "waiting"]
    <3>1. place[c] = "out" /\ c \notin Inside /\ c \notin In("holding")
      BY <1>1 DEF Enqueue, Inside, In
    <3>2. /\ In("holding")' = In("holding") /\ Inside' = Inside \cup {c}
          /\ In("refused")' \subseteq In("refused")
          /\ place' \in [Client -> {"out", "waiting", "holding", "refused"}]
      BY <2>1, <3>1, <1>t, Moved
    <3>3. Cardinality(Inside') = Cardinality(Inside) + 1
      BY <3>1, <3>2, <1>t, OneMore
    <3>4. \/ enabled /\ depth + 1 <= Full /\ depth' = depth + 1
          \/ ~enabled /\ depth' = depth
      BY <1>1, <2>1, <3>1, <1>t DEF Enqueue
    <3>5. UNCHANGED <<enabled, permits, leaving, abandoned>>
      BY <1>1 DEF Enqueue
    <3>6. QueueTypeOK'
      BY <3>2, <3>4, <3>5, <1>t DEF QueueTypeOK
    <3>7. PermitsAreHeld' /\ OffIsEmpty'
      BY <3>2, <3>4, <3>5, <1>t DEF PermitsAreHeld, OffIsEmpty
    <3>8. DepthCounts'
      BY <3>3, <3>4, <3>5, <1>t DEF DepthCounts
    <3> QED BY <3>6, <3>7, <3>8, <1>q
  <2>2. CASE UNCHANGED <<place, depth>>
    BY <1>1, <2>2, <1>t, <1>q
       DEF Enqueue, QueueTypeOK, PermitsAreHeld, DepthCounts, OffIsEmpty, In, Inside
  <2> QED BY <1>1, <2>1, <2>2 DEF Enqueue
<1>2. ASSUME NEW c \in Client, GetPermit(c)
      PROVE  QueueInv'
  <2>1. /\ place[c] = "waiting" /\ c \in Inside /\ c \notin In("holding")
        /\ permits < MaxConcurrent /\ permits' = permits + 1
        /\ place' = [place EXCEPT ![c] = "holding"]
        /\ UNCHANGED <<enabled, depth, leaving, abandoned>>
    BY <1>2 DEF GetPermit, Inside, In
  <2>2. /\ In("holding")' = In("holding") \cup {c} /\ Inside' = Inside
        /\ In("refused")' \subseteq In("refused")
        /\ place' \in [Client -> {"out", "waiting", "holding", "refused"}]
    BY <2>1, <1>t, Moved
  <2>3. Cardinality(In("holding")') = Cardinality(In("holding")) + 1
    BY <2>1, <2>2, <1>t, OneMore
  <2>4. QueueTypeOK'
    BY <2>1, <2>2, <1>t DEF QueueTypeOK
  <2>5. PermitsAreHeld' /\ DepthCounts' /\ OffIsEmpty'
    BY <2>1, <2>2, <2>3, <1>t DEF PermitsAreHeld, DepthCounts, OffIsEmpty
  <2> QED BY <2>4, <2>5, <1>q
<1>3. ASSUME NEW c \in Client, TimeOut(c)
      PROVE  QueueInv'
  <2>1. /\ enabled /\ place[c] = "waiting" /\ c \in Inside /\ c \notin In("holding")
        /\ place' = [place EXCEPT ![c] = "refused"]
        /\ UNCHANGED <<enabled, depth, permits, leaving, abandoned>>
    BY <1>3 DEF TimeOut, Inside, In
  <2>2. /\ In("holding")' = In("holding") /\ Inside' = Inside
        /\ place' \in [Client -> {"out", "waiting", "holding", "refused"}]
    BY <2>1, <1>t, Moved
  <2>3. QueueTypeOK'
    BY <2>1, <2>2, <1>t DEF QueueTypeOK
  <2>4. PermitsAreHeld' /\ DepthCounts' /\ OffIsEmpty'
    BY <2>1, <2>2, <1>t DEF PermitsAreHeld, DepthCounts, OffIsEmpty
  <2> QED BY <2>3, <2>4, <1>q
<1>4. ASSUME NEW c \in Client, CountRefusal(c)
      PROVE  QueueInv'
  <2>1. /\ place[c] = "refused" /\ c \in Inside /\ c \notin In("holding") /\ c \in In("refused")
        /\ place' = [place EXCEPT ![c] = "out"] /\ depth' = depth - 1
        /\ UNCHANGED <<enabled, permits, leaving, abandoned>>
    BY <1>4 DEF CountRefusal, Inside, In
  <2>2. enabled
    BY <2>1, <1>t DEF OffIsEmpty
  <2>3. /\ In("holding")' = In("holding") /\ Inside' = Inside \ {c}
        /\ place' \in [Client -> {"out", "waiting", "holding", "refused"}]
    BY <2>1, <1>t, Moved
  <2>4. Cardinality(Inside') = Cardinality(Inside) - 1 /\ Cardinality(Inside') \in Nat
    BY <2>1, <2>3, <1>t, OneLess, ClientSets
  <2>5. QueueTypeOK' /\ DepthCounts'
    BY <2>1, <2>2, <2>3, <2>4, <1>t DEF QueueTypeOK, DepthCounts
  <2>6. PermitsAreHeld' /\ OffIsEmpty'
    BY <2>1, <2>2, <2>3, <1>t DEF PermitsAreHeld, OffIsEmpty
  <2> QED BY <2>5, <2>6, <1>q
<1>5. ASSUME NEW c \in Client, Abandon(c)
      PROVE  QueueInv'
  <2>1. /\ place[c] \in {"waiting", "refused"} /\ c \in Inside /\ c \notin In("holding")
        /\ place' = [place EXCEPT ![c] = "out"]
        /\ abandoned < MaxAbandoned /\ abandoned' = abandoned + 1
        /\ UNCHANGED <<enabled, depth, permits, leaving>>
    BY <1>5 DEF Abandon, Inside, In
  <2>2. /\ In("holding")' = In("holding") /\ Inside' = Inside \ {c}
        /\ In("refused")' \subseteq In("refused")
        /\ place' \in [Client -> {"out", "waiting", "holding", "refused"}]
    BY <2>1, <1>t, Moved
  <2>3. Cardinality(Inside') = Cardinality(Inside) - 1
    BY <2>1, <2>2, <1>t, OneLess
  <2>4. QueueTypeOK' /\ DepthCounts'
    BY <2>1, <2>2, <2>3, <1>t DEF QueueTypeOK, DepthCounts
  <2>5. PermitsAreHeld' /\ OffIsEmpty'
    BY <2>1, <2>2, <1>t DEF PermitsAreHeld, OffIsEmpty
  <2> QED BY <2>4, <2>5, <1>q
<1>6. ASSUME NEW c \in Client, DropPermit(c)
      PROVE  QueueInv'
  <2>1. /\ place[c] = "holding" /\ c \in Inside /\ c \in In("holding")
        /\ place' = [place EXCEPT ![c] = "out"] /\ permits' = permits - 1
        /\ leaving < MaxLeaving /\ leaving' = leaving + 1
        /\ UNCHANGED <<enabled, depth, abandoned>>
    BY <1>6 DEF DropPermit, Inside, In
  <2>2. /\ In("holding")' = In("holding") \ {c} /\ Inside' = Inside \ {c}
        /\ In("refused")' \subseteq In("refused")
        /\ place' \in [Client -> {"out", "waiting", "holding", "refused"}]
    BY <2>1, <1>t, Moved
  <2>3. /\ Cardinality(Inside') = Cardinality(Inside) - 1
        /\ Cardinality(In("holding")') = Cardinality(In("holding")) - 1
        /\ Cardinality(In("holding")') \in Nat
    BY <2>1, <2>2, <1>t, OneLess, ClientSets
  <2>4. PermitsAreHeld' /\ DepthCounts' /\ OffIsEmpty'
    BY <2>1, <2>2, <2>3, <1>t DEF PermitsAreHeld, DepthCounts, OffIsEmpty
  <2>5. QueueTypeOK'
    BY <2>1, <2>2, <2>3, <1>t DEF QueueTypeOK, PermitsAreHeld
  <2> QED BY <2>4, <2>5, <1>q
<1>7. CASE Leave
  <2>1. /\ leaving > 0 /\ leaving' = leaving - 1
        /\ depth' = IF depth > 0 THEN depth - 1 ELSE 0
        /\ UNCHANGED <<enabled, place, permits, abandoned>>
    BY <1>7 DEF Leave
  <2>2. In("holding")' = In("holding") /\ Inside' = Inside /\ In("refused")' = In("refused")
    BY <2>1 DEF In, Inside
  <2>3. QueueTypeOK'
    BY <2>1, <1>t DEF QueueTypeOK
  <2>4. PermitsAreHeld' /\ DepthCounts' /\ OffIsEmpty'
    BY <2>1, <2>2, <1>t DEF PermitsAreHeld, DepthCounts, OffIsEmpty
  <2> QED BY <2>3, <2>4, <1>q
<1>8. CASE UNCHANGED queueVars
  BY <1>8, <1>t, <1>q DEF queueVars, QueueTypeOK, PermitsAreHeld, DepthCounts, OffIsEmpty, In, Inside
<1> QED
  BY <1>1, <1>2, <1>3, <1>4, <1>5, <1>6, <1>7, <1>8 DEF QueueNext

LEMMA QueueInvMeans == QueueInv => QueueTypeOK /\ DepthIsExplained /\ ConcurrencyBound
<1> SUFFICES ASSUME QueueInv
             PROVE  QueueTypeOK /\ DepthIsExplained /\ ConcurrencyBound
  OBVIOUS
<1>1. In("waiting") \cup In("holding") \cup In("refused") = Inside
  BY DEF QueueInv, QueueTypeOK, In, Inside
<1>2. QueueTypeOK /\ DepthIsExplained
  BY <1>1 DEF QueueInv, DepthCounts, DepthIsExplained
<1>3. ConcurrencyBound
  BY DEF QueueInv, QueueTypeOK, PermitsAreHeld, ConcurrencyBound
<1> QED BY <1>2, <1>3

\* Whatever interleaves between the semaphore, the counter and the tasks of
\* dropped permits: the depth is what is in the queue and what left it without a
\* word (RequestQueue::acquire, QueuePermit::drop).
THEOREM DepthCountsTheQueue ==
  ASSUME QueueConstants
  PROVE  QueueSpec => [](QueueTypeOK /\ DepthIsExplained)
<1>1. QueueInit => QueueInv
  BY QueueInitInv
<1>2. QueueInv /\ [QueueNext]_queueVars => QueueInv'
  BY QueueStepInv
<1>3. QueueInv => QueueTypeOK /\ DepthIsExplained
  BY QueueInvMeans
<1> QED BY <1>1, <1>2, <1>3, PTL DEF QueueSpec

\* The semaphore keeps its word although the counter lags behind it
\* (RequestQueue::acquire).
THEOREM ConcurrencyIsBounded ==
  ASSUME QueueConstants
  PROVE  QueueSpec => []ConcurrencyBound
<1>1. QueueInit => QueueInv
  BY QueueInitInv
<1>2. QueueInv /\ [QueueNext]_queueVars => QueueInv'
  BY QueueStepInv
<1>3. QueueInv => ConcurrencyBound
  BY QueueInvMeans
<1> QED BY <1>1, <1>2, <1>3, PTL DEF QueueSpec

-----------------------------------------------------------------------------
(* The window in Redis.                                                      *)
SharedConstants == MaxRequests \in Nat /\ MaxCounted \in Nat /\ Window \in Nat \ {0}

\* A request is admitted by the count it made, and a key has a time to live only
\* while it counts something.
AdmittedAreCounted == admitted <= MaxRequests /\ admitted <= key.count
EmptyHasNoEnd == key.count = 0 => key.ttl = -1
NeverZero == key.ttl # 0

WindowInv == SharedTypeOK /\ AdmittedAreCounted /\ EmptyHasNoEnd /\ NeverZero /\ WindowEnds
-----------------------------------------------------------------------------
LEMMA WindowInitInv == SharedConstants /\ SharedInit => WindowInv
<1> SUFFICES ASSUME SharedConstants, SharedInit
             PROVE  WindowInv
  OBVIOUS
<1>1. unset \in BOOLEAN
  BY DEF SharedInit
<1>2. SharedTypeOK
  BY <1>1 DEF SharedConstants, SharedInit, NoKey, SharedTypeOK
<1>3. AdmittedAreCounted /\ EmptyHasNoEnd /\ NeverZero /\ WindowEnds
  BY DEF SharedConstants, SharedInit, NoKey, AdmittedAreCounted, EmptyHasNoEnd, NeverZero, WindowEnds
<1> QED BY <1>2, <1>3 DEF WindowInv

LEMMA WindowStepInv == SharedConstants /\ WindowInv /\ [SharedNext]_sharedVars => WindowInv'
<1> SUFFICES ASSUME SharedConstants, WindowInv, [SharedNext]_sharedVars
             PROVE  WindowInv'
  OBVIOUS
<1>t. /\ key \in [count: 0..MaxCounted, ttl: -1..Window] /\ call \in [Gateway -> {"idle", "expire"}]
      /\ admitted \in 0..MaxCounted /\ unset \in BOOLEAN
      /\ admitted <= MaxRequests /\ admitted <= key.count
      /\ key.count = 0 => key.ttl = -1
      /\ key.ttl # 0
      /\ key.count > 0 /\ key.ttl = -1 /\ ~unset => \E g \in Gateway : call[g] = "expire"
      /\ \A g \in Gateway : call[g] = "expire" =>
           key.count > 0 /\ key.ttl = -1 /\ \A h \in Gateway : call[h] = "expire" => h = g
      /\ MaxRequests \in Nat /\ MaxCounted \in Nat /\ Window \in Nat \ {0}
  BY DEF WindowInv, SharedTypeOK, AdmittedAreCounted, EmptyHasNoEnd, NeverZero, WindowEnds, SharedConstants
<1>1. ASSUME NEW g \in Gateway, Incr(g)
      PROVE  WindowInv'
  <2>1. /\ call[g] = "idle" /\ key.count < MaxCounted /\ unset' = unset
        /\ key' = [count |-> key.count + 1, ttl |-> key.ttl]
        /\ admitted' = admitted + IF key.count + 1 <= MaxRequests THEN 1 ELSE 0
        /\ call' = [call EXCEPT ![g] = IF key.count = 0 THEN "expire" ELSE "idle"]
    BY <1>1, <1>t DEF Incr
  <2>2. SharedTypeOK' /\ AdmittedAreCounted' /\ EmptyHasNoEnd' /\ NeverZero'
    BY <2>1, <1>t DEF SharedTypeOK, AdmittedAreCounted, EmptyHasNoEnd, NeverZero
  <2>3. WindowEnds'
    <3>1. CASE key.count = 0
      <4>1. call'[g] = "expire" /\ \A h \in Gateway \ {g} : call'[h] = "idle"
        BY <2>1, <3>1, <1>t
      <4> QED BY <2>1, <2>2, <3>1, <4>1, <1>t DEF WindowEnds, AdmittedAreCounted
    <3>2. CASE key.count > 0
      <4>1. call' = call
        BY <2>1, <3>2, <1>t
      <4> QED BY <2>1, <2>2, <3>2, <4>1, <1>t DEF WindowEnds, AdmittedAreCounted
    <3> QED BY <3>1, <3>2, <1>t
  <2> QED BY <2>2, <2>3 DEF WindowInv
<1>2. ASSUME NEW g \in Gateway, LoseAnswer(g)
      PROVE  WindowInv'
  <2>1. /\ key.count < MaxCounted /\ UNCHANGED <<call, admitted>>
        /\ key' = [count |-> key.count + 1, ttl |-> key.ttl]
        /\ unset' = (unset \/ key.count = 0)
    BY <1>2, <1>t DEF LoseAnswer
  <2>2. unset' \in BOOLEAN /\ (~unset' => ~unset /\ key.count # 0)
    BY <2>1, Zenon
  <2>3. SharedTypeOK' /\ AdmittedAreCounted' /\ EmptyHasNoEnd' /\ NeverZero'
    BY <2>1, <2>2, <1>t DEF SharedTypeOK, AdmittedAreCounted, EmptyHasNoEnd, NeverZero
  <2>4. WindowEnds'
    BY <2>1, <2>2, <1>t DEF WindowEnds
  <2> QED BY <2>3, <2>4 DEF WindowInv
<1>3. ASSUME NEW g \in Gateway, Expire(g)
      PROVE  WindowInv'
  <2>1. /\ call[g] = "expire" /\ call' = [call EXCEPT ![g] = "idle"] /\ admitted' = admitted
        /\ key.count > 0 /\ key.ttl = -1
        /\ \A h \in Gateway : call'[h] = "idle"
    BY <1>3, <1>t DEF Expire
  <2>2. \/ key' = [count |-> key.count, ttl |-> Window] /\ unset' = unset
        \/ unset' = TRUE /\ key' = key
    BY <1>3, <1>t DEF Expire
  <2>3. unset' \in BOOLEAN
    BY <2>2, <1>t, Zenon
  <2>4. SharedTypeOK' /\ AdmittedAreCounted' /\ EmptyHasNoEnd' /\ NeverZero'
    BY <2>1, <2>2, <2>3, <1>t DEF SharedTypeOK, AdmittedAreCounted, EmptyHasNoEnd, NeverZero
  <2>5. WindowEnds'
    BY <2>1, <2>2, <1>t DEF WindowEnds
  <2> QED BY <2>4, <2>5 DEF WindowInv
<1>4. ASSUME NEW g \in Gateway, Die(g)
      PROVE  WindowInv'
  <2>1. /\ call' = [call EXCEPT ![g] = "idle"] /\ unset' = TRUE /\ UNCHANGED <<key, admitted>>
        /\ \A h \in Gateway : call'[h] = "idle"
    BY <1>4, <1>t DEF Die
  <2>2. unset' \in BOOLEAN
    BY <2>1, Zenon
  <2>3. SharedTypeOK' /\ AdmittedAreCounted' /\ EmptyHasNoEnd' /\ NeverZero'
    BY <2>1, <2>2, <1>t DEF SharedTypeOK, AdmittedAreCounted, EmptyHasNoEnd, NeverZero
  <2>4. WindowEnds'
    BY <2>1, <1>t DEF WindowEnds
  <2> QED BY <2>3, <2>4 DEF WindowInv
<1>5. CASE WindowSecond
  <2>1. key.ttl > 0 /\ UNCHANGED <<call, unset>> /\ \A g \in Gateway : call[g] = "idle"
    BY <1>5, <1>t DEF WindowSecond
  <2>2. \/ key.ttl = 1 /\ key' = [count |-> 0, ttl |-> -1] /\ admitted' = 0
        \/ key.ttl > 1 /\ key' = [count |-> key.count, ttl |-> key.ttl - 1] /\ admitted' = admitted
    BY <1>5, <1>t DEF WindowSecond, NoKey
  <2>3. SharedTypeOK' /\ AdmittedAreCounted' /\ EmptyHasNoEnd' /\ NeverZero'
    BY <2>1, <2>2, <1>t DEF SharedTypeOK, AdmittedAreCounted, EmptyHasNoEnd, NeverZero
  <2>4. WindowEnds'
    BY <2>1, <2>2, <1>t DEF WindowEnds
  <2> QED BY <2>3, <2>4 DEF WindowInv
<1>6. CASE UNCHANGED sharedVars
  BY <1>6, <1>t
     DEF sharedVars, WindowInv, SharedTypeOK, AdmittedAreCounted, EmptyHasNoEnd, NeverZero, WindowEnds
<1> QED
  BY <1>1, <1>2, <1>3, <1>4, <1>5, <1>6 DEF SharedNext

LEMMA WindowInvMeans == WindowInv => SharedTypeOK /\ WindowEnds
BY DEF WindowInv

\* However INCR and EXPIRE of the gateways interleave, fail or are cut short: a
\* window admits at most the limit, a key waits only for the gateway that opened
\* it, and only a lost EXPIRE leaves it without an end (check_rate_limit).
THEOREM WindowIsSafe ==
  ASSUME SharedConstants
  PROVE  SharedSpec => [](SharedTypeOK /\ WindowEnds)
<1>1. SharedInit => WindowInv
  BY WindowInitInv
<1>2. WindowInv /\ [SharedNext]_sharedVars => WindowInv'
  BY WindowStepInv
<1>3. WindowInv => SharedTypeOK /\ WindowEnds
  BY WindowInvMeans
<1> QED BY <1>1, <1>2, <1>3, PTL DEF SharedSpec

-----------------------------------------------------------------------------
(* The introspected tokens.                                                  *)
\* The constants the code allows: the ttl is positive, Nil is no entry or verdict.
IntrospectionConstants ==
  /\ CacheTtl \in Nat \ {0} /\ MaxFlight \in Nat
  /\ Nil \notin {"Valid", "Invalid", "Error"}

Asked == [step: {"idle", "asked", "told"}, age: 0..MaxFlight, active: BOOLEAN]

ProviderTyped ==
  /\ IntrospectionTypeOK
  /\ asker \in [Asker -> Asked]

\* What says the token is active was asked before the token was revoked: it is
\* at least as old as the revocation.
AnswersPredate ==
  ~granted =>
    /\ \A a \in Asker : asker[a].step = "told" /\ asker[a].active => asker[a].age >= revokedFor
    /\ tokenCache # Nil /\ tokenCache.valid => tokenCache.age >= revokedFor

ProviderInv == ProviderTyped /\ AnswersPredate /\ RevocationBound
-----------------------------------------------------------------------------
LEMMA HorizonType == IntrospectionConstants => Horizon \in Nat /\ Horizon > MaxFlight /\ Horizon > CacheTtl
BY DEF IntrospectionConstants, Horizon

LEMMA ProviderInitInv == IntrospectionConstants /\ IntrospectionInit => ProviderInv
<1> SUFFICES ASSUME IntrospectionConstants, IntrospectionInit
             PROVE  ProviderInv
  OBVIOUS
<1>1. ProviderTyped
  BY HorizonType DEF IntrospectionConstants, IntrospectionInit, ProviderTyped, IntrospectionTypeOK, Idle, Asked
<1>2. AnswersPredate /\ RevocationBound
  BY DEF IntrospectionConstants, IntrospectionInit, AnswersPredate, RevocationBound, Idle
<1> QED BY <1>1, <1>2 DEF ProviderInv

LEMMA ProviderStepInv == IntrospectionConstants /\ ProviderInv /\ [IntrospectionNext]_introspectionVars => ProviderInv'
<1> SUFFICES ASSUME IntrospectionConstants, ProviderInv, [IntrospectionNext]_introspectionVars
             PROVE  ProviderInv'
  OBVIOUS
<1>t. /\ granted \in BOOLEAN /\ revokedFor \in 0..Horizon
      /\ tokenCache \in [valid: BOOLEAN, age: 0..Horizon] \cup {Nil}
      /\ asker \in [Asker -> Asked] /\ verdict \in [Asker -> {"Valid", "Invalid", "Error", Nil}]
      /\ AnswersPredate /\ RevocationBound
      /\ CacheTtl \in Nat \ {0} /\ MaxFlight \in Nat /\ Nil \notin {"Valid", "Invalid", "Error"}
      /\ Horizon \in Nat /\ Horizon > MaxFlight /\ Horizon > CacheTtl
  BY HorizonType DEF ProviderInv, ProviderTyped, IntrospectionTypeOK, IntrospectionConstants
<1>q. ASSUME granted' \in BOOLEAN, revokedFor' \in 0..Horizon,
             tokenCache' \in [valid: BOOLEAN, age: 0..Horizon] \cup {Nil},
             asker' \in [Asker -> Asked], verdict' \in [Asker -> {"Valid", "Invalid", "Error", Nil}],
             AnswersPredate', RevocationBound'
      PROVE  ProviderInv'
  BY <1>q DEF ProviderInv, ProviderTyped, IntrospectionTypeOK, Asked
<1>1. ASSUME NEW a \in Asker, FromCache(a)
      PROVE  ProviderInv'
  <2>1. verdict' \in [Asker -> {"Valid", "Invalid", "Error", Nil}]
    BY <1>1, <1>t DEF FromCache
  <2>2. AnswersPredate'
    BY <1>1, <1>t DEF FromCache, AnswersPredate
  <2>3. RevocationBound'
    <3>1. tokenCache # Nil /\ tokenCache.age < CacheTtl /\ tokenCache \in [valid: BOOLEAN, age: 0..Horizon]
      BY <1>1, <1>t DEF FromCache, Usable
    <3>2. verdict'[a] = "Valid" => granted \/ revokedFor < CacheTtl
      BY <1>1, <1>t, <3>1 DEF FromCache, AnswersPredate
    <3>3. \A b \in Asker \ {a} : verdict'[b] = verdict[b]
      BY <1>1, <1>t DEF FromCache
    <3> QED BY <1>1, <1>t, <3>2, <3>3 DEF FromCache, RevocationBound
  <2> QED BY <1>1, <1>t, <1>q, <2>1, <2>2, <2>3 DEF FromCache
<1>2. ASSUME NEW a \in Asker, Ask(a)
      PROVE  ProviderInv'
  <2>1. asker' \in [Asker -> Asked] /\ verdict' \in [Asker -> {"Valid", "Invalid", "Error", Nil}]
    BY <1>2, <1>t DEF Ask, Asked
  <2>2. AnswersPredate'
    BY <1>2, <1>t DEF Ask, AnswersPredate, Asked
  <2>3. RevocationBound'
    BY <1>2, <1>t DEF Ask, RevocationBound
  <2> QED BY <1>2, <1>t, <1>q, <2>1, <2>2, <2>3 DEF Ask
<1>3. ASSUME NEW a \in Asker, Introspect(a)
      PROVE  ProviderInv'
  <2>1. asker' \in [Asker -> Asked]
    BY <1>3, <1>t DEF Introspect, Asked
  <2>2. AnswersPredate'
    BY <1>3, <1>t DEF Introspect, AnswersPredate, Asked
  <2>3. RevocationBound'
    BY <1>3, <1>t DEF Introspect, RevocationBound
  <2> QED BY <1>3, <1>t, <1>q, <2>1, <2>2, <2>3 DEF Introspect
<1>4. ASSUME NEW a \in Asker, Store(a)
      PROVE  ProviderInv'
  <2>1. asker[a] \in Asked /\ asker[a].step = "told"
    BY <1>4, <1>t DEF Store
  <2>2. /\ tokenCache' = [valid |-> asker[a].active, age |-> asker[a].age]
        /\ asker' = [asker EXCEPT ![a] = Idle]
        /\ verdict' = [verdict EXCEPT ![a] = IF asker[a].active THEN "Valid" ELSE "Invalid"]
        /\ UNCHANGED <<granted, revokedFor>>
    BY <1>4 DEF Store, Entry
  <2>3. asker' \in [Asker -> Asked] /\ verdict' \in [Asker -> {"Valid", "Invalid", "Error", Nil}]
    BY <2>2, <1>t DEF Idle, Asked
  <2>4. tokenCache' \in [valid: BOOLEAN, age: 0..Horizon] \cup {Nil}
    BY <2>1, <2>2, <1>t DEF Asked
  <2>5. AnswersPredate'
    BY <2>1, <2>2, <1>t DEF AnswersPredate, Idle
  <2>6. RevocationBound'
    <3>1. asker[a].active => granted \/ revokedFor <= MaxFlight
      BY <2>1, <1>t DEF AnswersPredate, Asked
    <3>2. \A b \in Asker \ {a} : verdict'[b] = verdict[b]
      BY <2>2, <1>t
    <3> QED BY <2>2, <3>1, <3>2, <1>t DEF RevocationBound
  <2> QED BY <2>2, <2>3, <2>4, <2>5, <2>6, <1>t, <1>q
<1>5. ASSUME NEW a \in Asker, NoAnswer(a)
      PROVE  ProviderInv'
  <2>1. asker' \in [Asker -> Asked] /\ verdict' \in [Asker -> {"Valid", "Invalid", "Error", Nil}]
    BY <1>5, <1>t DEF NoAnswer, Asked, Idle
  <2>2. AnswersPredate'
    BY <1>5, <1>t DEF NoAnswer, AnswersPredate, Idle
  <2>3. RevocationBound'
    BY <1>5, <1>t DEF NoAnswer, RevocationBound
  <2> QED BY <1>5, <1>t, <1>q, <2>1, <2>2, <2>3 DEF NoAnswer
<1>6. CASE Revoke
  <2>1. AnswersPredate'
    BY <1>6, <1>t DEF Revoke, AnswersPredate, Asked
  <2>2. RevocationBound'
    BY <1>6, <1>t DEF Revoke, RevocationBound
  <2>3. granted' \in BOOLEAN /\ revokedFor' \in 0..Horizon
    <3>1. granted' = FALSE /\ revokedFor' = 0
      BY <1>6, Zenon DEF Revoke
    <3>2. granted' \in BOOLEAN
      BY <3>1, Zenon
    <3>3. revokedFor' \in 0..Horizon
      BY <3>1, <1>t
    <3> QED BY <3>2, <3>3
  <2>4. UNCHANGED <<tokenCache, asker, verdict>>
    BY <1>6 DEF Revoke
  <2> QED BY <2>1, <2>2, <2>3, <2>4, <1>t, <1>q
<1>7. CASE ClearTokens
  <2>1. AnswersPredate' /\ RevocationBound'
    BY <1>7, <1>t DEF ClearTokens, AnswersPredate, RevocationBound
  <2> QED BY <1>7, <1>t, <1>q, <2>1 DEF ClearTokens
<1>8. CASE IntrospectionTick
  <2>1. revokedFor' \in 0..Horizon
    <3>1. revokedFor' = revokedFor \/ (revokedFor # Horizon /\ revokedFor' = revokedFor + 1)
      BY <1>8, Zenon DEF IntrospectionTick
    <3> QED BY <3>1, <1>t
  <2>2. tokenCache' \in [valid: BOOLEAN, age: 0..Horizon] \cup {Nil}
    <3>1. CASE tokenCache = Nil \/ tokenCache.age = Horizon
      BY <1>8, <1>t, <3>1 DEF IntrospectionTick
    <3>2. CASE tokenCache # Nil /\ tokenCache.age # Horizon
      <4>1. tokenCache \in [valid: BOOLEAN, age: 0..Horizon]
        BY <1>t, <3>2
      <4>2. [tokenCache EXCEPT !.age = @ + 1] \in [valid: BOOLEAN, age: 0..Horizon]
        BY <1>t, <3>2, <4>1
      <4>3. tokenCache' = [tokenCache EXCEPT !.age = @ + 1]
        BY <1>8, <3>2 DEF IntrospectionTick
      <4> QED BY <4>2, <4>3
    <3> QED BY <3>1, <3>2
  <2>3. asker' \in [Asker -> Asked]
    BY <1>8, <1>t DEF IntrospectionTick, Asked, Idle
  <2>4. verdict' = [a \in Asker |-> Nil]
    BY <1>8 DEF IntrospectionTick
  <2>5. AnswersPredate'
    <3> SUFFICES ASSUME ~granted
                 PROVE  /\ \A a \in Asker : asker'[a].step = "told" /\ asker'[a].active => asker'[a].age >= revokedFor'
                        /\ tokenCache' # Nil /\ tokenCache'.valid => tokenCache'.age >= revokedFor'
      BY <1>8 DEF IntrospectionTick, AnswersPredate
    <3>1. revokedFor' = IF revokedFor = Horizon THEN revokedFor ELSE revokedFor + 1
      BY <1>8 DEF IntrospectionTick
    <3>2. ASSUME NEW a \in Asker, asker'[a].step = "told", asker'[a].active
          PROVE  asker'[a].age >= revokedFor'
      <4>1. /\ asker[a] # Idle /\ asker[a].step = "told" /\ asker[a].active
            /\ asker'[a].age = asker[a].age + 1
        BY <1>8, <1>t, <3>2 DEF IntrospectionTick, Idle, Asked
      <4> QED BY <3>1, <4>1, <1>t DEF AnswersPredate, Asked
    <3>3. tokenCache' # Nil /\ tokenCache'.valid => tokenCache'.age >= revokedFor'
      BY <1>8, <1>t, <3>1 DEF IntrospectionTick, AnswersPredate
    <3> QED BY <3>2, <3>3
  <2>6. RevocationBound'
    BY <2>4, <1>t DEF RevocationBound
  <2>7. verdict' \in [Asker -> {"Valid", "Invalid", "Error", Nil}]
    BY <2>4
  <2> QED BY <1>8, <1>t, <1>q, <2>1, <2>2, <2>3, <2>5, <2>6, <2>7 DEF IntrospectionTick
<1>9. CASE UNCHANGED introspectionVars
  BY <1>9, <1>t, <1>q DEF introspectionVars, AnswersPredate, RevocationBound
<1> QED
  BY <1>1, <1>2, <1>3, <1>4, <1>5, <1>6, <1>7, <1>8, <1>9 DEF IntrospectionNext

LEMMA ProviderInvMeans == ProviderInv => RevocationBound
BY DEF ProviderInv

\* Whatever order answers arrive in and whenever the cache is cleared: a revoked
\* token is accepted for less than the ttl, or as long as an answer may take
\* (validate_token).
THEOREM RevokedTokenIsRefused ==
  ASSUME IntrospectionConstants
  PROVE  IntrospectionSpec => []RevocationBound
<1>1. IntrospectionInit => ProviderInv
  BY ProviderInitInv
<1>2. ProviderInv /\ [IntrospectionNext]_introspectionVars => ProviderInv'
  BY ProviderStepInv
<1>3. ProviderInv => RevocationBound
  BY ProviderInvMeans
<1> QED BY <1>1, <1>2, <1>3, PTL DEF IntrospectionSpec

-----------------------------------------------------------------------------
(* The daily quotas.                                                         *)

QuotaConstants ==
  /\ IsFiniteSet(Served) /\ Served # {}
  /\ NoQuota \notin Tenant /\ NoQuota \notin Nat /\ Quotas \in [Tenant -> Nat \cup {NoQuota}]

\* The requests in service of one tenant.
ServedFor(t) == {s \in Served : serving[s] = t}
CountsAndPlaces == daily \in [Tenant -> Nat] /\ serving \in [Served -> Tenant \cup {NoQuota}]

QuotaInv == CountsAndPlaces /\ QuotaOvershoot

\* A request counts for its tenant from the check to the record.
LEMMA ServedSets ==
  ASSUME QuotaConstants, NEW t
  PROVE  /\ IsFiniteSet(ServedFor(t)) /\ Cardinality(ServedFor(t)) \in Nat
         /\ Cardinality(Served) \in Nat /\ Cardinality(Served) > 0
         /\ Cardinality(ServedFor(t)) <= Cardinality(Served)
<1>1. ServedFor(t) \subseteq Served
  BY DEF ServedFor
<1> QED BY <1>1, FS_Subset, FS_CardinalityType, FS_EmptySet DEF QuotaConstants

LEMMA QuotaInitInv == QuotaConstants /\ QuotaInit => QuotaInv
<1> SUFFICES ASSUME QuotaConstants, QuotaInit
             PROVE  QuotaInv
  OBVIOUS
<1>1. CountsAndPlaces
  BY DEF QuotaInit, CountsAndPlaces
<1>2. ASSUME NEW t \in Tenant, Quotas[t] # NoQuota
      PROVE  daily[t] + Cardinality(ServedFor(t)) <= Quotas[t] + Cardinality(Served) - 1
  <2>1. ServedFor(t) = {} /\ daily[t] = 0 /\ Quotas[t] \in Nat
    BY <1>2 DEF QuotaInit, ServedFor, QuotaConstants
  <2> QED BY <2>1, ServedSets, FS_EmptySet
<1> QED BY <1>1, <1>2 DEF QuotaInv, QuotaOvershoot, ServedFor

LEMMA QuotaStepInv == QuotaConstants /\ QuotaInv /\ [QuotaNext]_quotaVars => QuotaInv'
<1> SUFFICES ASSUME QuotaConstants, QuotaInv, [QuotaNext]_quotaVars
             PROVE  QuotaInv'
  OBVIOUS
<1>t. /\ daily \in [Tenant -> Nat] /\ serving \in [Served -> Tenant \cup {NoQuota}]
      /\ \A t \in Tenant : daily[t] \in Nat
      /\ \A t \in Tenant : Quotas[t] # NoQuota => Quotas[t] \in Nat
      /\ NoQuota \notin Tenant
      /\ \A t \in Tenant : Quotas[t] # NoQuota =>
           daily[t] + Cardinality(ServedFor(t)) <= Quotas[t] + Cardinality(Served) - 1
  BY DEF QuotaInv, CountsAndPlaces, QuotaOvershoot, QuotaConstants, ServedFor
<1>q. ASSUME CountsAndPlaces',
             \A t \in Tenant : Quotas[t] # NoQuota =>
               daily'[t] + Cardinality(ServedFor(t)') <= Quotas[t] + Cardinality(Served) - 1
      PROVE  QuotaInv'
  BY <1>q DEF QuotaInv, QuotaOvershoot, ServedFor
<1>1. ASSUME NEW s \in Served, RecordRequest(s)
      PROVE  QuotaInv'
  <2> DEFINE u == serving[s]
  <2>1. /\ u \in Tenant /\ daily' = [daily EXCEPT ![u] = @ + 1]
        /\ serving' = [serving EXCEPT ![s] = NoQuota]
    BY <1>1, <1>t DEF RecordRequest
  <2>2. CountsAndPlaces'
    BY <2>1, <1>t DEF CountsAndPlaces
  <2>3. ASSUME NEW t \in Tenant, Quotas[t] # NoQuota
        PROVE  daily'[t] + Cardinality(ServedFor(t)') <= Quotas[t] + Cardinality(Served) - 1
    <3>1. CASE t = u
      <4>1. s \in ServedFor(t) /\ ServedFor(t)' = ServedFor(t) \ {s} /\ daily'[t] = daily[t] + 1
        BY <2>1, <3>1, <1>t DEF ServedFor
      <4>2. Cardinality(ServedFor(t) \ {s}) = Cardinality(ServedFor(t)) - 1
        BY <4>1, ServedSets, FS_RemoveElement
      <4> QED BY <4>1, <4>2, <2>3, <1>t, ServedSets
    <3>2. CASE t # u
      <4>1. ServedFor(t)' = ServedFor(t) /\ daily'[t] = daily[t]
        BY <2>1, <3>2, <1>t DEF ServedFor
      <4> QED BY <4>1, <2>3, <1>t
    <3> QED BY <3>1, <3>2
  <2> QED BY <2>2, <2>3, <1>q
<1>2. ASSUME NEW s \in Served, NEW u \in Tenant, Serve(s, u)
      PROVE  QuotaInv'
  <2>1. /\ serving[s] = NoQuota /\ CheckQuota(u) /\ daily' = daily
        /\ serving' = [serving EXCEPT ![s] = u]
    BY <1>2 DEF Serve
  <2>2. CountsAndPlaces'
    BY <2>1, <1>t DEF CountsAndPlaces
  <2>3. ASSUME NEW t \in Tenant, Quotas[t] # NoQuota
        PROVE  daily'[t] + Cardinality(ServedFor(t)') <= Quotas[t] + Cardinality(Served) - 1
    <3>1. CASE t = u
      <4>1. daily[t] < Quotas[t]
        BY <2>1, <2>3, <3>1 DEF CheckQuota
      <4>2. ServedFor(t)' \subseteq Served
        BY DEF ServedFor
      <4>3. Cardinality(ServedFor(t)') <= Cardinality(Served) /\ Cardinality(ServedFor(t)') \in Nat
        BY <4>2, FS_Subset, FS_CardinalityType DEF QuotaConstants
      <4> QED BY <4>1, <4>3, <2>1, <2>3, <1>t, ServedSets
    <3>2. CASE t # u
      <4>1. ServedFor(t)' = ServedFor(t)
        BY <2>1, <3>2, <1>t DEF ServedFor
      <4> QED BY <4>1, <2>1, <2>3, <1>t
    <3> QED BY <3>1, <3>2
  <2> QED BY <2>2, <2>3, <1>q
<1>3. ASSUME NEW u \in Tenant, ResetOne(u)
      PROVE  QuotaInv'
  <2>1. daily' = [daily EXCEPT ![u] = 0] /\ serving' = serving
    BY <1>3 DEF ResetOne
  <2>2. CountsAndPlaces'
    BY <2>1, <1>t DEF CountsAndPlaces
  <2>3. ASSUME NEW t \in Tenant, Quotas[t] # NoQuota
        PROVE  daily'[t] + Cardinality(ServedFor(t)') <= Quotas[t] + Cardinality(Served) - 1
    <3>1. ServedFor(t)' = ServedFor(t) /\ daily'[t] \in Nat /\ daily'[t] <= daily[t]
      BY <2>1, <1>t DEF ServedFor
    <3> QED BY <3>1, <2>3, <1>t, ServedSets
  <2> QED BY <2>2, <2>3, <1>q
<1>4. CASE UNCHANGED <<daily, serving>>
  BY <1>4, <1>t, <1>q DEF CountsAndPlaces, ServedFor
<1> QED BY <1>1, <1>2, <1>3, <1>4 DEF QuotaNext, StartReset, quotaVars

LEMMA QuotaInvMeans == QuotaInv => QuotaOvershoot
BY DEF QuotaInv

\* However checks, counts and the reset of the counters interleave: a tenant with a
\* quota gets at most as many requests more as could be under way at once, less
\* one (check_quota, record_request, reset_daily_counts).
THEOREM QuotaIsNearlyKept ==
  ASSUME QuotaConstants
  PROVE  QuotaSpec => []QuotaOvershoot
<1>1. QuotaInit => QuotaInv
  BY QuotaInitInv
<1>2. QuotaInv /\ [QuotaNext]_quotaVars => QuotaInv'
  BY QuotaStepInv
<1>3. QuotaInv => QuotaOvershoot
  BY QuotaInvMeans
<1> QED BY <1>1, <1>2, <1>3, PTL DEF QuotaSpec

-----------------------------------------------------------------------------
(* The edge cache.                                                           *)

EdgeConstants == IsFiniteSet(Key) /\ MaxEntries \in Nat

\* Without an overlap one call stores, and the room it found or made, or will
\* make by the eviction of its victim, is still there.
AloneStoring == \A u, v \in Storing : u = v
RoomIsKept ==
  \A u \in User :
    /\ user[u].step = "insert" => Cardinality(Cached) < MaxEntries
    /\ user[u].step = "evict" => Cardinality(Cached \ {user[u].victim}) < MaxEntries
Calls == [step: {"away", "drop", "evict", "insert"}, key: Key \cup {NoEntry},
          etag: Etag \cup {NoEntry}, victim: Key \cup {NoEntry}]
CacheTyped ==
  /\ overlapped \in BOOLEAN /\ entries \in [Key -> [etag: Etag, age: Nat] \cup {NoEntry}]
  /\ user \in [User -> Calls]
  /\ \A u \in User : user[u].step = "insert" => user[u].key \in Key /\ user[u].etag \in Etag
  /\ \A u \in User : user[u].step = "evict" => user[u].key \in Key /\ user[u].etag \in Etag

EdgeInv ==
  /\ CacheTyped
  /\ overlapped = FALSE => AloneStoring /\ RoomIsKept /\ Cardinality(Cached) <= MaxEntries

LEMMA CachedSets ==
  ASSUME EdgeConstants
  PROVE  /\ Cached \subseteq Key /\ IsFiniteSet(Cached)
         /\ \A S \in SUBSET Key : IsFiniteSet(S) /\ Cardinality(S) \in Nat
         /\ \A S \in SUBSET Key : \A T \in SUBSET S : Cardinality(T) <= Cardinality(S)
         /\ \A S \in SUBSET Key : \A k \in S : Cardinality(S \ {k}) = Cardinality(S) - 1
         /\ \A S \in SUBSET Key : \A k \in Key : Cardinality(S \cup {k}) <= Cardinality(S) + 1
<1>1. \A S \in SUBSET Key : IsFiniteSet(S) /\ Cardinality(S) \in Nat
  BY FS_Subset, FS_CardinalityType DEF EdgeConstants
<1>2. \A S \in SUBSET Key : \A T \in SUBSET S : Cardinality(T) <= Cardinality(S)
  BY <1>1, FS_Subset
<1>3. \A S \in SUBSET Key : \A k \in S : Cardinality(S \ {k}) = Cardinality(S) - 1
  BY <1>1, FS_RemoveElement
<1>4. ASSUME NEW S \in SUBSET Key, NEW k \in Key
      PROVE  Cardinality(S \cup {k}) <= Cardinality(S) + 1
  BY <1>1, FS_AddElement
<1>5. Cached \subseteq Key
  BY DEF Cached
<1> QED BY <1>1, <1>2, <1>3, <1>4, <1>5

LEMMA EdgeInitInv == EdgeConstants /\ EdgeInit => EdgeInv
<1> SUFFICES ASSUME EdgeConstants, EdgeInit
             PROVE  EdgeInv
  OBVIOUS
<1>1. Cached = {} /\ Storing = {}
  BY DEF EdgeInit, Cached, Storing, Away
<1>2. CacheTyped
  <2>1. overlapped \in BOOLEAN
    BY DEF EdgeInit
  <2> QED BY <2>1 DEF EdgeInit, CacheTyped, Calls, Away
<1>3. RoomIsKept
  BY DEF EdgeInit, Away, RoomIsKept
<1> QED BY <1>1, <1>2, <1>3, FS_EmptySet DEF EdgeInv, AloneStoring, EdgeConstants

\* A step that caches nothing new and in which nobody starts to store keeps the room.
LEMMA LessIsCached ==
  ASSUME EdgeConstants, EdgeInv, CacheTyped', Cached' \subseteq Cached,
         overlapped' = overlapped,
         \A u \in User :
           user'[u].step \in {"insert", "evict"} =>
             user'[u].step = user[u].step /\ user'[u].victim = user[u].victim
  PROVE  EdgeInv'
<1> SUFFICES ASSUME overlapped = FALSE
             PROVE  AloneStoring' /\ RoomIsKept' /\ Cardinality(Cached') <= MaxEntries
  BY DEF EdgeInv
<1>1. AloneStoring /\ RoomIsKept /\ Cardinality(Cached) <= MaxEntries /\ MaxEntries \in Nat
  BY DEF EdgeInv, EdgeConstants
<1>2. Cached \subseteq Key /\ Cached' \subseteq Key
  BY CachedSets
<1>3. Cardinality(Cached') <= Cardinality(Cached) /\ Cardinality(Cached') \in Nat /\ Cardinality(Cached) \in Nat
  BY <1>2, CachedSets
<1>4. ASSUME NEW k
      PROVE  /\ Cardinality(Cached' \ {k}) <= Cardinality(Cached \ {k})
             /\ Cardinality(Cached' \ {k}) \in Nat /\ Cardinality(Cached \ {k}) \in Nat
  <2>1. Cached' \ {k} \in SUBSET (Cached \ {k}) /\ Cached \ {k} \in SUBSET Key /\ Cached' \ {k} \in SUBSET Key
    BY <1>2
  <2> QED BY <2>1, CachedSets
<1>5. Storing' \subseteq Storing
  BY DEF Storing
<1>6. AloneStoring'
  BY <1>1, <1>5 DEF AloneStoring
<1>7. ASSUME NEW u \in User
      PROVE  /\ user'[u].step = "insert" => Cardinality(Cached') < MaxEntries
             /\ user'[u].step = "evict" => Cardinality(Cached' \ {user'[u].victim}) < MaxEntries
  <2>1. user[u].step = "insert" => Cardinality(Cached) < MaxEntries
    BY <1>1 DEF RoomIsKept
  <2>2. user[u].step = "evict" => Cardinality(Cached \ {user[u].victim}) < MaxEntries
    BY <1>1 DEF RoomIsKept
  <2>3. CASE user'[u].step = "insert"
    BY <2>1, <2>3, <1>1, <1>3
  <2>4. CASE user'[u].step = "evict"
    <3>1. user'[u].victim = user[u].victim /\ user[u].step = "evict"
      BY <2>4
    <3> DEFINE k == user[u].victim
    <3>2. Cardinality(Cached \ {k}) < MaxEntries
      BY <2>2, <3>1
    <3>3. Cardinality(Cached' \ {k}) < MaxEntries
      <4>1. /\ Cardinality(Cached' \ {k}) <= Cardinality(Cached \ {k})
            /\ Cardinality(Cached' \ {k}) \in Nat /\ Cardinality(Cached \ {k}) \in Nat
        BY <1>4
      <4> QED BY <3>2, <4>1, <1>1
    <3> QED BY <2>4, <3>1, <3>3
  <2> QED BY <2>3, <2>4
<1> QED BY <1>1, <1>3, <1>6, <1>7 DEF RoomIsKept

LEMMA EdgeStepInv == EdgeConstants /\ EdgeInv /\ [EdgeNext]_edgeVars => EdgeInv'
<1> SUFFICES ASSUME EdgeConstants, EdgeInv, [EdgeNext]_edgeVars
             PROVE  EdgeInv'
  OBVIOUS
<1>t. /\ CacheTyped /\ overlapped \in BOOLEAN
      /\ entries \in [Key -> [etag: Etag, age: Nat] \cup {NoEntry}] /\ user \in [User -> Calls]
      /\ \A u \in User : user[u].step = "insert" => user[u].key \in Key /\ user[u].etag \in Etag
      /\ \A u \in User : user[u].step = "evict" => user[u].key \in Key /\ user[u].etag \in Etag
      /\ MaxEntries \in Nat
      /\ Away \in Calls /\ Away.step = "away"
  BY DEF EdgeInv, CacheTyped, EdgeConstants, Away, Calls
<1>1. ASSUME NEW u \in User, NEW k \in Key, CheckEdge(u, k)
      PROVE  EdgeInv'
  <2>1. /\ entries' = entries /\ overlapped' = overlapped
        /\ \/ user' = [user EXCEPT ![u] = [Away EXCEPT !.step = "drop", !.key = k]]
           \/ user' = [user EXCEPT ![u] = Away]
    BY <1>1 DEF CheckEdge
  <2>2. [Away EXCEPT !.step = "drop", !.key = k] \in Calls /\ [Away EXCEPT !.step = "drop", !.key = k].step = "drop"
    BY DEF Away, Calls
  <2>3. CacheTyped'
    BY <2>1, <2>2, <1>t DEF CacheTyped
  <2>4. Cached' = Cached
    BY <2>1 DEF Cached
  <2> QED BY <2>1, <2>2, <2>3, <2>4, <1>t, LessIsCached
<1>2. ASSUME NEW u \in User, DropExpired(u)
      PROVE  EdgeInv'
  <2>1. /\ entries' = [entries EXCEPT ![user[u].key] = NoEntry] /\ overlapped' = overlapped
        /\ user' = [user EXCEPT ![u] = Away]
    BY <1>2 DEF DropExpired
  <2>2. CacheTyped'
    BY <2>1, <1>t DEF CacheTyped
  <2>3. Cached' \subseteq Cached
    BY <2>1, <1>t DEF Cached
  <2> QED BY <2>1, <2>2, <2>3, <1>t, LessIsCached
<1>3. ASSUME NEW u \in User, NEW k \in Key, NEW e \in Etag, StoreEdge(u, k, e)
      PROVE  EdgeInv'
  <2>1. /\ entries' = entries /\ overlapped' = (overlapped \/ Storing # {})
        /\ \/ /\ Cardinality(Cached) < MaxEntries
              /\ user' = [user EXCEPT ![u] = [Away EXCEPT !.step = "insert", !.key = k, !.etag = e]]
           \/ \E v \in OldestEntries :
                user' = [user EXCEPT ![u] = [step |-> "evict", key |-> k, etag |-> e, victim |-> v]]
    BY <1>3 DEF StoreEdge
  <2>2. overlapped' \in BOOLEAN /\ (overlapped' = FALSE => overlapped = FALSE /\ Storing = {})
    BY <2>1, <1>t, Zenon
  <2>3. /\ [Away EXCEPT !.step = "insert", !.key = k, !.etag = e] \in Calls
        /\ [Away EXCEPT !.step = "insert", !.key = k, !.etag = e].step = "insert"
        /\ [Away EXCEPT !.step = "insert", !.key = k, !.etag = e].key = k
        /\ [Away EXCEPT !.step = "insert", !.key = k, !.etag = e].etag = e
    BY DEF Away, Calls
  <2>4. \A v \in OldestEntries : v \in Cached /\ v \in Key
    BY DEF OldestEntries, Cached
  <2>5. CacheTyped'
    <3>1. CASE user' = [user EXCEPT ![u] = [Away EXCEPT !.step = "insert", !.key = k, !.etag = e]]
      BY <2>1, <2>2, <2>3, <3>1, <1>t DEF CacheTyped
    <3>2. ASSUME NEW v \in OldestEntries,
                 user' = [user EXCEPT ![u] = [step |-> "evict", key |-> k, etag |-> e, victim |-> v]]
          PROVE  CacheTyped'
      <4>1. [step |-> "evict", key |-> k, etag |-> e, victim |-> v] \in Calls
        BY <2>4 DEF Calls
      <4> QED BY <2>1, <2>2, <3>2, <4>1, <1>t DEF CacheTyped
    <3> QED BY <2>1, <3>1, <3>2
  <2>6. ASSUME overlapped' = FALSE
        PROVE  AloneStoring' /\ RoomIsKept' /\ Cardinality(Cached') <= MaxEntries
    <3>1. /\ overlapped = FALSE /\ Storing = {} /\ Cached' = Cached
          /\ Cardinality(Cached) <= MaxEntries /\ Cardinality(Cached) \in Nat
      BY <2>1, <2>2, <2>6, CachedSets DEF Cached, EdgeInv
    <3>2. \A w \in User \ {u} : user'[w] = user[w] /\ user[w].step \notin {"evict", "insert"}
      BY <2>1, <3>1, <1>t DEF Storing
    <3>3. Storing' \subseteq {u}
      BY <3>2 DEF Storing
    <3>4. RoomIsKept'
      <4>1. CASE /\ Cardinality(Cached) < MaxEntries
                 /\ user' = [user EXCEPT ![u] = [Away EXCEPT !.step = "insert", !.key = k, !.etag = e]]
        BY <2>3, <3>1, <3>2, <4>1, <1>t DEF RoomIsKept
      <4>2. ASSUME NEW v \in OldestEntries,
                   user' = [user EXCEPT ![u] = [step |-> "evict", key |-> k, etag |-> e, victim |-> v]]
            PROVE  RoomIsKept'
        <5>1. Cardinality(Cached \ {v}) = Cardinality(Cached) - 1
          BY <2>4, CachedSets
        <5>2. user'[u].step = "evict" /\ user'[u].victim = v
          BY <4>2, <1>t
        <5>3. Cardinality(Cached' \ {user'[u].victim}) < MaxEntries
          BY <3>1, <5>1, <5>2, <1>t
        <5> QED BY <3>2, <5>2, <5>3 DEF RoomIsKept
      <4> QED BY <2>1, <4>1, <4>2
    <3> QED BY <3>1, <3>3, <3>4 DEF AloneStoring
  <2> QED BY <2>5, <2>6 DEF EdgeInv
<1>4. ASSUME NEW u \in User, EvictOldest(u)
      PROVE  EdgeInv'
  <2>1. /\ user[u].step = "evict" /\ overlapped' = overlapped
        /\ entries' = [entries EXCEPT ![user[u].victim] = NoEntry]
        /\ user' = [user EXCEPT ![u] = [user[u] EXCEPT !.step = "insert", !.victim = NoEntry]]
    BY <1>4, <1>t DEF EvictOldest, Calls
  <2>2. /\ [user[u] EXCEPT !.step = "insert", !.victim = NoEntry] \in Calls
        /\ user'[u].step = "insert" /\ user'[u].key = user[u].key /\ user'[u].etag = user[u].etag
    BY <2>1, <1>t DEF Calls
  <2>3. CacheTyped'
    BY <2>1, <2>2, <1>t DEF CacheTyped
  <2>4. Cached' \subseteq Cached \ {user[u].victim}
    BY <2>1, <1>t DEF Cached
  <2>5. ASSUME overlapped' = FALSE
        PROVE  AloneStoring' /\ RoomIsKept' /\ Cardinality(Cached') <= MaxEntries
    <3>1. AloneStoring /\ RoomIsKept /\ u \in Storing
      BY <2>1, <2>5 DEF EdgeInv, Storing
    <3>2. \A w \in User \ {u} : user'[w] = user[w] /\ user[w].step \notin {"evict", "insert"}
      BY <2>1, <3>1, <1>t DEF Storing, AloneStoring
    <3>3. Storing' \subseteq {u}
      BY <3>2 DEF Storing
    <3>4. Cached' \in SUBSET (Cached \ {user[u].victim}) /\ Cached \ {user[u].victim} \in SUBSET Key
      BY <2>4, CachedSets
    <3>5. /\ Cardinality(Cached') <= Cardinality(Cached \ {user[u].victim})
          /\ Cardinality(Cached') \in Nat /\ Cardinality(Cached \ {user[u].victim}) \in Nat
      BY <3>4, CachedSets
    <3>6. Cardinality(Cached') < MaxEntries
      BY <2>1, <3>1, <3>5, <1>t DEF RoomIsKept
    <3> QED BY <2>2, <3>2, <3>3, <3>5, <3>6, <1>t DEF AloneStoring, RoomIsKept
  <2> QED BY <2>3, <2>5 DEF EdgeInv
<1>5. ASSUME NEW u \in User, InsertEdge(u)
      PROVE  EdgeInv'
  <2>1. /\ user[u].step = "insert" /\ overlapped' = overlapped /\ user[u].key \in Key
        /\ entries' = [entries EXCEPT ![user[u].key] = [etag |-> user[u].etag, age |-> 0]]
        /\ user' = [user EXCEPT ![u] = Away]
    BY <1>5, <1>t DEF InsertEdge
  <2>2. CacheTyped'
    BY <2>1, <1>t DEF CacheTyped
  <2>3. Cached' \subseteq Cached \cup {user[u].key}
    BY <2>1, <1>t DEF Cached
  <2>4. ASSUME overlapped' = FALSE
        PROVE  AloneStoring' /\ RoomIsKept' /\ Cardinality(Cached') <= MaxEntries
    <3>1. AloneStoring /\ RoomIsKept /\ u \in Storing
      BY <2>1, <2>4 DEF EdgeInv, Storing
    <3>2. \A w \in User : user'[w].step \notin {"evict", "insert"}
      BY <2>1, <3>1, <1>t DEF Storing, AloneStoring
    <3>3. Storing' = {}
      BY <3>2 DEF Storing
    <3>4. Cached' \in SUBSET (Cached \cup {user[u].key}) /\ Cached \cup {user[u].key} \in SUBSET Key /\ Cached \in SUBSET Key
      BY <2>1, <2>3, CachedSets
    <3>5. /\ Cardinality(Cached') <= Cardinality(Cached \cup {user[u].key})
          /\ Cardinality(Cached \cup {user[u].key}) <= Cardinality(Cached) + 1
          /\ Cardinality(Cached') \in Nat /\ Cardinality(Cached) \in Nat
          /\ Cardinality(Cached \cup {user[u].key}) \in Nat
      BY <2>1, <3>4, CachedSets
    <3>6. Cardinality(Cached) < MaxEntries
      BY <2>1, <3>1 DEF RoomIsKept
    <3>7. Cardinality(Cached') <= MaxEntries
      BY <3>5, <3>6, <1>t
    <3> QED BY <3>2, <3>3, <3>7 DEF AloneStoring, RoomIsKept
  <2> QED BY <2>2, <2>4 DEF EdgeInv
<1>6. CASE EdgeSecond
  <2>1. /\ entries' = [k \in Key |-> IF entries[k] = NoEntry \/ entries[k].age > Ttl THEN entries[k]
                                     ELSE [entries[k] EXCEPT !.age = @ + 1]]
        /\ user' = user /\ overlapped' = overlapped
    BY <1>6 DEF EdgeSecond
  <2>2. \A k \in Key : entries[k] # NoEntry => [entries[k] EXCEPT !.age = @ + 1] \in [etag: Etag, age: Nat]
    BY <1>t
  <2>3. CacheTyped'
    BY <2>1, <2>2, <1>t DEF CacheTyped
  <2>4. Cached' \subseteq Cached
    BY <2>1 DEF Cached
  <2> QED BY <2>1, <2>3, <2>4, LessIsCached
<1>7. CASE ClearEdge
  <2>1. entries' = [k \in Key |-> NoEntry] /\ user' = user /\ overlapped' = overlapped
    BY <1>7 DEF ClearEdge
  <2>2. CacheTyped' /\ Cached' \subseteq Cached
    BY <2>1, <1>t DEF CacheTyped, Cached
  <2> QED BY <2>1, <2>2, LessIsCached
<1>8. CASE UNCHANGED edgeVars
  <2>1. entries' = entries /\ user' = user /\ overlapped' = overlapped
    BY <1>8 DEF edgeVars
  <2>2. CacheTyped' /\ Cached' \subseteq Cached
    BY <2>1, <1>t DEF CacheTyped, Cached
  <2> QED BY <2>1, <2>2, LessIsCached
<1> QED BY <1>1, <1>2, <1>3, <1>4, <1>5, <1>6, <1>7, <1>8 DEF EdgeNext

LEMMA EdgeInvMeans == EdgeInv => EdgeBound
<1> SUFFICES ASSUME EdgeInv
             PROVE  EdgeBound
  OBVIOUS
<1>1. overlapped = FALSE \/ overlapped = TRUE
  BY DEF EdgeInv, CacheTyped
<1> QED BY <1>1 DEF EdgeInv, EdgeBound

\* Whatever checks, drops, evictions and clears fall between the steps of a store,
\* the cache outgrows max_entries only when two stores overlap (EdgeCache::store).
THEOREM EdgeCacheIsBounded ==
  ASSUME EdgeConstants
  PROVE  EdgeSpec => []EdgeBound
<1>1. EdgeInit => EdgeInv
  BY EdgeInitInv
<1>2. EdgeInv /\ [EdgeNext]_edgeVars => EdgeInv'
  BY EdgeStepInv
<1>3. EdgeInv => EdgeBound
  BY EdgeInvMeans
<1> QED BY <1>1, <1>2, <1>3, PTL DEF EdgeSpec

-----------------------------------------------------------------------------
(* The pinned addresses.                                                     *)

PinConstants == PinTtl \in Nat \ {0} /\ MaxLookup \in Nat

Lookups == [step: {"calm", "asked", "told"}, found: SUBSET Address, time: 0..MaxLookup]
PinTyped ==
  /\ dns \subseteq Address /\ goneFor \in [Address -> 0..Never]
  /\ pinned \in [addr: Address, left: 0..PinTtl] \cup {NoPin}
  /\ resolver \in [Resolver -> Lookups] /\ handed \in [Resolver -> Address \cup {NoPin}]

\* What the name server says and what an answer on its way says: the second is as
\* old as the look-up at most.
NamedNow == \A a \in dns : goneFor[a] = 0
ToldLately ==
  \A r \in Resolver : resolver[r].step = "told" =>
    \A a \in resolver[r].found : goneFor[a] <= resolver[r].time

\* An entry in use passed the guard, and was the name's within its life so far and
\* one look-up.
PinnedLately ==
  pinned # NoPin =>
    /\ Allowed("UpstreamOnly", pinned.addr)
    /\ pinned.left > 0 => goneFor[pinned.addr] <= PinTtl - pinned.left + MaxLookup

PinInv == PinTyped /\ NamedNow /\ ToldLately /\ PinnedLately /\ PinIsRecent

LEMMA NeverType == PinConstants => Never \in Nat /\ Never > PinTtl + MaxLookup
BY DEF PinConstants, Never

LEMMA PinInitInv == PinConstants /\ PinInit => PinInv
<1> SUFFICES ASSUME PinConstants, PinInit
             PROVE  PinInv
  OBVIOUS
<1>1. Calm \in Lookups /\ Calm.step = "calm"
  BY DEF Calm, Lookups, PinConstants
<1>2. PinTyped
  BY <1>1, NeverType DEF PinInit, PinTyped
<1> QED BY <1>1, <1>2 DEF PinInit, PinInv, NamedNow, ToldLately, PinnedLately, PinIsRecent

LEMMA PinStepInv == PinConstants /\ PinInv /\ [PinNext]_pinVars => PinInv'
<1> SUFFICES ASSUME PinConstants, PinInv, [PinNext]_pinVars
             PROVE  PinInv'
  OBVIOUS
<1>t. /\ dns \subseteq Address /\ goneFor \in [Address -> 0..Never]
      /\ pinned \in [addr: Address, left: 0..PinTtl] \cup {NoPin}
      /\ resolver \in [Resolver -> Lookups] /\ handed \in [Resolver -> Address \cup {NoPin}]
      /\ NamedNow /\ ToldLately /\ PinnedLately /\ PinIsRecent
      /\ PinTtl \in Nat \ {0} /\ MaxLookup \in Nat /\ Never \in Nat /\ Never > PinTtl + MaxLookup
      /\ Calm \in Lookups /\ Calm.step = "calm"
  BY NeverType DEF PinInv, PinTyped, PinConstants, Calm, Lookups
<1>n. /\ PinTtl \in Nat \ {0} /\ MaxLookup \in Nat /\ Never \in Nat
      /\ \A a \in Address : goneFor[a] \in 0..Never
      /\ \A r \in Resolver : /\ resolver[r] \in Lookups /\ resolver[r].time \in Nat
                             /\ resolver[r].found \subseteq Address
  BY <1>t DEF Lookups
<1>1. ASSUME NEW r \in Resolver, PinCached(r)
      PROVE  PinInv'
  <2>1. /\ Fresh /\ handed' = [handed EXCEPT ![r] = pinned.addr]
        /\ UNCHANGED <<dns, goneFor, pinned, resolver>>
    BY <1>1 DEF PinCached
  <2>2. /\ pinned \in [addr: Address, left: 0..PinTtl] /\ Allowed("UpstreamOnly", pinned.addr)
        /\ goneFor[pinned.addr] < PinTtl + MaxLookup
    BY <2>1, <1>t DEF Fresh, PinnedLately
  <2>3. PinTyped' /\ NamedNow' /\ ToldLately' /\ PinnedLately'
    BY <2>1, <2>2, <1>t DEF PinTyped, NamedNow, ToldLately, PinnedLately, Allowed
  <2>4. PinIsRecent'
    BY <2>1, <2>2, <1>t DEF PinIsRecent, Allowed
  <2> QED BY <2>3, <2>4 DEF PinInv
<1>2. ASSUME NEW r \in Resolver, StartLookup(r)
      PROVE  PinInv'
  <2>1. /\ resolver' = [resolver EXCEPT ![r] = [resolver[r] EXCEPT !.step = "asked"]]
        /\ handed' = [handed EXCEPT ![r] = NoPin] /\ UNCHANGED <<dns, goneFor, pinned>>
    BY <1>2 DEF StartLookup
  <2>2. [resolver[r] EXCEPT !.step = "asked"] \in Lookups /\ [resolver[r] EXCEPT !.step = "asked"].step = "asked"
    BY <1>t DEF Lookups
  <2>3. PinTyped' /\ NamedNow' /\ ToldLately' /\ PinnedLately'
    BY <2>1, <2>2, <1>t DEF PinTyped, NamedNow, ToldLately, PinnedLately, Allowed
  <2>4. PinIsRecent'
    BY <2>1, <1>t DEF PinIsRecent, Allowed
  <2> QED BY <2>3, <2>4 DEF PinInv
<1>3. ASSUME NEW r \in Resolver, Resolve(r)
      PROVE  PinInv'
  <2>1. /\ resolver' = [resolver EXCEPT ![r] = [resolver[r] EXCEPT !.step = "told", !.found = dns]]
        /\ UNCHANGED <<dns, goneFor, pinned, handed>>
    BY <1>3, <1>t DEF Resolve, Lookups
  <2>2. /\ [resolver[r] EXCEPT !.step = "told", !.found = dns] \in Lookups
        /\ resolver'[r].found = dns /\ resolver'[r].time \in Nat
    <3>1. dns \subseteq Address
      BY <1>t
    <3>2. [resolver[r] EXCEPT !.step = "told", !.found = dns] \in Lookups
      BY <3>1, <1>n DEF Lookups
    <3> QED BY <2>1, <3>2, <1>t DEF Lookups
  <2>3. PinTyped' /\ NamedNow' /\ PinnedLately' /\ PinIsRecent'
    BY <2>1, <2>2, <1>t DEF PinTyped, NamedNow, PinnedLately, PinIsRecent, Allowed
  <2>4. ToldLately'
    BY <2>1, <2>2, <1>t DEF ToldLately, NamedNow
  <2> QED BY <2>3, <2>4 DEF PinInv
<1>4. ASSUME NEW r \in Resolver, StorePin(r)
      PROVE  PinInv'
  <2>1. /\ resolver[r].step = "told" /\ resolver' = [resolver EXCEPT ![r] = Calm]
        /\ UNCHANGED <<dns, goneFor>>
    BY <1>4 DEF StorePin
  <2>2. NamedNow' /\ ToldLately'
    BY <2>1, <1>t DEF NamedNow, ToldLately
  <2>3. ASSUME NEW a \in resolver[r].found, Validated("UpstreamOnly", resolver[r].found),
               pinned' = [addr |-> a, left |-> PinTtl], handed' = [handed EXCEPT ![r] = a]
        PROVE  PinInv'
    <3>1. /\ a \in Address /\ Allowed("UpstreamOnly", a)
          /\ goneFor[a] \in 0..Never /\ goneFor[a] <= MaxLookup
      BY <2>1, <2>3, <1>t DEF Validated, ToldLately, Lookups
    <3>2. pinned'.addr = a /\ pinned'.left = PinTtl
      BY <2>3
    <3>3. PinTyped'
      BY <2>1, <2>3, <3>1, <1>t DEF PinTyped
    <3>4. PinnedLately'
      BY <2>1, <3>1, <3>2, <1>t DEF PinnedLately, Allowed
    <3>5. PinIsRecent'
      BY <2>1, <2>3, <3>1, <1>t DEF PinIsRecent, Allowed
    <3> QED BY <2>2, <3>3, <3>4, <3>5 DEF PinInv
  <2>4. CASE UNCHANGED <<pinned, handed>>
    BY <2>1, <2>2, <2>4, <1>t DEF PinInv, PinTyped, PinnedLately, PinIsRecent, Allowed
  <2> QED BY <1>4, <2>3, <2>4 DEF StorePin
<1>5. ASSUME NEW addrs \in SUBSET Address, Move(addrs)
      PROVE  PinInv'
  <2>1. /\ dns' = addrs /\ UNCHANGED <<pinned, resolver, handed>>
        /\ goneFor' = [a \in Address |-> IF a \in dns \cup addrs THEN 0 ELSE goneFor[a]]
    BY <1>5 DEF Move
  <2>2. \A a \in Address : /\ goneFor[a] \in Nat /\ goneFor'[a] \in 0..Never /\ goneFor'[a] <= goneFor[a]
                           /\ a \in addrs => goneFor'[a] = 0
    BY <2>1, <1>t
  <2>3. PinTyped' /\ NamedNow'
    BY <2>1, <2>2, <1>t DEF PinTyped, NamedNow
  <2>4. ToldLately'
    BY <2>1, <2>2, <1>t DEF ToldLately, Lookups
  <2>5. PinnedLately'
    BY <2>1, <2>2, <1>t DEF PinnedLately, Allowed
  <2>6. PinIsRecent'
    BY <2>1, <2>2, <1>t DEF PinIsRecent, Allowed
  <2> QED BY <2>3, <2>4, <2>5, <2>6 DEF PinInv
<1>6. CASE PinTick
  <2>1. /\ \A r \in Resolver : resolver[r] # Calm => resolver[r].time < MaxLookup
        /\ resolver' = [r \in Resolver |-> IF resolver[r] = Calm THEN Calm
                                           ELSE [resolver[r] EXCEPT !.time = @ + 1]]
        /\ goneFor' = [a \in Address |-> IF a \in dns \/ goneFor[a] = Never THEN goneFor[a]
                                         ELSE goneFor[a] + 1]
        /\ pinned' = IF pinned = NoPin \/ pinned.left = 0 THEN pinned ELSE [pinned EXCEPT !.left = @ - 1]
        /\ handed' = [r \in Resolver |-> NoPin] /\ dns' = dns
    BY <1>6 DEF PinTick
  <2>2. ASSUME NEW a \in Address
        PROVE  /\ goneFor[a] \in Nat /\ goneFor'[a] \in 0..Never /\ goneFor'[a] <= goneFor[a] + 1
               /\ a \in dns => goneFor'[a] = goneFor[a]
    <3>1. goneFor'[a] = IF a \in dns \/ goneFor[a] = Never THEN goneFor[a] ELSE goneFor[a] + 1
      BY <2>1
    <3> QED BY <3>1, <1>n
  <2>3. ASSUME NEW r \in Resolver
        PROVE  /\ resolver'[r] \in Lookups
               /\ resolver'[r].step = "told" =>
                    /\ resolver[r].step = "told" /\ resolver'[r].found = resolver[r].found
                    /\ resolver'[r].time = resolver[r].time + 1
    <3>1. CASE resolver[r] = Calm
      BY <2>1, <3>1, <1>t
    <3>2. CASE resolver[r] # Calm
      <4>1. resolver[r].time < MaxLookup /\ resolver'[r] = [resolver[r] EXCEPT !.time = @ + 1]
        BY <2>1, <3>2
      <4> QED BY <4>1, <1>t DEF Lookups
    <3> QED BY <3>1, <3>2
  <2>4. NamedNow'
    BY <2>1, <2>2, <1>t DEF NamedNow
  <2>5. ToldLately'
    <3> SUFFICES ASSUME NEW r \in Resolver, resolver'[r].step = "told", NEW a \in resolver'[r].found
                 PROVE  goneFor'[a] <= resolver'[r].time
      BY DEF ToldLately
    <3>1. a \in resolver[r].found /\ goneFor[a] <= resolver[r].time /\ resolver[r].time \in Nat /\ a \in Address
      BY <2>3, <1>t DEF ToldLately, Lookups
    <3> QED BY <2>2, <2>3, <3>1
  <2>6. CASE pinned = NoPin \/ pinned.left = 0
    <3>1. pinned' = pinned
      BY <2>1, <2>6
    <3>2. PinTyped'
      BY <2>1, <2>2, <2>3, <3>1, <1>t DEF PinTyped
    <3>3. PinnedLately' /\ PinIsRecent'
      BY <2>1, <2>6, <3>1, <1>t DEF PinnedLately, PinIsRecent, Allowed
    <3> QED BY <2>4, <2>5, <3>2, <3>3 DEF PinInv
  <2>7. CASE ~(pinned = NoPin \/ pinned.left = 0)
    <3>1. /\ pinned \in [addr: Address, left: 0..PinTtl]
          /\ pinned' = [pinned EXCEPT !.left = @ - 1] /\ pinned.left > 0
      BY <2>1, <2>7, <1>t
    <3>2. /\ pinned' \in [addr: Address, left: 0..PinTtl]
          /\ pinned'.addr = pinned.addr /\ pinned'.left = pinned.left - 1
      BY <3>1, <1>t
    <3>3. PinTyped'
      BY <2>1, <2>2, <2>3, <3>2, <1>t DEF PinTyped
    <3>4. PinnedLately'
      <4>1. Allowed("UpstreamOnly", pinned.addr) /\ goneFor[pinned.addr] <= PinTtl - pinned.left + MaxLookup
        BY <2>7, <3>1, <1>t DEF PinnedLately
      <4>2. /\ pinned.addr \in Address /\ pinned.left \in Nat
            /\ goneFor'[pinned.addr] <= PinTtl - (pinned.left - 1) + MaxLookup
        BY <2>2, <3>1, <4>1, <1>n
      <4> QED BY <3>2, <4>1, <4>2 DEF PinnedLately, Allowed
    <3>5. PinIsRecent'
      BY <2>1, <1>t DEF PinIsRecent
    <3> QED BY <2>4, <2>5, <3>3, <3>4, <3>5 DEF PinInv
  <2> QED BY <2>6, <2>7
<1>7. CASE UNCHANGED pinVars
  BY <1>7, <1>t DEF pinVars, PinInv, PinTyped, NamedNow, ToldLately, PinnedLately, PinIsRecent, Allowed
<1> QED BY <1>1, <1>2, <1>3, <1>4, <1>5, <1>6, <1>7 DEF PinNext

LEMMA PinInvMeans == PinInv => PinIsRecent
BY DEF PinInv

\* However look-ups overtake each other and the name moves: a job connects to an
\* address that passed the guard and was the name's less than the ttl and one
\* look-up ago (pin_url).
THEOREM PinsAreRecent ==
  ASSUME PinConstants
  PROVE  PinSpec => []PinIsRecent
<1>1. PinInit => PinInv
  BY PinInitInv
<1>2. PinInv /\ [PinNext]_pinVars => PinInv'
  BY PinStepInv
<1>3. PinInv => PinIsRecent
  BY PinInvMeans
<1> QED BY <1>1, <1>2, <1>3, PTL DEF PinSpec

-----------------------------------------------------------------------------
(* The rate limiter.                                                         *)
LimiterConstants ==
  /\ Nobody \notin Addr /\ Chains \subseteq Seq(Hop) /\ Traffic \subseteq Addr \X Seq(Hop)
  /\ Limits \subseteq [max: Nat \ {0}, window: Nat \ {0}]     \* both are read with .max(1)
  /\ \E l \in Limits : \A m \in Limits : m.max <= l.max
  /\ \E l \in Limits : \A m \in Limits : m.window <= l.window
  /\ \E l \in Limits : \A m \in Limits : l.window <= m.window
  /\ MaxDelay \in Nat /\ MaxReloads \in Nat /\ \A l \in Limits : MaxDelay <= l.window
  /\ Nobody \notin [count: Nat, age: Nat] \cup [key: Hop, max: Nat, window: Nat, age: Nat]

\* The walk ends at the rightmost hop that is neither empty nor trusted.
LEMMA WalkEnds ==
  ASSUME NEW chain \in Seq(Hop), NEW trusted, Stops(chain, trusted) # {}
  PROVE  /\ LastStop(chain, trusted) \in DOMAIN chain
         /\ \A j \in LastStop(chain, trusted) + 1..Len(chain) : chain[j] \in trusted \cup {Nobody}
<1> DEFINE S == Stops(chain, trusted)
           n == Len(chain)
           After == {n - k : k \in S}   \* how far from the right end
<1>1. n \in Nat /\ DOMAIN chain = 1..n OBVIOUS
<1>2. S \subseteq 1..n BY <1>1 DEF Stops
<1>3. After \subseteq Nat /\ After # {} BY <1>1, <1>2
<1>4. PICK m \in After : \A k \in After : m <= k
  <2>1. PICK m \in After : \A k \in After : <<k, m>> \notin OpToRel(<, Nat)
    BY <1>3, NatLessThanWellFounded, WFMin
  <2>2. ASSUME NEW k \in After, ~(m <= k) PROVE FALSE
    <3>1. k \in Nat /\ m \in Nat /\ k < m BY <1>3, <2>2
    <3>2. <<k, m>> \in OpToRel(<, Nat) BY <3>1 DEF OpToRel
    <3> QED BY <2>1, <3>2
  <2> QED BY <2>2
<1>5. PICK i \in S : m = n - i OBVIOUS
<1>6. \A j \in S : j <= i
  <2>1. ASSUME NEW j \in S PROVE j <= i
    <3>1. n - j \in After OBVIOUS
    <3>2. m <= n - j BY <1>4, <3>1
    <3> QED BY <1>1, <1>2, <1>5, <3>2
  <2> QED BY <2>1
<1>7. LastStop(chain, trusted) \in S /\ \A j \in S : j <= LastStop(chain, trusted)
  BY <1>5, <1>6 DEF LastStop
<1>8. PICK l : l = LastStop(chain, trusted) OBVIOUS
<1>9. ASSUME NEW j \in l + 1..n PROVE chain[j] \in trusted \cup {Nobody}
  <2>1. l \in 1..n BY <1>2, <1>7, <1>8
  <2>2. j \in 1..n /\ ~(j <= l) BY <1>1, <2>1
  <2>3. j \notin S BY <1>7, <1>8, <2>2
  <2> QED BY <1>1, <2>2, <2>3 DEF Stops
<1> QED BY <1>1, <1>2, <1>7, <1>8, <1>9

LEMMA ClientIpIsProved ==
  ASSUME LimiterConstants
  PROVE  KeyIsProved
<1>1. SUFFICES ASSUME NEW peer \in Addr, NEW chain \in Chains
               PROVE  \/ ClientIp(peer, chain, proxies, trustXff) = peer
                      \/ /\ proxies = {} /\ trustXff
                         /\ ClientIp(peer, chain, proxies, trustXff) = chain[1]
                      \/ /\ peer \in proxies
                         /\ \E k \in DOMAIN chain :
                              /\ chain[k] = ClientIp(peer, chain, proxies, trustXff)
                              /\ \A j \in k+1..Len(chain) : chain[j] \in proxies \cup {Nobody}
  BY DEF KeyIsProved
<1>2. chain \in Seq(Hop) /\ Len(chain) \in Nat /\ DOMAIN chain = 1..Len(chain) BY DEF LimiterConstants
<1>3. FirstHop(chain, peer) = peer \/ (chain # <<>> /\ FirstHop(chain, peer) = chain[1]) BY DEF FirstHop
<1>4. CASE proxies = {} BY <1>3, <1>4, Zenon DEF ClientIp
<1>5. CASE proxies # {} /\ peer \notin proxies BY <1>5 DEF ClientIp
<1>6. CASE peer \in proxies
  <2>1. ClientIp(peer, chain, proxies, trustXff) = Walked(peer, chain, proxies) BY <1>6 DEF ClientIp
  <2>2. CASE Stops(chain, proxies) = {}
    <3>1. \A j \in 1..Len(chain) : chain[j] \in proxies \cup {Nobody} BY <1>2, <2>2 DEF Stops
    <3>2. Walked(peer, chain, proxies) = FirstHop(chain, peer) BY <2>2 DEF Walked
    <3>3. CASE chain # <<>> /\ FirstHop(chain, peer) = chain[1]
      <4>1. 1 \in DOMAIN chain BY <1>2, <3>3
      <4>2. \A j \in 1+1..Len(chain) : j \in 1..Len(chain) BY <1>2
      <4> QED BY <1>6, <2>1, <3>1, <3>2, <3>3, <4>1, <4>2
    <3> QED BY <1>3, <2>1, <3>2, <3>3
  <2>3. CASE Stops(chain, proxies) # {}
    <3>1. PICK l : l = LastStop(chain, proxies) OBVIOUS
    <3>2. /\ l \in DOMAIN chain /\ \A j \in l + 1..Len(chain) : chain[j] \in proxies \cup {Nobody}
      BY <1>2, <2>3, <3>1, WalkEnds
    <3>3. Walked(peer, chain, proxies) = IF chain[l] = Junk THEN peer ELSE chain[l]
      BY <2>3, <3>1 DEF Walked
    <3> QED BY <1>6, <2>1, <3>2, <3>3
  <2> QED BY <2>2, <2>3
<1> QED BY <1>4, <1>5, <1>6

\* However long the X-Forwarded-For header and whatever its hops: behind proxies the
\* bucket is that of the peer or of a hop that only trusted proxies passed on
\* (client_ip).
THEOREM HeadersProveTheKey ==
  ASSUME LimiterConstants
  PROVE  LimiterSpec => []KeyIsProved
<1>1. KeyIsProved BY ClientIpIsProved
<1> QED BY <1>1, PTL

LEMMA LimitBounds ==
  ASSUME LimiterConstants
  PROVE  /\ Narrowest \in Nat /\ Widest \in Nat /\ Most \in Nat /\ MaxDelay \in Nat
         /\ Span \in Nat /\ Span + MaxDelay = Narrowest
         /\ \A l \in Limits : l.max \in 1..Most /\ l.window \in Narrowest..Widest /\ l.window # 0
<1>1. \A l \in Limits : l.max \in Nat \ {0} /\ l.window \in Nat \ {0}
  BY DEF LimiterConstants
<1>2. Most \in {l.max : l \in Limits} /\ \A l \in Limits : l.max <= Most
  <2>1. PICK l \in Limits : \A m \in Limits : m.max <= l.max
    BY DEF LimiterConstants
  <2>2. l.max \in {m.max : m \in Limits} /\ \A m \in Limits : m.max <= l.max
    BY <2>1
  <2> QED BY <2>2 DEF Most
<1>3. Widest \in {l.window : l \in Limits} /\ \A l \in Limits : l.window <= Widest
  <2>1. PICK l \in Limits : \A m \in Limits : m.window <= l.window
    BY DEF LimiterConstants
  <2>2. l.window \in {m.window : m \in Limits} /\ \A m \in Limits : m.window <= l.window
    BY <2>1
  <2> QED BY <2>2 DEF Widest
<1>4. Narrowest \in {l.window : l \in Limits} /\ \A l \in Limits : Narrowest <= l.window
  <2>1. PICK l \in Limits : \A m \in Limits : l.window <= m.window
    BY DEF LimiterConstants
  <2>2. l.window \in {m.window : m \in Limits} /\ \A m \in Limits : l.window <= m.window
    BY <2>1
  <2> QED BY <2>2 DEF Narrowest
<1>5. MaxDelay \in Nat /\ MaxDelay <= Narrowest
  BY <1>4 DEF LimiterConstants
<1>6. Most \in Nat /\ Widest \in Nat /\ Narrowest \in Nat
  BY <1>1, <1>2, <1>3, <1>4
<1>7. Span \in Nat /\ Span + MaxDelay = Narrowest
  BY <1>5, <1>6 DEF Span
<1> QED BY <1>1, <1>2, <1>3, <1>4, <1>5, <1>6, <1>7

\* The bucket of a request is one of the limiter's.
LEMMA ClientIpIsKey ==
  ASSUME LimiterConstants, NEW peer \in Addr, NEW chain \in Seq(Hop), NEW trusted, NEW xff
  PROVE  ClientIp(peer, chain, trusted, xff) \in ClientKey
<1>1. peer \in Hop /\ FirstHop(chain, peer) \in Hop
  BY DEF Hop, FirstHop
<1>2. Walked(peer, chain, trusted) \in Hop
  <2>1. CASE Stops(chain, trusted) = {} BY <1>1, <2>1 DEF Walked
  <2>2. CASE Stops(chain, trusted) # {}
    <3>1. chain[LastStop(chain, trusted)] \in Hop BY <2>2, WalkEnds
    <3> QED BY <1>1, <2>2, <3>1 DEF Walked
  <2> QED BY <2>1, <2>2
<1> QED BY <1>1, <1>2 DEF ClientIp, ClientKey

Calling == [key: ClientKey, max: 1..Most, window: Narrowest..Widest, age: 0..MaxDelay]
Bucket == [count: 1..Most + 1, age: Age]
LimiterTyped ==
  /\ limit \in Limits /\ proxies \in Proxies /\ trustXff \in BOOLEAN /\ reloads \in 0..MaxReloads
  /\ bucket \in [ClientKey -> Bucket \cup {Nobody}] /\ counting \in [Workers -> Calling \cup {Nobody}]
  /\ passed \in [ClientKey -> [0..Span -> Nat]]

\* What a bucket let through has been counted; its first request is as old as its
\* start, but for a delay.
Through(b) == IF b.count <= Most THEN b.count ELSE Most
LastWindow(b, through) == \A a \in 0..Span : a < b.age - MaxDelay => through[a] < Through(b)
TwoWindows(b, through) == \A a \in 0..Span : through[a] < Most + Through(b)
NoWindow(through) == \A a \in 0..Span : through[a] < Most
Bounded(b, through) ==
  IF b = Nobody THEN NoWindow(through) ELSE LastWindow(b, through) /\ TwoWindows(b, through)

LimiterInv == LimiterTyped /\ \A k \in ClientKey : Bounded(bucket[k], passed[k])

LEMMA LimiterInitInv ==
  ASSUME LimiterConstants, LimiterInit
  PROVE  LimiterInv
<1>1. LimiterTyped
  BY LimitBounds DEF LimiterInit, LimiterTyped, LimiterConstants
<1>2. Most > 0 BY LimitBounds DEF LimiterInit
<1>3. ASSUME NEW k \in ClientKey PROVE Bounded(bucket[k], passed[k])
  <2>1. bucket[k] = Nobody /\ \A a \in 0..Span : passed[k][a] = 0 BY DEF LimiterInit
  <2> QED BY <1>2, <2>1, LimitBounds DEF Bounded, NoWindow
<1> QED BY <1>1, <1>3 DEF LimiterInv

\* A bucket older than a window's length holds no request of the last Span seconds
\* but those after its first.
LEMMA OldBucket ==
  ASSUME LimiterConstants, NEW b \in Bucket, NEW through \in [0..Span -> Nat],
         LastWindow(b, through), b.age > Narrowest
  PROVE  NoWindow(through)
<1>1. b.count \in 1..Most + 1 /\ b.age \in Int BY LimitBounds DEF Bucket, Age, Oldest
<1>2. ASSUME NEW a \in 0..Span PROVE through[a] < Most
  <2>1. a < b.age - MaxDelay BY <1>1, LimitBounds
  <2>2. through[a] < Through(b) BY <2>1 DEF LastWindow
  <2>3. Through(b) <= Most /\ Through(b) \in Nat BY <1>1, LimitBounds DEF Through
  <2> QED BY <2>2, <2>3, LimitBounds
<1> QED BY <1>2 DEF NoWindow

LEMMA SecondInv ==
  ASSUME LimiterConstants, LimiterInv, Second
  PROVE  LimiterInv'
<1> USE LimitBounds
<1>0. LimiterTyped /\ \A k \in ClientKey : Bounded(bucket[k], passed[k]) BY DEF LimiterInv
<1>1. ASSUME NEW b \in Bucket PROVE /\ [b EXCEPT !.age = Older(@)] \in Bucket
                                   /\ Older(b.age) <= b.age + 1 /\ Older(b.age) \in Nat /\ b.age \in Nat
  BY DEF Bucket, Older, Age, Oldest
<1>2. bucket' \in [ClientKey -> Bucket \cup {Nobody}]
  BY <1>0, <1>1 DEF Second, LimiterTyped
<1>3. counting' \in [Workers -> Calling \cup {Nobody}]
  <2>1. ASSUME NEW w \in Workers PROVE counting'[w] \in Calling \cup {Nobody}
    <3>1. CASE counting[w] = Nobody BY <3>1 DEF Second
    <3>2. CASE counting[w] # Nobody
      <4>1. counting[w] \in Calling /\ counting[w].age < MaxDelay
        BY <1>0, <3>2 DEF Second, LimiterTyped
      <4>2. [counting[w] EXCEPT !.age = @ + 1] \in Calling BY <4>1 DEF Calling
      <4> QED BY <3>2, <4>2 DEF Second
    <3> QED BY <3>1, <3>2
  <2> QED BY <2>1 DEF Second
<1>4. ASSUME NEW k \in ClientKey
      PROVE  /\ passed'[k] = OneSecondOn(passed[k]) /\ passed[k] \in [0..Span -> Nat]
             /\ passed'[k] \in [0..Span -> Nat]
  <2>1. passed'[k] = OneSecondOn(passed[k]) /\ passed[k] \in [0..Span -> Nat]
    BY <1>0 DEF Second, LimiterTyped
  <2>2. ASSUME NEW a \in 0..Span PROVE (IF a = 0 THEN 0 ELSE passed[k][a - 1]) \in Nat
    <3>1. a # 0 => a - 1 \in 0..Span OBVIOUS
    <3> QED BY <2>1, <3>1
  <2>3. OneSecondOn(passed[k]) \in [0..Span -> Nat]
    BY <2>2 DEF OneSecondOn
  <2> QED BY <2>1, <2>3
<1>5. passed' \in [ClientKey -> [0..Span -> Nat]] BY <1>4 DEF Second
<1>6. LimiterTyped' BY <1>0, <1>2, <1>3, <1>5 DEF Second, LimiterTyped
<1>7. ASSUME NEW k \in ClientKey PROVE Bounded(bucket'[k], passed'[k])
  <2> DEFINE b == bucket[k] p == passed[k] q == passed'[k]
  <2>0. Most > 0 BY <1>0 DEF LimiterTyped
  <2>1. /\ Bounded(b, p) /\ p \in [0..Span -> Nat] /\ b \in Bucket \cup {Nobody}
    BY <1>0 DEF LimiterTyped
  <2>2. /\ q[0] = 0 /\ \A a \in 0..Span : a # 0 => q[a] = p[a - 1] /\ a - 1 \in 0..Span
    <3>1. q = [a \in 0..Span |-> IF a = 0 THEN 0 ELSE p[a - 1]] BY <1>4 DEF OneSecondOn
    <3>2. 0 \in 0..Span /\ \A a \in 0..Span : a # 0 => a - 1 \in 0..Span OBVIOUS
    <3> QED BY <3>1, <3>2
  <2>3. CASE b = Nobody
    <3>1. bucket'[k] = Nobody BY <2>3 DEF Second
    <3>2. \A a \in 0..Span : p[a] < Most BY <2>1, <2>3 DEF Bounded, NoWindow
    <3>3. \A a \in 0..Span : q[a] < Most BY <2>0, <2>2, <3>2
    <3> QED BY <3>1, <3>3 DEF Bounded, NoWindow
  <2>4. CASE b # Nobody
    <3>1. bucket'[k] = [b EXCEPT !.age = Older(@)] BY <2>4 DEF Second
    <3>2. b \in Bucket /\ LastWindow(b, p) /\ TwoWindows(b, p) BY <2>1, <2>4 DEF Bounded
    <3>3. PICK c : c = bucket'[k] OBVIOUS
    <3>4. c \in Bucket /\ c.count = b.count /\ c.age = Older(b.age) BY <1>1, <3>1, <3>2, <3>3 DEF Bucket
    <3>5. Through(c) = Through(b) /\ Through(b) \in 1..Most BY <2>0, <3>2, <3>4 DEF Through, Bucket
    <3>6. ASSUME NEW a \in 0..Span, a < c.age - MaxDelay PROVE q[a] < Through(c)
      <4>1. CASE a = 0 BY <2>2, <3>5, <4>1
      <4>2. CASE a # 0
        <5>1. a - 1 \in 0..Span /\ q[a] = p[a - 1] BY <2>2, <4>2
        <5>2. a - 1 < b.age - MaxDelay
          <6>1. c.age <= b.age + 1 /\ c.age \in Nat /\ b.age \in Nat BY <1>1, <3>2, <3>4
          <6> QED BY <3>6, <6>1
        <5> QED BY <3>2, <3>5, <5>1, <5>2 DEF LastWindow
      <4> QED BY <4>1, <4>2
    <3>7. ASSUME NEW a \in 0..Span PROVE q[a] < Most + Through(c)
      BY <2>2, <3>2, <3>5 DEF TwoWindows
    <3>8. c # Nobody
      <4>1. c \in [count: Nat, age: Nat] BY <3>4 DEF Bucket, Age, Oldest
      <4> QED BY <4>1 DEF LimiterConstants
    <3> QED BY <3>3, <3>6, <3>7, <3>8 DEF Bounded, LastWindow, TwoWindows
  <2> QED BY <2>3, <2>4
<1> QED BY <1>6, <1>7 DEF LimiterInv

LEMMA EvictInv ==
  ASSUME LimiterConstants, LimiterInv, EvictBuckets
  PROVE  LimiterInv'
<1> USE LimitBounds
<1>0. LimiterTyped /\ \A k \in ClientKey : Bounded(bucket[k], passed[k]) BY DEF LimiterInv
<1>1. LimiterTyped' BY <1>0 DEF EvictBuckets, LimiterTyped
<1>2. ASSUME NEW k \in ClientKey PROVE Bounded(bucket'[k], passed'[k])
  <2>1. Bounded(bucket[k], passed[k]) /\ passed'[k] = passed[k] BY <1>0 DEF EvictBuckets
  <2>2. CASE bucket'[k] = bucket[k] BY <2>1, <2>2
  <2>3. CASE bucket'[k] # bucket[k]
    <3>1. bucket'[k] = Nobody /\ bucket[k] # Nobody /\ ~(bucket[k].age < 2 * limit.window)
      BY <2>3 DEF EvictBuckets
    <3>2. bucket[k] \in Bucket /\ LastWindow(bucket[k], passed[k]) /\ passed[k] \in [0..Span -> Nat]
      BY <1>0, <2>1, <3>1 DEF LimiterTyped, Bounded
    <3>3. limit.window \in Nat \ {0} /\ limit.window >= Narrowest BY <1>0 DEF LimiterTyped
    <3>4. bucket[k].age > Narrowest BY <3>1, <3>2, <3>3 DEF Bucket, Age, Oldest
    <3>5. NoWindow(passed[k]) BY <3>2, <3>4, OldBucket
    <3> QED BY <2>1, <3>1, <3>5 DEF Bounded
  <2> QED BY <2>2, <2>3
<1> QED BY <1>1, <1>2 DEF LimiterInv

LEMMA CountRequestInv ==
  ASSUME LimiterConstants, LimiterInv, NEW w \in Workers, CountRequest(w)
  PROVE  LimiterInv'
<1> USE LimitBounds
<1>0. LimiterTyped /\ \A k \in ClientKey : Bounded(bucket[k], passed[k]) BY DEF LimiterInv
<1>1. PICK c : c = counting[w] OBVIOUS
<1>2. /\ c \in Calling /\ c.key \in ClientKey /\ c.age \in 0..MaxDelay /\ c.max \in 1..Most
      /\ c.window \in Nat /\ c.window >= Narrowest
  BY <1>0, <1>1 DEF CountRequest, LimiterTyped, Calling
<1>3. PICK d : d = Current(c) OBVIOUS
<1>4. PICK b : b = [count |-> IF d.count > Most THEN Most + 1 ELSE d.count + 1, age |-> d.age] OBVIOUS
<1>5. /\ bucket' = [bucket EXCEPT ![c.key] = b]
      /\ passed' = IF d.count + 1 <= c.max THEN [passed EXCEPT ![c.key] = OneMoreThrough(@)] ELSE passed
      /\ counting' = [counting EXCEPT ![w] = Nobody] /\ UNCHANGED <<limit, proxies, trustXff, reloads>>
  BY <1>1, <1>3, <1>4 DEF CountRequest, Passes
<1>6. PICK p : p = passed[c.key] OBVIOUS
<1>7. p \in [0..Span -> Nat] /\ Bounded(bucket[c.key], p) /\ bucket[c.key] \in Bucket \cup {Nobody}
  BY <1>0, <1>2, <1>6 DEF LimiterTyped
\* Either the bucket goes on, or it starts anew and what it let through is old.
<1>8. \/ d = bucket[c.key] /\ d \in Bucket /\ LastWindow(d, p) /\ TwoWindows(d, p)
      \/ d = [count |-> 0, age |-> c.age] /\ NoWindow(p)
  <2>1. CASE bucket[c.key] = Nobody
    BY <1>3, <1>7, <2>1 DEF Current, Bounded
  <2>2. CASE bucket[c.key] # Nobody /\ Elapsed(c) > c.window
    <3>1. bucket[c.key] \in Bucket /\ LastWindow(bucket[c.key], p) BY <1>7, <2>2 DEF Bounded
    <3>2. bucket[c.key].age > Narrowest BY <1>2, <2>2, <3>1 DEF Elapsed, Bucket, Age, Oldest
    <3>3. NoWindow(p) BY <1>7, <3>1, <3>2, OldBucket
    <3> QED BY <1>3, <2>2, <3>3 DEF Current
  <2>3. CASE bucket[c.key] # Nobody /\ ~(Elapsed(c) > c.window)
    BY <1>3, <1>7, <2>3 DEF Current, Bounded
  <2> QED BY <2>1, <2>2, <2>3
<1>9. d.count \in 0..Most + 1 /\ d.age \in Age BY <1>2, <1>8 DEF Bucket, Age, Oldest
<1>10. b \in Bucket /\ b # Nobody /\ b.age = d.age
       /\ b.count = IF d.count > Most THEN Most + 1 ELSE d.count + 1
  <2>1. b \in Bucket BY <1>4, <1>9 DEF Bucket
  <2>2. b \in [count: Nat, age: Nat] BY <2>1 DEF Bucket, Age, Oldest
  <2> QED BY <1>4, <2>1, <2>2 DEF LimiterConstants
<1>11. Most > 0 BY <1>2
<1>12. PICK q : q = passed'[c.key] OBVIOUS
<1>13. q \in [0..Span -> Nat] /\ \A a \in 0..Span : q[a] = IF d.count + 1 <= c.max THEN p[a] + 1 ELSE p[a]
  <2>1. q = IF d.count + 1 <= c.max THEN OneMoreThrough(p) ELSE p
    BY <1>0, <1>2, <1>5, <1>6, <1>12 DEF LimiterTyped
  <2>2. OneMoreThrough(p) \in [0..Span -> Nat] /\ \A a \in 0..Span : OneMoreThrough(p)[a] = p[a] + 1
    BY <1>7 DEF OneMoreThrough
  <2> QED BY <1>7, <2>1, <2>2
<1>14. LimiterTyped'
  <2>1. bucket' \in [ClientKey -> Bucket \cup {Nobody}] BY <1>0, <1>5, <1>10 DEF LimiterTyped
  <2>2. counting' \in [Workers -> Calling \cup {Nobody}] BY <1>0, <1>5 DEF LimiterTyped
  <2>3. passed' \in [ClientKey -> [0..Span -> Nat]] BY <1>0, <1>5, <1>12, <1>13 DEF LimiterTyped
  <2> QED BY <1>0, <1>5, <2>1, <2>2, <2>3 DEF LimiterTyped
<1>15. Bounded(b, q)
  <2>1. ASSUME d \in Bucket, LastWindow(d, p), TwoWindows(d, p) PROVE Bounded(b, q)
    <3>0. /\ Through(d) \in Nat /\ Through(b) \in Nat /\ Through(d) <= Through(b)
          /\ d.count + 1 <= c.max => Through(b) = Through(d) + 1
      BY <1>2, <1>9, <1>10 DEF Through
    <3>1. ASSUME NEW a \in 0..Span, a < b.age - MaxDelay PROVE q[a] < Through(b)
      <4>1. p[a] < Through(d) /\ p[a] \in Nat BY <1>7, <1>10, <2>1, <3>1 DEF LastWindow
      <4> QED BY <1>13, <3>0, <4>1
    <3>2. ASSUME NEW a \in 0..Span PROVE q[a] < Most + Through(b)
      <4>1. p[a] < Most + Through(d) /\ p[a] \in Nat BY <1>7, <2>1 DEF TwoWindows
      <4> QED BY <1>13, <3>0, <4>1
    <3> QED BY <1>10, <3>1, <3>2 DEF Bounded, LastWindow, TwoWindows
  <2>2. ASSUME d = [count |-> 0, age |-> c.age], NoWindow(p) PROVE Bounded(b, q)
    <3>1. b.age <= MaxDelay /\ b.age \in Nat /\ Through(b) = 1
      BY <1>2, <1>10, <1>11, <2>2 DEF Through
    <3>2. \A a \in 0..Span : ~(a < b.age - MaxDelay) BY <3>1
    <3>3. ASSUME NEW a \in 0..Span PROVE q[a] < Most + Through(b)
      <4>1. p[a] < Most /\ p[a] \in Nat BY <1>7, <2>2 DEF NoWindow
      <4> QED BY <1>13, <3>1, <4>1
    <3> QED BY <1>10, <3>2, <3>3 DEF Bounded, LastWindow, TwoWindows
  <2> QED BY <1>8, <2>1, <2>2
<1>16. ASSUME NEW k \in ClientKey PROVE Bounded(bucket'[k], passed'[k])
  <2>1. CASE k = c.key
    <3>1. bucket'[k] = b /\ passed'[k] = q BY <1>0, <1>2, <1>5, <1>12, <2>1 DEF LimiterTyped
    <3> QED BY <1>15, <3>1
  <2>2. CASE k # c.key
    <3>1. bucket'[k] = bucket[k] /\ passed'[k] = passed[k] BY <1>0, <1>5, <2>2 DEF LimiterTyped
    <3> QED BY <1>0, <3>1
  <2> QED BY <2>1, <2>2
<1> QED BY <1>14, <1>16 DEF LimiterInv

LEMMA LimiterStepInv ==
  ASSUME LimiterConstants, LimiterInv, [LimiterNext]_limiterVars
  PROVE  LimiterInv'
<1>0. LimiterTyped /\ \A k \in ClientKey : Bounded(bucket[k], passed[k]) BY DEF LimiterInv
<1>1. ASSUME NEW w \in Workers, NEW q \in Traffic, Enter(w, q[1], q[2]) PROVE LimiterInv'
  <2>1. q[1] \in Addr /\ q[2] \in Seq(Hop) BY DEF LimiterConstants
  <2>2. ClientIp(q[1], q[2], proxies, trustXff) \in ClientKey BY <2>1, ClientIpIsKey
  <2>3. limit.max \in 1..Most /\ limit.window \in Narrowest..Widest BY <1>0, LimitBounds DEF LimiterTyped
  <2>4. [key |-> ClientIp(q[1], q[2], proxies, trustXff), max |-> limit.max,
         window |-> limit.window, age |-> 0] \in Calling
    BY <2>2, <2>3, LimitBounds DEF Calling
  <2>5. counting' \in [Workers -> Calling \cup {Nobody}] BY <1>0, <1>1, <2>4 DEF Enter, LimiterTyped
  <2>6. UNCHANGED <<limit, proxies, trustXff, bucket, reloads, passed>> BY <1>1 DEF Enter
  <2> QED BY <1>0, <2>5, <2>6 DEF LimiterInv, LimiterTyped
<1>2. ASSUME NEW l \in Limits, NEW p \in Proxies, NEW x \in BOOLEAN, ReloadLimits(l, p, x) PROVE LimiterInv'
  <2>1. /\ limit' = l /\ proxies' = p /\ trustXff' = x /\ reloads' \in 0..MaxReloads
        /\ UNCHANGED <<bucket, counting, passed>>
    BY <1>0, <1>2 DEF ReloadLimits, LimiterTyped, LimiterConstants
  <2> QED BY <1>0, <2>1 DEF LimiterInv, LimiterTyped
<1>3. CASE UNCHANGED limiterVars
  BY <1>0, <1>3 DEF limiterVars, LimiterInv, LimiterTyped
<1> QED BY <1>1, <1>2, <1>3, SecondInv, EvictInv, CountRequestInv DEF LimiterNext

LEMMA LimiterInvMeans ==
  ASSUME LimiterConstants, LimiterInv
  PROVE  LimiterTypeOK /\ BurstBound
<1>1. LimiterTypeOK
  BY LimitBounds DEF LimiterInv, LimiterTyped, LimiterTypeOK, Bucket, Calling
<1>2. ASSUME NEW k \in ClientKey PROVE passed[k][Span] < 2 * Most
  <2>1. Bounded(bucket[k], passed[k]) /\ bucket[k] \in Bucket \cup {Nobody} /\ passed[k] \in [0..Span -> Nat]
    BY DEF LimiterInv, LimiterTyped
  <2>2. Span \in 0..Span BY LimitBounds
  <2>3. CASE bucket[k] = Nobody
    <3>1. passed[k][Span] < Most BY <2>1, <2>2, <2>3 DEF Bounded, NoWindow
    <3> QED BY <2>1, <2>2, <3>1, LimitBounds
  <2>4. CASE bucket[k] # Nobody
    <3>1. passed[k][Span] < Most + Through(bucket[k]) BY <2>1, <2>2, <2>4 DEF Bounded, TwoWindows
    <3>2. Through(bucket[k]) <= Most /\ Through(bucket[k]) \in Nat BY <2>1, <2>4, LimitBounds DEF Through, Bucket
    <3> QED BY <2>1, <2>2, <3>1, <3>2, LimitBounds
  <2> QED BY <2>3, <2>4
<1> QED BY <1>1, <1>2 DEF BurstBound

\* For any limits, delays and number of workers: a client gets less than twice the
\* limit through within the narrowest window less a delay, however windows, evictions
\* and reloads fall (middleware/rate_limit.rs, call and spawn_evictor).
THEOREM BurstsAreBounded ==
  ASSUME LimiterConstants
  PROVE  LimiterSpec => []BurstBound
<1>1. LimiterInit => LimiterInv BY LimiterInitInv
<1>2. LimiterInv /\ [LimiterNext]_limiterVars => LimiterInv' BY LimiterStepInv
<1>3. LimiterInv => BurstBound BY LimiterInvMeans
<1> QED BY <1>1, <1>2, <1>3, PTL DEF LimiterSpec

-----------------------------------------------------------------------------
(* A request's way through the gateway.                                      *)
Stored == [varies: BOOLEAN, age: Nat, stored: Nat, epoch: Nat, late: BOOLEAN]
RequestState ==
  [step: Steps, method: Method \cup {None}, plain: BOOLEAN, cached: BOOLEAN, sends: Nat,
   answer: Answer \cup {None}]

PipelineConstants ==
  /\ IsFiniteSet(Request) /\ MaxHold \in Nat /\ MaxRetries \in Nat
  /\ Ttls \subseteq Nat /\ \E t \in Ttls : \A u \in Ttls : u <= t
  /\ None \notin Answer \cup Stored \cup Method

PipelineTyped ==
  /\ req \in [Request -> RequestState] /\ cache \in Stored \cup {None}
  /\ cacheOn \in BOOLEAN /\ ttl \in Ttls /\ clearing \in Nat /\ offs \in Nat /\ open \in Nat

\* An answer is from after the cache was last switched off, or known to be late.
OfItsTime(a) == a.epoch = offs \/ a.late

\* The methods of requests that are sent once.
NeverRepeated == {"PUT", "PUT with key", "POST"}

\* The answer a request carries, and how often it was sent.
Carries(r) ==
  /\ req[r].answer # None => req[r].answer.age <= MaxHold /\ OfItsTime(req[r].answer)
  /\ req[r].step = "put" => req[r].answer # None
Sends(r) ==
  /\ req[r].step \in {"new", "admitted"} => req[r].sends = 0
  /\ req[r].method \in NeverRepeated =>
       req[r].sends <= 1 /\ (req[r].step = "send" => req[r].sends = 0)
InFlight(r) == Carries(r) /\ Sends(r)

CacheKept ==
  cache # None =>
    /\ cache.age <= Bound /\ cache.stored <= Bound /\ cache.age <= cache.stored + MaxHold
    /\ clearing = 0 => OfItsTime(cache)

Connected == {r \in Request : req[r].step \in {"send", "answered", "vanished"}}

PipelineInv ==
  /\ PipelineTyped /\ CacheKept /\ (\A r \in Request : InFlight(r))
  /\ open = Cardinality(Connected)

LEMMA BoundIsLarge ==
  ASSUME PipelineConstants
  PROVE  Bound \in Nat /\ \A t \in Ttls : t \in Nat /\ MaxHold + t < Bound
<1>1. PICK t \in Ttls : \A u \in Ttls : u <= t BY DEF PipelineConstants
<1>2. PICK m : m = CHOOSE v \in Ttls : \A u \in Ttls : u <= v OBVIOUS
<1>3. m \in Ttls /\ \A u \in Ttls : u <= m BY <1>1, <1>2
<1>4. Bound = MaxHold + 1 + m BY <1>2 DEF Bound
<1> QED BY <1>3, <1>4 DEF PipelineConstants

LEMMA PipelineInitInv ==
  ASSUME PipelineConstants, PipelineInit
  PROVE  PipelineInv
<1>1. Ready \in RequestState BY DEF Ready, RequestState, Steps
<1>2. PipelineTyped BY <1>1 DEF PipelineInit, PipelineTyped
<1>3. CacheKept BY DEF PipelineInit, CacheKept
<1>4. ASSUME NEW r \in Request PROVE InFlight(r)
  <2>1. req[r].answer = None /\ req[r].step = "new" /\ req[r].sends = 0 /\ req[r].method = None
    BY DEF PipelineInit, Ready
  <2> QED BY <2>1 DEF InFlight, Carries, Sends
<1>5. Connected = {} BY DEF PipelineInit, Connected, Ready
<1>6. open = Cardinality(Connected) BY <1>5, FS_EmptySet DEF PipelineInit
<1> QED BY <1>2, <1>3, <1>4, <1>6 DEF PipelineInv

\* One request moves from a step to another, and opens or gives back a connection if
\* it must.
LEMMA OneRequestMoves ==
  ASSUME PipelineConstants, PipelineInv, NEW r \in Request, NEW new \in RequestState,
         req' = [req EXCEPT ![r] = new], UNCHANGED <<cacheOn, ttl, clearing, offs>>,
         open' = IF new.step \in {"send", "answered", "vanished"}
                 THEN (IF req[r].step \in {"send", "answered", "vanished"} THEN open ELSE open + 1)
                 ELSE (IF req[r].step \in {"send", "answered", "vanished"} THEN open - 1 ELSE open),
         cache' \in Stored \cup {None}, CacheKept', InFlight(r)'
  PROVE  PipelineInv'
<1>1. PipelineTyped /\ (\A q \in Request : InFlight(q)) /\ open = Cardinality(Connected)
  BY DEF PipelineInv
<1>2. /\ req' \in [Request -> RequestState] /\ req'[r] = new
      /\ \A q \in Request \ {r} : req'[q] = req[q]
  BY <1>1 DEF PipelineTyped
<1>3. IsFiniteSet(Connected) BY FS_Subset DEF PipelineConstants, Connected
<1>4. Cardinality(Connected) \in Nat BY <1>3, FS_CardinalityType
<1> DEFINE Held == {"send", "answered", "vanished"}
<1>5. open' = Cardinality(Connected') /\ open' \in Nat
  <2>1. CASE new.step \in Held /\ req[r].step \in Held
    <3>1. Connected' = Connected BY <1>2, <2>1 DEF Connected
    <3>2. open' = open BY <2>1
    <3> QED BY <1>1, <1>4, <3>1, <3>2
  <2>2. CASE new.step \in Held /\ req[r].step \notin Held
    <3>1. Connected' = Connected \cup {r} BY <1>2, <2>2 DEF Connected
    <3>2. r \notin Connected BY <2>2 DEF Connected
    <3>3. Cardinality(Connected \cup {r}) = Cardinality(Connected) + 1 BY <1>3, <3>2, FS_AddElement
    <3>4. Cardinality(Connected') = Cardinality(Connected) + 1 BY <3>1, <3>3
    <3>5. open' = open + 1 BY <2>2
    <3> QED BY <1>1, <1>4, <3>4, <3>5
  <2>3. CASE new.step \notin Held /\ req[r].step \in Held
    <3>1. Connected' = Connected \ {r} BY <1>2, <2>3 DEF Connected
    <3>2. r \in Connected BY <2>3 DEF Connected
    <3>3. /\ Cardinality(Connected \ {r}) = Cardinality(Connected) - 1
          /\ IsFiniteSet(Connected \ {r})
      BY <1>3, <3>2, FS_RemoveElement
    <3>4. Cardinality(Connected') = Cardinality(Connected) - 1 BY <3>1, <3>3
    <3>5. Cardinality(Connected \ {r}) \in Nat BY <3>3, FS_CardinalityType
    <3>6. open' = open - 1 BY <2>3
    <3> QED BY <1>1, <1>4, <3>3, <3>4, <3>5, <3>6
  <2>4. CASE new.step \notin Held /\ req[r].step \notin Held
    <3>1. Connected' = Connected BY <1>2, <2>4 DEF Connected
    <3>2. open' = open BY <2>4
    <3> QED BY <1>1, <1>4, <3>1, <3>2
  <2> QED BY <2>1, <2>2, <2>3, <2>4
<1>6. PipelineTyped' BY <1>1, <1>2, <1>5 DEF PipelineTyped
<1>7. ASSUME NEW q \in Request PROVE InFlight(q)'
  <2>1. CASE q = r BY <2>1
  <2>2. CASE q # r BY <1>1, <1>2, <2>2 DEF InFlight, Carries, Sends, OfItsTime
  <2> QED BY <2>1, <2>2
<1> QED BY <1>5, <1>6, <1>7 DEF PipelineInv

\* The steps of a request that leave its answer and the cache alone, or drop them.
LEMMA PassingStepInv ==
  ASSUME PipelineConstants, PipelineInv, NEW r \in Request,
         \/ \E m \in Method, c, p \in BOOLEAN : Arrive(r, m, c, p)
         \/ Refuse(r) \/ GetHit(r) \/ GetMiss(r) \/ Vanish(r) \/ Settle(r) \/ Observe(r)
         \/ \E b \in BOOLEAN : Hook(r, b)
  PROVE  PipelineInv'
<1>1. PipelineTyped /\ CacheKept /\ InFlight(r) /\ req \in [Request -> RequestState]
  BY DEF PipelineInv, PipelineTyped
<1>2. req[r] \in RequestState BY <1>1
<1>3. UNCHANGED <<cacheOn, ttl, clearing, offs>>
  BY DEF Arrive, Refuse, GetHit, GetMiss, Vanish, Settle, Observe, Hook, End
<1>4. cache' = cache \/ cache' = None
  BY DEF Arrive, Refuse, GetHit, GetMiss, Vanish, Settle, Observe, Hook, End
<1>5. cache' \in Stored \cup {None} /\ CacheKept'
  BY <1>1, <1>3, <1>4 DEF PipelineTyped, CacheKept, OfItsTime
<1>6. ASSUME NEW how \in Steps, End(r, how), how \notin {"put", "send", "answered"},
             open' = IF how = "vanished" THEN open
                     ELSE IF req[r].step \in {"send", "answered", "vanished"} THEN open - 1 ELSE open,
             how = "vanished" => req[r].step = "send"
      PROVE  PipelineInv'
  <2>1. PICK new : new = [Ready EXCEPT !.step = how] OBVIOUS
  <2>2. /\ new \in RequestState /\ new.step = how /\ new.answer = None /\ new.sends = 0
        /\ new.method = None
    BY <2>1 DEF Ready, RequestState
  <2>3. req' = [req EXCEPT ![r] = new] /\ req'[r] = new BY <1>1, <1>6, <2>1 DEF End
  <2>a. Carries(r)' BY <1>6, <2>2, <2>3 DEF Carries
  <2>b. Sends(r)' BY <2>2, <2>3 DEF Sends
  <2>4. InFlight(r)' BY <2>a, <2>b DEF InFlight
  <2>5. open' = IF new.step \in {"send", "answered", "vanished"}
                THEN (IF req[r].step \in {"send", "answered", "vanished"} THEN open ELSE open + 1)
                ELSE (IF req[r].step \in {"send", "answered", "vanished"} THEN open - 1 ELSE open)
    BY <1>6, <2>2
  <2> QED BY <1>3, <1>5, <2>2, <2>3, <2>4, <2>5, OneRequestMoves
<1>7. CASE Refuse(r) BY <1>6, <1>7 DEF Refuse, Steps
<1>8. CASE GetHit(r) BY <1>6, <1>8 DEF GetHit, Steps
<1>9. CASE Vanish(r) BY <1>6, <1>9 DEF Vanish, Steps
<1>10. CASE Observe(r) BY <1>6, <1>10 DEF Observe, Steps
<1>11. ASSUME NEW m \in Method, NEW c \in BOOLEAN, NEW p \in BOOLEAN, Arrive(r, m, c, p)
       PROVE  PipelineInv'
  <2>1. PICK new : new = [Ready EXCEPT !.step = "admitted", !.method = m, !.plain = p, !.cached = c]
    OBVIOUS
  <2>2. /\ new \in RequestState /\ new.step = "admitted" /\ new.answer = None /\ new.sends = 0
    BY <2>1 DEF Ready, RequestState, Steps
  <2>3. /\ req' = [req EXCEPT ![r] = new] /\ req'[r] = new /\ req[r].step = "new"
        /\ open' = open
    BY <1>1, <1>11, <2>1 DEF Arrive
  <2>a. Carries(r)' BY <2>2, <2>3 DEF Carries
  <2>b. Sends(r)' BY <2>2, <2>3 DEF Sends
  <2>4. InFlight(r)' BY <2>a, <2>b DEF InFlight
  <2> QED BY <1>3, <1>5, <2>2, <2>3, <2>4, OneRequestMoves
<1>12. CASE GetMiss(r)
  <2>1. PICK new : new = [req[r] EXCEPT !.step = "send"] OBVIOUS
  <2>2. /\ new \in RequestState /\ new.step = "send" /\ new.answer = req[r].answer
        /\ new.sends = req[r].sends /\ new.method = req[r].method
    BY <1>2, <2>1 DEF RequestState, Steps
  <2>3. /\ req' = [req EXCEPT ![r] = new] /\ req'[r] = new /\ req[r].step = "admitted"
        /\ open' = open + 1
    BY <1>1, <1>12, <2>1 DEF GetMiss
  <2>4. InFlight(r)' BY <1>1, <1>3, <2>2, <2>3 DEF InFlight, Carries, Sends, OfItsTime
  <2> QED BY <1>3, <1>5, <2>2, <2>3, <2>4, OneRequestMoves
<1>13. CASE Settle(r)
  <2>1. PICK new : new = [req[r] EXCEPT !.step = "hook"] OBVIOUS
  <2>2. /\ new \in RequestState /\ new.step = "hook" /\ new.answer = req[r].answer
        /\ new.sends = req[r].sends /\ new.method = req[r].method
    BY <1>2, <2>1 DEF RequestState, Steps
  <2>3. /\ req' = [req EXCEPT ![r] = new] /\ req'[r] = new /\ req[r].step = "answered"
        /\ open' = open - 1
    BY <1>1, <1>13, <2>1 DEF Settle
  <2>4. InFlight(r)' BY <1>1, <1>3, <2>2, <2>3 DEF InFlight, Carries, Sends, OfItsTime
  <2> QED BY <1>3, <1>5, <2>2, <2>3, <2>4, OneRequestMoves
<1>14. ASSUME NEW b \in BOOLEAN, Hook(r, b) PROVE PipelineInv'
  <2>0. req[r].step = "hook" /\ open' = open BY <1>14 DEF Hook
  <2>1. CASE End(r, "blocked") BY <1>6, <2>0, <2>1 DEF Steps
  <2>2. ASSUME NEW step \in {"put", "observe"}, NEW a \in {req[r].answer, None},
               step = "put" => a # None, req' = [req EXCEPT ![r].step = step, ![r].answer = a]
        PROVE  PipelineInv'
    <3>1. PICK new : new = [req[r] EXCEPT !.step = step, !.answer = a] OBVIOUS
    <3>2. /\ new \in RequestState /\ new.step = step /\ new.answer = a
          /\ new.sends = req[r].sends /\ new.method = req[r].method
      BY <1>2, <3>1 DEF RequestState, Steps
    <3>3. req' = [req EXCEPT ![r] = new] /\ req'[r] = new BY <1>1, <2>2, <3>1
    <3>4. InFlight(r)' BY <1>1, <1>3, <2>2, <3>2, <3>3 DEF InFlight, Carries, Sends, OfItsTime
    <3> QED BY <1>3, <1>5, <2>0, <3>2, <3>3, <3>4, OneRequestMoves
  <2>3. CASE Waiting(r) /\ req' = [req EXCEPT ![r].step = "put"]
    <3>1. req' = [req EXCEPT ![r].step = "put", ![r].answer = req[r].answer] BY <1>1, <1>2, <2>3 DEF RequestState
    <3> QED BY <2>2, <2>3, <3>1 DEF Waiting
  <2>4. CASE req' = [req EXCEPT ![r].step = "observe", ![r].answer = None] BY <2>2, <2>4
  <2> QED BY <1>14, <2>1, <2>3, <2>4 DEF Hook
<1> QED BY <1>7, <1>8, <1>9, <1>10, <1>11, <1>12, <1>13, <1>14

LEMMA AttemptAnswersInv ==
  ASSUME PipelineConstants, PipelineInv, NEW r \in Request, NEW kind \in Kind, NEW varies \in BOOLEAN,
         Attempt(r, kind, varies)
  PROVE  PipelineInv'
<1>1. PipelineTyped /\ CacheKept /\ InFlight(r) /\ req \in [Request -> RequestState]
  BY DEF PipelineInv, PipelineTyped
<1>2. req[r] \in RequestState BY <1>1
<1>3. PICK step, a, n :
        /\ step = IF TriesAgain(r, kind) THEN req[r].step ELSE "answered"
        /\ a = IF kind = "ok" /\ req[r].cached
               THEN [varies |-> varies, age |-> 0, epoch |-> offs, late |-> FALSE] ELSE None
        /\ n = req[r].sends + 1
  OBVIOUS
<1>4. /\ req[r].step = "send" /\ UNCHANGED <<cache, cacheOn, ttl, clearing, offs, open>>
      /\ req' = [req EXCEPT ![r].sends = n, ![r].step = step, ![r].answer = a]
  BY <1>1, <1>2, <1>3 DEF Attempt, RequestState
<1>5. step \in {"send", "answered"} /\ (step = "send" => TriesAgain(r, kind)) BY <1>3, <1>4
<1>6. n \in Nat /\ n = req[r].sends + 1 BY <1>2, <1>3 DEF RequestState
<1>7. a # None => a = [varies |-> varies, age |-> 0, epoch |-> offs, late |-> FALSE]
  BY <1>3
<1>8. a \in Answer \cup {None} /\ (a # None => a.age = 0 /\ a.epoch = offs)
  <2>1. offs \in Nat BY <1>1 DEF PipelineTyped
  <2>2. CASE a = None BY <2>2
  <2>3. CASE a # None
    <3>1. [varies |-> varies, age |-> 0, epoch |-> offs, late |-> FALSE] \in Answer
      BY <2>1, Zenon DEF Answer
    <3>2. PICK b : b = [varies |-> varies, age |-> 0, epoch |-> offs, late |-> FALSE] OBVIOUS
    <3>3. b.age = 0 /\ b.epoch = offs BY <3>2
    <3>4. a = b BY <1>7, <2>3, <3>2
    <3>5. b \in Answer BY <3>1, <3>2, Zenon
    <3> QED BY <3>3, <3>4, <3>5, Zenon
  <2> QED BY <2>2, <2>3
<1>9. PICK new : new = [req[r] EXCEPT !.sends = n, !.step = step, !.answer = a] OBVIOUS
<1>10. /\ new \in RequestState /\ new.step = step /\ new.answer = a /\ new.sends = n
       /\ new.method = req[r].method
  BY <1>2, <1>5, <1>6, <1>8, <1>9 DEF RequestState, Steps
<1>11. req' = [req EXCEPT ![r] = new] /\ req'[r] = new BY <1>1, <1>4, <1>9
<1>12. TriesAgain(r, kind) => req[r].method \notin NeverRepeated
  <2>1. TriesAgain(r, kind) => req[r].method = "GET" BY DEF TriesAgain, ShouldRetry
  <2>2. "GET" \notin NeverRepeated BY Zenon DEF NeverRepeated
  <2> QED BY <2>1, <2>2
<1>13. InFlight(r)'
  <2>1. req'[r].answer # None => req'[r].answer.age <= MaxHold /\ (req'[r].answer.epoch = offs \/ req'[r].answer.late)
    BY <1>4, <1>8, <1>10, <1>11 DEF OfItsTime, PipelineConstants
  <2>2. req'[r].method \in NeverRepeated =>
          req'[r].sends <= 1 /\ (req'[r].step = "send" => req'[r].sends = 0)
    BY <1>1, <1>4, <1>5, <1>6, <1>10, <1>11, <1>12 DEF InFlight, Carries, Sends
  <2> QED BY <1>4, <1>5, <1>10, <1>11, <2>1, <2>2 DEF InFlight, Carries, Sends, OfItsTime
<1>14. cache' \in Stored \cup {None} /\ CacheKept'
  BY <1>1, <1>4 DEF PipelineTyped, CacheKept, OfItsTime
<1> QED BY <1>4, <1>5, <1>10, <1>11, <1>13, <1>14, OneRequestMoves

LEMMA PutInv ==
  ASSUME PipelineConstants, PipelineInv, NEW r \in Request, Put(r)
  PROVE  PipelineInv'
<1>1. PipelineTyped /\ CacheKept /\ InFlight(r) /\ req \in [Request -> RequestState]
  BY DEF PipelineInv, PipelineTyped
<1>2. req[r] \in RequestState BY <1>1
<1>3. PICK a : a = req[r].answer OBVIOUS
<1>4. /\ req[r].step = "put" /\ UNCHANGED <<cacheOn, ttl, clearing, offs, open>>
      /\ cache' = [varies |-> a.varies, age |-> a.age, stored |-> 0, epoch |-> a.epoch, late |-> a.late]
      /\ req' = [req EXCEPT ![r].step = "observe", ![r].answer = None]
  BY <1>3 DEF Put
<1>5. a \in Answer /\ a.age <= MaxHold /\ OfItsTime(a)
  BY <1>1, <1>2, <1>3, <1>4 DEF InFlight, Carries, Sends, RequestState
<1>6. /\ cache' \in Stored /\ cache'.age = a.age /\ cache'.stored = 0
      /\ cache'.epoch = a.epoch /\ cache'.late = a.late
  BY <1>4, <1>5 DEF Answer, Stored
<1>7. CacheKept'
  <2>1. a.age \in Nat BY <1>5 DEF Answer
  <2>2. ttl \in Nat /\ MaxHold + ttl < Bound /\ Bound \in Nat /\ MaxHold \in Nat /\ Bound' = Bound
    BY <1>1, BoundIsLarge DEF PipelineTyped, PipelineConstants, Bound
  <2>3. OfItsTime(cache)' BY <1>4, <1>5, <1>6, Zenon DEF OfItsTime
  <2> QED BY <1>5, <1>6, <2>1, <2>2, <2>3 DEF CacheKept
<1>8. PICK new : new = [req[r] EXCEPT !.step = "observe", !.answer = None] OBVIOUS
<1>9. /\ new \in RequestState /\ new.step = "observe" /\ new.answer = None
      /\ new.sends = req[r].sends /\ new.method = req[r].method
  BY <1>2, <1>8 DEF RequestState, Steps
<1>10. req' = [req EXCEPT ![r] = new] /\ req'[r] = new BY <1>1, <1>4, <1>8
<1>11. InFlight(r)' BY <1>1, <1>4, <1>9, <1>10 DEF InFlight, Carries, Sends
<1> QED BY <1>4, <1>6, <1>7, <1>9, <1>10, <1>11, OneRequestMoves

\* A second passes: what waits and what is kept grow older.
LEMMA TickInv ==
  ASSUME PipelineConstants, PipelineInv, Tick
  PROVE  PipelineInv'
<1>1. /\ PipelineTyped /\ CacheKept /\ (\A r \in Request : InFlight(r)) /\ open = Cardinality(Connected)
      /\ req \in [Request -> RequestState]
  BY DEF PipelineInv, PipelineTyped
<1>2. /\ \A r \in Request : Waiting(r) => req[r].answer.age < MaxHold
      /\ req' = [r \in Request |-> IF Waiting(r) THEN [req[r] EXCEPT !.answer.age = @ + 1] ELSE req[r]]
      /\ cache' = IF cache = None THEN None
                  ELSE [cache EXCEPT !.age = IF @ < Bound THEN @ + 1 ELSE @,
                                     !.stored = IF @ < Bound THEN @ + 1 ELSE @]
      /\ UNCHANGED <<cacheOn, ttl, clearing, offs, open>>
  BY DEF Tick
<1>3. Bound \in Nat /\ Bound' = Bound BY BoundIsLarge DEF Bound
<1>4. ASSUME NEW r \in Request
      PROVE  /\ req'[r] \in RequestState /\ req'[r].step = req[r].step
             /\ req'[r].method = req[r].method /\ req'[r].sends = req[r].sends
             /\ req[r].answer = None => req'[r].answer = None
             /\ req[r].answer # None =>
                  /\ req'[r].answer \in Answer /\ req'[r].answer.age <= MaxHold
                  /\ req'[r].answer.epoch = req[r].answer.epoch
                  /\ req'[r].answer.late = req[r].answer.late
  <2>0. req[r] \in RequestState BY <1>1
  <2>1. CASE req[r].answer = None BY <1>2, <2>0, <2>1 DEF Waiting
  <2>2. CASE req[r].answer # None
    <3>1. PICK a : a = [req[r].answer EXCEPT !.age = req[r].answer.age + 1] OBVIOUS
    <3>2. req[r].answer \in Answer /\ req[r].answer.age < MaxHold
      BY <1>2, <2>0, <2>2 DEF RequestState, Waiting
    <3>3. /\ a \in Answer /\ a.age = req[r].answer.age + 1 /\ a.epoch = req[r].answer.epoch
          /\ a.late = req[r].answer.late
      BY <3>1, <3>2 DEF Answer
    <3>4. a.age <= MaxHold BY <3>2, <3>3 DEF Answer, PipelineConstants
    <3>5. req'[r] = [req[r] EXCEPT !.answer = a] BY <1>2, <2>0, <2>2, <3>1 DEF Waiting, RequestState
    <3>6. None \notin Answer BY DEF PipelineConstants
    <3> QED BY <2>0, <2>2, <3>3, <3>4, <3>5 DEF RequestState
  <2> QED BY <2>1, <2>2
<1>5. req' \in [Request -> RequestState] BY <1>2, <1>4
<1>6. /\ cache = None => cache' = None
      /\ cache # None =>
           /\ cache' \in Stored /\ cache'.epoch = cache.epoch /\ cache'.late = cache.late
           /\ cache'.age = IF cache.age < Bound THEN cache.age + 1 ELSE cache.age
           /\ cache'.stored = IF cache.stored < Bound THEN cache.stored + 1 ELSE cache.stored
  <2>1. CASE cache = None BY <1>2, <2>1
  <2>2. CASE cache # None
    <3>0. cache \in Stored BY <1>1, <2>2 DEF PipelineTyped
    <3>1. PICK a, b : /\ a = IF cache.age < Bound THEN cache.age + 1 ELSE cache.age
                      /\ b = IF cache.stored < Bound THEN cache.stored + 1 ELSE cache.stored
      OBVIOUS
    <3>2. a \in Nat /\ b \in Nat BY <3>0, <3>1 DEF Stored
    <3>3. cache' = [cache EXCEPT !.age = a, !.stored = b] BY <1>2, <2>2, <3>0, <3>1 DEF Stored
    <3> QED BY <2>2, <3>0, <3>1, <3>2, <3>3 DEF Stored
  <2> QED BY <2>1, <2>2
<1>7. CacheKept'
  <2>1. cache # None => cache \in Stored BY <1>1 DEF PipelineTyped
  <2>2. CASE cache = None BY <1>6, <2>2 DEF CacheKept
  <2>3. CASE cache # None
    <3>1. cache.age \in Nat /\ cache.stored \in Nat BY <2>1, <2>3 DEF Stored
    <3>2. /\ cache.age <= Bound /\ cache.stored <= Bound /\ cache.age <= cache.stored + MaxHold
          /\ (clearing = 0 => OfItsTime(cache))
      BY <1>1, <2>3 DEF CacheKept
    <3>3. MaxHold \in Nat BY DEF PipelineConstants
    <3>4. /\ cache'.age <= Bound /\ cache'.stored <= Bound /\ cache'.age <= cache'.stored + MaxHold
      BY <1>3, <1>6, <2>3, <3>1, <3>2, <3>3
    <3>5. clearing' = 0 => OfItsTime(cache)' BY <1>2, <1>6, <2>3, <3>2 DEF OfItsTime
    <3> QED BY <1>3, <3>4, <3>5 DEF CacheKept
  <2> QED BY <2>2, <2>3
<1>8. ASSUME NEW r \in Request PROVE InFlight(r)'
  <2>1. InFlight(r) BY <1>1
  <2>2. req'[r].answer # None => req'[r].answer.age <= MaxHold /\ (req'[r].answer.epoch = offs \/ req'[r].answer.late)
    BY <1>2, <1>4, <2>1 DEF InFlight, Carries, Sends, OfItsTime
  <2>3. req'[r].step = "put" => req'[r].answer # None
    BY <1>4, <2>1 DEF InFlight, Carries, Sends, PipelineConstants
  <2> QED BY <1>2, <1>4, <2>1, <2>2, <2>3 DEF InFlight, Carries, Sends, OfItsTime
<1>9. Connected' = Connected BY <1>4 DEF Connected
<1>10. PipelineTyped' BY <1>1, <1>2, <1>5, <1>6 DEF PipelineTyped
<1> QED BY <1>1, <1>2, <1>7, <1>8, <1>9, <1>10 DEF PipelineInv

\* The cache is switched off: every answer on its way to it is late from now on.
LEMMA SwitchOffInv ==
  ASSUME PipelineConstants, PipelineInv, SwitchOff
  PROVE  PipelineInv'
<1>1. /\ PipelineTyped /\ CacheKept /\ (\A r \in Request : InFlight(r)) /\ open = Cardinality(Connected)
      /\ req \in [Request -> RequestState]
  BY DEF PipelineInv, PipelineTyped
<1>2. /\ cacheOn' = FALSE /\ offs' = offs + 1 /\ clearing' = clearing + 1
      /\ req' = [r \in Request |-> IF Waiting(r) THEN [req[r] EXCEPT !.answer.late = TRUE] ELSE req[r]]
      /\ UNCHANGED <<cache, ttl, open>>
  BY DEF SwitchOff
<1>3. ASSUME NEW r \in Request
      PROVE  /\ req'[r] \in RequestState /\ req'[r].step = req[r].step
             /\ req'[r].method = req[r].method /\ req'[r].sends = req[r].sends
             /\ req[r].answer = None => req'[r].answer = None
             /\ req[r].answer # None =>
                  /\ req'[r].answer \in Answer /\ req'[r].answer.age = req[r].answer.age
                  /\ req'[r].answer.late
  <2>0. req[r] \in RequestState BY <1>1
  <2>1. CASE req[r].answer = None BY <1>2, <2>0, <2>1 DEF Waiting
  <2>2. CASE req[r].answer # None
    <3>1. PICK a : a = [req[r].answer EXCEPT !.late = TRUE] OBVIOUS
    <3>2. req[r].answer \in Answer BY <2>0, <2>2 DEF RequestState
    <3>3. a \in Answer BY <3>1, <3>2, Zenon DEF Answer
    <3>4. a.age = req[r].answer.age BY <3>1, <3>2 DEF Answer
    <3>5. a.late BY <3>1, <3>2, Zenon DEF Answer
    <3>6. req'[r] = [req[r] EXCEPT !.answer = a] BY <1>2, <2>0, <2>2, <3>1 DEF Waiting, RequestState
    <3>7. req'[r] \in RequestState /\ req'[r].answer = a BY <2>0, <3>3, <3>6 DEF RequestState
    <3>8. /\ req'[r].step = req[r].step /\ req'[r].method = req[r].method
          /\ req'[r].sends = req[r].sends
      BY <2>0, <3>6 DEF RequestState
    <3>9. req'[r].answer.late BY <3>5, <3>7, Zenon
    <3> QED BY <2>2, <3>3, <3>4, <3>7, <3>8, <3>9, Zenon
  <2> QED BY <2>1, <2>2
<1>4. req' \in [Request -> RequestState] BY <1>2, <1>3
<1>5. offs' \in Nat /\ clearing' \in Nat /\ clearing' # 0 BY <1>1, <1>2 DEF PipelineTyped
<1>6. PipelineTyped' BY <1>1, <1>2, <1>4, <1>5 DEF PipelineTyped
<1>7. CacheKept' BY <1>1, <1>2, <1>5 DEF CacheKept, Bound
<1>8. ASSUME NEW r \in Request PROVE InFlight(r)'
  <2>1. InFlight(r) BY <1>1
  <2>2. req[r].answer = None <=> req'[r].answer = None BY <1>3 DEF PipelineConstants
  <2>3. req'[r].answer # None => req'[r].answer.late BY <1>3, <2>2, Zenon
  <2>4. /\ req'[r].answer # None => req'[r].answer.age <= MaxHold
        /\ req'[r].step = "put" => req'[r].answer # None
    BY <1>3, <2>1, <2>2 DEF InFlight, Carries
  <2>5. Carries(r)' BY <2>3, <2>4, Zenon DEF Carries, OfItsTime
  <2>6. Sends(r)' BY <1>3, <2>1 DEF InFlight, Sends
  <2> QED BY <2>5, <2>6 DEF InFlight
<1>9. Connected' = Connected BY <1>3 DEF Connected
<1> QED BY <1>1, <1>2, <1>6, <1>7, <1>8, <1>9 DEF PipelineInv

\* Clearing, switching the cache on, changing the time to live and eviction.
LEMMA CacheStepInv ==
  ASSUME PipelineConstants, PipelineInv, Clear \/ SwitchOn \/ Forget \/ \E t \in Ttls : SetTtl(t)
  PROVE  PipelineInv'
<1>1. PipelineTyped /\ CacheKept /\ (\A r \in Request : InFlight(r)) /\ open = Cardinality(Connected)
  BY DEF PipelineInv
<1>2. UNCHANGED <<req, offs, open>> BY DEF Clear, SwitchOn, Forget, SetTtl
<1>3. cache' = None \/ UNCHANGED <<cache, clearing>> BY DEF Clear, SwitchOn, Forget, SetTtl
<1>4. clearing' \in Nat /\ cacheOn' \in BOOLEAN /\ ttl' \in Ttls
  <2>1. clearing \in Nat /\ cacheOn \in BOOLEAN /\ ttl \in Ttls BY <1>1 DEF PipelineTyped
  <2>2. CASE Clear BY <2>1, <2>2 DEF Clear
  <2>3. CASE SwitchOn BY <2>1, <2>3 DEF SwitchOn
  <2>4. CASE Forget BY <2>1, <2>4 DEF Forget
  <2>5. ASSUME NEW t \in Ttls, SetTtl(t) PROVE clearing' \in Nat /\ cacheOn' \in BOOLEAN /\ ttl' \in Ttls
    BY <2>1, <2>5 DEF SetTtl
  <2> QED BY <2>2, <2>3, <2>4, <2>5
<1>5. PipelineTyped' BY <1>1, <1>2, <1>3, <1>4 DEF PipelineTyped
<1>6. CacheKept' BY <1>1, <1>2, <1>3 DEF CacheKept, OfItsTime, Bound
<1>7. ASSUME NEW r \in Request PROVE InFlight(r)'
  BY <1>1, <1>2 DEF InFlight, Carries, Sends, OfItsTime
<1>8. Connected' = Connected BY <1>2 DEF Connected
<1> QED BY <1>1, <1>2, <1>5, <1>6, <1>7, <1>8 DEF PipelineInv

LEMMA PipelineStepInv ==
  ASSUME PipelineConstants, PipelineInv, [PipelineNext]_pipelineVars
  PROVE  PipelineInv'
<1>1. ASSUME NEW r \in Request, Step(r) PROVE PipelineInv'
  BY <1>1, PassingStepInv, PutInv, AttemptAnswersInv DEF Step
<1>2. CASE UNCHANGED pipelineVars
  BY <1>2 DEF pipelineVars, PipelineInv, PipelineTyped, CacheKept, InFlight, Carries, Sends,
              OfItsTime, Connected, Bound
<1> QED BY <1>1, <1>2, TickInv, SwitchOffInv, CacheStepInv DEF PipelineNext

LEMMA PipelineInvMeans ==
  ASSUME PipelineConstants, PipelineInv
  PROVE  CacheIsCurrent /\ SentOnce
<1>1. PipelineTyped /\ CacheKept /\ (\A r \in Request : InFlight(r)) /\ open = Cardinality(Connected)
  BY DEF PipelineInv
<1>2. CacheIsCurrent
  <2>1. SUFFICES ASSUME cache # None, ~Expired
                 PROVE  cache.age < ttl + MaxHold /\ (clearing = 0 => cache.epoch = offs \/ cache.late)
    BY DEF CacheIsCurrent
  <2>2. cache.age \in Nat /\ cache.stored \in Nat /\ ttl \in Nat /\ MaxHold \in Nat
    BY <1>1, <2>1 DEF PipelineTyped, Stored, PipelineConstants
  <2>3. cache.age < ttl + MaxHold BY <1>1, <2>1, <2>2 DEF CacheKept, Expired
  <2>4. clearing = 0 => OfItsTime(cache) BY <1>1, <2>1 DEF CacheKept
  <2> QED BY <2>3, <2>4 DEF OfItsTime
<1>3. SentOnce
  <2>1. {"PUT", "POST"} \subseteq NeverRepeated BY Zenon DEF NeverRepeated
  <2>2. \A r \in Request : req[r].method \in {"PUT", "POST"} => req[r].sends <= 1
    BY <1>1, <2>1 DEF InFlight, Sends
  <2> QED BY <1>1, <2>2 DEF SentOnce, Connected
<1> QED BY <1>2, <1>3

\* What the response cache can serve is no older than it may be, and from after
\* the cache was last switched off, unless its request was under way then.
THEOREM CacheServesTheCurrent ==
  ASSUME PipelineConstants
  PROVE  PipelineSpec => []CacheIsCurrent
<1>1. PipelineInit => PipelineInv BY PipelineInitInv
<1>2. PipelineInv /\ [PipelineNext]_pipelineVars => PipelineInv' BY PipelineStepInv
<1>3. PipelineInv => CacheIsCurrent BY PipelineInvMeans
<1> QED BY <1>1, <1>2, <1>3, PTL DEF PipelineSpec

\* A request that is not safe to repeat is sent once, and the connections that
\* are open are those of requests under way or abandoned.
THEOREM UnsafeIsSentOnce ==
  ASSUME PipelineConstants
  PROVE  PipelineSpec => []SentOnce
<1>1. PipelineInit => PipelineInv BY PipelineInitInv
<1>2. PipelineInv /\ [PipelineNext]_pipelineVars => PipelineInv' BY PipelineStepInv
<1>3. PipelineInv => SentOnce BY PipelineInvMeans
<1> QED BY <1>1, <1>2, <1>3, PTL DEF PipelineSpec

-----------------------------------------------------------------------------
(* The WebSocket tunnel.                                                     *)
PumpIs == {"waiting", "never", "running", "ended", "refused", "aborted"}
TunnelConstants == NoMessage \notin Int

TunnelTyped ==
  /\ sent \in [Side -> Seq(Int)] /\ got \in [Side -> Seq(Int)]
  /\ pump \in [Side -> [is: PumpIs, taken: Nat]] /\ hand \in [Side -> Int \cup {NoMessage}]

\* What end e sent: a goodbye is the last of it.
GoodbyeIsLast(e) == \A k \in 1..Len(sent[e]) : sent[e][k] \in Goodbye => k = Len(sent[e])

\* Counting the relayable messages of the first k, and of the first k + 1.
LEMMA RelayableNone == \A s : Relayable(s, 0) = 0
<1>1. ASSUME NEW s PROVE {j \in 1..0 : Carried(s[j])} = {} OBVIOUS
<1> QED BY <1>1, FS_EmptySet DEF Relayable

LEMMA RelayableStep ==
  ASSUME NEW s, NEW k \in Nat
  PROVE  /\ Relayable(s, k) \in Nat
         /\ Carried(s[k + 1]) => Relayable(s, k + 1) = Relayable(s, k) + 1
         /\ ~Carried(s[k + 1]) => Relayable(s, k + 1) = Relayable(s, k)
<1> DEFINE P(i) == {j \in 1..i : Carried(s[j])}
<1>1. IsFiniteSet(P(k))
  <2>1. IsFiniteSet(1..k) BY FS_Interval
  <2>2. P(k) \subseteq 1..k OBVIOUS
  <2> QED BY <2>1, <2>2, FS_Subset
<1>2. 1..(k + 1) = (1..k) \cup {k + 1} /\ k + 1 \notin 1..k OBVIOUS
<1>3. Carried(s[k + 1]) => P(k + 1) = P(k) \cup {k + 1} /\ k + 1 \notin P(k) BY <1>2
<1>4. ~Carried(s[k + 1]) => P(k + 1) = P(k) BY <1>2
<1>5. Cardinality(P(k)) \in Nat BY <1>1, FS_CardinalityType
<1>6. k + 1 \notin P(k) => Cardinality(P(k) \cup {k + 1}) = Cardinality(P(k)) + 1
  BY <1>1, FS_AddElement
<1>7. Relayable(s, k) = Cardinality(P(k)) /\ Relayable(s, k + 1) = Cardinality(P(k + 1))
  BY DEF Relayable
<1>h. HIDE DEF P
<1> QED BY <1>3, <1>4, <1>5, <1>6, <1>7

LEMMA RelayableSame ==
  ASSUME NEW s, NEW r, NEW k \in Nat, \A j \in 1..k : s[j] = r[j]
  PROVE  Relayable(s, k) = Relayable(r, k)
<1>1. {j \in 1..k : Carried(s[j])} = {j \in 1..k : Carried(r[j])} OBVIOUS
<1> QED BY <1>1 DEF Relayable

\* What was relayed of it: the relayable messages that were taken but the one in
\* hand, unless the receiver is gone.
Relayed(e) ==
  IF hand[e] = NoMessage THEN Relayable(sent[e], pump[e].taken)
                         ELSE Relayable(sent[e], pump[e].taken) - 1
Arrived(e) ==
  \A n \in 1..Len(got[Other(e)]) :
    \E k \in 1..Len(sent[e]) : /\ Carried(sent[e][k]) /\ Relayable(sent[e], k) = n
                               /\ got[Other(e)][n] = sent[e][k]
InHand(e) ==
  hand[e] # NoMessage =>
    pump[e].taken >= 1 /\ hand[e] = sent[e][pump[e].taken] /\ Carried(hand[e])
Follows(e) ==
  /\ pump[e].taken <= Len(sent[e]) /\ InHand(e)
  /\ \A k \in 1..pump[e].taken : sent[e][k] # Eof
  /\ pump[e].is # "never" =>
       Arrived(e) /\ (Gone(Other(e)) \/ Len(got[Other(e)]) = Relayed(e))

\* A task that ended by itself has relayed all but the end of the stream.
AllTaken(e) ==
  pump[e].is = "ended" =>
    /\ Gone(e) /\ hand[e] = NoMessage
    /\ \/ pump[e].taken = Len(sent[e])
       \/ pump[e].taken + 1 = Len(sent[e]) /\ sent[e][Len(sent[e])] = Eof

TunnelInv ==
  /\ TunnelTyped /\ \A e \in Side : GoodbyeIsLast(e) /\ Follows(e) /\ AllTaken(e)
  /\ pump["client"].is \in {"ended", "refused"} => pump["upstream"].is # "running"

LEMMA OtherEnd == \A e \in Side : Other(e) \in Side /\ Other(Other(e)) = e /\ Other(e) # e
BY DEF Side, Other

LEMMA TunnelInitInv ==
  ASSUME TunnelInit
  PROVE  TunnelInv
<1>1. TunnelTyped BY DEF TunnelInit, TunnelTyped, PumpIs
<1>2. ASSUME NEW e \in Side PROVE GoodbyeIsLast(e) /\ Follows(e) /\ AllTaken(e)
  <2>1. /\ sent[e] = <<>> /\ got[Other(e)] = <<>> /\ pump[e].is = "waiting" /\ pump[e].taken = 0
        /\ hand[e] = NoMessage
    BY OtherEnd DEF TunnelInit
  <2> QED BY <2>1, RelayableNone DEF GoodbyeIsLast, Follows, InHand, Arrived, AllTaken, Relayed
<1>3. pump["client"].is = "waiting" BY DEF TunnelInit, Side
<1> QED BY <1>1, <1>2, <1>3 DEF TunnelInv

LEMMA ConnectInv ==
  ASSUME TunnelInv, NEW ok \in BOOLEAN, Connect(ok)
  PROVE  TunnelInv'
<1>1. TunnelTyped /\ \A e \in Side : GoodbyeIsLast(e) /\ Follows(e) /\ AllTaken(e) BY DEF TunnelInv
<1>2. PICK is : is = IF ok THEN "running" ELSE "never" OBVIOUS
<1>3. is \in {"running", "never"} BY <1>2
<1>4. /\ UNCHANGED <<sent, hand>> /\ \A e \in Side : pump[e].is = "waiting"
      /\ pump' = [e \in Side |-> [pump[e] EXCEPT !.is = is]]
      /\ is # "never" => got' = got
      /\ got' = got \/ got' = [got EXCEPT !["client"] = Append(got["client"], Close)]
  BY <1>2 DEF Connect
<1>5. /\ pump' \in [Side -> [is: PumpIs, taken: Nat]]
      /\ \A e \in Side : pump'[e].is = is /\ pump'[e].taken = pump[e].taken
  BY <1>1, <1>3, <1>4 DEF TunnelTyped, PumpIs
<1>6. got' \in [Side -> Seq(Int)]
  <2>1. Append(got["client"], Close) \in Seq(Int) BY <1>1 DEF TunnelTyped, Close, Side
  <2> QED BY <1>1, <1>4, <2>1 DEF TunnelTyped
<1>7. TunnelTyped' BY <1>1, <1>4, <1>5, <1>6 DEF TunnelTyped
<1>8. ASSUME NEW e \in Side PROVE GoodbyeIsLast(e)' /\ Follows(e)' /\ AllTaken(e)'
  BY <1>1, <1>3, <1>4, <1>5 DEF GoodbyeIsLast, Follows, InHand, Arrived, AllTaken, Relayed, Gone
<1>9. pump'["client"].is = is BY <1>5 DEF Side
<1> QED BY <1>3, <1>7, <1>8, <1>9 DEF TunnelInv

LEMMA SendInv ==
  ASSUME TunnelInv, NEW e \in Side, NEW m \in Goodbye \cup {Part} \cup 1..MaxSent, Send(e, m)
  PROVE  TunnelInv'
<1>1. TunnelTyped /\ \A f \in Side : GoodbyeIsLast(f) /\ Follows(f) /\ AllTaken(f) BY DEF TunnelInv
<1>2. /\ ~Gone(e) /\ sent' = [sent EXCEPT ![e] = Append(sent[e], m)] /\ UNCHANGED <<got, pump, hand>>
      /\ m \in Goodbye \cup {Part, Len(sent[e]) + 1}
  BY DEF Send
<1>3. sent[e] \in Seq(Int) /\ m \in Int BY <1>1, <1>2 DEF TunnelTyped, Goodbye, Close, Part, Eof
<1>4. PICK s : s = sent[e] OBVIOUS
<1>5. /\ sent'[e] \in Seq(Int) /\ Len(sent'[e]) = Len(s) + 1 /\ sent'[e][Len(s) + 1] = m
      /\ \A k \in 1..Len(s) : sent'[e][k] = s[k]
  BY <1>1, <1>2, <1>3, <1>4 DEF TunnelTyped
<1>6. \A f \in Side \ {e} : sent'[f] = sent[f] BY <1>1, <1>2 DEF TunnelTyped
<1>7. TunnelTyped' BY <1>1, <1>2, <1>3, <1>5 DEF TunnelTyped
<1>8. \A k \in 1..Len(s) : s[k] \notin Goodbye
  <2>1. s = <<>> \/ s[Len(s)] \notin Goodbye BY <1>2, <1>4 DEF Gone, Last
  <2>2. Len(s) \in Nat /\ (s = <<>> => Len(s) = 0) BY <1>3, <1>4
  <2>3. \A k \in 1..Len(s) : s[k] \in Goodbye => k = Len(s) BY <1>1, <1>4 DEF GoodbyeIsLast
  <2> QED BY <2>1, <2>2, <2>3
<1>9. ASSUME NEW f \in Side PROVE GoodbyeIsLast(f)' /\ Follows(f)' /\ AllTaken(f)'
  <2>0. GoodbyeIsLast(f) /\ Follows(f) /\ AllTaken(f) BY <1>1
  <2>1. Gone(Other(f)) => Gone(Other(f))'
    <3>1. CASE Other(f) = e BY <1>2, <3>1
    <3>2. CASE Other(f) # e BY <1>6, <3>2, OtherEnd DEF Gone
    <3> QED BY <3>1, <3>2
  <2>3. CASE f = e
    <3>1. GoodbyeIsLast(f)'
      <4>1. Len(s) \in Nat BY <1>3, <1>4
      <4>2. ASSUME NEW k \in 1..(Len(s) + 1), sent'[e][k] \in Goodbye PROVE k = Len(s) + 1
        BY <1>5, <1>8, <4>1, <4>2
      <4> QED BY <1>5, <2>3, <4>2 DEF GoodbyeIsLast
    <3>2. PICK t : t = pump[e].taken OBVIOUS
    <3>3. t \in Nat /\ Len(s) \in Nat /\ t <= Len(s) BY <1>1, <1>3, <1>4, <2>0, <2>3, <3>2 DEF TunnelTyped, Follows
    <3>4. \A k \in 0..Len(s) : Relayable(sent'[e], k) = Relayable(s, k)
      <4>1. ASSUME NEW k \in 0..Len(s) PROVE \A j \in 1..k : sent'[e][j] = s[j] BY <1>5, <3>3
      <4>2. \A k \in 0..Len(s) : k \in Nat BY <3>3
      <4> QED BY <4>1, <4>2, RelayableSame
    <3>5. Relayed(e)' = Relayed(e) BY <1>2, <1>4, <3>2, <3>3, <3>4 DEF Relayed
    <3>6. Arrived(e) => Arrived(e)'
      <4>1. SUFFICES ASSUME Arrived(e), NEW n \in 1..Len(got[Other(e)])
                     PROVE  \E k \in 1..Len(sent'[e]) :
                              /\ Carried(sent'[e][k]) /\ Relayable(sent'[e], k) = n
                              /\ got[Other(e)][n] = sent'[e][k]
        BY <1>2 DEF Arrived
      <4>2. PICK k \in 1..Len(s) : /\ Carried(s[k]) /\ Relayable(s, k) = n
                                   /\ got[Other(e)][n] = s[k]
        BY <1>4, <4>1 DEF Arrived
      <4>3. k \in 1..Len(sent'[e]) /\ k \in 0..Len(s) BY <1>5, <3>3
      <4> QED BY <1>5, <3>4, <4>2, <4>3
    <3>7. InHand(e)'
      <4>1. SUFFICES ASSUME hand[e] # NoMessage
                     PROVE  t >= 1 /\ hand[e] = sent'[e][t] /\ Carried(hand[e])
        BY <1>2, <3>2 DEF InHand
      <4>2. t >= 1 /\ hand[e] = s[t] /\ Carried(hand[e]) BY <1>4, <2>0, <2>3, <3>2, <4>1 DEF Follows, InHand
      <4> QED BY <1>5, <3>3, <4>2
    <3>8. t <= Len(sent'[e]) /\ \A k \in 1..t : sent'[e][k] # Eof
      <4>1. \A k \in 1..t : s[k] # Eof /\ k \in 1..Len(s) BY <1>4, <2>0, <2>3, <3>2, <3>3 DEF Follows
      <4> QED BY <1>5, <3>3, <4>1
    <3>9. pump[e].is # "never" => Arrived(e) /\ (Gone(Other(e)) \/ Len(got[Other(e)]) = Relayed(e))
      BY <2>0, <2>3 DEF Follows
    <3>10. Follows(f)' BY <1>2, <2>1, <2>3, <3>2, <3>5, <3>6, <3>7, <3>8, <3>9 DEF Follows
    <3>11. AllTaken(f)' BY <1>2, <2>0, <2>3 DEF AllTaken
    <3> QED BY <3>1, <3>10, <3>11
  <2>4. CASE f # e
    <3>1. sent'[f] = sent[f] BY <1>6, <2>4
    <3>2. GoodbyeIsLast(f)' BY <2>0, <3>1 DEF GoodbyeIsLast
    <3>3. AllTaken(f)' BY <1>2, <2>0, <3>1 DEF AllTaken, Gone
    <3>4. Follows(f)'
      <4>1. Relayed(f)' = Relayed(f) BY <1>2, <3>1 DEF Relayed
      <4>2. InHand(f)' = InHand(f) BY <1>2, <3>1 DEF InHand
      <4>3. Arrived(f)' = Arrived(f)
        <5>1. Len(got'[Other(f)]) = Len(got[Other(f)]) /\ got' = got BY <1>2
        <5> QED BY <3>1, <5>1 DEF Arrived
      <4> QED BY <1>2, <2>0, <2>1, <3>1, <4>1, <4>2, <4>3 DEF Follows
    <3> QED BY <3>2, <3>3, <3>4
  <2> QED BY <2>3, <2>4
<1> QED BY <1>2, <1>7, <1>9 DEF TunnelInv

\* What the end of a task changes.
LEMMA EndOfTask ==
  ASSUME TunnelTyped, NEW e \in Side, NEW why \in {"ended", "refused"}
  PROVE  /\ Ended(e, why) \in [Side -> [is: PumpIs, taken: Nat]]
         /\ Ended(e, why)[e].is = why
         /\ \A f \in Side : Ended(e, why)[f].taken = pump[f].taken
         /\ \A f \in Side \ {e} : Ended(e, why)[f].is \in {pump[f].is, "aborted"}
         /\ \A f \in Side \ {e} : pump[f].is = "never" => Ended(e, why)[f].is = "never"
         /\ e = "client" => Ended(e, why)["upstream"].is # "running"
<1>1. pump \in [Side -> [is: PumpIs, taken: Nat]] BY DEF TunnelTyped
<1>2. CASE e = "client"
  <2>1. PICK was, is : /\ was = pump["upstream"].is
                       /\ is = IF was = "running" THEN "aborted" ELSE was
    OBVIOUS
  <2>2. Ended(e, why) = [pump EXCEPT !["client"].is = why, !["upstream"].is = is]
    BY <1>1, <1>2, <2>1 DEF Ended, Side
  <2>3. was \in PumpIs /\ is \in PumpIs /\ is \in {was, "aborted"} /\ is # "running"
    BY <1>1, <2>1 DEF Side, PumpIs
  <2>4. why \in PumpIs BY DEF PumpIs
  <2> QED BY <1>1, <1>2, <2>1, <2>2, <2>3, <2>4 DEF Side
<1>3. CASE e # "client" BY <1>1, <1>3 DEF Ended, Side, PumpIs
<1> QED BY <1>2, <1>3

LEMMA TakeMessageInv ==
  ASSUME TunnelConstants, TunnelInv, NEW e \in Side, TakeMessage(e)
  PROVE  TunnelInv'
<1>1. TunnelTyped /\ \A f \in Side : GoodbyeIsLast(f) /\ Follows(f) /\ AllTaken(f) BY DEF TunnelInv
<1>2. PICK s, t : s = sent[e] /\ t = pump[e].taken OBVIOUS
<1>3. s \in Seq(Int) /\ t \in Nat /\ Len(s) \in Nat BY <1>1, <1>2 DEF TunnelTyped
<1>4. /\ pump[e].is = "running" /\ hand[e] = NoMessage /\ t < Len(s) /\ UNCHANGED <<sent, got>>
  BY <1>2 DEF TakeMessage, Taken
<1>5. t + 1 \in 1..Len(s) /\ s[t + 1] \in Int BY <1>3, <1>4
<1>6. CASE s[t + 1] = Eof
  <2>1. pump' = Ended(e, "ended") /\ hand' = hand
    BY <1>2, <1>6 DEF TakeMessage, Next1, Taken
  <2>2. /\ pump' \in [Side -> [is: PumpIs, taken: Nat]] /\ pump'[e].is = "ended"
        /\ \A f \in Side : pump'[f].taken = pump[f].taken
        /\ \A f \in Side \ {e} : pump'[f].is \in {pump[f].is, "aborted"}
        /\ \A f \in Side \ {e} : pump[f].is = "never" => pump'[f].is = "never"
        /\ e = "client" => pump'["upstream"].is # "running"
    BY <1>1, <2>1, EndOfTask
  <2>3. TunnelTyped' BY <1>1, <1>4, <2>1, <2>2 DEF TunnelTyped
  <2>4. s[Len(s)] = Eof /\ t + 1 = Len(s) /\ s # <<>>
    BY <1>1, <1>2, <1>3, <1>5, <1>6 DEF GoodbyeIsLast, Goodbye
  <2>5. Gone(e)' BY <1>2, <1>4, <2>4 DEF Gone, Last, Goodbye
  <2>6. AllTaken(e)' BY <1>2, <1>4, <2>1, <2>2, <2>4, <2>5 DEF AllTaken
  <2>7. ASSUME NEW f \in Side PROVE GoodbyeIsLast(f)' /\ Follows(f)'
    <3>1. GoodbyeIsLast(f) /\ Follows(f) BY <1>1
    <3>2. pump'[f].is # "never" => pump[f].is # "never" BY <1>4, <2>2
    <3>3. Relayed(f)' = Relayed(f) BY <1>4, <2>1, <2>2 DEF Relayed
    <3>4. Gone(Other(f))' = Gone(Other(f)) BY <1>4 DEF Gone
    <3>5. InHand(f)' = InHand(f) /\ Arrived(f)' = Arrived(f) BY <1>4, <2>1, <2>2 DEF InHand, Arrived
    <3> QED BY <1>4, <2>1, <2>2, <3>1, <3>2, <3>3, <3>4, <3>5 DEF GoodbyeIsLast, Follows
  <2>8. ASSUME NEW f \in Side \ {e} PROVE AllTaken(f)'
    BY <1>1, <1>4, <2>1, <2>2, <2>8 DEF AllTaken, Gone
  <2>9. pump'["client"].is \in {"ended", "refused"} => pump'["upstream"].is # "running"
    <3>1. CASE e = "client" BY <2>2, <3>1
    <3>2. CASE e # "client"
      <4>1. e = "upstream" BY <3>2 DEF Side
      <4> QED BY <2>2, <4>1
    <3> QED BY <3>1, <3>2
  <2> QED BY <2>3, <2>6, <2>7, <2>8, <2>9 DEF TunnelInv
<1>7. CASE s[t + 1] # Eof
  <2>1. PICK m, p : m = s[t + 1] /\ p = [pump[e] EXCEPT !.taken = t + 1] OBVIOUS
  <2>2. /\ pump' = [pump EXCEPT ![e].taken = t + 1]
        /\ hand' = IF Carried(m) THEN [hand EXCEPT ![e] = m] ELSE hand
    BY <1>1, <1>2, <1>7, <2>1 DEF TakeMessage, Next1, Taken, TunnelTyped
  <2>3. /\ p \in [is: PumpIs, taken: Nat] /\ p.is = "running" /\ p.taken = t + 1
        /\ pump' = [pump EXCEPT ![e] = p]
    <3>1. pump \in [Side -> [is: PumpIs, taken: Nat]] BY <1>1 DEF TunnelTyped
    <3>2. pump[e] \in [is: PumpIs, taken: Nat] BY <3>1
    <3>3. /\ p \in [is: PumpIs, taken: Nat] /\ p.is = "running" /\ p.taken = t + 1
      BY <1>3, <1>4, <2>1, <3>2
    <3>4. pump' = [pump EXCEPT ![e] = p] BY <2>1, <2>2, <3>1
    <3> QED BY <3>3, <3>4
  <2>4. /\ pump' \in [Side -> [is: PumpIs, taken: Nat]] /\ pump'[e] = p
        /\ \A f \in Side \ {e} : pump'[f] = pump[f] /\ hand'[f] = hand[f]
        /\ hand' \in [Side -> Int \cup {NoMessage}] /\ m # NoMessage
        /\ Carried(m) => hand'[e] = m
        /\ ~Carried(m) => hand'[e] = NoMessage
    BY <1>1, <1>4, <1>5, <2>1, <2>2, <2>3 DEF TunnelTyped, TunnelConstants
  <2>5. TunnelTyped' BY <1>1, <1>4, <2>4 DEF TunnelTyped
  <2>6. \A f \in Side : Gone(Other(f))' = Gone(Other(f)) BY <1>4 DEF Gone
  <2>7. Relayed(e)' = Relayed(e)
    <3>1. Relayed(e) = Relayable(s, t) /\ Relayable(s, t) \in Nat
      BY <1>2, <1>3, <1>4, RelayableStep DEF Relayed
    <3>2. pump'[e].taken = t + 1 /\ sent'[e] = s BY <1>2, <1>4, <2>3, <2>4
    <3>3. CASE Carried(m)
      <4>1. Relayable(s, t + 1) = Relayable(s, t) + 1 BY <1>3, <2>1, <3>3, RelayableStep
      <4> QED BY <2>4, <3>1, <3>2, <3>3, <4>1 DEF Relayed
    <3>4. CASE ~Carried(m)
      <4>1. Relayable(s, t + 1) = Relayable(s, t) BY <1>3, <2>1, <3>4, RelayableStep
      <4> QED BY <2>4, <3>1, <3>2, <3>4, <4>1 DEF Relayed
    <3> QED BY <3>3, <3>4
  <2>8. GoodbyeIsLast(e)' /\ AllTaken(e)' BY <1>1, <1>4, <2>3, <2>4 DEF GoodbyeIsLast, AllTaken
  <2>9. Follows(e)'
    <3>1. Follows(e) BY <1>1
    <3>2. \A k \in 1..(t + 1) : s[k] # Eof BY <1>2, <1>3, <1>7, <3>1 DEF Follows
    <3>3. pump'[e].taken = t + 1 /\ t + 1 <= Len(s) /\ s = sent'[e] BY <1>2, <1>4, <1>5, <2>3, <2>4
    <3>4. InHand(e)' BY <1>3, <2>1, <2>4, <3>3 DEF InHand
    <3>5. Arrived(e)' = Arrived(e) BY <1>4 DEF Arrived
    <3>6. pump[e].is # "never" BY <1>4
    <3> QED BY <1>2, <1>4, <2>6, <2>7, <3>1, <3>2, <3>3, <3>4, <3>5, <3>6 DEF Follows
  <2>10. ASSUME NEW f \in Side \ {e} PROVE GoodbyeIsLast(f)' /\ Follows(f)' /\ AllTaken(f)'
    <3>1. GoodbyeIsLast(f) /\ Follows(f) /\ AllTaken(f) BY <1>1
    <3>2. pump'[f] = pump[f] /\ hand'[f] = hand[f] /\ Relayed(f)' = Relayed(f) BY <1>4, <2>4 DEF Relayed
    <3>3. InHand(f)' = InHand(f) /\ Arrived(f)' = Arrived(f) BY <1>4, <3>2 DEF InHand, Arrived
    <3> QED BY <1>4, <2>6, <3>1, <3>2, <3>3 DEF GoodbyeIsLast, Follows, AllTaken, Gone
  <2>11. pump'["client"].is \in {"ended", "refused"} => pump'["upstream"].is # "running"
    <3>1. \A f \in Side : pump'[f].is = pump[f].is BY <1>4, <2>3, <2>4
    <3> QED BY <3>1 DEF TunnelInv, Side
  <2> QED BY <2>5, <2>8, <2>9, <2>10, <2>11 DEF TunnelInv
<1> QED BY <1>6, <1>7

LEMMA DeliverInv ==
  ASSUME TunnelConstants, TunnelInv, NEW e \in Side, Deliver(e)
  PROVE  TunnelInv'
<1>1. TunnelTyped /\ \A f \in Side : GoodbyeIsLast(f) /\ Follows(f) /\ AllTaken(f) BY DEF TunnelInv
<1>2. PICK s, t, m, g :
        s = sent[e] /\ t = pump[e].taken /\ m = hand[e] /\ g = got[Other(e)]
  OBVIOUS
<1>3. /\ s \in Seq(Int) /\ Len(s) \in Nat /\ t \in Nat /\ g \in Seq(Int) /\ Len(g) \in Nat
      /\ Other(e) \in Side
  BY <1>1, <1>2, OtherEnd DEF TunnelTyped
<1>4. /\ pump[e].is = "running" /\ m # NoMessage /\ hand' = [hand EXCEPT ![e] = NoMessage]
      /\ sent' = sent
  BY <1>2 DEF Deliver
<1>5. /\ t <= Len(s) /\ t >= 1 /\ m = s[t] /\ Carried(m) /\ \A k \in 1..t : s[k] # Eof
      /\ Arrived(e)
      /\ Gone(Other(e)) \/ Len(g) = Relayable(s, t) - 1
  BY <1>1, <1>2, <1>3, <1>4 DEF Follows, InHand, Relayed
<1>6. m \in Int BY <1>3, <1>5
<1>7. \/ /\ ~Gone(Other(e)) /\ got' = [got EXCEPT ![Other(e)] = Append(g, m)]
      \/ /\ Gone(Other(e)) /\ got' = got
  BY <1>2 DEF Deliver
<1>8. \/ m # Close /\ (pump' = pump \/ pump' = Ended(e, "refused"))
      \/ m = Close /\ pump' = Ended(e, "ended")
  BY <1>2 DEF Deliver
<1>9. /\ pump' \in [Side -> [is: PumpIs, taken: Nat]]
      /\ \A f \in Side : pump'[f].taken = pump[f].taken
      /\ \A f \in Side \ {e} : pump'[f].is \in {pump[f].is, "aborted"}
      /\ \A f \in Side \ {e} : pump[f].is = "never" => pump'[f].is = "never"
      /\ pump'[e].is = "ended" => m = Close
      /\ pump'[e].is # "never"
      /\ pump'["client"].is \in {"ended", "refused"} => pump'["upstream"].is # "running"
  <2>1. CASE pump' = pump
    <3>1. m # Close \/ pump[e].is # "ended" BY <1>4
    <3> QED BY <1>1, <1>4, <2>1, <3>1 DEF TunnelTyped, TunnelInv
  <2>2. ASSUME NEW why \in {"ended", "refused"}, pump' = Ended(e, why), why = "ended" => m = Close
        PROVE  /\ pump' \in [Side -> [is: PumpIs, taken: Nat]]
               /\ \A f \in Side : pump'[f].taken = pump[f].taken
               /\ \A f \in Side \ {e} : pump'[f].is \in {pump[f].is, "aborted"}
               /\ \A f \in Side \ {e} : pump[f].is = "never" => pump'[f].is = "never"
               /\ pump'[e].is = "ended" => m = Close
               /\ pump'[e].is # "never"
               /\ pump'["client"].is \in {"ended", "refused"} => pump'["upstream"].is # "running"
    <3>1. /\ pump' \in [Side -> [is: PumpIs, taken: Nat]] /\ pump'[e].is = why
          /\ \A f \in Side : pump'[f].taken = pump[f].taken
          /\ \A f \in Side \ {e} : pump'[f].is \in {pump[f].is, "aborted"}
          /\ \A f \in Side \ {e} : pump[f].is = "never" => pump'[f].is = "never"
          /\ e = "client" => pump'["upstream"].is # "running"
      BY <1>1, <2>2, EndOfTask
    <3>2. CASE e = "client" BY <2>2, <3>1, <3>2
    <3>3. CASE e # "client"
      <4>1. e = "upstream" BY <3>3 DEF Side
      <4> QED BY <2>2, <3>1, <4>1
    <3> QED BY <3>2, <3>3
  <2> QED BY <1>8, <2>1, <2>2
<1>10. /\ hand' \in [Side -> Int \cup {NoMessage}] /\ hand'[e] = NoMessage
       /\ \A f \in Side \ {e} : hand'[f] = hand[f]
  BY <1>1, <1>4 DEF TunnelTyped
<1>11. /\ got' \in [Side -> Seq(Int)] /\ \A f \in Side : f # Other(e) => got'[f] = got[f]
       /\ \/ got'[Other(e)] = Append(g, m) /\ ~Gone(Other(e))
          \/ got'[Other(e)] = g /\ Gone(Other(e))
  <2>1. Append(g, m) \in Seq(Int) BY <1>3, <1>6
  <2>2. got \in [Side -> Seq(Int)] BY <1>1 DEF TunnelTyped
  <2>3. CASE ~Gone(Other(e)) /\ got' = [got EXCEPT ![Other(e)] = Append(g, m)]
    BY <1>3, <2>1, <2>2, <2>3
  <2>4. CASE Gone(Other(e)) /\ got' = got BY <1>2, <2>2, <2>4
  <2> QED BY <1>7, <2>3, <2>4
<1>12. TunnelTyped' BY <1>1, <1>4, <1>9, <1>10, <1>11 DEF TunnelTyped
<1>13. \A f \in Side : (Gone(f)' <=> Gone(f)) /\ (GoodbyeIsLast(f)' <=> GoodbyeIsLast(f))
  BY <1>4 DEF Gone, GoodbyeIsLast
<1>14. Follows(e)'
  <2>1. sent'[e] = s /\ pump'[e].taken = t /\ Relayed(e)' = Relayable(s, t)
    BY <1>2, <1>4, <1>9, <1>10 DEF Relayed
  <2>2. Arrived(e)' /\ (Gone(Other(e)) \/ Len(got'[Other(e)]) = Relayable(s, t))
    <3>1. CASE got'[Other(e)] = Append(g, m) /\ ~Gone(Other(e))
      <4>1. Relayable(s, t) \in Nat BY <1>3, RelayableStep
      <4>2. Len(Append(g, m)) = Len(g) + 1 /\ Len(g) + 1 = Relayable(s, t) BY <1>3, <1>5, <1>6, <3>1, <4>1
      <4>3. ASSUME NEW n \in 1..(Len(g) + 1)
            PROVE  \E k \in 1..Len(s) : /\ Carried(s[k]) /\ Relayable(s, k) = n
                                        /\ Append(g, m)[n] = s[k]
        <5>1. CASE n = Len(g) + 1
          <6>1. t \in 1..Len(s) /\ Carried(s[t]) /\ Relayable(s, t) = n BY <1>3, <1>5, <4>2, <5>1
          <6>2. Append(g, m)[n] = s[t] BY <1>3, <1>5, <1>6, <5>1
          <6> QED BY <6>1, <6>2
        <5>2. CASE n # Len(g) + 1
          <6>1. n \in 1..Len(g) BY <1>3, <5>2
          <6>2. Append(g, m)[n] = g[n] BY <1>3, <1>6, <6>1
          <6> QED BY <1>2, <1>5, <6>1, <6>2 DEF Arrived
        <5> QED BY <5>1, <5>2
      <4> QED BY <2>1, <3>1, <4>2, <4>3 DEF Arrived
    <3>2. CASE got'[Other(e)] = g /\ Gone(Other(e)) BY <1>2, <1>5, <2>1, <3>2 DEF Arrived
    <3> QED BY <1>11, <3>1, <3>2
  <2>3. Gone(Other(e))' <=> Gone(Other(e)) BY <1>3, <1>13
  <2> QED BY <1>3, <1>5, <1>10, <2>1, <2>2, <2>3 DEF Follows, InHand
<1>15. AllTaken(e)'
  <2>1. SUFFICES ASSUME m = Close PROVE AllTaken(e)' BY <1>9 DEF AllTaken
  <2>2. t = Len(s)
    <3>1. s[t] \in Goodbye /\ t \in 1..Len(s) BY <1>3, <1>5, <2>1 DEF Goodbye
    <3> QED BY <1>1, <1>2, <3>1 DEF GoodbyeIsLast
  <2>3. Gone(e)
    <3>1. s[Len(s)] = Close BY <1>5, <2>1, <2>2
    <3>2. s # <<>>
      <4>1. Len(<<>>) = 0 OBVIOUS
      <4>2. Len(s) # 0 BY <1>3, <1>5, <2>2
      <4> QED BY <4>1, <4>2
    <3> QED BY <1>2, <3>1, <3>2 DEF Gone, Last, Goodbye
  <2> QED BY <1>2, <1>4, <1>9, <1>10, <1>13, <2>2, <2>3 DEF AllTaken
<1>16. ASSUME NEW f \in Side \ {e} PROVE Follows(f)' /\ AllTaken(f)'
  <2>1. Follows(f) /\ AllTaken(f) BY <1>1
  <2>2. /\ hand'[f] = hand[f] /\ sent'[f] = sent[f] /\ pump'[f].taken = pump[f].taken
        /\ Relayed(f)' = Relayed(f)
    BY <1>4, <1>9, <1>10 DEF Relayed
  <2>3. Other(f) # Other(e) BY OtherEnd, <1>3
  <2>4. got'[Other(f)] = got[Other(f)] /\ (Gone(Other(f))' <=> Gone(Other(f)))
    BY <1>11, <1>13, <2>3, OtherEnd
  <2>5. pump'[f].is # "never" => pump[f].is # "never" BY <1>9
  <2>6. pump'[f].is = "ended" => pump[f].is = "ended" BY <1>9
  <2>7. Follows(f)'
    <3>1. InHand(f)' = InHand(f) /\ Arrived(f)' = Arrived(f) BY <2>2, <2>4 DEF InHand, Arrived
    <3> QED BY <2>1, <2>2, <2>4, <2>5, <3>1 DEF Follows
  <2>8. Gone(f)' <=> Gone(f) BY <1>13
  <2>9. AllTaken(f)' BY <2>1, <2>2, <2>6, <2>8 DEF AllTaken
  <2> QED BY <2>7, <2>9
<1> QED BY <1>1, <1>9, <1>12, <1>13, <1>14, <1>15, <1>16 DEF TunnelInv

LEMMA TunnelStepInv ==
  ASSUME TunnelConstants, TunnelInv, [TunnelNext]_tunnelVars
  PROVE  TunnelInv'
<1>1. CASE UNCHANGED tunnelVars
  BY <1>1 DEF tunnelVars, TunnelInv, TunnelTyped, GoodbyeIsLast, Follows, InHand, Arrived,
              AllTaken, Relayed, Gone
<1>2. ASSUME NEW ok \in BOOLEAN, Connect(ok) PROVE TunnelInv' BY <1>2, ConnectInv
<1>3. ASSUME NEW e \in Side, NEW m \in Goodbye \cup {Part} \cup 1..MaxSent, Send(e, m)
      PROVE  TunnelInv'
  BY <1>3, SendInv
<1>4. ASSUME NEW e \in Side, TakeMessage(e) PROVE TunnelInv' BY <1>4, TakeMessageInv
<1>5. ASSUME NEW e \in Side, Deliver(e) PROVE TunnelInv' BY <1>5, DeliverInv
<1> QED BY <1>1, <1>2, <1>3, <1>4, <1>5 DEF TunnelNext

LEMMA TunnelInvMeans ==
  ASSUME TunnelInv
  PROVE  TunnelRelays
<1>1. SUFFICES ASSUME NEW e \in Side, pump[e].is # "never"
               PROVE  /\ \A n \in DOMAIN got[Other(e)] :
                           \E k \in DOMAIN sent[e] :
                             /\ Carried(sent[e][k]) /\ Relayable(sent[e], k) = n
                             /\ got[Other(e)][n] = sent[e][k]
                      /\ pump[e].is = "ended" =>
                           \/ Len(got[Other(e)]) = Relayable(sent[e], Len(sent[e]))
                           \/ Gone(Other(e))
  BY DEF TunnelInv, TunnelRelays
<1>2. TunnelTyped /\ Follows(e) /\ AllTaken(e) BY DEF TunnelInv
<1>3. PICK s, g, t : s = sent[e] /\ g = got[Other(e)] /\ t = pump[e].taken OBVIOUS
<1>4. s \in Seq(Int) /\ g \in Seq(Int) /\ Len(s) \in Nat /\ Len(g) \in Nat /\ t \in Nat
  BY <1>2, <1>3, OtherEnd DEF TunnelTyped
<1>5. Arrived(e) /\ (Gone(Other(e)) \/ Len(g) = Relayed(e)) BY <1>1, <1>2, <1>3 DEF Follows
<1>6. DOMAIN s = 1..Len(s) /\ DOMAIN g = 1..Len(g) BY <1>4
<1>7. ASSUME pump[e].is = "ended", ~Gone(Other(e)) PROVE Len(g) = Relayable(s, Len(s))
  <2>1. Len(g) = Relayable(s, t) BY <1>2, <1>3, <1>5, <1>7 DEF AllTaken, Relayed
  <2>2. t = Len(s) \/ (t + 1 = Len(s) /\ s[Len(s)] = Eof) BY <1>2, <1>3, <1>7 DEF AllTaken
  <2>3. s[t + 1] = Eof => Relayable(s, t + 1) = Relayable(s, t) BY <1>4, RelayableStep DEF Carried
  <2> QED BY <2>1, <2>2, <2>3
<1> QED BY <1>3, <1>5, <1>6, <1>7 DEF Arrived

\* What an end receives is, in order and without a gap, what the other sent but for
\* frames of fragmented messages, which both tasks drop; all the rest of it once the
\* relaying task ended by itself and the receiver stayed; the client's task takes the
\* other along.
THEOREM TunnelsRelayInOrder ==
  ASSUME TunnelConstants
  PROVE  TunnelSpec => []TunnelRelays
<1>1. TunnelInit => TunnelInv BY TunnelInitInv
<1>2. TunnelInv /\ [TunnelNext]_tunnelVars => TunnelInv' BY TunnelStepInv
<1>3. TunnelInv => TunnelRelays BY TunnelInvMeans
<1> QED BY <1>1, <1>2, <1>3, PTL DEF TunnelSpec

-----------------------------------------------------------------------------
(* The type invariants, and the bounds they name.                            *)
\* A quota is counted no further than the model's bound.
LEMMA QuotaTypesInit == MaxCount \in Nat /\ QuotaInit => QuotaTypeOK
BY DEF QuotaInit, QuotaTypeOK

LEMMA QuotaTypesStep ==
  ASSUME MaxCount \in Nat, QuotaConstants, QuotaTypeOK, [QuotaNext]_quotaVars
  PROVE  QuotaTypeOK'
<1> USE DEF QuotaTypeOK, QuotaConstants
<1>1. ASSUME NEW s \in Served, RecordRequest(s) PROVE QuotaTypeOK'
  <2>1. serving[s] \in Tenant BY <1>1 DEF RecordRequest
  <2>2. daily[serving[s]] + 1 \in 0..MaxCount BY <1>1, <2>1 DEF RecordRequest
  <2> QED BY <1>1, <2>1, <2>2 DEF RecordRequest
<1>2. ASSUME NEW s \in Served, NEW t \in Tenant, Serve(s, t) PROVE QuotaTypeOK'
  BY <1>2 DEF Serve
<1>3. StartReset => QuotaTypeOK' BY DEF StartReset
<1>4. ASSUME NEW t \in Tenant, ResetOne(t) PROVE QuotaTypeOK' BY <1>4 DEF ResetOne
<1>5. UNCHANGED quotaVars => QuotaTypeOK' BY DEF quotaVars
<1> QED BY <1>1, <1>2, <1>3, <1>4, <1>5 DEF QuotaNext

\* An entry of the edge cache ages until it is found to be too old.
LEMMA EdgeTypesInit ==
  ASSUME Ttl \in Nat, EdgeInit
  PROVE  EdgeTypeOK
<1>1. \A u \in User : user[u].step = "away" BY DEF EdgeInit, Away
<1>2. entries \in [Key -> {NoEntry}] BY DEF EdgeInit
<1> QED BY <1>1, <1>2 DEF EdgeInit, EdgeTypeOK

LEMMA EdgeTypesStep ==
  ASSUME Ttl \in Nat, EdgeConstants, EdgeInv, EdgeTypeOK, [EdgeNext]_edgeVars
  PROVE  EdgeTypeOK'
<1>1. CacheTyped /\ CacheTyped'
  BY EdgeStepInv DEF EdgeInv
<1>2. /\ overlapped' \in BOOLEAN
      /\ \A u \in User : user'[u].step \in {"away", "drop", "evict", "insert"}
  BY <1>1 DEF CacheTyped, Calls
<1> DEFINE Entries == [Key -> [etag: Etag, age: 0..Ttl + 1] \cup {NoEntry}]
<1>3. entries' \in Entries
  <2>0. entries \in Entries BY DEF EdgeTypeOK
  <2>1. ASSUME NEW u \in User, DropExpired(u) PROVE entries' \in Entries
    BY <2>0, <2>1 DEF DropExpired
  <2>2. ASSUME NEW u \in User, EvictOldest(u) PROVE entries' \in Entries
    BY <2>0, <2>2 DEF EvictOldest
  <2>3. ASSUME NEW u \in User, InsertEdge(u) PROVE entries' \in Entries
    <3>1. [etag |-> user[u].etag, age |-> 0] \in [etag: Etag, age: 0..Ttl + 1]
      BY <1>1, <2>3 DEF CacheTyped, InsertEdge
    <3> QED BY <2>0, <2>3, <3>1 DEF InsertEdge
  <2>4. EdgeSecond => entries' \in Entries
    <3> SUFFICES ASSUME EdgeSecond, NEW k \in Key
                 PROVE  entries'[k] \in [etag: Etag, age: 0..Ttl + 1] \cup {NoEntry}
      BY DEF EdgeSecond
    <3>1. CASE entries[k] = NoEntry \/ entries[k].age > Ttl BY <2>0, <3>1 DEF EdgeSecond
    <3>2. CASE ~(entries[k] = NoEntry \/ entries[k].age > Ttl)
      <4>1. entries[k] \in [etag: Etag, age: 0..Ttl + 1] BY <2>0, <3>2
      <4>2. [entries[k] EXCEPT !.age = @ + 1] \in [etag: Etag, age: 0..Ttl + 1] BY <3>2, <4>1
      <4> QED BY <3>2, <4>2 DEF EdgeSecond
    <3> QED BY <3>1, <3>2
  <2>5. ClearEdge => entries' \in Entries BY DEF ClearEdge
  <2>6. ASSUME UNCHANGED entries PROVE entries' \in Entries BY <2>0, <2>6
  <2> QED BY <2>1, <2>2, <2>3, <2>4, <2>5, <2>6
          DEF EdgeNext, CheckEdge, StoreEdge, edgeVars
<1> QED BY <1>2, <1>3 DEF EdgeTypeOK

LEMMA ProviderTypes == ProviderInv => IntrospectionTypeOK
BY DEF ProviderInv, ProviderTyped
LEMMA PinTypes == PinInv => PinTypeOK
BY DEF PinInv, PinTyped, PinTypeOK, Lookups

\* What PipelineTypeOK bounds: how often a request is sent, and the changes of the
\* cache's settings that have still to clear it.
SendsAreFew(r) ==
  req[r].sends <= MaxRetries + 1 /\ (req[r].step = "send" => req[r].sends <= MaxRetries)
PipelineBounds ==
  /\ switches \in 0..MaxSwitches /\ clearing <= switches /\ audited \subseteq Request
  /\ \A r \in Request : SendsAreFew(r)

LEMMA PipelineBoundsInit ==
  ASSUME PipelineConstants, MaxSwitches \in Nat, PipelineInit
  PROVE  PipelineBounds
BY DEF PipelineConstants, PipelineInit, PipelineBounds, SendsAreFew, Ready

LEMMA PipelineBoundsStep ==
  ASSUME PipelineConstants, MaxSwitches \in Nat, PipelineInv, PipelineBounds,
         [PipelineNext]_pipelineVars
  PROVE  PipelineBounds'
<1>0. /\ req \in [Request -> RequestState] /\ clearing \in Nat /\ MaxRetries \in Nat
      /\ switches \in 0..MaxSwitches /\ clearing <= switches /\ audited \subseteq Request
      /\ \A r \in Request : SendsAreFew(r)
  BY DEF PipelineConstants, PipelineInv, PipelineTyped, PipelineBounds
<1>t. \A r \in Request : req[r].sends \in Nat /\ req[r] \in RequestState
  BY <1>0 DEF RequestState
<1>1. ASSUME NEW r \in Request, NEW new, req' = [req EXCEPT ![r] = new], UNCHANGED <<clearing, switches>>,
             audited' \subseteq Request,
             new.sends <= MaxRetries + 1, new.step = "send" => new.sends <= MaxRetries
      PROVE  PipelineBounds'
  <2>1. \A q \in Request : req'[q] = IF q = r THEN new ELSE req[q] BY <1>0, <1>1
  <2> QED BY <1>0, <1>1, <2>1 DEF PipelineBounds, SendsAreFew
<1>2. ASSUME NEW r \in Request, NEW how, how # "send", End(r, how), UNCHANGED <<clearing, switches>>,
             audited' \subseteq Request
      PROVE  PipelineBounds'
  <2> DEFINE new == [Ready EXCEPT !.step = how]
  <2>1. new.sends = 0 /\ new.step = how BY DEF Ready
  <2>2. req' = [req EXCEPT ![r] = new] BY <1>2 DEF End
  <2> HIDE DEF new
  <2>3. new.sends <= MaxRetries + 1 /\ new.step # "send" BY <1>0, <1>2, <2>1
  <2> QED BY <1>1, <1>2, <2>2, <2>3
<1>3. ASSUME NEW r \in Request, Step(r) PROVE PipelineBounds'
  <2> USE <1>0, <1>t
  <2>1. ASSUME NEW m \in Method, NEW c \in BOOLEAN, NEW p \in BOOLEAN, Arrive(r, m, c, p)
        PROVE  PipelineBounds'
    <3> DEFINE new == [Ready EXCEPT !.step = "admitted", !.method = m, !.plain = p, !.cached = c]
    <3>1. new.sends = 0 /\ new.step = "admitted" BY DEF Ready
    <3>2. req' = [req EXCEPT ![r] = new] /\ UNCHANGED <<clearing, switches, audited>> BY <2>1 DEF Arrive
    <3> HIDE DEF new
    <3>3. new.sends <= MaxRetries + 1 /\ new.step # "send" /\ audited' \subseteq Request BY <3>1, <3>2
    <3> QED BY <1>1, <3>2, <3>3
  <2>2. Refuse(r) \/ GetHit(r) \/ Vanish(r) => PipelineBounds'
    BY <1>2 DEF Refuse, GetHit, Vanish
  <2>3. ASSUME req[r].step # "send" \/ req[r].sends <= MaxRetries, NEW s, NEW a,
               s = "send" => req[r].sends <= MaxRetries,
               UNCHANGED <<clearing, switches, audited>>,
               \/ req' = [req EXCEPT ![r].step = s]
               \/ req' = [req EXCEPT ![r].step = s, ![r].answer = a]
        PROVE  PipelineBounds'
    <3>1. CASE req' = [req EXCEPT ![r].step = s]
      <4> DEFINE new == [req[r] EXCEPT !.step = s]
      <4>1. new.sends = req[r].sends /\ new.step = s BY DEF RequestState
      <4>2. req' = [req EXCEPT ![r] = new] BY <3>1
      <4> HIDE DEF new
      <4> QED BY <1>1, <2>3, <4>1, <4>2 DEF SendsAreFew
    <3>2. CASE req' = [req EXCEPT ![r].step = s, ![r].answer = a]
      <4> DEFINE new == [req[r] EXCEPT !.step = s, !.answer = a]
      <4>1. new.sends = req[r].sends /\ new.step = s BY DEF RequestState
      <4>2. req' = [req EXCEPT ![r] = new] BY <3>2
      <4> HIDE DEF new
      <4> QED BY <1>1, <2>3, <4>1, <4>2 DEF SendsAreFew
    <3> QED BY <2>3, <3>1, <3>2
  <2>4. ASSUME GetMiss(r) PROVE PipelineBounds'
    <3>1. req[r].sends = 0 BY <2>4 DEF PipelineInv, InFlight, Sends, GetMiss
    <3>2. req' = [req EXCEPT ![r].step = "send"] /\ UNCHANGED <<clearing, switches, audited>>
      BY <2>4 DEF GetMiss
    <3>3. req[r].sends <= MaxRetries BY <3>1
    <3>4. PICK s : s = "send" OBVIOUS
    <3>5. req' = [req EXCEPT ![r].step = s] BY <3>2, <3>4
    <3> QED BY <2>3, <3>2, <3>3, <3>5
  <2>5. Settle(r) \/ Put(r) => PipelineBounds'
    BY <2>3 DEF Settle, Put
  <2>6. ASSUME NEW b \in BOOLEAN, Hook(r, b) PROVE PipelineBounds'
    <3>1. CASE b BY <1>2, <2>6, <3>1 DEF Hook
    <3>2. CASE ~b BY <2>3, <2>6, <3>2 DEF Hook
    <3> QED BY <3>1, <3>2
  <2>7. Observe(r) => PipelineBounds'
    BY <1>2 DEF Observe
  <2>8. ASSUME NEW k \in Kind, NEW v \in BOOLEAN, Attempt(r, k, v) PROVE PipelineBounds'
    <3>1. PICK s, a : /\ req' = [req EXCEPT ![r].sends = @ + 1, ![r].step = s, ![r].answer = a]
                      /\ s = IF TriesAgain(r, k) THEN req[r].step ELSE "answered"
      BY <2>8 DEF Attempt
    <3> DEFINE new == [req[r] EXCEPT !.sends = @ + 1, !.step = s, !.answer = a]
    <3>2. new.sends = req[r].sends + 1 /\ new.step = s BY DEF RequestState
    <3>3. req' = [req EXCEPT ![r] = new] BY <3>1
    <3>4. req[r].step = "send" /\ req[r].sends <= MaxRetries /\ UNCHANGED <<clearing, switches, audited>>
      BY <2>8 DEF Attempt, SendsAreFew
    <3>5. s = "send" => req[r].sends < MaxRetries BY <3>1 DEF TriesAgain
    <3> HIDE DEF new
    <3>6. new.sends <= MaxRetries + 1 /\ (new.step = "send" => new.sends <= MaxRetries)
      BY <3>2, <3>4, <3>5
    <3>7. audited' \subseteq Request BY <3>4
    <3> QED BY <1>1, <3>3, <3>4, <3>6, <3>7
  <2> QED BY <1>3, <2>1, <2>2, <2>4, <2>5, <2>6, <2>7, <2>8 DEF Step
<1>4. ASSUME Tick \/ SwitchOff \/ Clear \/ SwitchOn \/ Forget \/ (\E t \in Ttls : SetTtl(t))
      PROVE  PipelineBounds'
  <2>1. ASSUME NEW r \in Request PROVE req'[r].sends = req[r].sends /\ req'[r].step = req[r].step
    <3>1. req[r] \in RequestState BY <1>t
    <3>2. Tick => req'[r].sends = req[r].sends /\ req'[r].step = req[r].step
      BY <3>1 DEF Tick, RequestState
    <3>3. SwitchOff => req'[r].sends = req[r].sends /\ req'[r].step = req[r].step
      BY <3>1 DEF SwitchOff, RequestState
    <3> QED BY <1>4, <3>2, <3>3 DEF Clear, SwitchOn, Forget, SetTtl
  <2>2. switches' \in 0..MaxSwitches /\ clearing' <= switches' /\ audited' = audited
    BY <1>0, <1>4 DEF Tick, SwitchOff, Clear, SwitchOn, Forget, SetTtl, Switching
  <2> QED BY <1>0, <2>1, <2>2 DEF PipelineBounds, SendsAreFew
<1>5. UNCHANGED pipelineVars => PipelineBounds'
  BY DEF pipelineVars, PipelineBounds, SendsAreFew
<1> QED BY <1>3, <1>4, <1>5 DEF PipelineNext

LEMMA PipelineTypes ==
  ASSUME PipelineConstants, MaxSwitches \in Nat, PipelineInv, PipelineBounds
  PROVE  PipelineTypeOK
<1>1. PipelineTyped /\ open = Cardinality(Connected) BY DEF PipelineInv
<1>2. IsFiniteSet(Connected) /\ Cardinality(Connected) <= Cardinality(Request)
  BY FS_Subset DEF PipelineConstants, Connected
<1>3. open \in 0..Cardinality(Request)
  BY <1>1, <1>2, FS_CardinalityType DEF PipelineConstants
<1>4. ASSUME NEW r \in Request
      PROVE  /\ req[r].step \in Steps /\ req[r].method \in Method \cup {None}
             /\ req[r].answer # None => req[r].answer \in Answer
             /\ req[r].sends \in 0..MaxRetries + 1
  <2>1. req[r] \in RequestState BY <1>1 DEF PipelineTyped
  <2> QED BY <2>1 DEF RequestState, PipelineBounds, SendsAreFew, PipelineConstants
<1> QED BY <1>1, <1>3, <1>4 DEF PipelineTyped, PipelineBounds, PipelineTypeOK

\* What TunnelTypeOK bounds: what the ends say, and how much of it.
Said == Goodbye \cup {Part} \cup 1..MaxSent
TunnelBounds ==
  \A e \in Side : /\ Len(sent[e]) <= MaxSent
                  /\ \A k \in 1..Len(sent[e]) : sent[e][k] \in Said
                  /\ \A k \in 1..Len(got[e]) : got[e][k] \in Said

LEMMA TunnelBoundsInit == MaxSent \in Nat /\ TunnelInit => TunnelBounds
BY DEF TunnelInit, TunnelBounds

LEMMA AppendSaid ==
  ASSUME NEW s \in Seq(Int), NEW m \in Said, m \in Int, \A k \in 1..Len(s) : s[k] \in Said
  PROVE  /\ Len(Append(s, m)) = Len(s) + 1
         /\ \A k \in 1..Len(Append(s, m)) : Append(s, m)[k] \in Said
OBVIOUS

LEMMA TunnelBoundsStep ==
  ASSUME MaxSent \in Nat, TunnelInv, TunnelBounds, [TunnelNext]_tunnelVars
  PROVE  TunnelBounds'
<1>1. /\ sent \in [Side -> Seq(Int)] /\ got \in [Side -> Seq(Int)] /\ Said \subseteq Int
      /\ \A e \in Side : Other(e) \in Side
      /\ \A e \in Side : /\ Len(sent[e]) \in Nat /\ Len(sent[e]) <= MaxSent
                         /\ \A k \in 1..Len(sent[e]) : sent[e][k] \in Said
                         /\ \A k \in 1..Len(got[e]) : got[e][k] \in Said
  BY OtherEnd DEF TunnelInv, TunnelTyped, TunnelBounds, Said, Goodbye, Close, Part, Eof
<1>2. ASSUME sent' = sent, NEW e \in Side, NEW m \in Said,
             got' = got \/ got' = [got EXCEPT ![e] = Append(got[e], m)]
      PROVE  TunnelBounds'
  <2>1. got[e] \in Seq(Int) /\ m \in Int BY <1>1
  <2>2. \A k \in 1..Len(Append(got[e], m)) : Append(got[e], m)[k] \in Said
    BY <1>1, <2>1, AppendSaid
  <2>3. \A f \in Side : got'[f] = got[f] \/ got'[f] = Append(got[e], m) BY <1>1, <1>2
  <2> QED BY <1>1, <1>2, <2>2, <2>3 DEF TunnelBounds
<1>3. ASSUME NEW ok \in BOOLEAN, Connect(ok) PROVE TunnelBounds'
  <2>1. "client" \in Side /\ Close \in Said BY DEF Side, Said, Goodbye
  <2> QED BY <1>2, <1>3, <2>1 DEF Connect
<1>4. ASSUME NEW e \in Side, NEW m \in Said, Send(e, m) PROVE TunnelBounds'
  <2>1. /\ sent[e] \in Seq(Int) /\ m \in Int /\ Len(sent[e]) < MaxSent
        /\ sent' = [sent EXCEPT ![e] = Append(sent[e], m)] /\ got' = got
    BY <1>1, <1>4 DEF Send
  <2>2. /\ Len(Append(sent[e], m)) = Len(sent[e]) + 1
        /\ \A k \in 1..Len(Append(sent[e], m)) : Append(sent[e], m)[k] \in Said
    BY <1>1, <2>1, AppendSaid
  <2>3. Len(Append(sent[e], m)) <= MaxSent BY <1>1, <2>1, <2>2
  <2>4. \A f \in Side : sent'[f] = sent[f] \/ sent'[f] = Append(sent[e], m) BY <1>1, <2>1
  <2> QED BY <1>1, <2>1, <2>2, <2>3, <2>4 DEF TunnelBounds
<1>5. ASSUME NEW e \in Side, TakeMessage(e) PROVE TunnelBounds'
  BY <1>1, <1>5 DEF TakeMessage, TunnelBounds
<1>6. ASSUME NEW e \in Side, Deliver(e) PROVE TunnelBounds'
  <2>1. hand[e] # NoMessage /\ sent' = sent BY <1>6 DEF Deliver
  <2>2. hand[e] = sent[e][pump[e].taken] /\ pump[e].taken \in 1..Len(sent[e])
    BY <1>1, <2>1 DEF TunnelInv, TunnelTyped, Follows, InHand
  <2>3. hand[e] \in Said /\ Other(e) \in Side BY <1>1, <2>2
  <2> QED BY <1>2, <1>6, <2>1, <2>3 DEF Deliver
<1>7. UNCHANGED tunnelVars => TunnelBounds' BY <1>1 DEF tunnelVars, TunnelBounds
<1> QED BY <1>3, <1>4, <1>5, <1>6, <1>7 DEF TunnelNext, Said

LEMMA TunnelTypes ==
  ASSUME MaxSent \in Nat, TunnelInv, TunnelBounds
  PROVE  TunnelTypeOK
<1>1. ASSUME NEW e \in Side
      PROVE  /\ ToSet(sent[e]) \cup ToSet(got[e]) \subseteq Said
             /\ pump[e].taken \in 0..MaxSent
             /\ hand[e] \in {Close, NoMessage} \cup 1..MaxSent
  <2>1. /\ sent[e] \in Seq(Int) /\ got[e] \in Seq(Int) /\ pump[e].taken \in Nat /\ Len(sent[e]) \in Nat
    BY DEF TunnelInv, TunnelTyped
  <2>2. /\ Len(sent[e]) <= MaxSent /\ pump[e].taken <= Len(sent[e])
        /\ \A k \in 1..Len(sent[e]) : sent[e][k] \in Said
        /\ \A k \in 1..Len(got[e]) : got[e][k] \in Said
    BY DEF TunnelInv, TunnelBounds, Follows
  <2>3. ToSet(sent[e]) \subseteq Said /\ ToSet(got[e]) \subseteq Said
    <3>1. DOMAIN sent[e] = 1..Len(sent[e]) /\ DOMAIN got[e] = 1..Len(got[e]) BY <2>1
    <3> QED BY <2>2, <3>1, Zenon DEF ToSet
  <2>4. pump[e].taken \in 0..MaxSent BY <2>1, <2>2
  <2>5. CASE hand[e] = NoMessage BY <2>3, <2>4, <2>5
  <2>6. CASE hand[e] # NoMessage
    <3>1. hand[e] = sent[e][pump[e].taken] /\ pump[e].taken >= 1 /\ Carried(hand[e])
      BY <2>6 DEF TunnelInv, Follows, InHand
    <3>2. pump[e].taken \in 1..Len(sent[e]) BY <2>1, <2>2, <3>1
    <3>3. hand[e] \in Said /\ hand[e] \notin {Part, Eof} BY <2>2, <3>1, <3>2 DEF Carried
    <3> QED BY <2>3, <2>4, <3>3 DEF Said, Goodbye
  <2> QED BY <2>5, <2>6
<1>2. pump \in [Side -> [is: PumpIs, taken: 0..MaxSent]]
  <2>1. pump \in [Side -> [is: PumpIs, taken: Nat]] BY DEF TunnelInv, TunnelTyped
  <2>2. \A e \in Side : pump[e] \in [is: PumpIs, taken: 0..MaxSent] BY <1>1, <2>1
  <2> QED BY <2>1, <2>2
<1> QED BY <1>1, <1>2 DEF TunnelTypeOK, PumpIs, Said

\* The counters with their types, ...
LEMMA QuotaKept ==
  ASSUME QuotaConstants, MaxCount \in Nat
  PROVE  /\ QuotaInit => QuotaInv /\ QuotaTypeOK
         /\ QuotaInv /\ QuotaTypeOK /\ [QuotaNext]_quotaVars => (QuotaInv /\ QuotaTypeOK)'
         /\ QuotaInv /\ QuotaTypeOK => QuotaTypeOK /\ QuotaOvershoot
BY QuotaInitInv, QuotaStepInv, QuotaInvMeans, QuotaTypesInit, QuotaTypesStep

\* ... the cache at the edge, ...
LEMMA EdgeKept ==
  ASSUME EdgeConstants, Ttl \in Nat
  PROVE  /\ EdgeInit => EdgeInv /\ EdgeTypeOK
         /\ EdgeInv /\ EdgeTypeOK /\ [EdgeNext]_edgeVars => (EdgeInv /\ EdgeTypeOK)'
         /\ EdgeInv /\ EdgeTypeOK => EdgeTypeOK /\ EdgeBound
BY EdgeInitInv, EdgeStepInv, EdgeInvMeans, EdgeTypesInit, EdgeTypesStep

\* ... a request's way, ...
LEMMA PipelineKept ==
  ASSUME PipelineConstants, MaxSwitches \in Nat
  PROVE  /\ PipelineInit => PipelineInv /\ PipelineBounds
         /\ PipelineInv /\ PipelineBounds /\ [PipelineNext]_pipelineVars => (PipelineInv /\ PipelineBounds)'
         /\ PipelineInv /\ PipelineBounds => PipelineTypeOK /\ CacheIsCurrent /\ SentOnce
BY PipelineInitInv, PipelineStepInv, PipelineInvMeans, PipelineBoundsInit, PipelineBoundsStep, PipelineTypes

\* ... and the tunnel.
LEMMA TunnelKept ==
  ASSUME TunnelConstants, MaxSent \in Nat
  PROVE  /\ TunnelInit => TunnelInv /\ TunnelBounds
         /\ TunnelInv /\ TunnelBounds /\ [TunnelNext]_tunnelVars => (TunnelInv /\ TunnelBounds)'
         /\ TunnelInv /\ TunnelBounds => TunnelTypeOK /\ TunnelRelays
BY TunnelInitInv, TunnelStepInv, TunnelInvMeans, TunnelBoundsInit, TunnelBoundsStep, TunnelTypes

=============================================================================
