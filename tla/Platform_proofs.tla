-------------------------- MODULE Platform_proofs --------------------------
(* What is proved of the components for every value of their constants holds *)
(* of the parts they play side by side, for any number of workers A and B.   *)
(* The lemmas named ...Reads say that the definitions of a part are those of *)
(* the proofs about it, at the part's registers and constants.               *)
EXTENDS MCPlatform, FiniteSetTheorems, TLAPS

\* The workers are finitely many, and none is the bus subscriber or the config sync;
\* None is no value of the program's.
PlatformConstants ==
  /\ IsFiniteSet(A \cup B)
  /\ None \notin Nat \cup {"small", "free", "Valid", "Invalid", "Error", "p", "q", "n", "m"}
  /\ None \notin Services!Row \cup Services!Entry \cup Health!Row \cup Health!Entry
                 \cup Round!Row \cup Round!Entry
  /\ None \notin B \cup {"AB", "ab", "viewer"} \cup Accounts!Account
  /\ None \notin Int \cup Handler!Answer \cup Handler!Method
  /\ None \notin [varies: BOOLEAN, age: Nat, stored: Nat, epoch: Nat, late: BOOLEAN]
  /\ None \notin {"e", "f", "g"} \cup [entry: {"e", "f", "g"}, at: Trail!SinkNo] \cup Logs!Ingesting
  /\ None \notin [step: {"fetch", "tell", "merge"}, last: 0..3, found: 0..3]
  /\ None \notin [count: Nat, age: Nat] \cup [key: Hops, max: Nat, window: Nat, age: Nat]
  /\ None \notin Proxied \cup {"mail", "chat", "url", "other"}
  /\ None \notin Doors!Areas \cup Configuration!Config
  /\ {"bus", "sync"} \cap A = {} /\ None \notin {"r", "s", "bad"}

\* A step is one of the part's own, and the part stays.
LEMMA OnePartMoves ==
  ASSUME [Next]_<<part, registers>>
  PROVE  /\ part' = part
         /\ part = "services" => [Services!RegistryNext]_Services!registryVars
         /\ part = "health" => [Health!HealthNext]_<<Health!registryVars, Health!healthVars>>
         /\ part = "round" => [Round!HealthNext]_<<Round!registryVars, Round!healthVars>>
         /\ part = "cron" => [Scheduler!CronNext]_Scheduler!cronVars
         /\ part = "flow" => [Flow!FlowNext]_Flow!flowVars
         /\ part = "queue" => [Queue!QueueNext]_Queue!queueVars
         /\ part = "edge" => [Edge!EdgeNext]_Edge!edgeVars
         /\ part = "provider" => [Provider!IntrospectionNext]_Provider!introspectionVars
         /\ part = "tenants" => [Tenants!QuotaNext]_Tenants!quotaVars
         /\ part = "guard" => [Guard!PinNext]_Guard!pinVars
         /\ part = "redis" => [Redis!SharedNext]_Redis!sharedVars
         /\ part = "waf" => [Waf!Next]_Waf!vars
         /\ part = "rates" => [Rates!LimiterNext]_Rates!limiterVars
         /\ part = "headers" => [Headers!LimiterNext]_Headers!limiterVars
         /\ part = "handler" => [Handler!PipelineNext]_Handler!pipelineVars
         /\ part = "websocket" => [WebSocket!TunnelNext]_WebSocket!tunnelVars
         /\ part = "trail" => [Trail!TrailNext]_Trail!trailVars
         /\ part = "logs" => [Logs!LogNext]_Logs!logVars
         /\ part = "feed" => [Feed!FeedNext]_Feed!feedVars
         /\ part = "hooks" => [Hooks!NotifyNext]_Hooks!notifyVars
         /\ part = "alerts" => [Alerts!NotifyNext]_Alerts!notifyVars
         /\ part = "settings" => [Configuration!SettingsNext]_Configuration!settingsVars
         /\ part = "rollout" => [Deployment!RolloutNext]_Deployment!rolloutVars
         /\ part = "doors" => [Doors!AccessNext]_Doors!accessVars
         /\ part = "accounts" => [Accounts!Next]_Accounts!vars
<1>1. CASE Next
  BY <1>1 DEF Next, After9, After8, After7, After6, After5, After4, After3
<1>2. CASE UNCHANGED <<part, registers>>
  BY <1>2
     DEF registers, Services!registryVars, Health!registryVars, Health!healthVars,
         Round!registryVars, Round!healthVars, Scheduler!cronVars, Flow!flowVars, Queue!queueVars, Edge!edgeVars,
         Provider!introspectionVars, Tenants!quotaVars, Guard!pinVars, Redis!sharedVars,
         Accounts!vars, Accounts!accounts, Accounts!history, Waf!vars,
         Rates!limiterVars, Headers!limiterVars, Handler!pipelineVars, WebSocket!tunnelVars, Trail!trailVars,
         Logs!logVars, Feed!feedVars,
         Hooks!notifyVars, Alerts!notifyVars, Configuration!settingsVars, Deployment!rolloutVars, Doors!accessVars
<1> QED BY <1>1, <1>2

-----------------------------------------------------------------------------
(* The gates.                                                                *)
Gates == INSTANCE Gates_proofs WITH
  enabled <- x1, depth <- x2, place <- x3, permits <- x4, leaving <- x5, abandoned <- x6,
  Client <- A \cup B, MaxConcurrent <- 1, MaxAbandoned <- 1, MaxLeaving <- 3,
  entries <- x1, user <- x2, overlapped <- x3,
  Key <- {"k", "l", "m"}, User <- A, MaxEntries <- 2, Ttl <- 1, Etag <- {"e"}, NoEntry <- None,
  granted <- x1, revokedFor <- x2, tokenCache <- x3, asker <- x4, verdict <- x5,
  Asker <- A, CacheTtl <- 2, MaxFlight <- 2, Nil <- None,
  daily <- x1, serving <- x2, resets <- x3,
  Tenant <- {"small", "free"}, Quotas <- QuotaOf, Served <- 1..3, MaxCount <- 5, NoQuota <- None,
  dns <- x1, goneFor <- x2, pinned <- x3, resolver <- x4, handed <- x5,
  Address <- {1, 2, 3}, Class <- ClassOf, Resolver <- A, PinTtl <- 2, MaxLookup <- 1, NoPin <- None,
  key <- x1, call <- x2, admitted <- x3, unset <- x4,
  Gateway <- A, MaxRequests <- 2, Window <- 3, MaxCounted <- 4,
  limit <- x1, proxies <- x2, trustXff <- x3, bucket <- x4, counting <- x5, reloads <- x6,
  passed <- x7,
  Addr <- Proxied, Proxies <- SUBSET Proxied, Chains <- UNION {[1..n -> Hops] : n \in 0..3},
  Traffic <- {}, Limits <- Windows, Workers <- A, MaxDelay <- 1, MaxReloads <- 1,
  Junk <- "junk", Nobody <- None,
  req <- x1, cache <- x2, cacheOn <- x3, ttl <- x4, clearing <- x5, switches <- x6, offs <- x7,
  open <- x8, audited <- x9,
  Request <- A, MaxRetries <- 1, Ttls <- {1, 2}, MaxHold <- 1, MaxSwitches <- 2, Transforms <- FALSE,
  sent <- x1, got <- x2, pump <- x3, hand <- x4, MaxSent <- 4, NoMessage <- None

LEMMA QueueReads ==
  /\ Queue!QueueInit <=> Gates!QueueInit
  /\ [Queue!QueueNext]_Queue!queueVars <=> [Gates!QueueNext]_Gates!queueVars
  /\ Queue!DepthIsExplained <=> Gates!DepthIsExplained
  /\ Queue!QueueTypeOK <=> Gates!QueueTypeOK
<1>1. Queue!QueueInit <=> Gates!QueueInit
  BY Zenon
     DEF Queue!QueueInit, Gates!QueueInit
<1>2. [Queue!QueueNext]_Queue!queueVars <=> [Gates!QueueNext]_Gates!queueVars
  BY Zenon
     DEF Queue!QueueNext, Gates!QueueNext, Queue!Enqueue, Gates!Enqueue, Queue!Full, Gates!Full,
         Queue!GetPermit, Gates!GetPermit, Queue!TimeOut, Gates!TimeOut, Queue!CountRefusal,
         Gates!CountRefusal, Queue!Abandon, Gates!Abandon, Queue!DropPermit, Gates!DropPermit,
         Queue!Leave, Gates!Leave, Queue!queueVars, Gates!queueVars
<1>3. Queue!DepthIsExplained <=> Gates!DepthIsExplained
  BY Zenon
     DEF Queue!DepthIsExplained, Gates!DepthIsExplained, Queue!Cardinality, Gates!Cardinality,
         Queue!In, Gates!In
<1>4. Queue!QueueTypeOK <=> Gates!QueueTypeOK
  BY Zenon
     DEF Queue!QueueTypeOK, Gates!QueueTypeOK, Queue!Full, Gates!Full
<1> QED BY <1>1, <1>2, <1>3, <1>4

LEMMA QueueHolds ==
  ASSUME PlatformConstants
  PROVE  /\ Queue!QueueInit => Gates!QueueInv
         /\ Gates!QueueInv /\ [Queue!QueueNext]_Queue!queueVars => Gates!QueueInv'
         /\ Gates!QueueInv => Queue!QueueTypeOK /\ Queue!DepthIsExplained
<1>1. Gates!QueueConstants
  BY DEF PlatformConstants, Gates!QueueConstants, Gates!IsFiniteSet, IsFiniteSet
<1> QED BY <1>1, QueueReads, Gates!QueueInitInv, Gates!QueueStepInv, Gates!QueueInvMeans

LEMMA EdgeReads ==
  /\ Edge!EdgeInit <=> Gates!EdgeInit
  /\ [Edge!EdgeNext]_Edge!edgeVars <=> [Gates!EdgeNext]_Gates!edgeVars
  /\ Edge!EdgeBound <=> Gates!EdgeBound
  /\ Edge!EdgeTypeOK <=> Gates!EdgeTypeOK
<1>1. Edge!EdgeInit <=> Gates!EdgeInit
  BY Zenon
     DEF Edge!EdgeInit, Gates!EdgeInit, Edge!Away, Gates!Away
<1>2. [Edge!EdgeNext]_Edge!edgeVars <=> [Gates!EdgeNext]_Gates!edgeVars
  BY Zenon
     DEF Edge!EdgeNext, Gates!EdgeNext, Edge!CheckEdge, Gates!CheckEdge, Edge!Away, Gates!Away,
         Edge!Cached, Gates!Cached, Edge!Outlived, Gates!Outlived, Edge!StoreEdge,
         Gates!StoreEdge, Edge!Cardinality, Gates!Cardinality, Edge!OldestEntries,
         Gates!OldestEntries, Edge!Storing, Gates!Storing, Edge!DropExpired, Gates!DropExpired,
         Edge!EvictOldest, Gates!EvictOldest, Edge!InsertEdge, Gates!InsertEdge,
         Edge!EdgeSecond, Gates!EdgeSecond, Edge!ClearEdge, Gates!ClearEdge, Edge!edgeVars,
         Gates!edgeVars
<1>3. Edge!EdgeBound <=> Gates!EdgeBound
  BY Zenon
     DEF Edge!EdgeBound, Gates!EdgeBound, Edge!Cardinality, Gates!Cardinality, Edge!Cached,
         Gates!Cached
<1>4. Edge!EdgeTypeOK <=> Gates!EdgeTypeOK
  BY Zenon
     DEF Edge!EdgeTypeOK, Gates!EdgeTypeOK
<1> QED BY <1>1, <1>2, <1>3, <1>4

LEMMA EdgeHolds ==
  ASSUME PlatformConstants
  PROVE  /\ Edge!EdgeInit => Gates!EdgeInv /\ Gates!EdgeTypeOK
         /\ Gates!EdgeInv /\ Gates!EdgeTypeOK /\ [Edge!EdgeNext]_Edge!edgeVars =>
              (Gates!EdgeInv /\ Gates!EdgeTypeOK)'
         /\ Gates!EdgeInv /\ Gates!EdgeTypeOK => Edge!EdgeTypeOK /\ Edge!EdgeBound
<1>1. Gates!EdgeConstants
  <2>1. IsFiniteSet({"k"} \cup {"l"} \cup {"m"}) /\ {"k"} \cup {"l"} \cup {"m"} = {"k", "l", "m"}
    BY FS_Singleton, FS_Union
  <2> QED BY <2>1 DEF Gates!EdgeConstants, Gates!IsFiniteSet, IsFiniteSet
<1>2. 1 \in Nat
  OBVIOUS
<1> QED BY <1>1, <1>2, EdgeReads, Gates!EdgeKept

LEMMA TenantsReads ==
  /\ Tenants!QuotaInit <=> Gates!QuotaInit
  /\ [Tenants!QuotaNext]_Tenants!quotaVars <=> [Gates!QuotaNext]_Gates!quotaVars
  /\ Tenants!QuotaOvershoot <=> Gates!QuotaOvershoot
  /\ Tenants!QuotaTypeOK <=> Gates!QuotaTypeOK
<1>1. Tenants!QuotaInit <=> Gates!QuotaInit
  BY Zenon
     DEF Tenants!QuotaInit, Gates!QuotaInit
<1>2. [Tenants!QuotaNext]_Tenants!quotaVars <=> [Gates!QuotaNext]_Gates!quotaVars
  BY Zenon
     DEF Tenants!QuotaNext, Gates!QuotaNext, Tenants!RecordRequest, Gates!RecordRequest,
         Tenants!Serve, Gates!Serve, Tenants!CheckQuota, Gates!CheckQuota, Tenants!StartReset,
         Gates!StartReset, Tenants!ResetOne, Gates!ResetOne, Tenants!quotaVars, Gates!quotaVars
<1>3. Tenants!QuotaOvershoot <=> Gates!QuotaOvershoot
  BY Zenon
     DEF Tenants!QuotaOvershoot, Gates!QuotaOvershoot, Tenants!Cardinality, Gates!Cardinality
<1>4. Tenants!QuotaTypeOK <=> Gates!QuotaTypeOK
  BY Zenon
     DEF Tenants!QuotaTypeOK, Gates!QuotaTypeOK
<1> QED BY <1>1, <1>2, <1>3, <1>4

LEMMA TenantsHolds ==
  ASSUME PlatformConstants
  PROVE  /\ Tenants!QuotaInit => Gates!QuotaInv /\ Gates!QuotaTypeOK
         /\ Gates!QuotaInv /\ Gates!QuotaTypeOK /\ [Tenants!QuotaNext]_Tenants!quotaVars =>
              (Gates!QuotaInv /\ Gates!QuotaTypeOK)'
         /\ Gates!QuotaInv /\ Gates!QuotaTypeOK => Tenants!QuotaTypeOK /\ Tenants!QuotaOvershoot
<1>1. Gates!QuotaConstants
  <2>1. IsFiniteSet(1..3)
    BY 1 \in Int, 3 \in Int, FS_Interval, Zenon
  <2>2. QuotaOf \in [{"small", "free"} -> Nat \cup {None}]
    BY DEF QuotaOf
  <2> QED BY <2>1, <2>2 DEF PlatformConstants, Gates!QuotaConstants, Gates!IsFiniteSet, IsFiniteSet
<1>2. 5 \in Nat
  OBVIOUS
<1> QED BY <1>1, <1>2, TenantsReads, Gates!QuotaKept

LEMMA RedisReads ==
  /\ Redis!SharedInit <=> Gates!SharedInit
  /\ [Redis!SharedNext]_Redis!sharedVars <=> [Gates!SharedNext]_Gates!sharedVars
  /\ Redis!WindowEnds <=> Gates!WindowEnds
  /\ Redis!SharedTypeOK <=> Gates!SharedTypeOK
<1>1. Redis!SharedInit <=> Gates!SharedInit
  BY Zenon
     DEF Redis!SharedInit, Gates!SharedInit, Redis!NoKey, Gates!NoKey
<1>2. [Redis!SharedNext]_Redis!sharedVars <=> [Gates!SharedNext]_Gates!sharedVars
  BY Zenon
     DEF Redis!SharedNext, Gates!SharedNext, Redis!WindowSecond, Gates!WindowSecond,
         Redis!NoKey, Gates!NoKey, Redis!Incr, Gates!Incr, Redis!LoseAnswer, Gates!LoseAnswer,
         Redis!Expire, Gates!Expire, Redis!Die, Gates!Die, Redis!sharedVars, Gates!sharedVars
<1>3. Redis!WindowEnds <=> Gates!WindowEnds
  BY Zenon
     DEF Redis!WindowEnds, Gates!WindowEnds
<1>4. Redis!SharedTypeOK <=> Gates!SharedTypeOK
  BY Zenon
     DEF Redis!SharedTypeOK, Gates!SharedTypeOK
<1> QED BY <1>1, <1>2, <1>3, <1>4

LEMMA RedisHolds ==
  ASSUME PlatformConstants
  PROVE  /\ Redis!SharedInit => Gates!WindowInv
         /\ Gates!WindowInv /\ [Redis!SharedNext]_Redis!sharedVars => Gates!WindowInv'
         /\ Gates!WindowInv => Redis!SharedTypeOK /\ Redis!WindowEnds
<1>1. Gates!SharedConstants
  BY DEF Gates!SharedConstants
<1> QED BY <1>1, RedisReads, Gates!WindowInitInv, Gates!WindowStepInv, Gates!WindowInvMeans

LEMMA ProviderReads ==
  /\ Provider!IntrospectionInit <=> Gates!IntrospectionInit
  /\ [Provider!IntrospectionNext]_Provider!introspectionVars <=> [Gates!IntrospectionNext]_Gates!introspectionVars
  /\ Provider!RevocationBound <=> Gates!RevocationBound
  /\ Provider!IntrospectionTypeOK <=> Gates!IntrospectionTypeOK
<1>1. Provider!IntrospectionInit <=> Gates!IntrospectionInit
  BY Zenon
     DEF Provider!IntrospectionInit, Gates!IntrospectionInit, Provider!Idle, Gates!Idle
<1>2. [Provider!IntrospectionNext]_Provider!introspectionVars <=> [Gates!IntrospectionNext]_Gates!introspectionVars
  BY Zenon
     DEF Provider!IntrospectionNext, Gates!IntrospectionNext, Provider!FromCache,
         Gates!FromCache, Provider!Idle, Gates!Idle, Provider!Usable, Gates!Usable,
         Provider!Ask, Gates!Ask, Provider!Introspect, Gates!Introspect, Provider!Store,
         Gates!Store, Provider!Entry, Gates!Entry, Provider!NoAnswer, Gates!NoAnswer,
         Provider!Revoke, Gates!Revoke, Provider!ClearTokens, Gates!ClearTokens,
         Provider!IntrospectionTick, Gates!IntrospectionTick, Provider!Horizon, Gates!Horizon,
         Provider!introspectionVars, Gates!introspectionVars
<1>3. Provider!RevocationBound <=> Gates!RevocationBound
  BY Zenon
     DEF Provider!RevocationBound, Gates!RevocationBound
<1>4. Provider!IntrospectionTypeOK <=> Gates!IntrospectionTypeOK
  BY Zenon
     DEF Provider!IntrospectionTypeOK, Gates!IntrospectionTypeOK, Provider!Horizon,
         Gates!Horizon
<1> QED BY <1>1, <1>2, <1>3, <1>4

LEMMA ProviderHolds ==
  ASSUME PlatformConstants
  PROVE  /\ Provider!IntrospectionInit => Gates!ProviderInv
         /\ Gates!ProviderInv /\ [Provider!IntrospectionNext]_Provider!introspectionVars => Gates!ProviderInv'
         /\ Gates!ProviderInv => Provider!IntrospectionTypeOK /\ Provider!RevocationBound
<1>1. Gates!IntrospectionConstants
  BY DEF PlatformConstants, Gates!IntrospectionConstants
<1> QED BY <1>1, ProviderReads, Gates!ProviderInitInv, Gates!ProviderStepInv,
           Gates!ProviderInvMeans, Gates!ProviderTypes

LEMMA GuardReads ==
  /\ Guard!PinInit <=> Gates!PinInit
  /\ [Guard!PinNext]_Guard!pinVars <=> [Gates!PinNext]_Gates!pinVars
  /\ Guard!PinIsRecent <=> Gates!PinIsRecent
  /\ Guard!PinTypeOK <=> Gates!PinTypeOK
<1>1. Guard!PinInit <=> Gates!PinInit
  BY Zenon
     DEF Guard!PinInit, Gates!PinInit, Guard!Never, Gates!Never, Guard!Calm, Gates!Calm
<1>2. [Guard!PinNext]_Guard!pinVars <=> [Gates!PinNext]_Gates!pinVars
  BY Zenon
     DEF Guard!PinNext, Gates!PinNext, Guard!PinCached, Gates!PinCached, Guard!Calm, Gates!Calm,
         Guard!Fresh, Gates!Fresh, Guard!StartLookup, Gates!StartLookup, Guard!Resolve,
         Gates!Resolve, Guard!StorePin, Gates!StorePin, Guard!Validated, Gates!Validated,
         Guard!Allowed, Gates!Allowed, Guard!Move, Gates!Move, Guard!PinTick, Gates!PinTick,
         Guard!Never, Gates!Never, Guard!pinVars, Gates!pinVars
<1>3. Guard!PinIsRecent <=> Gates!PinIsRecent
  BY Zenon
     DEF Guard!PinIsRecent, Gates!PinIsRecent, Guard!Allowed, Gates!Allowed
<1>4. Guard!PinTypeOK <=> Gates!PinTypeOK
  BY Zenon
     DEF Guard!PinTypeOK, Gates!PinTypeOK, Guard!Never, Gates!Never
<1> QED BY <1>1, <1>2, <1>3, <1>4

LEMMA GuardHolds ==
  ASSUME PlatformConstants
  PROVE  /\ Guard!PinInit => Gates!PinInv
         /\ Gates!PinInv /\ [Guard!PinNext]_Guard!pinVars => Gates!PinInv'
         /\ Gates!PinInv => Guard!PinTypeOK /\ Guard!PinIsRecent
<1>1. Gates!PinConstants
  BY DEF Gates!PinConstants
<1> QED BY <1>1, GuardReads, Gates!PinInitInv, Gates!PinStepInv, Gates!PinInvMeans, Gates!PinTypes

LEMMA HeadersReads ==
  /\ Headers!LimiterInit <=> Gates!LimiterInit
  /\ [Headers!LimiterNext]_Headers!limiterVars <=> [Gates!LimiterNext]_Gates!limiterVars
  /\ Headers!KeyIsProved <=> Gates!KeyIsProved
  /\ Headers!LimiterTypeOK <=> Gates!LimiterTypeOK
<1>1. Headers!LimiterInit <=> Gates!LimiterInit
  BY Zenon
     DEF Headers!LimiterInit, Gates!LimiterInit, Headers!ClientKey, Gates!ClientKey,
         Headers!Hop, Gates!Hop, Headers!Span, Gates!Span, Headers!Narrowest,
         Gates!Narrowest
<1>2. [Headers!LimiterNext]_Headers!limiterVars <=> [Gates!LimiterNext]_Gates!limiterVars
  BY Zenon
     DEF Headers!LimiterNext, Gates!LimiterNext, Headers!Second, Gates!Second,
         Headers!ClientKey, Gates!ClientKey, Headers!Hop, Gates!Hop, Headers!Older,
         Gates!Older, Headers!Oldest, Gates!Oldest, Headers!Widest, Gates!Widest,
         Headers!OneSecondOn, Gates!OneSecondOn, Headers!Span, Gates!Span,
         Headers!Narrowest, Gates!Narrowest, Headers!EvictBuckets, Gates!EvictBuckets,
         Headers!CountRequest, Gates!CountRequest, Headers!Current, Gates!Current,
         Headers!Elapsed, Gates!Elapsed, Headers!Most, Gates!Most, Headers!Passes,
         Gates!Passes, Headers!OneMoreThrough, Gates!OneMoreThrough, Headers!Enter, Gates!Enter,
         Headers!ClientIp, Gates!ClientIp, Headers!Walked, Gates!Walked, Headers!Stops,
         Gates!Stops, Headers!FirstHop, Gates!FirstHop, Headers!LastStop,
         Gates!LastStop, Headers!ReloadLimits, Gates!ReloadLimits, Headers!limiterVars,
         Gates!limiterVars
<1>3. Headers!KeyIsProved <=> Gates!KeyIsProved
  BY Zenon
     DEF Headers!KeyIsProved, Gates!KeyIsProved, Headers!ClientIp, Gates!ClientIp,
         Headers!Walked, Gates!Walked, Headers!Stops, Gates!Stops, Headers!FirstHop,
         Gates!FirstHop, Headers!LastStop, Gates!LastStop
<1>4. Headers!LimiterTypeOK <=> Gates!LimiterTypeOK
  BY Zenon
     DEF Headers!LimiterTypeOK, Gates!LimiterTypeOK, Headers!ClientKey,
         Gates!ClientKey, Headers!Hop, Gates!Hop, Headers!Most, Gates!Most,
         Headers!Age, Gates!Age, Headers!Oldest, Gates!Oldest, Headers!Widest,
         Gates!Widest
<1> QED BY <1>1, <1>2, <1>3, <1>4

\* Both parts of the limiter have the limits of Windows.
LEMMA WindowsAreLimits ==
  /\ Windows \subseteq [max: Nat \ {0}, window: Nat \ {0}]
  /\ \E l \in Windows : \A m \in Windows : m.max <= l.max
  /\ \E l \in Windows : \A m \in Windows : m.window <= l.window
  /\ \E l \in Windows : \A m \in Windows : l.window <= m.window
  /\ \A l \in Windows : 1 <= l.window
<1> DEFINE wide == [max |-> 2, window |-> 3]
           short == [max |-> 2, window |-> 2]
           tight == [max |-> 1, window |-> 2]
<1>1. Windows = {wide, short, tight}
  BY DEF Windows
<1>2. wide \in Windows /\ \A m \in Windows : m.max <= wide.max /\ m.window <= wide.window
  BY <1>1
<1>3. short \in Windows /\ \A m \in Windows : short.window <= m.window
  BY <1>1
<1>4. Windows \subseteq [max: Nat \ {0}, window: Nat \ {0}] /\ \A l \in Windows : 1 <= l.window
  BY <1>1
<1> HIDE DEF wide, short, tight
<1> QED BY <1>2, <1>3, <1>4

LEMMA HeadersHolds ==
  ASSUME PlatformConstants
  PROVE  /\ Headers!LimiterInit => Gates!LimiterInv
         /\ Gates!LimiterInv /\ [Headers!LimiterNext]_Headers!limiterVars => Gates!LimiterInv'
         /\ Gates!LimiterInv => Headers!LimiterTypeOK
         /\ Headers!KeyIsProved
<1>1. Gates!LimiterConstants
  <2>1. Gates!Hop = Hops
    BY DEF Gates!Hop, Hops
  <2>2. ASSUME NEW n \in 0..3, NEW chain \in [1..n -> Hops]
        PROVE  chain \in Seq(Hops)
    OBVIOUS
  <2>3. UNION {[1..n -> Hops] : n \in 0..3} \subseteq Seq(Hops)
    BY <2>2
  <2>4. None \notin Proxied /\ None \notin [count: Nat, age: Nat] \cup [key: Hops, max: Nat, window: Nat, age: Nat]
    BY DEF PlatformConstants
  <2>5. {} \subseteq Proxied \X Seq(Hops)
    OBVIOUS
  <2>6. 1 \in Nat
    OBVIOUS
  <2> QED BY <2>1, <2>3, <2>4, <2>5, <2>6, WindowsAreLimits, Zenon DEF Gates!LimiterConstants
<1> QED BY <1>1, HeadersReads, Gates!LimiterInitInv, Gates!LimiterStepInv, Gates!LimiterInvMeans,
           Gates!ClientIpIsProved

LEMMA HandlerReads ==
  /\ Handler!PipelineInit <=> Gates!PipelineInit
  /\ [Handler!PipelineNext]_Handler!pipelineVars <=> [Gates!PipelineNext]_Gates!pipelineVars
  /\ Handler!CacheIsCurrent <=> Gates!CacheIsCurrent
  /\ Handler!SentOnce <=> Gates!SentOnce
  /\ Handler!PipelineTypeOK <=> Gates!PipelineTypeOK
<1>1. Handler!PipelineInit <=> Gates!PipelineInit
  BY Zenon
     DEF Handler!PipelineInit, Gates!PipelineInit, Handler!Ready, Gates!Ready
<1>2. [Handler!PipelineNext]_Handler!pipelineVars <=> [Gates!PipelineNext]_Gates!pipelineVars
  BY Zenon
     DEF Handler!PipelineNext, Gates!PipelineNext, Handler!Step, Gates!Step, Handler!Method,
         Gates!Method, Handler!Arrive, Gates!Arrive, Handler!Ready, Gates!Ready, Handler!Refuse,
         Gates!Refuse, Handler!End, Gates!End, Handler!GetHit, Gates!GetHit, Handler!Hit,
         Gates!Hit, Handler!Expired, Gates!Expired, Handler!GetMiss, Gates!GetMiss,
         Handler!Vanish, Gates!Vanish, Handler!Settle, Gates!Settle, Handler!Put, Gates!Put,
         Handler!Observe, Gates!Observe, Handler!Kind, Gates!Kind, Handler!Attempt,
         Gates!Attempt, Handler!TriesAgain, Gates!TriesAgain, Handler!ShouldRetry,
         Gates!ShouldRetry, Handler!Retryable, Gates!Retryable, Handler!Hook, Gates!Hook,
         Handler!Waiting, Gates!Waiting, Handler!Tick, Gates!Tick, Handler!Bound, Gates!Bound,
         Handler!SwitchOff, Gates!SwitchOff, Handler!Switching, Gates!Switching, Handler!Clear,
         Gates!Clear, Handler!SwitchOn, Gates!SwitchOn, Handler!Forget, Gates!Forget,
         Handler!SetTtl, Gates!SetTtl, Handler!pipelineVars, Gates!pipelineVars
<1>3. Handler!CacheIsCurrent <=> Gates!CacheIsCurrent
  BY Zenon
     DEF Handler!CacheIsCurrent, Gates!CacheIsCurrent, Handler!Expired, Gates!Expired
<1>4. Handler!SentOnce <=> Gates!SentOnce
  BY Zenon
     DEF Handler!SentOnce, Gates!SentOnce, Handler!Cardinality, Gates!Cardinality
<1>5. Handler!PipelineTypeOK <=> Gates!PipelineTypeOK
  BY Zenon
     DEF Handler!PipelineTypeOK, Gates!PipelineTypeOK, Handler!Steps, Gates!Steps,
         Handler!Method, Gates!Method, Handler!Answer, Gates!Answer,
         Handler!Cardinality, Gates!Cardinality
<1> QED BY <1>1, <1>2, <1>3, <1>4, <1>5

LEMMA HandlerHolds ==
  ASSUME PlatformConstants
  PROVE  /\ Handler!PipelineInit => Gates!PipelineInv /\ Gates!PipelineBounds
         /\ Gates!PipelineInv /\ Gates!PipelineBounds /\ [Handler!PipelineNext]_Handler!pipelineVars =>
              (Gates!PipelineInv /\ Gates!PipelineBounds)'
         /\ Gates!PipelineInv /\ Gates!PipelineBounds =>
              Handler!PipelineTypeOK /\ Handler!CacheIsCurrent /\ Handler!SentOnce
<1>1. Gates!PipelineConstants
  <2>1. IsFiniteSet(A)
    BY FS_Subset DEF PlatformConstants
  <2>2. IsFiniteSet(A) <=> Gates!IsFiniteSet(A)
    BY Zenon DEF IsFiniteSet, Gates!IsFiniteSet
  <2>3. {1, 2} \subseteq Nat /\ 2 \in {1, 2} /\ \A u \in {1, 2} : u <= 2
    OBVIOUS
  <2>4. Handler!Answer = Gates!Answer /\ Handler!Method = Gates!Method
    BY Zenon DEF Handler!Answer, Gates!Answer, Handler!Method, Gates!Method
  <2>5. None \notin Gates!Answer \cup Gates!Stored \cup Gates!Method
    BY <2>4 DEF PlatformConstants, Gates!Stored
  <2> QED BY <2>1, <2>2, <2>3, <2>5 DEF Gates!PipelineConstants
<1>2. 2 \in Nat
  OBVIOUS
<1> QED BY <1>1, <1>2, HandlerReads, Gates!PipelineKept

LEMMA WebSocketReads ==
  /\ WebSocket!TunnelInit <=> Gates!TunnelInit
  /\ [WebSocket!TunnelNext]_WebSocket!tunnelVars <=> [Gates!TunnelNext]_Gates!tunnelVars
  /\ WebSocket!TunnelRelays <=> Gates!TunnelRelays
  /\ WebSocket!TunnelTypeOK <=> Gates!TunnelTypeOK
<1>1. WebSocket!TunnelInit <=> Gates!TunnelInit
  BY Zenon
     DEF WebSocket!TunnelInit, Gates!TunnelInit, WebSocket!Side, Gates!Side
<1>2. [WebSocket!TunnelNext]_WebSocket!tunnelVars <=> [Gates!TunnelNext]_Gates!tunnelVars
  BY Zenon
     DEF WebSocket!TunnelNext, Gates!TunnelNext, WebSocket!Connect, Gates!Connect,
         WebSocket!Side, Gates!Side, WebSocket!Close, Gates!Close, WebSocket!Goodbye,
         Gates!Goodbye, WebSocket!Eof, Gates!Eof, WebSocket!Part, Gates!Part,
         WebSocket!Carried, Gates!Carried, WebSocket!Send, Gates!Send, WebSocket!Gone,
         Gates!Gone, WebSocket!Last, Gates!Last, WebSocket!TakeMessage, Gates!TakeMessage,
         WebSocket!Taken, Gates!Taken, WebSocket!Next1, Gates!Next1, WebSocket!Ended,
         Gates!Ended, WebSocket!Deliver, Gates!Deliver, WebSocket!Other, Gates!Other,
         WebSocket!tunnelVars, Gates!tunnelVars
<1>3. WebSocket!TunnelRelays <=> Gates!TunnelRelays
  BY Zenon
     DEF WebSocket!TunnelRelays, Gates!TunnelRelays, WebSocket!Side, Gates!Side,
         WebSocket!Carried, Gates!Carried, WebSocket!Relayable, Gates!Relayable,
         WebSocket!Part, Gates!Part, WebSocket!Other, Gates!Other,
         WebSocket!Cardinality, Gates!Cardinality, WebSocket!Eof, Gates!Eof, WebSocket!Gone,
         Gates!Gone, WebSocket!Last, Gates!Last, WebSocket!Goodbye, Gates!Goodbye,
         WebSocket!Close, Gates!Close
<1>4. WebSocket!TunnelTypeOK <=> Gates!TunnelTypeOK
  BY Zenon
     DEF WebSocket!TunnelTypeOK, Gates!TunnelTypeOK, WebSocket!Side, Gates!Side,
         WebSocket!ToSet, Gates!ToSet, WebSocket!Goodbye, Gates!Goodbye,
         WebSocket!Close, Gates!Close, WebSocket!Eof, Gates!Eof, WebSocket!Part, Gates!Part
<1> QED BY <1>1, <1>2, <1>3, <1>4

LEMMA WebSocketHolds ==
  ASSUME PlatformConstants
  PROVE  /\ WebSocket!TunnelInit => Gates!TunnelInv /\ Gates!TunnelBounds
         /\ Gates!TunnelInv /\ Gates!TunnelBounds /\ [WebSocket!TunnelNext]_WebSocket!tunnelVars =>
              (Gates!TunnelInv /\ Gates!TunnelBounds)'
         /\ Gates!TunnelInv /\ Gates!TunnelBounds => WebSocket!TunnelTypeOK /\ WebSocket!TunnelRelays
<1>1. Gates!TunnelConstants
  BY DEF PlatformConstants, Gates!TunnelConstants
<1>2. 4 \in Nat
  OBVIOUS
<1> QED BY <1>1, <1>2, WebSocketReads, Gates!TunnelKept

\* Each gate's part has its type.
GatesTyped ==
  /\ part = "queue" => Queue!QueueTypeOK
  /\ part = "edge" => Edge!EdgeTypeOK
  /\ part = "tenants" => Tenants!QuotaTypeOK
  /\ part = "redis" => Redis!SharedTypeOK
  /\ part = "provider" => Provider!IntrospectionTypeOK
  /\ part = "guard" => Guard!PinTypeOK
  /\ part = "handler" => Handler!PipelineTypeOK
  /\ part = "websocket" => WebSocket!TunnelTypeOK
  /\ part = "headers" => Headers!LimiterTypeOK

LEMMA GatesHold ==
  ASSUME PlatformConstants
  PROVE  Spec => [](/\ LimitsHold
                    /\ AnswersAreRecent
                    /\ CacheIsCurrent
                    /\ SentOnce
                    /\ GatesTyped)
<1> DEFINE I == /\ part = "queue" => Gates!QueueInv
                /\ part = "edge" => Gates!EdgeInv /\ Gates!EdgeTypeOK
                /\ part = "tenants" => Gates!QuotaInv /\ Gates!QuotaTypeOK
                /\ part = "redis" => Gates!WindowInv
                /\ part = "provider" => Gates!ProviderInv
                /\ part = "guard" => Gates!PinInv
                /\ part = "handler" => Gates!PipelineInv /\ Gates!PipelineBounds
                /\ part = "websocket" => Gates!TunnelInv /\ Gates!TunnelBounds
                /\ part = "headers" => Gates!LimiterInv
<1>1. /\ Init => I
      /\ I /\ [Next]_<<part, registers>> => I'
      /\ I => /\ LimitsHold
              /\ AnswersAreRecent
              /\ CacheIsCurrent
              /\ SentOnce
              /\ GatesTyped
  <2> USE QueueHolds, EdgeHolds, TenantsHolds, RedisHolds, ProviderHolds, GuardHolds,
          HandlerHolds, WebSocketHolds, HeadersHolds
  <2>1. Init => I
    BY DEF Init
  <2>2. I /\ [Next]_<<part, registers>> => I'
    BY OnePartMoves
  <2>3. I => /\ LimitsHold
             /\ AnswersAreRecent
             /\ CacheIsCurrent
             /\ SentOnce
             /\ GatesTyped
    BY DEF LimitsHold, AnswersAreRecent, CacheIsCurrent, SentOnce, GatesTyped
  <2> QED BY <2>1, <2>2, <2>3
<1> HIDE DEF I
<1> QED BY <1>1, PTL DEF Spec

\* The depth of the queue, the size of the edge cache, a quota's overshoot and the
\* end of a window in Redis, under every interleaving of any number of workers
\* (request_queue.rs, edge_cache.rs, tenant.rs, redis_rate_limit.rs).
THEOREM LimitsAreKept ==
  ASSUME PlatformConstants
  PROVE  Spec => []LimitsHold
<1> QED BY GatesHold, PTL

\* A revoked token and an address a name no longer has are used for a bounded time
\* (oauth2_gateway.rs, validate_token; alerting/url_guard.rs, pin_url).
THEOREM AnswersStayRecent ==
  ASSUME PlatformConstants
  PROVE  Spec => []AnswersAreRecent
<1> QED BY GatesHold, PTL

\* A client behind trusted proxies cannot choose its bucket by a header it sends
\* (middleware/rate_limit.rs, client_ip).
THEOREM KeysAreProved ==
  ASSUME PlatformConstants
  PROVE  Spec => []KeyIsProved
<1>1. KeyIsProved
  BY HeadersHolds DEF KeyIsProved
<1> QED BY <1>1, PTL

\* The response cache serves nothing older than its ttl, nor from before it was
\* switched off, but for answers under way then (gateway/cache.rs, put).
THEOREM CacheStaysCurrent ==
  ASSUME PlatformConstants
  PROVE  Spec => []CacheIsCurrent
<1> QED BY GatesHold, PTL

\* What must not be repeated is sent once, whatever is retried, and a tunnel relays
\* in order and once, but for the fragments it drops (gateway/mod.rs, gateway_handler; gateway/websocket.rs).
THEOREM NothingIsSentTwice ==
  ASSUME PlatformConstants
  PROVE  Spec => []SentOnce
<1> QED BY GatesHold, PTL

-----------------------------------------------------------------------------
(* Operations: jobs and workflows first.                                     *)
Operations == INSTANCE Operations_proofs WITH
  channel <- x1, hand <- x2, table <- x3, out <- x4, worker <- x5, sent <- x6, refused <- x7,
  errors <- x8, lost <- x9,
  Entry <- {"e", "f", "g"}, Worker <- A, Sinks <- <<"file", "http">>, Buffer <- 1, NoEntry <- None,
  nextId <- x1, index <- x2, logs <- x3, ingest <- x4, met <- x5,
  Word <- B, Source <- A, MaxEntries <- 2, MaxLogs <- 4, Nil <- None,
  version <- x1, watcher <- x2, check <- x3, fetched <- x4, told <- x5, overlapped <- x6,
  buffer <- x7, events <- x8,
  Checker <- A, Sink <- TRUE, BufferSize <- 2, MaxVersions <- 3, MaxEvents <- 4, Idle <- None,
  role <- x1, enabled <- x2, live <- x3, old <- x4, late <- x5, visit <- x6,
  User <- B, Visitor <- A, Bits <- 3, NoOne <- None,
  file <- x1, pending <- x2, watching <- x3, writes <- x4, sharedConfig <- x5, installed <- x6, up <- x7,
  base <- x8, dirty <- x9, overlap <- x10, missed <- x11,
  Limits <- {0, 5}, Patterns <- {1, 2}, Keys <- {"own"}, MaxWrites <- 2, Broken <- None,
  release <- x1, before <- x2, switches <- x3, flag <- x4, on <- x5,
  Context <- {1, 2, 3}, HashOf <- <<0, 1, 3>>, Rules <- {{1, 2}, {2, 3}}, Buckets <- 4,
  MaxSwitches <- 3, MaxEvals <- 2, Width <- 3,
  hooks <- x1, sender <- x2, settings <- x3, answered <- x4, channelled <- x5,
  Hook <- B, Channel <- {}, Sender <- A, Url <- {}, MaxCount <- 2,
  jobs <- x1, cronRows <- x2, inFlight <- x3, running <- x4, handles <- x5, saving <- x6,
  adding <- x7, removing <- x8, crashes <- x9, removed <- x10, raced <- x11,
  Job <- {1, 2}, Every <- EverySecond, MaxCrashes <- 1, NoJob <- None,
  status <- x1, steps <- x2, error <- x3, run <- x4, calls <- x5, shared <- x6,
  Plan <- <<"Stop", "Skip", "Retry">>, Retries <- 2, Runner <- A, MaxRuns <- 3

LEMMA CronReads ==
  /\ Scheduler!CronInit <=> Operations!CronInit
  /\ [Scheduler!CronNext]_Scheduler!cronVars <=> [Operations!CronNext]_Operations!cronVars
  /\ Scheduler!RemovedIsFinal <=> Operations!RemovedIsFinal
  /\ Scheduler!RestartNeverDelays <=> Operations!RestartNeverDelays
  /\ Scheduler!CronTypeOK <=> Operations!CronTypeOK
<1>1. Scheduler!CronInit <=> Operations!CronInit
  BY Zenon
     DEF Scheduler!CronInit, Operations!CronInit
<1>2. [Scheduler!CronNext]_Scheduler!cronVars <=> [Operations!CronNext]_Operations!cronVars
  BY Zenon
     DEF Scheduler!CronNext, Operations!CronNext, Scheduler!Second, Operations!Second,
         Scheduler!Less, Operations!Less, Scheduler!TakeDue, Operations!TakeDue,
         Scheduler!Resting, Operations!Resting, Scheduler!Due, Operations!Due,
         Scheduler!Present, Operations!Present, Scheduler!Orders, Operations!Orders,
         Scheduler!Cardinality, Operations!Cardinality, Scheduler!Collect, Operations!Collect,
         Scheduler!Persist, Operations!Persist, Scheduler!CronCrash, Operations!CronCrash,
         Scheduler!AddJob, Operations!AddJob, Scheduler!Used, Operations!Used, Scheduler!Stored,
         Operations!Stored, Scheduler!Push, Operations!Push, Scheduler!DeleteJob,
         Operations!DeleteJob, Scheduler!Retain, Operations!Retain, Scheduler!Finish,
         Operations!Finish, Scheduler!cronVars, Operations!cronVars
<1>3. Scheduler!RemovedIsFinal <=> Operations!RemovedIsFinal
  BY Zenon
     DEF Scheduler!RemovedIsFinal, Operations!RemovedIsFinal
<1>4. Scheduler!RestartNeverDelays <=> Operations!RestartNeverDelays
  BY Zenon
     DEF Scheduler!RestartNeverDelays, Operations!RestartNeverDelays, Scheduler!Present,
         Operations!Present, Scheduler!Stored, Operations!Stored
<1>5. Scheduler!CronTypeOK <=> Operations!CronTypeOK
  BY Zenon
     DEF Scheduler!CronTypeOK, Operations!CronTypeOK, Scheduler!Wait, Operations!Wait,
         Scheduler!Longest, Operations!Longest
<1> QED BY <1>1, <1>2, <1>3, <1>4, <1>5

LEMMA CronHolds ==
  ASSUME PlatformConstants
  PROVE  /\ Scheduler!CronInit => Operations!SchedulerInv /\ Operations!CronTypeOK
         /\ Operations!SchedulerInv /\ Operations!CronTypeOK /\ [Scheduler!CronNext]_Scheduler!cronVars =>
              (Operations!SchedulerInv /\ Operations!CronTypeOK)'
         /\ Operations!SchedulerInv /\ Operations!CronTypeOK =>
              Scheduler!CronTypeOK /\ Scheduler!RemovedIsFinal /\ Scheduler!RestartNeverDelays
<1>1. Operations!CronConstants
  BY DEF PlatformConstants, Operations!CronConstants, EverySecond
<1>2. Operations!CronSizes
  <2>1. IsFiniteSet({1, 2})
    <3>1. IsFiniteSet({1} \cup {2}) /\ {1} \cup {2} = {1, 2}
      BY FS_Singleton, FS_Union, Zenon
    <3> QED BY <3>1
  <2>2. IsFiniteSet({1, 2}) <=> Operations!IsFiniteSet({1, 2})
    BY Zenon DEF IsFiniteSet, Operations!IsFiniteSet
  <2>3. EverySecond[1] = 1 /\ EverySecond[2] = 2
    BY DEF EverySecond
  <2>4. Operations!Longest \in {EverySecond[j] : j \in {1, 2}} /\ \A j \in {1, 2} : EverySecond[j] <= Operations!Longest
    <3>1. \E n \in {EverySecond[j] : j \in {1, 2}} : \A j \in {1, 2} : EverySecond[j] <= n
      BY <2>3
    <3> QED BY <3>1 DEF Operations!Longest
  <2>5. Operations!Longest \in Nat /\ 1 \in Nat
    BY <2>3, <2>4
  <2> QED BY <2>1, <2>2, <2>4, <2>5, Zenon DEF Operations!CronSizes
<1> QED BY <1>1, <1>2, CronReads, Operations!CronKept

LEMMA FlowReads ==
  /\ Flow!FlowInit <=> Operations!FlowInit
  /\ [Flow!FlowNext]_Flow!flowVars <=> [Operations!FlowNext]_Operations!flowVars
  /\ Flow!OutcomeMatchesSteps <=> Operations!OutcomeMatchesSteps
  /\ Flow!FlowTypeOK <=> Operations!FlowTypeOK
<1>1. Flow!FlowInit <=> Operations!FlowInit
  BY Zenon
     DEF Flow!FlowInit, Operations!FlowInit, Flow!StepNo, Operations!StepNo, Flow!NotRunning,
         Operations!NotRunning
<1>2. [Flow!FlowNext]_Flow!flowVars <=> [Operations!FlowNext]_Operations!flowVars
  BY Zenon
     DEF Flow!FlowNext, Operations!FlowNext, Flow!Execute, Operations!Execute, Flow!NotRunning,
         Operations!NotRunning, Flow!Executing, Operations!Executing, Flow!Success,
         Operations!Success, Flow!Sending, Operations!Sending, Flow!StepOf, Operations!StepOf,
         Flow!StepNo, Operations!StepNo, Flow!StepTo, Operations!StepTo, Flow!Failure,
         Operations!Failure, Flow!Retry, Operations!Retry, Flow!EndAs, Operations!EndAs,
         Flow!Conclude, Operations!Conclude, Flow!flowVars, Operations!flowVars
<1>3. Flow!OutcomeMatchesSteps <=> Operations!OutcomeMatchesSteps
  BY Zenon
     DEF Flow!OutcomeMatchesSteps, Operations!OutcomeMatchesSteps, Flow!Executing,
         Operations!Executing, Flow!NotRunning, Operations!NotRunning, Flow!StepNo,
         Operations!StepNo, Flow!Success, Operations!Success, Flow!Sending, Operations!Sending,
         Flow!StepOf, Operations!StepOf, Flow!StepTo, Operations!StepTo
<1>4. Flow!FlowTypeOK <=> Operations!FlowTypeOK
  BY Zenon
     DEF Flow!FlowTypeOK, Operations!FlowTypeOK, Flow!StepNo, Operations!StepNo,
         Flow!Success, Operations!Success, Flow!Sending, Operations!Sending,
         Flow!StepOf, Operations!StepOf, Flow!StepTo, Operations!StepTo
<1> QED BY <1>1, <1>2, <1>3, <1>4

LEMMA FlowHolds ==
  ASSUME PlatformConstants
  PROVE  /\ Flow!FlowInit => Operations!FlowInv
         /\ Operations!FlowInv /\ [Flow!FlowNext]_Flow!flowVars => Operations!FlowInv'
         /\ Operations!FlowInv => Flow!FlowTypeOK /\ Flow!OutcomeMatchesSteps
<1>1. Operations!FlowConstants
  BY DEF Operations!FlowConstants, Operations!OnFailure
<1> QED BY <1>1, FlowReads, Operations!FlowInitInv, Operations!FlowStepInv,
           Operations!FlowInvMeans DEF Operations!FlowInv

-----------------------------------------------------------------------------
(* Records, notifications, the configuration, releases and who may.          *)
LEMMA TrailReads ==
  /\ Trail!TrailInit <=> Operations!TrailInit
  /\ [Trail!TrailNext]_Trail!trailVars <=> [Operations!TrailNext]_Operations!trailVars
  /\ Trail!LossIsCounted <=> Operations!LossIsCounted
  /\ Trail!TrailTypeOK <=> Operations!TrailTypeOK
<1>1. Trail!TrailInit <=> Operations!TrailInit
  BY Zenon
     DEF Trail!TrailInit, Operations!TrailInit, Trail!SinkNo, Operations!SinkNo, Trail!Places,
         Operations!Places
<1>2. [Trail!TrailNext]_Trail!trailVars <=> [Operations!TrailNext]_Operations!trailVars
  BY Zenon
     DEF Trail!TrailNext, Operations!TrailNext, Trail!InsertRow, Operations!InsertRow,
         Trail!Dispatch, Operations!Dispatch, Trail!Seen, Operations!Seen, Trail!ToSet,
         Operations!ToSet, Trail!Receive, Operations!Receive, Trail!WriteSink,
         Operations!WriteSink, Trail!TrailCrash, Operations!TrailCrash, Trail!trailVars,
         Operations!trailVars
<1>3. Trail!LossIsCounted <=> Operations!LossIsCounted
  BY Zenon
     DEF Trail!LossIsCounted, Operations!LossIsCounted, Trail!Cardinality,
         Operations!Cardinality, Trail!Seen, Operations!Seen, Trail!ToSet, Operations!ToSet,
         Trail!SinkNo, Operations!SinkNo, Trail!Coming, Operations!Coming
<1>4. Trail!TrailTypeOK <=> Operations!TrailTypeOK
  BY Zenon
     DEF Trail!TrailTypeOK, Operations!TrailTypeOK, Trail!SinkNo, Operations!SinkNo,
         Trail!Cardinality, Operations!Cardinality, Trail!Places, Operations!Places
<1> QED BY <1>1, <1>2, <1>3, <1>4

LEMMA TrailHolds ==
  ASSUME PlatformConstants
  PROVE  /\ Trail!TrailInit => Operations!TrailInv /\ Operations!RowsLost
         /\ Operations!TrailInv /\ Operations!RowsLost /\ [Trail!TrailNext]_Trail!trailVars =>
              (Operations!TrailInv /\ Operations!RowsLost)'
         /\ Operations!TrailInv /\ Operations!RowsLost => Trail!TrailTypeOK /\ Trail!LossIsCounted
<1>1. Operations!TrailConstants
  <2>1. IsFiniteSet({"e"} \cup {"f"} \cup {"g"}) /\ {"e"} \cup {"f"} \cup {"g"} = {"e", "f", "g"}
    BY FS_Singleton, FS_Union, Zenon
  <2>2. IsFiniteSet({"e", "f", "g"}) <=> Operations!IsFiniteSet({"e", "f", "g"})
    BY Zenon DEF IsFiniteSet, Operations!IsFiniteSet
  <2>3. Trail!SinkNo = Operations!SinkNo
    BY Zenon DEF Trail!SinkNo, Operations!SinkNo
  <2>4. None \notin {"e", "f", "g"} /\ None \notin [entry: {"e", "f", "g"}, at: Operations!SinkNo]
    BY <2>3 DEF PlatformConstants
  <2>5. <<"file", "http">> \in Seq({"file", "http"})
    BY SMT
  <2> QED BY <2>1, <2>2, <2>4, <2>5, Zenon DEF Operations!TrailConstants
<1> QED BY <1>1, TrailReads, Operations!TrailKept

LEMMA LogsReads ==
  /\ Logs!LogInit <=> Operations!LogInit
  /\ [Logs!LogNext]_Logs!logVars <=> [Operations!LogNext]_Operations!logVars
  /\ Logs!IndexFollowsLogs <=> Operations!IndexFollowsLogs
  /\ Logs!LogTypeOK <=> Operations!LogTypeOK
<1>1. Logs!LogInit <=> Operations!LogInit
  BY Zenon
     DEF Logs!LogInit, Operations!LogInit
<1>2. [Logs!LogNext]_Logs!logVars <=> [Operations!LogNext]_Operations!logVars
  BY Zenon
     DEF Logs!LogNext, Operations!LogNext, Logs!Draw, Operations!Draw, Logs!IndexWord,
         Operations!IndexWord, Logs!AppendLog, Operations!AppendLog, Logs!Half, Operations!Half,
         Logs!RetainIds, Operations!RetainIds, Logs!RemoveWord, Operations!RemoveWord,
         Logs!logVars, Operations!logVars
<1>3. Logs!IndexFollowsLogs <=> Operations!IndexFollowsLogs
  BY Zenon
     DEF Logs!IndexFollowsLogs, Operations!IndexFollowsLogs, Logs!Quiet, Operations!Quiet,
         Logs!Kept, Operations!Kept, Logs!ToSet, Operations!ToSet, Logs!Last, Operations!Last
<1>4. Logs!LogTypeOK <=> Operations!LogTypeOK
  BY Zenon
     DEF Logs!LogTypeOK, Operations!LogTypeOK, Logs!Ingesting, Operations!Ingesting
<1> QED BY <1>1, <1>2, <1>3, <1>4

LEMMA LogsHolds ==
  ASSUME PlatformConstants
  PROVE  /\ Logs!LogInit => Operations!LogInv
         /\ Operations!LogInv /\ [Logs!LogNext]_Logs!logVars => Operations!LogInv'
         /\ Operations!LogInv => Logs!LogTypeOK /\ Logs!IndexFollowsLogs
<1>1. Operations!LogConstants
  <2>1. Logs!Ingesting = Operations!Ingesting
    BY Zenon DEF Logs!Ingesting, Operations!Ingesting
  <2> QED BY <2>1 DEF PlatformConstants, Operations!LogConstants
<1> QED BY <1>1, LogsReads, Operations!LogInitInv, Operations!LogStepInv,
           Operations!LogInvMeans

LEMMA FeedReads ==
  /\ Feed!FeedInit <=> Operations!FeedInit
  /\ [Feed!FeedNext]_Feed!feedVars <=> [Operations!FeedNext]_Operations!feedVars
  /\ Feed!FeedHolds <=> Operations!FeedHolds
  /\ Feed!FeedTypeOK <=> Operations!FeedTypeOK
<1>1. Feed!FeedInit <=> Operations!FeedInit
  BY Zenon
     DEF Feed!FeedInit, Operations!FeedInit
<1>2. [Feed!FeedNext]_Feed!feedVars <=> [Operations!FeedNext]_Operations!feedVars
  BY Zenon
     DEF Feed!FeedNext, Operations!FeedNext, Feed!Edit, Operations!Edit, Feed!RecordEvent,
         Operations!RecordEvent, Feed!FlushBuffer, Operations!FlushBuffer, Feed!Snapshot,
         Operations!Snapshot, Feed!Fetch, Operations!Fetch, Feed!Changed, Operations!Changed,
         Feed!Tell, Operations!Tell, Feed!Merge, Operations!Merge, Feed!feedVars,
         Operations!feedVars
<1>3. Feed!FeedHolds <=> Operations!FeedHolds
  BY Zenon
     DEF Feed!FeedHolds, Operations!FeedHolds, Feed!Cardinality, Operations!Cardinality,
         Feed!Changed, Operations!Changed
<1>4. Feed!FeedTypeOK <=> Operations!FeedTypeOK
  BY Zenon
     DEF Feed!FeedTypeOK, Operations!FeedTypeOK
<1> QED BY <1>1, <1>2, <1>3, <1>4

LEMMA FeedHolds ==
  ASSUME PlatformConstants
  PROVE  /\ Feed!FeedInit => Operations!FeedInv
         /\ Operations!FeedInv /\ [Feed!FeedNext]_Feed!feedVars => Operations!FeedInv'
         /\ Operations!FeedInv => Feed!FeedTypeOK /\ Feed!FeedHolds
<1>1. Operations!FeedConstants
  <2>1. IsFiniteSet(A)
    BY FS_Subset DEF PlatformConstants
  <2>2. IsFiniteSet(A) <=> Operations!IsFiniteSet(A)
    BY Zenon DEF IsFiniteSet, Operations!IsFiniteSet
  <2>3. None \notin [step: {"fetch", "tell", "merge"}, last: 0..3, found: 0..3]
    BY DEF PlatformConstants
  <2> QED BY <2>1, <2>2, <2>3 DEF Operations!FeedConstants
<1> QED BY <1>1, FeedReads, Operations!FeedInitInv, Operations!FeedStepInv,
           Operations!FeedInvMeans, Operations!FeedTypes

LEMMA SettingsReads ==
  /\ Configuration!SettingsInit <=> Operations!SettingsInit
  /\ [Configuration!SettingsNext]_Configuration!settingsVars <=> [Operations!SettingsNext]_Operations!settingsVars
  /\ Configuration!SettingsAreCurrent <=> Operations!SettingsAreCurrent
  /\ Configuration!JwtChecksAgree <=> Operations!JwtChecksAgree
  /\ Configuration!SettingsTypeOK <=> Operations!SettingsTypeOK
<1>1. Configuration!SettingsInit <=> Operations!SettingsInit
  BY Zenon
     DEF Configuration!SettingsInit, Operations!SettingsInit, Configuration!Config,
         Operations!Config, Configuration!Validate, Operations!Validate
<1>2. [Configuration!SettingsNext]_Configuration!settingsVars <=> [Operations!SettingsNext]_Operations!settingsVars
  BY Zenon
     DEF Configuration!SettingsNext, Operations!SettingsNext, Configuration!Boot,
         Operations!Boot, Configuration!Booted, Operations!Booted, Configuration!Validate,
         Operations!Validate, Configuration!Default, Operations!Default, Configuration!Config,
         Operations!Config, Configuration!SaveFile, Operations!SaveFile,
         Configuration!StartWatch, Operations!StartWatch, Configuration!Debounce,
         Operations!Debounce, Configuration!LoadFile, Operations!LoadFile,
         Configuration!WriteLoaded, Operations!WriteLoaded, Configuration!Sections,
         Operations!Sections, Configuration!PutLimit, Operations!PutLimit, Configuration!Sync,
         Operations!Sync, Configuration!settingsVars, Operations!settingsVars
<1>3. Configuration!SettingsAreCurrent <=> Operations!SettingsAreCurrent
  BY Zenon
     DEF Configuration!SettingsAreCurrent, Operations!SettingsAreCurrent,
         Configuration!Sections, Operations!Sections
<1>4. Configuration!JwtChecksAgree <=> Operations!JwtChecksAgree
  BY Zenon
     DEF Configuration!JwtChecksAgree, Operations!JwtChecksAgree, Configuration!Algorithms,
         Operations!Algorithms, Configuration!Secrets, Operations!Secrets,
         Configuration!ValidJwt, Operations!ValidJwt, Configuration!NewJwt, Operations!NewJwt
<1>5. Configuration!SettingsTypeOK <=> Operations!SettingsTypeOK
  BY Zenon
     DEF Configuration!SettingsTypeOK, Operations!SettingsTypeOK, Configuration!Config,
         Operations!Config, Configuration!Default, Operations!Default,
         Configuration!Sections, Operations!Sections
<1> QED BY <1>1, <1>2, <1>3, <1>4, <1>5

LEMMA SettingsHolds ==
  ASSUME PlatformConstants
  PROVE  /\ Configuration!SettingsInit => Operations!SettingsInv /\ Operations!SettingsBounds
         /\ Operations!SettingsInv /\ Operations!SettingsBounds /\ [Configuration!SettingsNext]_Configuration!settingsVars =>
              (Operations!SettingsInv /\ Operations!SettingsBounds)'
         /\ Operations!SettingsInv /\ Operations!SettingsBounds =>
              Configuration!SettingsTypeOK /\ Configuration!SettingsAreCurrent /\ Configuration!JwtChecksAgree
<1>1. Operations!SettingsConstants
  <2>1. Configuration!Config = Operations!Config
    BY Zenon DEF Configuration!Config, Operations!Config
  <2> QED BY <2>1 DEF PlatformConstants, Operations!SettingsConstants
<1>2. Operations!SettingsSizes
  <2>1. 2 \in Nat /\ 5 \in {0, 5} /\ 5 # 0 /\ {1, 2} # {}
    OBVIOUS
  <2> QED BY <2>1, Zenon DEF Operations!SettingsSizes
<1> QED BY <1>1, <1>2, SettingsReads, Operations!SettingsKept, Operations!ChecksOfJwt

LEMMA DeploymentReads ==
  /\ Deployment!RolloutInit <=> Operations!RolloutInit
  /\ [Deployment!RolloutNext]_Deployment!rolloutVars <=> [Operations!RolloutNext]_Operations!rolloutVars
  /\ Deployment!RolloutHolds <=> Operations!RolloutHolds
  /\ Deployment!RolloutTypeOK <=> Operations!RolloutTypeOK
<1>1. Deployment!RolloutInit <=> Operations!RolloutInit
  BY Zenon
     DEF Deployment!RolloutInit, Operations!RolloutInit, Deployment!NewFlag, Operations!NewFlag
<1>2. [Deployment!RolloutNext]_Deployment!rolloutVars <=> [Operations!RolloutNext]_Operations!rolloutVars
  BY Zenon
     DEF Deployment!RolloutNext, Operations!RolloutNext, Deployment!Switch, Operations!Switch,
         Deployment!FlipColor, Operations!FlipColor, Deployment!CheckRollback,
         Operations!CheckRollback, Deployment!Toggle, Operations!Toggle, Deployment!CreateFlag,
         Operations!CreateFlag, Deployment!NewFlag, Operations!NewFlag, Deployment!AddRule,
         Operations!AddRule, Deployment!Evaluate, Operations!Evaluate, Deployment!IsOn,
         Operations!IsOn, Deployment!rolloutVars, Operations!rolloutVars
<1>3. Deployment!RolloutHolds <=> Operations!RolloutHolds
  BY Zenon
     DEF Deployment!RolloutHolds, Operations!RolloutHolds
<1>4. Deployment!RolloutTypeOK <=> Operations!RolloutTypeOK
  BY Zenon
     DEF Deployment!RolloutTypeOK, Operations!RolloutTypeOK
<1> QED BY <1>1, <1>2, <1>3, <1>4

LEMMA DeploymentHolds ==
  ASSUME PlatformConstants
  PROVE  /\ Deployment!RolloutInit => Operations!RolloutInv /\ Operations!RolloutBounds
         /\ Operations!RolloutInv /\ Operations!RolloutBounds /\ [Deployment!RolloutNext]_Deployment!rolloutVars =>
              (Operations!RolloutInv /\ Operations!RolloutBounds)'
         /\ Operations!RolloutInv /\ Operations!RolloutBounds =>
              Deployment!RolloutTypeOK /\ Deployment!RolloutHolds
<1>1. Operations!RolloutConstants
  BY DEF Operations!RolloutConstants
<1>2. Operations!RolloutSizes
  BY DEF Operations!RolloutSizes
<1> QED BY <1>1, <1>2, DeploymentReads, Operations!RolloutKept

LEMMA DoorsReads ==
  /\ Doors!AccessInit <=> Operations!AccessInit
  /\ [Doors!AccessNext]_Doors!accessVars <=> [Operations!AccessNext]_Operations!accessVars
  /\ Doors!AccessIsCurrent <=> Operations!AccessIsCurrent
  /\ Doors!AccessTypeOK <=> Operations!AccessTypeOK
<1>1. Doors!AccessInit <=> Operations!AccessInit
  BY Zenon
     DEF Doors!AccessInit, Operations!AccessInit, Doors!NoVisit, Operations!NoVisit
<1>2. [Doors!AccessNext]_Doors!accessVars <=> [Operations!AccessNext]_Operations!accessVars
  BY Zenon
     DEF Doors!AccessNext, Operations!AccessNext, Doors!AdminOps, Operations!AdminOps,
         Doors!Ask, Operations!Ask, Doors!NoVisit, Operations!NoVisit, Doors!PassStateless,
         Operations!PassStateless, Doors!At, Operations!At, Doors!Demands, Operations!Demands,
         Doors!PassSession, Operations!PassSession, Doors!PassRole, Operations!PassRole,
         Doors!UpdateRole, Operations!UpdateRole, Doors!Done, Operations!Done, Doors!NowSweep,
         Operations!NowSweep, Doors!Overtake, Operations!Overtake, Doors!DisableUser,
         Operations!DisableUser, Doors!InvalidateAll, Operations!InvalidateAll,
         Doors!IssueSession, Operations!IssueSession, Doors!Respond, Operations!Respond,
         Doors!accessVars, Operations!accessVars
<1>3. Doors!AccessIsCurrent <=> Operations!AccessIsCurrent
  BY Zenon
     DEF Doors!AccessIsCurrent, Operations!AccessIsCurrent, Doors!Done, Operations!Done,
         Doors!NoVisit, Operations!NoVisit, Doors!Demands, Operations!Demands, Doors!Sweeping,
         Operations!Sweeping
<1>4. Doors!AccessTypeOK <=> Operations!AccessTypeOK
  BY Zenon
     DEF Doors!AccessTypeOK, Operations!AccessTypeOK
<1> QED BY <1>1, <1>2, <1>3, <1>4

LEMMA DoorsHolds ==
  ASSUME PlatformConstants
  PROVE  /\ Doors!AccessInit => Operations!AccessInv
         /\ Operations!AccessInv /\ [Doors!AccessNext]_Doors!accessVars => Operations!AccessInv'
         /\ Operations!AccessInv => Doors!AccessTypeOK /\ Doors!AccessIsCurrent
<1>1. Operations!AccessConstants
  <2>1. Doors!Areas = Operations!Areas
    BY Zenon DEF Doors!Areas, Operations!Areas
  <2> QED BY <2>1 DEF PlatformConstants, Operations!AccessConstants
<1> QED BY <1>1, DoorsReads, Operations!AccessInitInv, Operations!AccessStepInv,
           Operations!AccessInvMeans, Operations!AccessTypes

LEMMA HooksReads ==
  /\ Hooks!NotifyInit <=> Operations!NotifyInit
  /\ [Hooks!NotifyNext]_Hooks!notifyVars <=> [Operations!NotifyNext]_Operations!notifyVars
  /\ Hooks!NotifyHolds <=> Operations!NotifyHolds
  /\ Hooks!NotifyTypeOK <=> Operations!NotifyTypeOK
<1>1. Hooks!NotifyInit <=> Operations!NotifyInit
  BY Zenon
     DEF Hooks!NotifyInit, Operations!NotifyInit, Hooks!Rest, Operations!Rest
<1>2. [Hooks!NotifyNext]_Hooks!notifyVars <=> [Operations!NotifyNext]_Operations!notifyVars
  BY Zenon
     DEF Hooks!NotifyNext, Operations!NotifyNext, Hooks!Register, Operations!Register,
         Hooks!RemoveHook, Operations!RemoveHook, Hooks!Registered, Operations!Registered,
         Hooks!UpdateSettings, Operations!UpdateSettings, Hooks!FireEvent, Operations!FireEvent,
         Hooks!Rest, Operations!Rest, Hooks!DispatchAlert, Operations!DispatchAlert,
         Hooks!RaiseAlert, Operations!RaiseAlert, Hooks!NextTarget, Operations!NextTarget,
         Hooks!Bump, Operations!Bump, Hooks!Attempt, Operations!Attempt, Hooks!Finished,
         Operations!Finished, Hooks!notifyVars, Operations!notifyVars
<1>3. Hooks!NotifyHolds <=> Operations!NotifyHolds
  BY Zenon
     DEF Hooks!NotifyHolds, Operations!NotifyHolds, Hooks!Registered, Operations!Registered,
         Hooks!Cardinality, Operations!Cardinality, Hooks!Running, Operations!Running
<1>4. Hooks!NotifyTypeOK <=> Operations!NotifyTypeOK
  BY Zenon
     DEF Hooks!NotifyTypeOK, Operations!NotifyTypeOK
<1> QED BY <1>1, <1>2, <1>3, <1>4

LEMMA HooksHolds ==
  ASSUME PlatformConstants
  PROVE  /\ Hooks!NotifyInit => Operations!NotifyInv /\ Operations!NotifyBounds
         /\ Operations!NotifyInv /\ Operations!NotifyBounds /\ [Hooks!NotifyNext]_Hooks!notifyVars =>
              (Operations!NotifyInv /\ Operations!NotifyBounds)'
         /\ Operations!NotifyInv /\ Operations!NotifyBounds => Hooks!NotifyTypeOK /\ Hooks!NotifyHolds
<1>1. Operations!NotifyConstants
  <2>1. IsFiniteSet(A)
    BY FS_Subset DEF PlatformConstants
  <2> QED BY <2>1 DEF PlatformConstants, Operations!NotifyConstants, Operations!IsFiniteSet, IsFiniteSet
<1>2. 2 \in Nat
  OBVIOUS
<1> QED BY <1>1, <1>2, HooksReads, Operations!NotifyKept

\* The parts of operations have their types.
OperationsTyped ==
  /\ part = "cron" => Scheduler!CronTypeOK
  /\ part = "flow" => Flow!FlowTypeOK
  /\ part = "trail" => Trail!TrailTypeOK
  /\ part = "logs" => Logs!LogTypeOK
  /\ part = "feed" => Feed!FeedTypeOK
  /\ part = "settings" => Configuration!SettingsTypeOK
  /\ part = "rollout" => Deployment!RolloutTypeOK
  /\ part = "doors" => Doors!AccessTypeOK
  /\ part = "hooks" => Hooks!NotifyTypeOK

LEMMA OperationsHold ==
  ASSUME PlatformConstants
  PROVE  Spec => [](/\ SchedulerRemembers
                    /\ OutcomeMatchesSteps
                    /\ RecordsAreComplete
                    /\ SettingsAreCurrent
                    /\ RolloutHolds
                    /\ AccessIsCurrent
                    /\ part = "hooks" => Hooks!NotifyHolds
                    /\ OperationsTyped)
<1> DEFINE I == /\ part = "cron" => Operations!SchedulerInv /\ Operations!CronTypeOK
                /\ part = "flow" => Operations!FlowInv
                /\ part = "trail" => Operations!TrailInv /\ Operations!RowsLost
                /\ part = "logs" => Operations!LogInv
                /\ part = "feed" => Operations!FeedInv
                /\ part = "settings" => Operations!SettingsInv /\ Operations!SettingsBounds
                /\ part = "rollout" => Operations!RolloutInv /\ Operations!RolloutBounds
                /\ part = "doors" => Operations!AccessInv
                /\ part = "hooks" => Operations!NotifyInv /\ Operations!NotifyBounds
<1>1. /\ Init => I
      /\ I /\ [Next]_<<part, registers>> => I'
      /\ I => /\ SchedulerRemembers
              /\ OutcomeMatchesSteps
              /\ RecordsAreComplete
              /\ SettingsAreCurrent
              /\ RolloutHolds
              /\ AccessIsCurrent
              /\ part = "hooks" => Hooks!NotifyHolds
              /\ OperationsTyped
  <2> USE CronHolds, FlowHolds, TrailHolds, LogsHolds, FeedHolds, SettingsHolds,
          DeploymentHolds, DoorsHolds, HooksHolds
  <2>1. Init => I
    BY DEF Init
  <2>2. I /\ [Next]_<<part, registers>> => I'
    BY OnePartMoves
  <2>3. I => /\ SchedulerRemembers
             /\ OutcomeMatchesSteps
             /\ RecordsAreComplete
             /\ SettingsAreCurrent
             /\ RolloutHolds
             /\ AccessIsCurrent
             /\ part = "hooks" => Hooks!NotifyHolds
             /\ OperationsTyped
    BY DEF SchedulerRemembers, OutcomeMatchesSteps, RecordsAreComplete, SettingsAreCurrent, RolloutHolds, AccessIsCurrent, OperationsTyped
  <2> QED BY <2>1, <2>2, <2>3
<1> HIDE DEF I
<1> QED BY <1>1, PTL DEF Spec

\* A removed job stays removed, and a restart delays none (automation/cron.rs).
THEOREM SchedulerKeepsItsWord ==
  ASSUME PlatformConstants
  PROVE  Spec => []SchedulerRemembers
<1> QED BY OperationsHold, PTL

\* The outcome of a workflow is that of its steps (automation/workflows.rs).
THEOREM OutcomesAreEarned ==
  ASSUME PlatformConstants
  PROVE  Spec => []OutcomeMatchesSteps
<1> QED BY OperationsHold, PTL

\* The audit trail, the log index and the data feed lose nothing unnoticed
\* (middleware/audit_sink.rs, observability/log_aggregator.rs,
\* datapipeline/pipeline.rs).
THEOREM RecordsStayComplete ==
  ASSUME PlatformConstants
  PROVE  Spec => []RecordsAreComplete
<1> QED BY OperationsHold, PTL

\* What runs is the file saved last, and the boot checks agree (config/mod.rs, the
\* watcher and validate; middleware/jwt.rs, new).
THEOREM SettingsStayCurrent ==
  ASSUME PlatformConstants
  PROVE  Spec => []SettingsAreCurrent
<1> QED BY OperationsHold, PTL

\* A rollback restores the colour before the last switch, and a flag's counts match
\* its answers (deployment/releases.rs, feature_flags.rs).
THEOREM RolloutsHold ==
  ASSUME PlatformConstants
  PROVE  Spec => []RolloutHolds
<1> QED BY OperationsHold, PTL

\* An admin handler runs for a live SuperAdmin's session, whatever overlaps with it
\* (admin/v2_handlers.rs).
THEOREM AccessStaysCurrent ==
  ASSUME PlatformConstants
  PROVE  Spec => []AccessIsCurrent
<1> QED BY OperationsHold, PTL

-----------------------------------------------------------------------------
(* The custom rules of the firewall, on one node.                            *)
WafProofs == INSTANCE WafRules_proofs WITH
  rules <- x1, next <- x2, holder <- x3, task <- x4, reloads <- x5, restarts <- x6, outbox <- x7,
  chan <- x8,
  Node <- {"node"}, Lossy <- FALSE, Writers <- {"node"}, Worker <- A, Subscriber <- "bus",
  Sync <- "sync", Pattern <- {"r", "s", "bad"}, Invalid <- {"bad"}, Configs <- OneValid,
  MaxId <- 3, MaxReloads <- OneChange, Restartable <- {}, MaxRestarts <- 0, Removes <- TRUE

LEMMA WafReads ==
  /\ Waf!Init <=> WafProofs!Init
  /\ [Waf!Next]_Waf!vars <=> [WafProofs!Next]_WafProofs!vars
  /\ Waf!UniqueIds <=> WafProofs!UniqueIds
  /\ Waf!AddIsInstalled <=> WafProofs!AddIsInstalled
  /\ Waf!TypeOK <=> WafProofs!TypeOK
<1>1. Waf!Init <=> WafProofs!Init
  BY Zenon
     DEF Waf!Init, WafProofs!Init, Waf!StartedWith, WafProofs!StartedWith, Waf!Loaded,
         WafProofs!Loaded, Waf!SetToBag, WafProofs!SetToBag, Waf!Cardinality,
         WafProofs!Cardinality, Waf!Before, WafProofs!Before, Waf!Valid, WafProofs!Valid,
         Waf!Thread, WafProofs!Thread, Waf!Idle, WafProofs!Idle, Waf!BusInit, WafProofs!BusInit,
         Waf!EmptyBag, WafProofs!EmptyBag
<1>2. [Waf!Next]_Waf!vars <=> [WafProofs!Next]_WafProofs!vars
  BY Zenon
     DEF Waf!(+), WafProofs!(+), Waf!(-), WafProofs!(-), Waf!Next, WafProofs!Next, Waf!AddTake, WafProofs!AddTake, Waf!At, WafProofs!At,
         Waf!Goto, WafProofs!Goto, Waf!Id, WafProofs!Id, Waf!Remove, WafProofs!Remove, Waf!Free,
         WafProofs!Free, Waf!IdsOf, WafProofs!IdsOf, Waf!BagToSet, WafProofs!BagToSet,
         Waf!Without, WafProofs!Without, Waf!Announce, WafProofs!Announce, Waf!SetToBag,
         WafProofs!SetToBag, Waf!ApplySkip, WafProofs!ApplySkip, Waf!Present, WafProofs!Present,
         Waf!Return, WafProofs!Return, Waf!Idle, WafProofs!Idle, Waf!ApplyPush,
         WafProofs!ApplyPush, Waf!RuleOf, WafProofs!RuleOf, Waf!Bump, WafProofs!Bump, Waf!After,
         WafProofs!After, Waf!Send, WafProofs!Send, Waf!Publish, WafProofs!Publish,
         Waf!Receivers, WafProofs!Receivers, Waf!HandleAdded, WafProofs!HandleAdded,
         Waf!Dispatch, WafProofs!Dispatch, Waf!NextEvent, WafProofs!NextEvent,
         Waf!HandleRemoved, WafProofs!HandleRemoved, Waf!ReloadStart, WafProofs!ReloadStart,
         Waf!EmptyBag, WafProofs!EmptyBag, Waf!ReloadSkip, WafProofs!ReloadSkip, Waf!ReloadTake,
         WafProofs!ReloadTake, Waf!Drawn, WafProofs!Drawn, Waf!ReloadReplace,
         WafProofs!ReloadReplace, Waf!Restart, WafProofs!Restart, Waf!StartedWith,
         WafProofs!StartedWith, Waf!Loaded, WafProofs!Loaded, Waf!Cardinality,
         WafProofs!Cardinality, Waf!Before, WafProofs!Before, Waf!Valid, WafProofs!Valid,
         Waf!Thread, WafProofs!Thread, Waf!BusRestart, WafProofs!BusRestart, Waf!vars, WafProofs!vars
<1>3. Waf!UniqueIds <=> WafProofs!UniqueIds
  BY Zenon
     DEF Waf!UniqueIds, WafProofs!UniqueIds, Waf!BagToSet, WafProofs!BagToSet
<1>4. Waf!AddIsInstalled <=> WafProofs!AddIsInstalled
  BY Zenon
     DEF Waf!AddIsInstalled, WafProofs!AddIsInstalled, Waf!At, WafProofs!At, Waf!IdsOf,
         WafProofs!IdsOf, Waf!BagToSet, WafProofs!BagToSet
<1>5. Waf!TypeOK <=> WafProofs!TypeOK
  BY Zenon
     DEF Waf!TypeOK, WafProofs!TypeOK, Waf!Rule, WafProofs!Rule, Waf!Id, WafProofs!Id,
         Waf!Thread, WafProofs!Thread, Waf!Idle, WafProofs!Idle, Waf!RuleOf,
         WafProofs!RuleOf, Waf!Event, WafProofs!Event, Waf!BagToSet, WafProofs!BagToSet
<1> QED BY <1>1, <1>2, <1>3, <1>4, <1>5

LEMMA WafHolds ==
  ASSUME PlatformConstants
  PROVE  /\ Waf!Init => WafProofs!WafInv("node")
         /\ WafProofs!WafInv("node") /\ [Waf!Next]_Waf!vars => WafProofs!WafInv("node")'
         /\ WafProofs!WafInv("node") => Waf!TypeOK /\ Waf!UniqueIds /\ Waf!AddIsInstalled
<1>1. "node" \in {"node"} /\ WafProofs!WafRulesAssumption /\ WafProofs!WafConstants("node")
  <2>1. {"node"} = {"node"} /\ "node" \notin {} /\ {"node"} \ {"node"} = {}
    OBVIOUS
  <2>2. WafProofs!OneWriter("node")
    BY <2>1 DEF WafProofs!OneWriter
  <2>3. <<"s", "bad">> \in Seq({"r", "s", "bad"}) /\ Len(<<"s", "bad">>) <= 3
    OBVIOUS
  <2>4. /\ OneValid \in [{"node"} -> SUBSET Seq({"r", "s", "bad"})]
        /\ \A n \in {"node"} : \A c \in OneValid[n] : Len(c) <= 3
    BY <2>3, Zenon DEF OneValid
  <2>5. OneChange \in [{"node"} -> Nat] /\ {3, 0} \subseteq Nat
    BY DEF OneChange
  <2>6. "bus" \notin A /\ "sync" \notin A /\ "bus" # "sync"
    BY DEF PlatformConstants
  <2>7. WafProofs!WafRulesAssumption
    BY <2>4, <2>5, <2>6 DEF PlatformConstants, WafProofs!WafRulesAssumption
  <2> QED BY <2>2, <2>4, <2>5, <2>6, <2>7 DEF WafProofs!WafConstants
<1> QED BY <1>1, WafReads, WafProofs!WafInitInv, WafProofs!WafStepInv, WafProofs!WafInvMeans

LEMMA RulesHold ==
  ASSUME PlatformConstants
  PROVE  Spec => [](CustomRulesHold /\ (part = "waf" => Waf!TypeOK))
<1> DEFINE I == part = "waf" => WafProofs!WafInv("node")
<1>1. /\ Init => I
      /\ I /\ [Next]_<<part, registers>> => I'
      /\ I => CustomRulesHold /\ (part = "waf" => Waf!TypeOK)
  <2> USE WafHolds
  <2>1. Init => I
    BY DEF Init
  <2>2. I /\ [Next]_<<part, registers>> => I'
    BY OnePartMoves
  <2>3. I => CustomRulesHold /\ (part = "waf" => Waf!TypeOK)
    BY DEF CustomRulesHold
  <2> QED BY <2>1, <2>2, <2>3
<1> HIDE DEF I
<1> QED BY <1>1, PTL DEF Spec

\* No two rules of a node share an id, and the rule an administrator was told about is
\* there, whatever the reload and the removals do meanwhile (apply_add_pattern_with_id,
\* load_custom_patterns_from_strings).
THEOREM RulesKeepTheirIds ==
  ASSUME PlatformConstants
  PROVE  Spec => []CustomRulesHold
<1> QED BY RulesHold, PTL

-----------------------------------------------------------------------------
(* Services.                                                                 *)
ServiceProofs == INSTANCE Registry_proofs WITH
  services <- x1, rows <- x2, logged <- x3, op <- x4, reboots <- x5, gone <- x6,
  failed <- x7, overlapped <- x8, check <- x9, incidents <- x10, touched <- x11,
  Id <- 1..3, Prefix <- {"p", "q"}, Name <- {"n"}, Caller <- A, ConfigServices <- OneConfigured,
  Flush <- 2, MaxRequests <- 2, MaxRestarts <- 1, Extras <- FALSE, StorageFaults <- FALSE,
  Reports <- {}, MaxIncidents <- 0

LEMMA ServicesReads ==
  /\ Services!RegistryInit <=> ServiceProofs!RegistryInit
  /\ [Services!RegistryNext]_Services!registryVars <=> [ServiceProofs!RegistryNext]_ServiceProofs!registryVars
  /\ Services!OnePerPrefix <=> ServiceProofs!OnePerPrefix
  /\ Services!Durable <=> ServiceProofs!Durable
  /\ Services!GoneForGood <=> ServiceProofs!GoneForGood
  /\ Services!RegistryTypeOK <=> ServiceProofs!RegistryTypeOK
<1>1. Services!RegistryInit <=> ServiceProofs!RegistryInit
  BY Zenon
     DEF Services!RegistryInit, ServiceProofs!RegistryInit, Services!AnyOf, ServiceProofs!AnyOf,
         Services!Draws, ServiceProofs!Draws, Services!Missing, ServiceProofs!Missing,
         Services!BootServices, ServiceProofs!BootServices, Services!FromConfig,
         ServiceProofs!FromConfig, Services!NewEntry, ServiceProofs!NewEntry, Services!Loaded,
         ServiceProofs!Loaded, Services!BootRows, ServiceProofs!BootRows, Services!AsRow,
         ServiceProofs!AsRow, Services!IdleOp, ServiceProofs!IdleOp
<1>2. [Services!RegistryNext]_Services!registryVars <=> [ServiceProofs!RegistryNext]_ServiceProofs!registryVars
  BY Zenon
     DEF Services!RegistryNext, ServiceProofs!RegistryNext, Services!Begin, ServiceProofs!Begin,
         Services!IdleOp, ServiceProofs!IdleOp, Services!Working, ServiceProofs!Working,
         Services!Discover, ServiceProofs!Discover, Services!FindByPrefix,
         ServiceProofs!FindByPrefix, Services!Live, ServiceProofs!Live, Services!Register,
         ServiceProofs!Register, Services!Find, ServiceProofs!Find, Services!Unmap,
         ServiceProofs!Unmap, Services!Unrow, ServiceProofs!Unrow, Services!RemoveService,
         ServiceProofs!RemoveService, Services!Save, ServiceProofs!Save, Services!AnyOf,
         ServiceProofs!AnyOf, Services!Fresh, ServiceProofs!Fresh, Services!Drawn,
         ServiceProofs!Drawn, Services!SaveService, ServiceProofs!SaveService,
         Services!Conflicting, ServiceProofs!Conflicting, Services!AsRow, ServiceProofs!AsRow,
         Services!NewEntry, ServiceProofs!NewEntry, Services!Insert, ServiceProofs!Insert,
         Services!Extend, ServiceProofs!Extend, Services!Unregister, ServiceProofs!Unregister,
         Services!Count, ServiceProofs!Count, Services!UpdateCount, ServiceProofs!UpdateCount,
         Services!Log, ServiceProofs!Log, Services!Restart, ServiceProofs!Restart,
         Services!Draws, ServiceProofs!Draws, Services!Missing, ServiceProofs!Missing,
         Services!BootServices, ServiceProofs!BootServices, Services!FromConfig,
         ServiceProofs!FromConfig, Services!Loaded, ServiceProofs!Loaded, Services!BootRows,
         ServiceProofs!BootRows, Services!registryVars, ServiceProofs!registryVars
<1>3. Services!OnePerPrefix <=> ServiceProofs!OnePerPrefix
  BY Zenon
     DEF Services!OnePerPrefix, ServiceProofs!OnePerPrefix, Services!Cardinality,
         ServiceProofs!Cardinality, Services!FindByPrefix, ServiceProofs!FindByPrefix,
         Services!Live, ServiceProofs!Live
<1>4. Services!Durable <=> ServiceProofs!Durable
  BY Zenon
     DEF Services!Durable, ServiceProofs!Durable, Services!Live, ServiceProofs!Live
<1>5. Services!GoneForGood <=> ServiceProofs!GoneForGood
  BY Zenon
     DEF Services!GoneForGood, ServiceProofs!GoneForGood
<1>6. Services!RegistryTypeOK <=> ServiceProofs!RegistryTypeOK
  BY Zenon
     DEF Services!RegistryTypeOK, ServiceProofs!RegistryTypeOK, Services!Entry,
         ServiceProofs!Entry, Services!Status, ServiceProofs!Status, Services!Row,
         ServiceProofs!Row, Services!Op, ServiceProofs!Op
<1> QED BY <1>1, <1>2, <1>3, <1>4, <1>5, <1>6

LEMMA ServicesHolds ==
  ASSUME PlatformConstants
  PROVE  /\ Services!RegistryInit => ServiceProofs!RegistryInv /\ ServiceProofs!RegistryBounds
         /\ ServiceProofs!RegistryInv /\ ServiceProofs!RegistryBounds /\ [Services!RegistryNext]_Services!registryVars =>
              (ServiceProofs!RegistryInv /\ ServiceProofs!RegistryBounds)'
         /\ ServiceProofs!RegistryInv /\ ServiceProofs!RegistryBounds =>
              Services!RegistryTypeOK /\ Services!OnePerPrefix /\ Services!Durable /\ Services!GoneForGood
<1>1. ServiceProofs!RegistryConstants
  <2>1. Services!Row = ServiceProofs!Row /\ Services!Entry = ServiceProofs!Entry
    BY Zenon DEF Services!Row, ServiceProofs!Row, Services!Entry, ServiceProofs!Entry, Services!Status, ServiceProofs!Status
  <2> QED BY <2>1 DEF PlatformConstants, ServiceProofs!RegistryConstants, OneConfigured
<1>2. ServiceProofs!WatchSizes
  BY DEF ServiceProofs!WatchSizes
<1> QED BY <1>1, <1>2, ServicesReads, ServiceProofs!RegistryKept

LEMMA ServicesHold ==
  ASSUME PlatformConstants
  PROVE  Spec => [](/\ OnePerPrefix
                    /\ Durable
                    /\ GoneForGood
                    /\ part = "services" => Services!RegistryTypeOK)
<1> DEFINE I == part = "services" => ServiceProofs!RegistryInv /\ ServiceProofs!RegistryBounds
<1>1. /\ Init => I
      /\ I /\ [Next]_<<part, registers>> => I'
      /\ I => /\ OnePerPrefix
              /\ Durable
              /\ GoneForGood
              /\ part = "services" => Services!RegistryTypeOK
  <2> USE ServicesHolds
  <2>1. Init => I
    BY DEF Init
  <2>2. I /\ [Next]_<<part, registers>> => I'
    BY OnePartMoves
  <2>3. I => /\ OnePerPrefix
             /\ Durable
             /\ GoneForGood
             /\ part = "services" => Services!RegistryTypeOK
    BY DEF OnePerPrefix, Durable, GoneForGood
  <2> QED BY <2>1, <2>2, <2>3
<1> HIDE DEF I
<1> QED BY <1>1, PTL DEF Spec

\* A prefix names one service unless two registrations of it overlapped
\* (registry/mod.rs, register).
THEOREM PrefixesAreUnique ==
  ASSUME PlatformConstants
  PROVE  Spec => []OnePerPrefix
<1> QED BY ServicesHold, PTL

\* A restart costs a service at most the requests since the last flush of its count
\* (registry/mod.rs, increment_request_count).
THEOREM RestartsAreCheap ==
  ASSUME PlatformConstants
  PROVE  Spec => []Durable
<1> QED BY ServicesHold, PTL

\* A service unregistered or replaced stays away (registry/mod.rs, unregister).
THEOREM RemovalsLast ==
  ASSUME PlatformConstants
  PROVE  Spec => []GoneForGood
<1> QED BY ServicesHold, PTL

-----------------------------------------------------------------------------
(* The health checker beside registrations.                                  *)
HealthProofs == INSTANCE Registry_proofs WITH
  services <- x1, rows <- x2, logged <- x3, op <- x4, reboots <- x5, gone <- x6,
  failed <- x7, overlapped <- x8, check <- x9, incidents <- x10, touched <- x11,
  Id <- 1..2, Prefix <- {"p"}, Name <- {"n", "m"}, Caller <- {"operator"}, ConfigServices <- OneConfigured,
  Flush <- 2, MaxRequests <- 0, MaxRestarts <- 1, Extras <- TRUE, StorageFaults <- FALSE,
  Reports <- {{"n", "m"}}, MaxIncidents <- 2

LEMMA HealthReads ==
  /\ (Health!RegistryInit /\ Health!HealthInit) <=> (HealthProofs!RegistryInit /\ HealthProofs!HealthInit)
  /\ [Health!HealthNext]_<<Health!registryVars, Health!healthVars>> <=> [HealthProofs!HealthNext]_<<HealthProofs!registryVars, HealthProofs!healthVars>>
  /\ Health!OneIncidentPerFailure <=> HealthProofs!OneIncidentPerFailure
  /\ Health!IncidentsFollowStatus <=> HealthProofs!IncidentsFollowStatus
  /\ Health!HealthTypeOK <=> HealthProofs!HealthTypeOK
<1>1. (Health!RegistryInit /\ Health!HealthInit) <=> (HealthProofs!RegistryInit /\ HealthProofs!HealthInit)
  BY Zenon
     DEF Health!RegistryInit, HealthProofs!RegistryInit, Health!AnyOf, HealthProofs!AnyOf,
         Health!Draws, HealthProofs!Draws, Health!Missing, HealthProofs!Missing,
         Health!BootServices, HealthProofs!BootServices, Health!FromConfig,
         HealthProofs!FromConfig, Health!NewEntry, HealthProofs!NewEntry, Health!Loaded,
         HealthProofs!Loaded, Health!BootRows, HealthProofs!BootRows, Health!AsRow,
         HealthProofs!AsRow, Health!IdleOp, HealthProofs!IdleOp, Health!HealthInit,
         HealthProofs!HealthInit, Health!Resting, HealthProofs!Resting, Health!Shared,
         HealthProofs!Shared
<1>2. [Health!HealthNext]_<<Health!registryVars, Health!healthVars>> <=> [HealthProofs!HealthNext]_<<HealthProofs!registryVars, HealthProofs!healthVars>>
  BY Zenon
     DEF Health!HealthNext, HealthProofs!HealthNext, Health!Round, HealthProofs!Round,
         Health!Live, HealthProofs!Live, Health!Resting, HealthProofs!Resting, Health!Snapshot,
         HealthProofs!Snapshot, Health!registryVars, HealthProofs!registryVars, Health!Probe,
         HealthProofs!Probe, Health!Result, HealthProofs!Result, Health!Resolve,
         HealthProofs!Resolve, Health!Open, HealthProofs!Open, Health!Look, HealthProofs!Look,
         Health!Create, HealthProofs!Create, Health!Write, HealthProofs!Write,
         Health!UpdateStatus, HealthProofs!UpdateStatus, Health!AdminCheck,
         HealthProofs!AdminCheck, Health!AdminOpen, HealthProofs!AdminOpen, Health!AdminEdit,
         HealthProofs!AdminEdit, Health!RegistryStep, HealthProofs!RegistryStep, Health!Begin,
         HealthProofs!Begin, Health!IdleOp, HealthProofs!IdleOp, Health!Working,
         HealthProofs!Working, Health!Discover, HealthProofs!Discover, Health!FindByPrefix,
         HealthProofs!FindByPrefix, Health!Register, HealthProofs!Register, Health!Find,
         HealthProofs!Find, Health!Unmap, HealthProofs!Unmap, Health!Unrow, HealthProofs!Unrow,
         Health!RemoveService, HealthProofs!RemoveService, Health!Save, HealthProofs!Save,
         Health!AnyOf, HealthProofs!AnyOf, Health!Fresh, HealthProofs!Fresh, Health!Drawn,
         HealthProofs!Drawn, Health!SaveService, HealthProofs!SaveService, Health!Conflicting,
         HealthProofs!Conflicting, Health!AsRow, HealthProofs!AsRow, Health!NewEntry,
         HealthProofs!NewEntry, Health!Insert, HealthProofs!Insert, Health!Extend,
         HealthProofs!Extend, Health!Unregister, HealthProofs!Unregister, Health!Shared,
         HealthProofs!Shared, Health!HealthRestart, HealthProofs!HealthRestart, Health!Restart,
         HealthProofs!Restart, Health!Draws, HealthProofs!Draws, Health!Missing,
         HealthProofs!Missing, Health!BootServices, HealthProofs!BootServices,
         Health!FromConfig, HealthProofs!FromConfig, Health!Loaded, HealthProofs!Loaded,
         Health!BootRows, HealthProofs!BootRows, Health!healthVars, HealthProofs!healthVars
<1>3. Health!OneIncidentPerFailure <=> HealthProofs!OneIncidentPerFailure
  BY Zenon
     DEF Health!OneIncidentPerFailure, HealthProofs!OneIncidentPerFailure, Health!Cardinality,
         HealthProofs!Cardinality, Health!Open, HealthProofs!Open
<1>4. Health!IncidentsFollowStatus <=> HealthProofs!IncidentsFollowStatus
  BY Zenon
     DEF Health!IncidentsFollowStatus, HealthProofs!IncidentsFollowStatus, Health!Live,
         HealthProofs!Live, Health!Open, HealthProofs!Open
<1>5. Health!HealthTypeOK <=> HealthProofs!HealthTypeOK
  BY Zenon
     DEF Health!HealthTypeOK, HealthProofs!HealthTypeOK, Health!RegistryTypeOK,
         HealthProofs!RegistryTypeOK, Health!Entry, HealthProofs!Entry, Health!Status,
         HealthProofs!Status, Health!Row, HealthProofs!Row, Health!Op, HealthProofs!Op,
         Health!Check, HealthProofs!Check, Health!Snap, HealthProofs!Snap,
         Health!Result, HealthProofs!Result, Health!Incident, HealthProofs!Incident
<1> QED BY <1>1, <1>2, <1>3, <1>4, <1>5

LEMMA HealthHolds ==
  ASSUME PlatformConstants
  PROVE  /\ Health!RegistryInit /\ Health!HealthInit => HealthProofs!RegistryInv /\ HealthProofs!HealthInv /\ HealthProofs!HealthBounds
         /\ HealthProofs!RegistryInv /\ HealthProofs!HealthInv /\ HealthProofs!HealthBounds /\ [Health!HealthNext]_<<Health!registryVars, Health!healthVars>> =>
              (HealthProofs!RegistryInv /\ HealthProofs!HealthInv /\ HealthProofs!HealthBounds)'
         /\ HealthProofs!RegistryInv /\ HealthProofs!HealthInv /\ HealthProofs!HealthBounds =>
              Health!HealthTypeOK /\ Health!OneIncidentPerFailure /\ Health!IncidentsFollowStatus
<1>1. HealthProofs!HealthConstants /\ HealthProofs!RegistryConstants
  <2>1. Health!Row = HealthProofs!Row /\ Health!Entry = HealthProofs!Entry
    BY Zenon DEF Health!Row, HealthProofs!Row, Health!Entry, HealthProofs!Entry, Health!Status, HealthProofs!Status
  <2>2. HealthProofs!RegistryConstants
    BY <2>1 DEF PlatformConstants, HealthProofs!RegistryConstants, OneConfigured
  <2> QED BY <2>2 DEF HealthProofs!HealthConstants
<1>2. HealthProofs!WatchSizes
  BY DEF HealthProofs!WatchSizes
<1> QED BY <1>1, <1>2, HealthReads, HealthProofs!HealthKept

-----------------------------------------------------------------------------
(* A round over several services.                                            *)
RoundProofs == INSTANCE Registry_proofs WITH
  services <- x1, rows <- x2, logged <- x3, op <- x4, reboots <- x5, gone <- x6,
  failed <- x7, overlapped <- x8, check <- x9, incidents <- x10, touched <- x11,
  Id <- 1..2, Prefix <- {"p", "q"}, Name <- {"n", "m"}, Caller <- {}, ConfigServices <- TwoConfigured,
  Flush <- 2, MaxRequests <- 0, MaxRestarts <- 1, Extras <- FALSE, StorageFaults <- FALSE,
  Reports <- {{"n", "m"}}, MaxIncidents <- 2

LEMMA RoundReads ==
  /\ (Round!RegistryInit /\ Round!HealthInit) <=> (RoundProofs!RegistryInit /\ RoundProofs!HealthInit)
  /\ [Round!HealthNext]_<<Round!registryVars, Round!healthVars>> <=> [RoundProofs!HealthNext]_<<RoundProofs!registryVars, RoundProofs!healthVars>>
  /\ Round!OneIncidentPerFailure <=> RoundProofs!OneIncidentPerFailure
  /\ Round!IncidentsFollowStatus <=> RoundProofs!IncidentsFollowStatus
  /\ Round!HealthTypeOK <=> RoundProofs!HealthTypeOK
<1>1. (Round!RegistryInit /\ Round!HealthInit) <=> (RoundProofs!RegistryInit /\ RoundProofs!HealthInit)
  BY Zenon
     DEF Round!RegistryInit, RoundProofs!RegistryInit, Round!AnyOf, RoundProofs!AnyOf,
         Round!Draws, RoundProofs!Draws, Round!Missing, RoundProofs!Missing, Round!BootServices,
         RoundProofs!BootServices, Round!FromConfig, RoundProofs!FromConfig, Round!NewEntry,
         RoundProofs!NewEntry, Round!Loaded, RoundProofs!Loaded, Round!BootRows,
         RoundProofs!BootRows, Round!AsRow, RoundProofs!AsRow, Round!IdleOp, RoundProofs!IdleOp,
         Round!HealthInit, RoundProofs!HealthInit, Round!Resting, RoundProofs!Resting,
         Round!Shared, RoundProofs!Shared
<1>2. [Round!HealthNext]_<<Round!registryVars, Round!healthVars>> <=> [RoundProofs!HealthNext]_<<RoundProofs!registryVars, RoundProofs!healthVars>>
  BY Zenon
     DEF Round!HealthNext, RoundProofs!HealthNext, Round!Round, RoundProofs!Round, Round!Live,
         RoundProofs!Live, Round!Resting, RoundProofs!Resting, Round!Snapshot,
         RoundProofs!Snapshot, Round!registryVars, RoundProofs!registryVars, Round!Probe,
         RoundProofs!Probe, Round!Result, RoundProofs!Result, Round!Resolve,
         RoundProofs!Resolve, Round!Open, RoundProofs!Open, Round!Look, RoundProofs!Look,
         Round!Create, RoundProofs!Create, Round!Write, RoundProofs!Write, Round!UpdateStatus,
         RoundProofs!UpdateStatus, Round!AdminCheck, RoundProofs!AdminCheck, Round!AdminOpen,
         RoundProofs!AdminOpen, Round!AdminEdit, RoundProofs!AdminEdit, Round!RegistryStep,
         RoundProofs!RegistryStep, Round!Begin, RoundProofs!Begin, Round!IdleOp,
         RoundProofs!IdleOp, Round!Working, RoundProofs!Working, Round!Discover,
         RoundProofs!Discover, Round!FindByPrefix, RoundProofs!FindByPrefix, Round!Register,
         RoundProofs!Register, Round!Find, RoundProofs!Find, Round!Unmap, RoundProofs!Unmap,
         Round!Unrow, RoundProofs!Unrow, Round!RemoveService, RoundProofs!RemoveService,
         Round!Save, RoundProofs!Save, Round!AnyOf, RoundProofs!AnyOf, Round!Fresh,
         RoundProofs!Fresh, Round!Drawn, RoundProofs!Drawn, Round!SaveService,
         RoundProofs!SaveService, Round!Conflicting, RoundProofs!Conflicting, Round!AsRow,
         RoundProofs!AsRow, Round!NewEntry, RoundProofs!NewEntry, Round!Insert,
         RoundProofs!Insert, Round!Extend, RoundProofs!Extend, Round!Unregister,
         RoundProofs!Unregister, Round!Shared, RoundProofs!Shared, Round!HealthRestart,
         RoundProofs!HealthRestart, Round!Restart, RoundProofs!Restart, Round!Draws,
         RoundProofs!Draws, Round!Missing, RoundProofs!Missing, Round!BootServices,
         RoundProofs!BootServices, Round!FromConfig, RoundProofs!FromConfig, Round!Loaded,
         RoundProofs!Loaded, Round!BootRows, RoundProofs!BootRows, Round!healthVars,
         RoundProofs!healthVars
<1>3. Round!OneIncidentPerFailure <=> RoundProofs!OneIncidentPerFailure
  BY Zenon
     DEF Round!OneIncidentPerFailure, RoundProofs!OneIncidentPerFailure, Round!Cardinality,
         RoundProofs!Cardinality, Round!Open, RoundProofs!Open
<1>4. Round!IncidentsFollowStatus <=> RoundProofs!IncidentsFollowStatus
  BY Zenon
     DEF Round!IncidentsFollowStatus, RoundProofs!IncidentsFollowStatus, Round!Live,
         RoundProofs!Live, Round!Open, RoundProofs!Open
<1>5. Round!HealthTypeOK <=> RoundProofs!HealthTypeOK
  BY Zenon
     DEF Round!HealthTypeOK, RoundProofs!HealthTypeOK, Round!RegistryTypeOK,
         RoundProofs!RegistryTypeOK, Round!Entry, RoundProofs!Entry, Round!Status,
         RoundProofs!Status, Round!Row, RoundProofs!Row, Round!Op, RoundProofs!Op,
         Round!Check, RoundProofs!Check, Round!Snap, RoundProofs!Snap, Round!Result,
         RoundProofs!Result, Round!Incident, RoundProofs!Incident
<1> QED BY <1>1, <1>2, <1>3, <1>4, <1>5

LEMMA RoundHolds ==
  ASSUME PlatformConstants
  PROVE  /\ Round!RegistryInit /\ Round!HealthInit => RoundProofs!RegistryInv /\ RoundProofs!HealthInv /\ RoundProofs!HealthBounds
         /\ RoundProofs!RegistryInv /\ RoundProofs!HealthInv /\ RoundProofs!HealthBounds /\ [Round!HealthNext]_<<Round!registryVars, Round!healthVars>> =>
              (RoundProofs!RegistryInv /\ RoundProofs!HealthInv /\ RoundProofs!HealthBounds)'
         /\ RoundProofs!RegistryInv /\ RoundProofs!HealthInv /\ RoundProofs!HealthBounds =>
              Round!HealthTypeOK /\ Round!OneIncidentPerFailure /\ Round!IncidentsFollowStatus
<1>1. RoundProofs!HealthConstants /\ RoundProofs!RegistryConstants
  <2>1. Round!Row = RoundProofs!Row /\ Round!Entry = RoundProofs!Entry
    BY Zenon DEF Round!Row, RoundProofs!Row, Round!Entry, RoundProofs!Entry, Round!Status, RoundProofs!Status
  <2>2. RoundProofs!RegistryConstants
    BY <2>1 DEF PlatformConstants, RoundProofs!RegistryConstants, TwoConfigured
  <2> QED BY <2>2 DEF RoundProofs!HealthConstants
<1>2. RoundProofs!WatchSizes
  BY DEF RoundProofs!WatchSizes
<1> QED BY <1>1, <1>2, RoundReads, RoundProofs!HealthKept

LEMMA ChecksHold ==
  ASSUME PlatformConstants
  PROVE  Spec => [](/\ OneIncidentPerFailure
                    /\ IncidentsFollowStatus
                    /\ part = "health" => Health!HealthTypeOK
                    /\ part = "round" => Round!HealthTypeOK)
<1> DEFINE I == /\ part = "health" => HealthProofs!RegistryInv /\ HealthProofs!HealthInv /\ HealthProofs!HealthBounds
                /\ part = "round" => RoundProofs!RegistryInv /\ RoundProofs!HealthInv /\ RoundProofs!HealthBounds
<1>1. /\ Init => I
      /\ I /\ [Next]_<<part, registers>> => I'
      /\ I => /\ OneIncidentPerFailure
              /\ IncidentsFollowStatus
              /\ part = "health" => Health!HealthTypeOK
              /\ part = "round" => Round!HealthTypeOK
  <2> USE HealthHolds, RoundHolds
  <2>1. Init => I
    BY DEF Init
  <2>2. I /\ [Next]_<<part, registers>> => I'
    BY OnePartMoves
  <2>3. I => /\ OneIncidentPerFailure
             /\ IncidentsFollowStatus
             /\ part = "health" => Health!HealthTypeOK
             /\ part = "round" => Round!HealthTypeOK
    BY DEF OneIncidentPerFailure, IncidentsFollowStatus
  <2> QED BY <2>1, <2>2, <2>3
<1> HIDE DEF I
<1> QED BY <1>1, PTL DEF Spec

\* One incident per failure (health/mod.rs), however rounds and registrations of
\* services interleave.
THEOREM FailuresOpenOneIncident ==
  ASSUME PlatformConstants
  PROVE  Spec => []OneIncidentPerFailure
<1> QED BY ChecksHold, PTL

\* Statuses and incidents agree between two services of a round (health/mod.rs).
THEOREM IncidentsMatchStatuses ==
  ASSUME PlatformConstants
  PROVE  Spec => []IncidentsFollowStatus
<1> QED BY ChecksHold, PTL

-----------------------------------------------------------------------------
(* Accounts.                                                                 *)
AccountProofs == INSTANCE Identity_proofs WITH
  users <- x1, index <- x2, rows <- x3, failed <- x4, status <- x5, call <- x6, now <- x7,
  restarts <- x8, owner <- x9, ousted <- x10, late <- x11,
  User <- B, Email <- {"AB", "ab"}, Normal <- LowerCase, Role <- {"viewer"}, Token <- {}, Actor <- A,
  MaxFailed <- 1, Window <- 1, MaxEntries <- 2, MaxTime <- 0, MaxRestarts <- 1

LEMMA AccountsReads ==
  /\ Accounts!Init <=> AccountProofs!Init
  /\ [Accounts!Next]_Accounts!vars <=> [AccountProofs!Next]_AccountProofs!vars
  /\ Accounts!RestartLosesNothing <=> AccountProofs!RestartLosesNothing
  /\ Accounts!Findable <=> AccountProofs!Findable
  /\ Accounts!TypeOK <=> AccountProofs!TypeOK
<1>1. Accounts!Init <=> AccountProofs!Init
  BY Zenon
     DEF Accounts!Init, AccountProofs!Init, Accounts!Tokens!Init, AccountProofs!Tokens!Init, Accounts!Tokens!Install, AccountProofs!Tokens!Install, Accounts!Tokens!Retire, AccountProofs!Tokens!Retire,
         Accounts!Idle, AccountProofs!Idle
<1>2. [Accounts!Next]_Accounts!vars <=> [AccountProofs!Next]_AccountProofs!vars
  BY Zenon
     DEF Accounts!Next, AccountProofs!Next, Accounts!Authenticating,
         AccountProofs!Authenticating, Accounts!Unlock, AccountProofs!Unlock, Accounts!At,
         AccountProofs!At, Accounts!Goto, AccountProofs!Goto, Accounts!accounts,
         AccountProofs!accounts, Accounts!history, AccountProofs!history,
         Accounts!VerifyUnknown, AccountProofs!VerifyUnknown, Accounts!Found,
         AccountProofs!Found, Accounts!VerifyDisabled, AccountProofs!VerifyDisabled,
         Accounts!Writable, AccountProofs!Writable, Accounts!Held, AccountProofs!Held,
         Accounts!Return, AccountProofs!Return, Accounts!Idle, AccountProofs!Idle,
         Accounts!VerifyWrong, AccountProofs!VerifyWrong, Accounts!VerifyRight,
         AccountProofs!VerifyRight, Accounts!MayLogIn, AccountProofs!MayLogIn, Accounts!Draw,
         AccountProofs!Draw, Accounts!Update, AccountProofs!Update, Accounts!Persist,
         AccountProofs!Persist, Accounts!Prune, AccountProofs!Prune, Accounts!MapFull,
         AccountProofs!MapFull, Accounts!Cardinality, AccountProofs!Cardinality,
         Accounts!Counted, AccountProofs!Counted, Accounts!Kept, AccountProofs!Kept,
         Accounts!Oldest, AccountProofs!Oldest, Accounts!Evict, AccountProofs!Evict,
         Accounts!Count, AccountProofs!Count, Accounts!Counting, AccountProofs!Counting,
         Accounts!Create, AccountProofs!Create, Accounts!Tokens!Init, AccountProofs!Tokens!Init, Accounts!Tokens!Install, AccountProofs!Tokens!Install, Accounts!Tokens!Retire, AccountProofs!Tokens!Retire,
         Accounts!Login, AccountProofs!Login, Accounts!Full, AccountProofs!Full, Accounts!Begin,
         AccountProofs!Begin, Accounts!LoginAfterWindow, AccountProofs!LoginAfterWindow,
         Accounts!WindowOver, AccountProofs!WindowOver, Accounts!Register,
         AccountProofs!Register, Accounts!RegisterPersist, AccountProofs!RegisterPersist,
         Accounts!RegisterIndex, AccountProofs!RegisterIndex, Accounts!RegisterInsert,
         AccountProofs!RegisterInsert, Accounts!MfaLogin, AccountProofs!MfaLogin,
         Accounts!Enroll, AccountProofs!Enroll, Accounts!VerifyMfa, AccountProofs!VerifyMfa,
         Accounts!DisableMfa, AccountProofs!DisableMfa, Accounts!DisableUser,
         AccountProofs!DisableUser, Accounts!LogoutAll, AccountProofs!LogoutAll,
         Accounts!UpdateRole, AccountProofs!UpdateRole, Accounts!Oust, AccountProofs!Oust,
         Accounts!SessionsOf, AccountProofs!SessionsOf, Accounts!SessionEnds,
         AccountProofs!SessionEnds, Accounts!Tick, AccountProofs!Tick, Accounts!Restart,
         AccountProofs!Restart, Accounts!Indexed, AccountProofs!Indexed, Accounts!vars,
         AccountProofs!vars
<1>3. Accounts!RestartLosesNothing <=> AccountProofs!RestartLosesNothing
  BY Zenon
     DEF Accounts!RestartLosesNothing, AccountProofs!RestartLosesNothing
<1>4. Accounts!Findable <=> AccountProofs!Findable
  BY Zenon
     DEF Accounts!Findable, AccountProofs!Findable, Accounts!Shared, AccountProofs!Shared,
         Accounts!At, AccountProofs!At
<1>5. Accounts!TypeOK <=> AccountProofs!TypeOK
  BY Zenon
     DEF Accounts!TypeOK, AccountProofs!TypeOK, Accounts!Account, AccountProofs!Account,
         Accounts!Failures, AccountProofs!Failures, Accounts!Call, AccountProofs!Call
<1> QED BY <1>1, <1>2, <1>3, <1>4, <1>5

LEMMA AccountsHolds ==
  ASSUME PlatformConstants
  PROVE  /\ Accounts!Init => AccountProofs!AccountsInv
         /\ AccountProofs!AccountsInv /\ [Accounts!Next]_Accounts!vars => AccountProofs!AccountsInv'
         /\ AccountProofs!AccountsInv => Accounts!TypeOK /\ Accounts!RestartLosesNothing /\ Accounts!Findable
<1>1. AccountProofs!IdentityAssumption
  <2>1. LowerCase \in [{"AB", "ab"} -> {"AB", "ab"}] /\ \A e \in {"AB", "ab"} : LowerCase[LowerCase[e]] = LowerCase[e]
    BY DEF LowerCase
  <2>2. IsFiniteSet(A)
    BY FS_Subset DEF PlatformConstants
  <2>3. Accounts!Account = AccountProofs!Account
    BY Zenon DEF Accounts!Account, AccountProofs!Account
  <2> QED BY <2>1, <2>2, <2>3 DEF PlatformConstants, AccountProofs!IdentityAssumption, AccountProofs!IsFiniteSet, IsFiniteSet
<1> QED BY <1>1, AccountsReads, AccountProofs!AccountsInitInv,
           AccountProofs!AccountsStepInv, AccountProofs!AccountsInvMeans DEF AccountProofs!AccountsInv, AccountProofs!Typed

LEMMA AccountsSafe ==
  ASSUME PlatformConstants
  PROVE  Spec => [](AccountsHold /\ (part = "accounts" => Accounts!TypeOK))
<1> DEFINE I == part = "accounts" => AccountProofs!AccountsInv
<1>1. /\ Init => I
      /\ I /\ [Next]_<<part, registers>> => I'
      /\ I => AccountsHold /\ (part = "accounts" => Accounts!TypeOK)
  <2> USE AccountsHolds
  <2>1. Init => I
    BY DEF Init
  <2>2. I /\ [Next]_<<part, registers>> => I'
    BY OnePartMoves
  <2>3. I => AccountsHold /\ (part = "accounts" => Accounts!TypeOK)
    BY DEF AccountsHold
  <2> QED BY <2>1, <2>2, <2>3
<1> HIDE DEF I
<1> QED BY <1>1, PTL DEF Spec

\* Overlapping registrations of one address, and a restart anywhere, cost an account
\* its row or its index entry only to another of the same address, or to the form
\* the address was typed in (identity/users.rs, register and persist_user).
THEOREM AccountsAreHeld ==
  ASSUME PlatformConstants
  PROVE  Spec => []AccountsHold
<1> QED BY AccountsSafe, PTL

-----------------------------------------------------------------------------
(* The limiter beside requests: the proofs of the gates, of one client. *)
RateProofs == INSTANCE Gates_proofs WITH
  enabled <- x1, depth <- x2, place <- x3, permits <- x4, leaving <- x5, abandoned <- x6,
  Client <- A \cup B, MaxConcurrent <- 1, MaxAbandoned <- 1, MaxLeaving <- 3,
  entries <- x1, user <- x2, overlapped <- x3,
  Key <- {"k", "l", "m"}, User <- A, MaxEntries <- 2, Ttl <- 1, Etag <- {"e"}, NoEntry <- None,
  granted <- x1, revokedFor <- x2, tokenCache <- x3, asker <- x4, verdict <- x5,
  Asker <- A, CacheTtl <- 2, MaxFlight <- 2, Nil <- None,
  daily <- x1, serving <- x2, resets <- x3,
  Tenant <- {"small", "free"}, Quotas <- QuotaOf, Served <- 1..3, MaxCount <- 5, NoQuota <- None,
  dns <- x1, goneFor <- x2, pinned <- x3, resolver <- x4, handed <- x5,
  Address <- {1, 2, 3}, Class <- ClassOf, Resolver <- A, PinTtl <- 2, MaxLookup <- 1, NoPin <- None,
  key <- x1, call <- x2, admitted <- x3, unset <- x4,
  Gateway <- A, MaxRequests <- 2, Window <- 3, MaxCounted <- 4,
  limit <- x1, proxies <- x2, trustXff <- x3, bucket <- x4, counting <- x5, reloads <- x6,
  passed <- x7,
  Addr <- {"c", "proxy"}, Proxies <- {{"proxy"}}, Chains <- {}, Traffic <- {<<"proxy", <<"c">>>>},
  Limits <- Windows, Workers <- A, MaxDelay <- 1, MaxReloads <- 2,
  Junk <- "junk", Nobody <- None,
  req <- x1, cache <- x2, cacheOn <- x3, ttl <- x4, clearing <- x5, switches <- x6, offs <- x7,
  open <- x8, audited <- x9,
  Request <- A, MaxRetries <- 1, Ttls <- {1, 2}, MaxHold <- 1, MaxSwitches <- 2, Transforms <- FALSE,
  sent <- x1, got <- x2, pump <- x3, hand <- x4, MaxSent <- 4, NoMessage <- None

LEMMA RatesReads ==
  /\ Rates!LimiterInit <=> RateProofs!LimiterInit
  /\ [Rates!LimiterNext]_Rates!limiterVars <=> [RateProofs!LimiterNext]_RateProofs!limiterVars
  /\ Rates!BurstBound <=> RateProofs!BurstBound
  /\ Rates!LimiterTypeOK <=> RateProofs!LimiterTypeOK
<1>1. Rates!LimiterInit <=> RateProofs!LimiterInit
  BY Zenon
     DEF Rates!LimiterInit, RateProofs!LimiterInit, Rates!ClientKey, RateProofs!ClientKey,
         Rates!Hop, RateProofs!Hop, Rates!Span, RateProofs!Span, Rates!Narrowest,
         RateProofs!Narrowest
<1>2. [Rates!LimiterNext]_Rates!limiterVars <=> [RateProofs!LimiterNext]_RateProofs!limiterVars
  BY Zenon
     DEF Rates!LimiterNext, RateProofs!LimiterNext, Rates!Second, RateProofs!Second,
         Rates!ClientKey, RateProofs!ClientKey, Rates!Hop, RateProofs!Hop, Rates!Older,
         RateProofs!Older, Rates!Oldest, RateProofs!Oldest, Rates!Widest, RateProofs!Widest,
         Rates!OneSecondOn, RateProofs!OneSecondOn, Rates!Span, RateProofs!Span,
         Rates!Narrowest, RateProofs!Narrowest, Rates!EvictBuckets, RateProofs!EvictBuckets,
         Rates!CountRequest, RateProofs!CountRequest, Rates!Current, RateProofs!Current,
         Rates!Elapsed, RateProofs!Elapsed, Rates!Most, RateProofs!Most, Rates!Passes,
         RateProofs!Passes, Rates!OneMoreThrough, RateProofs!OneMoreThrough, Rates!Enter, RateProofs!Enter,
         Rates!ClientIp, RateProofs!ClientIp, Rates!Walked, RateProofs!Walked, Rates!Stops,
         RateProofs!Stops, Rates!FirstHop, RateProofs!FirstHop, Rates!LastStop,
         RateProofs!LastStop, Rates!ReloadLimits, RateProofs!ReloadLimits, Rates!limiterVars,
         RateProofs!limiterVars
<1>3. Rates!BurstBound <=> RateProofs!BurstBound
  BY Zenon
     DEF Rates!BurstBound, RateProofs!BurstBound, Rates!ClientKey, RateProofs!ClientKey,
         Rates!Hop, RateProofs!Hop, Rates!Span, RateProofs!Span, Rates!Narrowest,
         RateProofs!Narrowest, Rates!Most, RateProofs!Most
<1>4. Rates!LimiterTypeOK <=> RateProofs!LimiterTypeOK
  BY Zenon
     DEF Rates!LimiterTypeOK, RateProofs!LimiterTypeOK, Rates!ClientKey,
         RateProofs!ClientKey, Rates!Hop, RateProofs!Hop, Rates!Most, RateProofs!Most,
         Rates!Age, RateProofs!Age, Rates!Oldest, RateProofs!Oldest, Rates!Widest,
         RateProofs!Widest
<1> QED BY <1>1, <1>2, <1>3, <1>4

LEMMA RatesHolds ==
  ASSUME PlatformConstants
  PROVE  /\ Rates!LimiterInit => RateProofs!LimiterInv
         /\ RateProofs!LimiterInv /\ [Rates!LimiterNext]_Rates!limiterVars => RateProofs!LimiterInv'
         /\ RateProofs!LimiterInv => Rates!LimiterTypeOK /\ Rates!BurstBound
<1>1. RateProofs!LimiterConstants
  <2>1. /\ RateProofs!Hop = {"c", "proxy", "junk", None} /\ RateProofs!Hop \subseteq Hops
        /\ {"c", "proxy"} \subseteq Proxied
    BY DEF RateProofs!Hop, Hops, Proxied
  <2>2. <<"c">> \in Seq(RateProofs!Hop)
    BY <2>1
  <2>3. {<<"proxy", <<"c">>>>} \subseteq {"c", "proxy"} \X Seq(RateProofs!Hop)
    BY <2>2
  <2>4. None \notin {"c", "proxy"} /\ None \notin [count: Nat, age: Nat]
    BY <2>1 DEF PlatformConstants
  <2>5. [key: RateProofs!Hop, max: Nat, window: Nat, age: Nat] \subseteq [key: Hops, max: Nat, window: Nat, age: Nat]
    BY <2>1
  <2>6. None \notin [key: RateProofs!Hop, max: Nat, window: Nat, age: Nat]
    BY <2>5 DEF PlatformConstants
  <2>7. {} \subseteq Seq(RateProofs!Hop) /\ 1 \in Nat /\ 2 \in Nat
    OBVIOUS
  <2> QED BY <2>3, <2>4, <2>6, <2>7, WindowsAreLimits, Zenon DEF RateProofs!LimiterConstants
<1> QED BY <1>1, RatesReads, RateProofs!LimiterInitInv, RateProofs!LimiterStepInv,
           RateProofs!LimiterInvMeans

LEMMA BurstsHold ==
  ASSUME PlatformConstants
  PROVE  Spec => [](BurstBound /\ (part = "rates" => Rates!LimiterTypeOK))
<1> DEFINE I == part = "rates" => RateProofs!LimiterInv
<1>1. /\ Init => I
      /\ I /\ [Next]_<<part, registers>> => I'
      /\ I => BurstBound /\ (part = "rates" => Rates!LimiterTypeOK)
  <2> USE RatesHolds
  <2>1. Init => I
    BY DEF Init
  <2>2. I /\ [Next]_<<part, registers>> => I'
    BY OnePartMoves
  <2>3. I => BurstBound /\ (part = "rates" => Rates!LimiterTypeOK)
    BY DEF BurstBound
  <2> QED BY <2>1, <2>2, <2>3
<1> HIDE DEF I
<1> QED BY <1>1, PTL DEF Spec

\* A client gets less than twice the limit through within one window less a delay,
\* across evictions, reloads and late clocks (middleware/rate_limit.rs, call).
THEOREM BurstsStayBounded ==
  ASSUME PlatformConstants
  PROVE  Spec => []BurstBound
<1> QED BY BurstsHold, PTL

-----------------------------------------------------------------------------
(* Alerts: the proofs of the webhooks, for channels and a URL.               *)
AlertProofs == INSTANCE Operations_proofs WITH
  channel <- x1, hand <- x2, table <- x3, out <- x4, worker <- x5, sent <- x6, refused <- x7,
  errors <- x8, lost <- x9,
  Entry <- {"e", "f", "g"}, Worker <- A, Sinks <- <<"file", "http">>, Buffer <- 1, NoEntry <- None,
  nextId <- x1, index <- x2, logs <- x3, ingest <- x4, met <- x5,
  Word <- B, Source <- A, MaxEntries <- 2, MaxLogs <- 4, Nil <- None,
  version <- x1, watcher <- x2, check <- x3, fetched <- x4, told <- x5, overlapped <- x6,
  buffer <- x7, events <- x8,
  Checker <- A, Sink <- TRUE, BufferSize <- 2, MaxVersions <- 3, MaxEvents <- 4, Idle <- None,
  role <- x1, enabled <- x2, live <- x3, old <- x4, late <- x5, visit <- x6,
  User <- B, Visitor <- A, Bits <- 3, NoOne <- None,
  file <- x1, pending <- x2, watching <- x3, writes <- x4, sharedConfig <- x5, installed <- x6, up <- x7,
  base <- x8, dirty <- x9, overlap <- x10, missed <- x11,
  Limits <- {0, 5}, Patterns <- {1, 2}, Keys <- {"own"}, MaxWrites <- 2, Broken <- None,
  release <- x1, before <- x2, switches <- x3, flag <- x4, on <- x5,
  Context <- {1, 2, 3}, HashOf <- <<0, 1, 3>>, Rules <- {{1, 2}, {2, 3}}, Buckets <- 4,
  MaxSwitches <- 3, MaxEvals <- 2, Width <- 3,
  hooks <- x1, sender <- x2, settings <- x3, answered <- x4, channelled <- x5,
  Hook <- {}, Channel <- {"mail", "chat"}, Sender <- A, Url <- {"url", "other"}, MaxCount <- 0,
  jobs <- x1, cronRows <- x2, inFlight <- x3, running <- x4, handles <- x5, saving <- x6,
  adding <- x7, removing <- x8, crashes <- x9, removed <- x10, raced <- x11,
  Job <- {1, 2}, Every <- EverySecond, MaxCrashes <- 1, NoJob <- None,
  status <- x1, steps <- x2, error <- x3, run <- x4, calls <- x5, shared <- x6,
  Plan <- <<"Stop", "Skip", "Retry">>, Retries <- 2, Runner <- A, MaxRuns <- 3

LEMMA AlertsReads ==
  /\ Alerts!NotifyInit <=> AlertProofs!NotifyInit
  /\ [Alerts!NotifyNext]_Alerts!notifyVars <=> [AlertProofs!NotifyNext]_AlertProofs!notifyVars
  /\ Alerts!NotifyHolds <=> AlertProofs!NotifyHolds
  /\ Alerts!NotifyTypeOK <=> AlertProofs!NotifyTypeOK
<1>1. Alerts!NotifyInit <=> AlertProofs!NotifyInit
  BY Zenon
     DEF Alerts!NotifyInit, AlertProofs!NotifyInit, Alerts!Rest, AlertProofs!Rest
<1>2. [Alerts!NotifyNext]_Alerts!notifyVars <=> [AlertProofs!NotifyNext]_AlertProofs!notifyVars
  BY Zenon
     DEF Alerts!NotifyNext, AlertProofs!NotifyNext, Alerts!Register, AlertProofs!Register,
         Alerts!RemoveHook, AlertProofs!RemoveHook, Alerts!Registered, AlertProofs!Registered,
         Alerts!UpdateSettings, AlertProofs!UpdateSettings, Alerts!FireEvent,
         AlertProofs!FireEvent, Alerts!Rest, AlertProofs!Rest, Alerts!DispatchAlert,
         AlertProofs!DispatchAlert, Alerts!RaiseAlert, AlertProofs!RaiseAlert,
         Alerts!NextTarget, AlertProofs!NextTarget, Alerts!Bump, AlertProofs!Bump,
         Alerts!Attempt, AlertProofs!Attempt, Alerts!Finished, AlertProofs!Finished,
         Alerts!notifyVars, AlertProofs!notifyVars
<1>3. Alerts!NotifyHolds <=> AlertProofs!NotifyHolds
  BY Zenon
     DEF Alerts!NotifyHolds, AlertProofs!NotifyHolds, Alerts!Registered, AlertProofs!Registered,
         Alerts!Cardinality, AlertProofs!Cardinality, Alerts!Running, AlertProofs!Running
<1>4. Alerts!NotifyTypeOK <=> AlertProofs!NotifyTypeOK
  BY Zenon
     DEF Alerts!NotifyTypeOK, AlertProofs!NotifyTypeOK
<1> QED BY <1>1, <1>2, <1>3, <1>4

LEMMA AlertsHolds ==
  ASSUME PlatformConstants
  PROVE  /\ Alerts!NotifyInit => AlertProofs!NotifyInv /\ AlertProofs!NotifyBounds
         /\ AlertProofs!NotifyInv /\ AlertProofs!NotifyBounds /\ [Alerts!NotifyNext]_Alerts!notifyVars =>
              (AlertProofs!NotifyInv /\ AlertProofs!NotifyBounds)'
         /\ AlertProofs!NotifyInv /\ AlertProofs!NotifyBounds => Alerts!NotifyTypeOK /\ Alerts!NotifyHolds
<1>1. AlertProofs!NotifyConstants
  <2>1. IsFiniteSet(A)
    BY FS_Subset DEF PlatformConstants
  <2> QED BY <2>1 DEF PlatformConstants, AlertProofs!NotifyConstants, AlertProofs!IsFiniteSet, IsFiniteSet
<1>2. 0 \in Nat
  OBVIOUS
<1> QED BY <1>1, <1>2, AlertsReads, AlertProofs!NotifyKept

LEMMA AlertingHolds ==
  ASSUME PlatformConstants
  PROVE  Spec => []((part = "alerts" => Alerts!NotifyHolds) /\ (part = "alerts" => Alerts!NotifyTypeOK))
<1> DEFINE I == part = "alerts" => AlertProofs!NotifyInv /\ AlertProofs!NotifyBounds
<1>1. /\ Init => I
      /\ I /\ [Next]_<<part, registers>> => I'
      /\ I => (part = "alerts" => Alerts!NotifyHolds) /\ (part = "alerts" => Alerts!NotifyTypeOK)
  <2> USE AlertsHolds
  <2>1. Init => I
    BY DEF Init
  <2>2. I /\ [Next]_<<part, registers>> => I'
    BY OnePartMoves
  <2>3. I => (part = "alerts" => Alerts!NotifyHolds) /\ (part = "alerts" => Alerts!NotifyTypeOK)
    OBVIOUS
  <2> QED BY <2>1, <2>2, <2>3
<1> HIDE DEF I
<1> QED BY <1>1, PTL DEF Spec

\* What is sent adds up, for webhooks and for alerts (alerting/webhooks.rs,
\* channels.rs, mod.rs).
THEOREM NotificationsHold ==
  ASSUME PlatformConstants
  PROVE  Spec => []NotifyHolds
<1> QED BY OperationsHold, AlertingHolds, PTL DEF NotifyHolds

-----------------------------------------------------------------------------
(* Types.                                                                    *)

\* Every part stays within its types: no counter, buffer or history leaves its
\* bounds, and what a task holds between two steps is what its last step left
\* there (the handlers of all components; request_queue.rs, cron.rs, users.rs).
THEOREM TypesHold ==
  ASSUME PlatformConstants
  PROVE  Spec => []PlatformTypeOK
<1>1. /\ GatesTyped /\ OperationsTyped
      /\ part = "services" => Services!RegistryTypeOK
      /\ part = "health" => Health!HealthTypeOK
      /\ part = "round" => Round!HealthTypeOK
      /\ part = "waf" => Waf!TypeOK
      /\ part = "accounts" => Accounts!TypeOK
      /\ part = "rates" => Rates!LimiterTypeOK
      /\ part = "alerts" => Alerts!NotifyTypeOK
      => PlatformTypeOK
  BY DEF GatesTyped, OperationsTyped, PlatformTypeOK
<1> QED BY <1>1, GatesHold, OperationsHold, ServicesHold, ChecksHold, RulesHold, AccountsSafe, BurstsHold,
           AlertingHolds, PTL

=============================================================================
