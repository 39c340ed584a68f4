----------------------------- MODULE MCPlatform -----------------------------
(* The components that share no state with one another, checked side by side: *)
(* a behaviour is one of the component that `part` names, and the registers   *)
(* x1..x11 hold that component's variables.  Workers and the like are taken *)
(* from A, some of the things they work on from B, so that one set of         *)
(* permutations is a symmetry of every part.                                  *)
EXTENDS Integers, Sequences, FiniteSets, TLC

CONSTANTS
  A, B,                        \* two interchangeable values each
  None                         \* no value

VARIABLES part, x1, x2, x3, x4, x5, x6, x7, x8, x9, x10, x11

registers == <<x1, x2, x3, x4, x5, x6, x7, x8, x9, x10, x11>>
Symmetry == Permutations(A) \cup Permutations(B)

-----------------------------------------------------------------------------
(* The parts.                                                                *)
OneConfigured == [p \in {"p"} |-> "n"]
Services == INSTANCE Registry WITH
  services <- x1, rows <- x2, logged <- x3, op <- x4, reboots <- x5, gone <- x6,
  failed <- x7, overlapped <- x8,
  Id <- 1..3, Prefix <- {"p", "q"}, Name <- {"n"}, Caller <- A, ConfigServices <- OneConfigured,
  Flush <- 2, MaxRequests <- 2, MaxRestarts <- 1, Extras <- FALSE, StorageFaults <- FALSE

Health == INSTANCE HealthWatch WITH
  services <- x1, rows <- x2, logged <- x3, op <- x4, reboots <- x5, gone <- x6,
  failed <- x7, overlapped <- x8, check <- x9, incidents <- x10, touched <- x11,
  Id <- 1..2, Prefix <- {"p"}, Name <- {"n", "m"}, Caller <- {"operator"}, ConfigServices <- OneConfigured,
  Flush <- 2, MaxRequests <- 0, MaxRestarts <- 1, Extras <- TRUE, StorageFaults <- FALSE,
  Reports <- {{"n", "m"}}, MaxIncidents <- 2

\* Two configured services, and nobody who registers.
TwoConfigured == [p \in {"p", "q"} |-> IF p = "p" THEN "n" ELSE "m"]
Round == INSTANCE HealthWatch WITH
  services <- x1, rows <- x2, logged <- x3, op <- x4, reboots <- x5, gone <- x6,
  failed <- x7, overlapped <- x8, check <- x9, incidents <- x10, touched <- x11,
  Id <- 1..2, Prefix <- {"p", "q"}, Name <- {"n", "m"}, Caller <- {}, ConfigServices <- TwoConfigured,
  Flush <- 2, MaxRequests <- 0, MaxRestarts <- 1, Extras <- FALSE, StorageFaults <- FALSE,
  Reports <- {{"n", "m"}}, MaxIncidents <- 2

EverySecond == <<1, 2>>
Scheduler == INSTANCE Cron WITH
  jobs <- x1, cronRows <- x2, inFlight <- x3, running <- x4, handles <- x5, saving <- x6,
  adding <- x7, removing <- x8, crashes <- x9, removed <- x10, raced <- x11,
  Job <- {1, 2}, Every <- EverySecond, MaxCrashes <- 1, NoJob <- None

Flow == INSTANCE Workflows WITH
  status <- x1, steps <- x2, error <- x3, run <- x4, calls <- x5, shared <- x6,
  Plan <- <<"Stop", "Skip", "Retry">>, Retries <- 2, Runner <- A, MaxRuns <- 3

Proxied == {"c", "d", "proxy"}
Hops == Proxied \cup {"junk", None}
Windows == {[max |-> 2, window |-> 3], [max |-> 2, window |-> 2], [max |-> 1, window |-> 2]}
Rates == INSTANCE Limiter WITH
  limit <- x1, proxies <- x2, trustXff <- x3, bucket <- x4, counting <- x5, reloads <- x6,
  passed <- x7,
  Addr <- {"c", "proxy"}, Proxies <- {{"proxy"}}, Chains <- {}, Traffic <- {<<"proxy", <<"c">>>>},
  Limits <- Windows, Workers <- A, MaxDelay <- 1, MaxReloads <- 2, Junk <- "junk", Nobody <- None

\* Every header of up to three hops, and no request.
Headers == INSTANCE Limiter WITH
  limit <- x1, proxies <- x2, trustXff <- x3, bucket <- x4, counting <- x5, reloads <- x6,
  passed <- x7,
  Addr <- Proxied, Proxies <- SUBSET Proxied, Chains <- UNION {[1..n -> Hops] : n \in 0..3},
  Traffic <- {}, Limits <- Windows, Workers <- A, MaxDelay <- 1, MaxReloads <- 1,
  Junk <- "junk", Nobody <- None

Handler == INSTANCE Pipeline WITH
  req <- x1, cache <- x2, cacheOn <- x3, ttl <- x4, clearing <- x5, switches <- x6, offs <- x7,
  open <- x8, audited <- x9,
  Request <- A, MaxRetries <- 1, Ttls <- {1, 2}, MaxHold <- 1, MaxSwitches <- 2, Transforms <- FALSE

Queue == INSTANCE Backpressure WITH
  enabled <- x1, depth <- x2, place <- x3, permits <- x4, leaving <- x5, abandoned <- x6,
  Client <- A \cup B, MaxConcurrent <- 1, MaxAbandoned <- 1, MaxLeaving <- 3

Edge == INSTANCE EdgeCache WITH
  entries <- x1, user <- x2, overlapped <- x3,
  Key <- {"k", "l", "m"}, User <- A, MaxEntries <- 2, Ttl <- 1, Etag <- {"e"}, NoEntry <- None

Provider == INSTANCE Introspection WITH
  granted <- x1, revokedFor <- x2, tokenCache <- x3, asker <- x4, verdict <- x5,
  Asker <- A, CacheTtl <- 2, MaxFlight <- 2, Nil <- None

QuotaOf == [t \in {"small", "free"} |-> IF t = "small" THEN 1 ELSE None]
Tenants == INSTANCE Quota WITH
  daily <- x1, serving <- x2, resets <- x3,
  Tenant <- {"small", "free"}, Quotas <- QuotaOf, Served <- 1..3, MaxCount <- 5, NoQuota <- None

Trail == INSTANCE AuditTrail WITH
  channel <- x1, hand <- x2, table <- x3, out <- x4, worker <- x5, sent <- x6, refused <- x7,
  errors <- x8, lost <- x9,
  Entry <- {"e", "f", "g"}, Worker <- A, Sinks <- <<"file", "http">>, Buffer <- 1,
  NoEntry <- None

Logs == INSTANCE LogStore WITH
  nextId <- x1, index <- x2, logs <- x3, ingest <- x4, met <- x5,
  Word <- B, Source <- A, MaxEntries <- 2, MaxLogs <- 4, Nil <- None

Doors == INSTANCE Access WITH
  role <- x1, enabled <- x2, live <- x3, old <- x4, late <- x5, visit <- x6,
  User <- B, Visitor <- A, Bits <- 3, NoOne <- None

Configuration == INSTANCE Settings WITH
  file <- x1, pending <- x2, watching <- x3, writes <- x4, sharedConfig <- x5, installed <- x6, up <- x7,
  base <- x8, dirty <- x9, overlap <- x10, missed <- x11,
  Limits <- {0, 5}, Patterns <- {1, 2}, Keys <- {"own"}, MaxWrites <- 2, Broken <- None

Deployment == INSTANCE Rollout WITH
  release <- x1, before <- x2, switches <- x3, flag <- x4, on <- x5,
  Context <- {1, 2, 3}, HashOf <- <<0, 1, 3>>, Rules <- {{1, 2}, {2, 3}}, Buckets <- 4,
  MaxSwitches <- 3, MaxEvals <- 2, Width <- 3

Hooks == INSTANCE Notify WITH
  hooks <- x1, sender <- x2, settings <- x3, answered <- x4, channelled <- x5,
  Hook <- B, Channel <- {}, Sender <- A, Url <- {}, MaxCount <- 2

Alerts == INSTANCE Notify WITH
  hooks <- x1, sender <- x2, settings <- x3, answered <- x4, channelled <- x5,
  Hook <- {}, Channel <- {"mail", "chat"}, Sender <- A, Url <- {"url", "other"}, MaxCount <- 0

ClassOf == <<"public", "metadata", "private">>
Guard == INSTANCE Pins WITH
  dns <- x1, goneFor <- x2, pinned <- x3, resolver <- x4, handed <- x5,
  Address <- {1, 2, 3}, Class <- ClassOf, Resolver <- A, PinTtl <- 2, MaxLookup <- 1, NoPin <- None

WebSocket == INSTANCE Tunnel WITH
  sent <- x1, got <- x2, pump <- x3, hand <- x4, MaxSent <- 4, NoMessage <- None

Feed == INSTANCE DataFeed WITH
  version <- x1, watcher <- x2, check <- x3, fetched <- x4, told <- x5, overlapped <- x6,
  buffer <- x7, events <- x8,
  Checker <- A, Sink <- TRUE, BufferSize <- 2, MaxVersions <- 3, MaxEvents <- 4, Idle <- None

Redis == INSTANCE SharedLimit WITH
  key <- x1, call <- x2, admitted <- x3, unset <- x4,
  Gateway <- A, MaxRequests <- 2, Window <- 3, MaxCounted <- 4

OneChange == [n \in {"node"} |-> 1]
OneValid == [n \in {"node"} |-> {<<"s", "bad">>}]
Waf == INSTANCE WafRules WITH
  rules <- x1, next <- x2, holder <- x3, task <- x4, reloads <- x5, restarts <- x6, outbox <- x7,
  chan <- x8,
  Node <- {"node"}, Lossy <- FALSE, Writers <- {"node"}, Worker <- A, Subscriber <- "bus",
  Sync <- "sync", Pattern <- {"r", "s", "bad"}, Invalid <- {"bad"}, Configs <- OneValid,
  MaxId <- 3, MaxReloads <- OneChange, Restartable <- {}, MaxRestarts <- 0, Removes <- TRUE

\* Two users and one address, typed in capitals or not; nobody logs in to the end.
LowerCase == [e \in {"AB", "ab"} |-> "ab"]
Accounts == INSTANCE Identity WITH
  users <- x1, index <- x2, rows <- x3, failed <- x4, status <- x5, call <- x6, now <- x7,
  restarts <- x8, owner <- x9, ousted <- x10, late <- x11,
  User <- B, Email <- {"AB", "ab"}, Normal <- LowerCase, Role <- {"viewer"}, Token <- {}, Actor <- A,
  MaxFailed <- 1, Window <- 1, MaxEntries <- 2, MaxTime <- 0, MaxRestarts <- 1

-----------------------------------------------------------------------------
(* The registers a part does not use hold None: Empty7 is about x7 and on.    *)
Empty10 == x10 = None /\ x11 = None
Empty9 == x9 = None /\ Empty10
Empty8 == x8 = None /\ Empty9
Empty7 == x7 = None /\ Empty8
Empty6 == x6 = None /\ Empty7
Empty5 == x5 = None /\ Empty6
Empty4 == x4 = None /\ Empty5
After9 == <<part, x10, x11>>
After8 == <<x9, After9>>
After7 == <<x8, After8>>
After6 == <<x7, After7>>
After5 == <<x6, After6>>
After4 == <<x5, After5>>
After3 == <<x4, After4>>

Init ==
  \/ part = "services" /\ Services!RegistryInit /\ Empty9
  \/ part = "health" /\ Health!RegistryInit /\ Health!HealthInit
  \/ part = "round" /\ Round!RegistryInit /\ Round!HealthInit
  \/ part = "cron" /\ Scheduler!CronInit
  \/ part = "flow" /\ Flow!FlowInit /\ Empty7
  \/ part = "rates" /\ Rates!LimiterInit /\ Empty8
  \/ part = "headers" /\ Headers!LimiterInit /\ Empty8
  \/ part = "handler" /\ Handler!PipelineInit /\ Empty10
  \/ part = "queue" /\ Queue!QueueInit /\ Empty7
  \/ part = "edge" /\ Edge!EdgeInit /\ Empty4
  \/ part = "provider" /\ Provider!IntrospectionInit /\ Empty6
  \/ part = "tenants" /\ Tenants!QuotaInit /\ Empty4
  \/ part = "trail" /\ Trail!TrailInit /\ Empty10
  \/ part = "logs" /\ Logs!LogInit /\ Empty6
  \/ part = "doors" /\ Doors!AccessInit /\ Empty7
  \/ part = "settings" /\ Configuration!SettingsInit
  \/ part = "rollout" /\ Deployment!RolloutInit /\ Empty6
  \/ part = "hooks" /\ Hooks!NotifyInit /\ Empty6
  \/ part = "alerts" /\ Alerts!NotifyInit /\ Empty6
  \/ part = "guard" /\ Guard!PinInit /\ Empty6
  \/ part = "websocket" /\ WebSocket!TunnelInit /\ Empty5
  \/ part = "feed" /\ Feed!FeedInit /\ Empty9
  \/ part = "redis" /\ Redis!SharedInit /\ Empty5
  \/ part = "waf" /\ Waf!Init /\ Empty9
  \/ part = "accounts" /\ Accounts!Init

Next ==
  \/ part = "services" /\ Services!RegistryNext /\ UNCHANGED After8
  \/ part = "health" /\ Health!HealthNext /\ UNCHANGED part
  \/ part = "round" /\ Round!HealthNext /\ UNCHANGED part
  \/ part = "cron" /\ Scheduler!CronNext /\ UNCHANGED part
  \/ part = "flow" /\ Flow!FlowNext /\ UNCHANGED After6
  \/ part = "rates" /\ Rates!LimiterNext /\ UNCHANGED After7
  \/ part = "headers" /\ Headers!LimiterNext /\ UNCHANGED After7
  \/ part = "handler" /\ Handler!PipelineNext /\ UNCHANGED After9
  \/ part = "queue" /\ Queue!QueueNext /\ UNCHANGED After6
  \/ part = "edge" /\ Edge!EdgeNext /\ UNCHANGED After3
  \/ part = "provider" /\ Provider!IntrospectionNext /\ UNCHANGED After5
  \/ part = "tenants" /\ Tenants!QuotaNext /\ UNCHANGED After3
  \/ part = "trail" /\ Trail!TrailNext /\ UNCHANGED After9
  \/ part = "logs" /\ Logs!LogNext /\ UNCHANGED After5
  \/ part = "doors" /\ Doors!AccessNext /\ UNCHANGED After6
  \/ part = "settings" /\ Configuration!SettingsNext /\ UNCHANGED part
  \/ part = "rollout" /\ Deployment!RolloutNext /\ UNCHANGED After5
  \/ part = "hooks" /\ Hooks!NotifyNext /\ UNCHANGED After5
  \/ part = "alerts" /\ Alerts!NotifyNext /\ UNCHANGED After5
  \/ part = "guard" /\ Guard!PinNext /\ UNCHANGED After5
  \/ part = "websocket" /\ WebSocket!TunnelNext /\ UNCHANGED After4
  \/ part = "feed" /\ Feed!FeedNext /\ UNCHANGED After8
  \/ part = "redis" /\ Redis!SharedNext /\ UNCHANGED After4
  \/ part = "waf" /\ Waf!Next /\ UNCHANGED After8
  \/ part = "accounts" /\ Accounts!Next /\ UNCHANGED part

Spec == Init /\ [][Next]_<<part, registers>>

-----------------------------------------------------------------------------
(* Properties, each of the part it names; the components' modules say more    *)
(* about what they mean and where they bite.                                  *)

\* The type invariants of all parts.
PlatformTypeOK ==
  /\ part = "services" => Services!RegistryTypeOK
  /\ part = "health" => Health!HealthTypeOK
  /\ part = "round" => Round!HealthTypeOK
  /\ part = "cron" => Scheduler!CronTypeOK
  /\ part = "flow" => Flow!FlowTypeOK
  /\ part = "rates" => Rates!LimiterTypeOK
  /\ part = "headers" => Headers!LimiterTypeOK
  /\ part = "handler" => Handler!PipelineTypeOK
  /\ part = "queue" => Queue!QueueTypeOK
  /\ part = "edge" => Edge!EdgeTypeOK
  /\ part = "provider" => Provider!IntrospectionTypeOK
  /\ part = "tenants" => Tenants!QuotaTypeOK
  /\ part = "trail" => Trail!TrailTypeOK
  /\ part = "logs" => Logs!LogTypeOK
  /\ part = "doors" => Doors!AccessTypeOK
  /\ part = "settings" => Configuration!SettingsTypeOK
  /\ part = "rollout" => Deployment!RolloutTypeOK
  /\ part = "hooks" => Hooks!NotifyTypeOK
  /\ part = "alerts" => Alerts!NotifyTypeOK
  /\ part = "guard" => Guard!PinTypeOK
  /\ part = "websocket" => WebSocket!TunnelTypeOK
  /\ part = "feed" => Feed!FeedTypeOK
  /\ part = "redis" => Redis!SharedTypeOK
  /\ part = "waf" => Waf!TypeOK
  /\ part = "accounts" => Accounts!TypeOK

\* A prefix names one service unless two registrations of it overlapped
\* (registry/mod.rs, register).
OnePerPrefix == part = "services" => Services!OnePerPrefix

\* A restart costs a service at most the requests since the last flush of its
\* count (registry/mod.rs, increment_request_count).
Durable == part = "services" => Services!Durable

\* A service unregistered or replaced never comes back, unless its delete failed
\* (registry/mod.rs, unregister; registry/storage.rs, load_all).
GoneForGood == part = "services" => Services!GoneForGood

\* The checker never has two of its incidents open for one service, though it
\* looks for one and opens it under different locks (health/mod.rs).
OneIncidentPerFailure ==
  /\ part = "health" => Health!OneIncidentPerFailure
  /\ part = "round" => Round!OneIncidentPerFailure

\* Between two services of a round a service is Down exactly when an incident is
\* open for it, unless other hands touched it (health/mod.rs).
IncidentsFollowStatus ==
  /\ part = "health" => Health!IncidentsFollowStatus
  /\ part = "round" => Round!IncidentsFollowStatus

\* A removed job stays removed, and a restart never runs a job later than the
\* schedule said (automation/cron.rs, tick and persist_job).
SchedulerRemembers == part = "cron" => Scheduler!RemovedIsFinal /\ Scheduler!RestartNeverDelays

\* A workflow is Completed only if every step succeeded in that run, and Failed
\* only with an error (automation/workflows.rs, execute).
OutcomeMatchesSteps == part = "flow" => Flow!OutcomeMatchesSteps

\* A client gets less than twice the limit through within one window less a delay,
\* across evictions, reloads and late clocks (middleware/rate_limit.rs, call).
BurstBound == part = "rates" => Rates!BurstBound

\* A client behind trusted proxies cannot choose its bucket by a header it sends
\* (middleware/rate_limit.rs, client_ip).
KeyIsProved == part = "headers" => Headers!KeyIsProved

\* The response cache serves nothing older than its ttl, nor from before it was
\* switched off, but for answers under way then (gateway/cache.rs, put).
CacheIsCurrent == part = "handler" => Handler!CacheIsCurrent

\* What must not be repeated reaches the upstream once, and each connection is
\* given back once (gateway/mod.rs, gateway_handler); a WebSocket tunnel relays
\* each direction in order and once, but for the fragments it drops
\* (gateway/websocket.rs).
SentOnce ==
  /\ part = "handler" => Handler!SentOnce
  /\ part = "websocket" => WebSocket!TunnelRelays

\* The queue's depth counts exactly what is in it and what was dropped from it,
\* the edge cache keeps its size and a quota its overshoot, under every overlap
\* each of them tolerates, and a window in Redis ends (request_queue.rs,
\* edge_cache.rs, tenant.rs, redis_rate_limit.rs).
LimitsHold ==
  /\ part = "queue" => Queue!DepthIsExplained
  /\ part = "edge" => Edge!EdgeBound
  /\ part = "tenants" => Tenants!QuotaOvershoot
  /\ part = "redis" => Redis!WindowEnds

\* A revoked token and an address a name no longer has are used for a bounded
\* time, however late answers overtake each other (oauth2_gateway.rs,
\* validate_token; alerting/url_guard.rs, pin_url).
AnswersAreRecent ==
  /\ part = "provider" => Provider!RevocationBound
  /\ part = "guard" => Guard!PinIsRecent

\* An admin handler runs for a live SuperAdmin's session unless a change overtook
\* the request, and sessions outlive a change of their user only while its
\* handler runs (admin/v2_handlers.rs).
AccessIsCurrent == part = "doors" => Doors!AccessIsCurrent

\* The running configuration is that of the file saved last once nothing is under
\* way (config/mod.rs, the watcher), and the boot checks agree on [jwt].
SettingsAreCurrent ==
  part = "settings" => Configuration!SettingsAreCurrent /\ Configuration!JwtChecksAgree

\* A rollback restores the colour before the last switch, and a flag's counts
\* match its answers (deployment/releases.rs, feature_flags.rs).
RolloutHolds == part = "rollout" => Deployment!RolloutHolds

\* Address and path rules mean what they say (middleware/ip_filter.rs, jwt.rs), and
\* weights, percentages and versions share the traffic as they say (gateway/canary.rs,
\* deployment/feature_flags.rs, versioning/mod.rs).
RulesMean ==
  /\ part = "doors" => Doors!FilterRulesMean
  /\ part = "rollout" => Deployment!RolloutRulesMean

\* A webhook's counts are its attempts, one channel's failure keeps no other from
\* an alert, and stale targets come only from senders that began before
\* (alerting/webhooks.rs, channels.rs, mod.rs).
NotifyHolds ==
  /\ part = "hooks" => Hooks!NotifyHolds
  /\ part = "alerts" => Alerts!NotifyHolds

\* No audit entry is lost without a count (middleware/audit_sink.rs), the log
\* index names exactly the kept logs (observability/log_aggregator.rs), and a
\* change of a watched document is told and counted once (datapipeline/pipeline.rs).
RecordsAreComplete ==
  /\ part = "trail" => Trail!LossIsCounted
  /\ part = "logs" => Logs!IndexFollowsLogs
  /\ part = "feed" => Feed!FeedHolds

\* On one node that hears its own events no two rules share an id, and every rule
\* an administrator was told about is installed under its id (middleware/waf.rs,
\* apply_add_pattern_with_id and add_custom_pattern).
CustomRulesHold == part = "waf" => Waf!UniqueIds /\ Waf!AddIsInstalled

\* Registrations of one address that overlap, and addresses typed in two ways,
\* cost an account its row or its index entry only to another of the same address
\* or to a restart (identity/users.rs, register and persist_user).
AccountsHold == part = "accounts" => Accounts!RestartLosesNothing /\ Accounts!Findable

=============================================================================
