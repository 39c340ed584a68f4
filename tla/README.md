# xiraNET: verification development

TLA+ models of the xiraNET API gateway (Rust, crate under `src/src/`), the TLC
configurations that check them on small instances, and theorems that TLAPS
checks for every value of the constants.

Everything below is translated from the Rust source. Where the source, its
comments, its docs and its tests disagree, the model follows the source, and the
disagreement is one of the expected violations of section 3 or is listed in
section 5.

## 1. The system

xiraNET is one process per node: an actix-web server whose request handlers run
on several worker threads and share managers held in `Arc`s. A manager keeps its
state in `DashMap`s (locked entry by entry), atomics, or tokio/std locks, and
some write through to SQLite. Two nodes share nothing but a Redis pub/sub bus.

| Part | State | Operations | Talks to | What is hard, and what makes it correct |
|---|---|---|---|---|
| Session manager `identity/sessions.rs` | `sessions` (hash → Session), `user_sessions` (user → hashes), SQLite rows | create, validate_with_request, invalidate, invalidate_all, cleanup_expired, reload | SQLite, bus, session middleware, authenticator, admin handlers | No lock spans a call. The per-user limit holds; a closed session stays closed, across restarts; the list names only real sessions |
| Circuit breaker `gateway/circuit_breaker.rs` | per-service entry, shared configuration atomics | allow_request, record_success, record_failure, update_config | gateway handler, config sync | Answers arrive in any order and in another state than the one that admitted the request. Half-open lets few probes through; closing is earned; recovery is not lost |
| Load balancer `gateway/load_balancer.rs` | connection counters, round-robin counters | select_upstream, acquire/release_connection | gateway handler | A connection that ends without release; a counter that underflows |
| Gateway handler, retry, versioning `gateway/mod.rs`, `retry.rs`, `versioning/` | none of its own | one request: route, breaker, cache, attempts, hooks, record | all of the above | Early returns and dropped futures between acquire and release; nothing sent twice that must not be |
| Bus `bus/` | Redis channel, a spawned task per publish | publish, subscriber loop | sessions, WAF | Loss, reordering, own echo |
| WAF custom rules `middleware/waf.rs` | `custom_patterns` (RwLock), `next_rule_id` (atomic) | add, remove, bus handler, reload from configuration | bus, config sync, admin handlers | An id names one rule, on a node and across nodes |
| Users, authenticator `identity/users.rs`, `authenticator.rs`, `mfa.rs` | users, e-mail index, lockouts, SQLite | register, authenticate, MFA enrolment and login, disable, update_role | sessions, admin handlers | Two managers, no common lock: a disabled user must have no session; lockout under parallel attempts; memory and rows agree |
| Filters in front of the handlers `middleware/session.rs`, `require_role.rs`, `auth.rs`, `jwt.rs`, `ip_filter.rs`; `main.rs` | – | let pass or refuse | sessions, users | Roles and sessions change between the filters and the handler; path exemptions; address ranges |
| Admin API handlers `admin/` | – | HTTP → managers | all managers | Two managers changed one after the other |
| Registry, storage `registry/`, request log `middleware/logger.rs` | services (DashMap), SQLite | register, unregister, upstreams, status, counts, reload | discovery, health, handler, admin | Map and rows disagree after a crash; check-then-register; a foreign key |
| Discovery, mesh `discovery/` | – | periodic scan | registry | Duplicate registration |
| Health, incidents, uptime, SLA `health/`, `observability/`, `metrics/sla.rs` | incidents, rings of samples | periodic check, resolve, record | registry, alerting | A snapshot used after several awaits; duplicate incidents |
| Cron `automation/cron.rs` | jobs, in-flight set, SQLite | add, remove, tick | executor | A job removed while it runs; a crash between advance and persist; a slow job |
| Workflows, retry, event bus `automation/` | workflows, subscribers | execute, publish | HTTP | State changes between two awaits; overlapping executions |
| Alerting, webhooks, URL guard `alerting/` | settings, hooks, pinned addresses | alert, fire_event, dispatch, pin | network | Settings and targets read before an await; late look-ups |
| Configuration `config/`, `admin/config_api.rs`, `bootstrap/state.rs` | one `RwLock<XiraConfig>`, the file | file watcher, admin PUT, one-second sync | breaker, WAF, cache, limiter | Two writers, last one wins; the sync replaces what administrators added |
| Rate limiters `middleware/rate_limit.rs`, `redis_rate_limit.rs` | window per address; a Redis key | admit, evict, set_limits | config sync | Clock read before the lock; window edges; INCR without EXPIRE |
| Caches `gateway/cache.rs`, `edge_cache.rs` | LRU, flags | get, put, set_enabled, clear | handler, config sync | Flag checked outside the lock |
| Request queue `gateway/request_queue.rs` | semaphore, depth | acquire, drop | not wired in | Cancelled waiters |
| OAuth2 introspection `middleware/oauth2_gateway.rs` | token cache | validate_token, clear_cache | provider | Late answers, also after clear |
| Tenants `middleware/tenant.rs` | quotas | check_quota, record_request, reset | – | Check, then count |
| WebSocket `gateway/websocket.rs` | two tasks per connection | relay, close | upstream | One side ends while the other waits |
| Audit `middleware/audit_*.rs` | table, bounded channel | log, dispatch | sinks | Drops at the bound; slow and failing sinks |
| Log aggregator `observability/log_aggregator.rs` | log, word index | ingest, search | – | Ids drawn before the lock; eviction by id |
| Releases, flags, canary `deployment/`, `gateway/canary.rs` | releases, flags | switch, check_rollback, toggle, evaluate | handler | Switch against rollback; weights and shares |
| Data pipeline `datapipeline/pipeline.rs` | watchers, event buffer | check_changes, record_event, flush | network | Overlapping checks merge what they copied |
| Plugins, proxying, transforms, API keys, other filters, metrics, CLI, dashboard, gRPC, TLS | buffers, counters | I/O | – | Not modelled, see section 6 |

`PROJECT.json` lists the same parts with their files and status, and the hazards
at the line where each bites.

## 2. Modules

| Module | Models | Checked in |
|---|---|---|
| `Sessions` | the session manager of one node | `MCSessions` |
| `TokenLifecycle` | what a session token promises its holder; abstract, refined by `Sessions` | `MCSessions` |
| `CircuitBreaker` | the breaker of one service, the load balancer and the request flow around them | `MCCircuitBreaker`, `MCProgress` |
| `Bus` | the coordination bus: outbox of publish tasks, channel per subscriber | with `WafRules` |
| `WafRules` | the custom rules of several nodes, composed with `Bus` | `MCWafRules`, both suites |
| `Identity` | accounts, login and the handlers that close an account's sessions, over `TokenLifecycle` | `MCIdentity`, `MCPlatform` |
| `Registry` | services, their rows, the request log, discovery | `MCRegistry`, `MCPlatform` |
| `HealthWatch` | the health checker and its incidents, over `Registry` | `MCPlatform` |
| `Cron` | the scheduler and its rows | both suites |
| `Workflows` | executions of one workflow | `MCPlatform` |
| `Pipeline` | a request after the breaker: cache, attempts, hooks, audit | `MCPlatform` |
| `Limiter`, `SharedLimit` | the rate limiter in memory; the one in Redis | `MCPlatform` |
| `Backpressure`, `EdgeCache`, `Quota` | request queue; edge cache; tenants | `MCPlatform` |
| `Introspection`, `Pins` | token introspection cache; pinned addresses | `MCPlatform` |
| `Access` | the filters and the handlers that change what they read; address and path rules | `MCPlatform` |
| `Settings` | file, watcher, PUT, sync | `MCPlatform` |
| `Rollout` | releases, flags, canary weights, versions | `MCPlatform` |
| `Notify` | webhooks, alert channels, alert settings | `MCPlatform` |
| `AuditTrail`, `LogStore`, `DataFeed` | audit log and sinks; log index; data pipeline | `MCPlatform` |
| `Tunnel` | the two relaying tasks of a WebSocket | `MCPlatform` |
| `Sessions_proofs`, `CircuitBreaker_proofs`, `Identity_proofs` | theorems about these modules | |
| `Registry_proofs` | theorems about `Registry` and `HealthWatch` | |
| `Gates_proofs` | theorems about what a request passes: `Backpressure`, `SharedLimit`, `Limiter`, `Introspection`, `Quota`, `EdgeCache`, `Pins`, `Pipeline`, `Tunnel` | |
| `Operations_proofs` | theorems about what runs beside requests: `AuditTrail`, `LogStore`, `DataFeed`, `Notify`, `Settings`, `Rollout`, `Access`, `Cron`, `Workflows` | |
| `WafRules_proofs` | theorems about `WafRules` | |
| `Platform_proofs` | the theorems of these proof modules at the parts of `MCPlatform` | |

In every module a lock guard taken, a SQL statement, an await or a call of
another manager is a step of its own; `call`, `op`, `req`, `task` and the like
hold the locals of a function between two of its steps. Variables marked
*history* only record what happened, for the properties.

### Sessions

`sessions`, `index` and `rows` are the two maps and the SQLite table; `call[a]` is
the call worker `a` is in the middle of (`pc` the place in the function, `todo`
the iterator, `snap` a clone taken before a guard was dropped). A `Vec` of hashes
is a set with a push order (`born`), because the code only pushes at the end,
removes from the front and filters.

| Code | Actions |
|---|---|
| `create` | `CreateIndex`, `EvictMark`, `EvictPersist`, `CreateInsert`, `CreatePersist` |
| `validate_with_request` | `ValidateOk`, `ValidatePersist`; `ValidateMismatch` goes on as `invalidate` |
| `invalidate` | `Invalidate`, `InvalidateMark`, `InvalidateUnindex`, `InvalidateDelete`, `InvalidateDrop` |
| `invalidate_all` | `ForceLogout`, `ForceLogoutMark`, `ForceLogoutDelete`, `ForceLogoutDrop`, `ForceLogoutUnindex` |
| `cleanup_expired` | `Cleanup`, `CleanupDrop`, `CleanupDelete`, `CleanupUnindex` |
| the process dies, `with_storage` | `Restart` |

`owner`, `issued`, `closed` and `evicted` are history: what clients were given
and told. Tokens are never reused (the code draws a UUID). `Sessions` implements
`TokenLifecycle` under a refinement mapping (`INSTANCE TokenLifecycle WITH`): a
token is unborn, live, or over, in this order.

### CircuitBreaker

`brk` is the entry, `req[r]` where a request is in `gateway_handler`, `conns`
and `turn` the load balancer. Each breaker call holds the entry's shard lock, so
it is one step; requests interleave between the calls.

| Code | Actions |
|---|---|
| `allow_request` | `AllowClosed`, `AllowFirstProbe`, `AllowProbe` (a rejection changes nothing) |
| cache hit in the handler | `ServeFromCache` |
| `select_upstream`, `acquire_connection` | `Forward` |
| answer, `release_connection`, `record_success` / `record_failure` | `Succeed`, `Fail` |
| the client goes away | `Disconnect`: actix drops the future at the await, nothing is released |
| `spawn_config_sync` | `UpdateConfig` |

Time is `elapsed`, counted in units up to `Horizon` (no configuration has a
longer reset timeout). `probe`, `good` and `stale` are history.

### Bus and WafRules

`outbox[n]` is a bag because each publish is a spawned task of its own; `chan[n]`
is a sequence because Redis delivers one stream. A failed publish or a
reconnecting subscriber loses the event (`Lossy`); a node hears its own events.
`WafRules` adds the rules, `next_rule_id`, the write lock (`holder`) and what
each thread is doing. `rules[n]` is a bag: ids, not places, tell rules apart, and no
property asks in which order patterns are tried. The read-compare-store of `next_rule_id` at
`waf.rs:290-293` is two steps (`ApplyPush`, `Bump`), since the reload draws ids
without the lock. A node reloads when its configuration changes (`Configs[n]`,
`MaxReloads[n]`).

| Code | Actions |
|---|---|
| `add_custom_pattern` | `AddTake`, then `ApplySkip` or `ApplyPush`, `Bump` |
| `remove_custom_pattern` | `Remove` |
| `handle` (bus subscriber) | `HandleAdded` (goes on as `ApplySkip` / `ApplyPush`), `HandleRemoved` |
| `load_custom_patterns_from_strings` | `ReloadStart`, then `ReloadSkip` or `ReloadTake` for each pattern, `ReloadReplace` |
| start-up | `Restart`: the configuration is loaded, rules added by administrators are gone |

### Identity

`users`, `index` (`email_index`), `rows` and `failed` (`failed_attempts`) are the
maps and the table; the sessions are `status` of `TokenLifecycle`, which
`Sessions` implements, so `create` and `invalidate_all` are one step here (the
limit race of `Sessions` is a weakness of the implementation below this level).
A call that changes an account holds its map entry until it returns and is one
step; a login that counts a failure holds the entry over several
(`Held`). Passwords and codes are right or wrong; the seed is there or not.
`Normal` is `normalize_email`. A user stands for the account of a fresh UUID: one
that was ousted is not registered again.

| Code | Actions |
|---|---|
| `register` | `Register`, `RegisterPersist`, `RegisterIndex`, `RegisterInsert` |
| `lockout_check` | `Login`, or `LoginAfterWindow` and `Unlock` |
| `authenticate` | `VerifyUnknown`, `VerifyDisabled`, `VerifyWrong`, `VerifyRight` |
| `record_failure` | `Prune`, `Evict`, `Count` |
| `Authenticator::login`, `complete_mfa` | `Create`, after `VerifyRight` or `MfaLogin` |
| MFA enrolment | `Enroll`, `VerifyMfa`, `DisableMfa` |
| `admin_disable_user`, `admin_update_role`, `logout_all` | `DisableUser`, `UpdateRole`, `LogoutAll`, then `Oust` |
| the process dies, `with_storage` | `Restart` |

`owner`, `ousted` and `late` are history.

### The other components

| Module | Code | Actions |
|---|---|---|
| `Registry` | `register`, `register_advanced`, the scans of `discovery/` | `Begin` or `Discover`, `Find`, `Unmap`, `Unrow`, `Save`, `Insert`, `Extend` |
| | `unregister` | `Unregister`, `Unrow` |
| | `increment_request_count`, the request logger | `Count`, `Log` |
| | `with_storage`, `load_from_config` | `RegistryInit`, `Restart` |
| `HealthWatch` | one round of `start_health_checker` | `Round`, `Probe`, `Resolve`, `Look`, `Create`, `Write` |
| | `check_service_health`, `create_incident`, `update_incident` | `AdminCheck`, `AdminOpen`, `AdminEdit` |
| | the registry meanwhile | `RegistryStep`, `HealthRestart` |
| `Cron` | `add_job`, `remove_job` | `AddJob`, `Push`; `DeleteJob`, `Retain` |
| | `tick`, its spawned jobs, `persist_job` | `TakeDue`, `Finish`, `Collect`, `Persist` |
| | the clock, a crash and the reload | `Second`, `CronCrash` |
| `Workflows` | `WorkflowEngine::execute` | `Execute`, `Success`, `Failure`, `Retry`, `Conclude` |
| `Pipeline` | `gateway_handler` between admission and answer | `Arrive`, `Refuse`, `GetHit`, `GetMiss`, `Attempt`, `Settle`, `Hook`, `Put`, `Observe`; `Vanish` when the future is dropped |
| | the config sync and the admin's cache calls | `SwitchOff`, `Clear`, `SwitchOn`, `SetTtl`, `Forget` |
| `Limiter` | `counting` | `Enter` (clock and limits), `CountRequest` (under the entry's lock) |
| | `spawn_evictor`, `set_limits` and its like | `EvictBuckets`, `ReloadLimits`; `ClientIp` is `client_ip` |
| `SharedLimit` | `check_rate_limit` | `Incr`, `LoseAnswer`, `Expire`, `Die` |
| `Backpressure` | `acquire`, `QueuePermit::drop` | `Enqueue`, `GetPermit`, `TimeOut`, `CountRefusal`, `Abandon`; `DropPermit`, `Leave` |
| `EdgeCache` | `check`, `store`, `clear` | `CheckEdge`, `DropExpired`; `StoreEdge`, `EvictOldest`, `InsertEdge`; `ClearEdge` |
| `Quota` | `check_quota`, `record_request`, `reset_daily_counts` | `Serve`, `RecordRequest`, `StartReset`, `ResetOne` |
| `Introspection` | `validate_token`, `clear_cache` | `FromCache`, `Ask`, `Store`, `NoAnswer`; `ClearTokens`; the provider is `Introspect`, `Revoke` |
| `Pins` | `pin_upstream`, `pin_url` | `PinCached`, `StartLookup`, `Resolve`, `StorePin`; the name server is `Move` |
| `Access` | the filters `main.rs` wraps around the routes | `Ask`, `PassStateless`, `PassSession`, `PassRole`, `Respond` |
| | the handlers that change accounts and sessions | `UpdateRole`, `DisableUser`, `InvalidateAll`, `IssueSession` |
| | address and path rules | operators `MatchesCidr`, `IsAllowed`, `Normalized` |
| `Settings` | `load_or_default`, `validate`, `start_config_watcher` | `Boot`, `SaveFile`, `StartWatch`, `Debounce`, `LoadFile`, `WriteLoaded` |
| | `PUT /xira/config`, `spawn_config_sync` | `PutLimit`, `Sync` |
| `Rollout` | releases and flags | `Switch`, `CheckRollback`; `CreateFlag`, `Toggle`, `AddRule`, `Evaluate` |
| | canary weights, `versioned_gateway_handler` | operators `Picked`, `Versioned` |
| `Notify` | `register`, `remove`, `fire_event`, `dispatch`, `AlertManager` | `Register`, `RemoveHook`, `FireEvent`, `DispatchAlert`, `RaiseAlert`, `UpdateSettings`, `NextTarget`, `Attempt`, `Bump`, `Finished` |
| `AuditTrail` | `log`, the dispatcher's task | `Dispatch`, `InsertRow`; `Receive`, `WriteSink`; `TrailCrash` |
| `LogStore` | `ingest` | `Draw`, `IndexWord`, `AppendLog`, `RetainIds`, `RemoveWord` |
| `DataFeed` | `check_changes`, `record_event`, `flush_buffer` | `Snapshot`, `Fetch`, `Tell`, `Merge`; `RecordEvent`, `FlushBuffer`; the endpoint is `Edit` |
| `Tunnel` | `websocket_proxy` | `Connect`, `TakeMessage`, `Deliver`; both ends are `Send` |

Times in these modules are ages (how long ago something happened), so that no
clock grows without bound.

### Composition

* `WafRules` EXTENDS `Bus`; `HealthWatch` EXTENDS `Registry` and steps between
  its actions; `Identity` works on the sessions of `TokenLifecycle`, which
  `Sessions` is shown to implement.
* `MCPlatform` puts components that share no state side by side. A behaviour
  belongs to the one component that `part` names, whose variables are the registers
  `x1`..`x11` (`INSTANCE ... WITH`); the registers it does not use hold `None`. Every
  part is so explored to the end, and the number of states is the sum over the
  parts. Workers are taken from the set `A` and some of the things worked on from
  `B`; no part orders or names their elements, so the permutations of both are a
  symmetry of every part. The parts `health` and `round` are one module with and
  without administrators, `rates` and `headers` the limiter's windows and its header
  walk, `hooks` and `alerts` the two halves of `Notify`.
* `MCProgress` does the same for liveness, with the variables of the three
  components declared by their own names and without symmetry.

## 3. Runs

| Run | Instance | Shows |
|---|---|---|
| `sessions_serial` | 1 worker, 3 tokens, limit 2, clock to 3, 1 crash | with calls one at a time, a crash anywhere and a storage that works: the limit holds, logout and force logout are final |
| `sessions_concurrent` | 2 workers, 2 tokens, limit 1, storage may fail | every interleaving of two calls: lists are backed and tokens follow the one-way lifecycle |
| `sessions_limit_race` | 2 workers, limit 1 | **violated** `WithinLimit` |
| `sessions_resurrection` | 2 workers, 1 crash | **violated** `LogoutIsFinal` |
| `breaker_safety` | 3 requests, 2 upstreams, 2 configurations, cache hits, disconnects | what the counters still guarantee when everything goes wrong |
| `breaker_leak` | 2 requests, cache hits | **violated** `ProbesCounted` |
| `waf_single_writer` | 2 nodes, 2 administrators on one, lossy bus, restart of the other, a changed configuration on the first, a pattern that does not compile | an id means the same rule on both nodes |
| `waf_two_writers` | 2 nodes, administrators on both | **violated** `Coherent` |
| `identity_accounts` | 2 workers, 1 account, 2 addresses, 2 tokens, limit 2, 1 restart | how far the lockout overshoots, that a restart loses nothing, and who can still have a session after the user was disabled |
| `registry_unregister` | 2 ids, 1 administrator, 1 restart | **violated** `UnregisterSticks` |
| `platform_suite` | 25 parts, see below | the safety of every other component |
| `progress_suite` | a breaker with 3 requests, a WAF of 2 nodes on a lossless bus, 2 cron jobs with a crash | liveness: recovery, propagation, every job runs |

The parts of `platform_suite` and what is checked of them:

| Part | Property | In words |
|---|---|---|
| `services` | `OnePerPrefix`, `Durable`, `GoneForGood` | a prefix has two services only if registrations of it overlapped; a restart costs no more requests than the flush interval; a removed service stays removed unless its delete failed |
| `health`, `round` | `OneIncidentPerFailure`, `IncidentsFollowStatus` | the checker's incidents are one per service, and Down agrees with an open incident at the end of a service's check unless others touched it |
| `cron` | `SchedulerRemembers` | a removed job stays removed but for the late write of a tick under way; a restart runs no job later |
| `flow` | `OutcomeMatchesSteps` | no silent failure while executions do not overlap |
| `rates`, `headers` | `BurstBound`, `KeyIsProved` | less than twice the limit within the narrowest window less the delay of a call; a header cannot choose the bucket |
| `handler`, `websocket` | `CacheIsCurrent`, `SentOnce` | nothing stale from the cache; nothing sent twice that must not be; a tunnel relays in order and once, and drops nothing but fragments |
| `queue`, `edge`, `tenants`, `redis` | `LimitsHold` | counters at their limits |
| `provider`, `guard` | `AnswersAreRecent` | revoked tokens and moved names are used for a bounded time |
| `doors` | `AccessIsCurrent`, `RulesMean` | an admin handler runs for a session and a role that were right when they were looked at; address and path rules mean what they say |
| `settings` | `SettingsAreCurrent` | the configuration of the last save is in force once nothing is under way |
| `rollout` | `RolloutHolds`, `RulesMean` | a rollback restores; counts and shares add up; weights are picked in proportion |
| `hooks`, `alerts` | `NotifyHolds` | counts, channels and stale targets |
| `accounts` | `AccountsHold` | overlapping registrations of one address, typed in two ways |
| `trail`, `logs`, `feed` | `RecordsAreComplete` | losses are counted, the index names the kept logs, a change is told once |
| `waf` | `CustomRulesHold` (`UniqueIds`, `AddIsInstalled`) | one node with two administrators and a reload: two rules never share an id, no add is lost |

The five violations, in short (`PROJECT.json` quotes the lines):

* *Limit race.* `create` pushes its hash on the user's list before it inserts
  the session. The `retain` of another `create` drops the hash as "not active";
  the session is then inserted and no list names it. The limit is exceeded, and
  force logout does not find the session. The stress test meets this only if
  a thread is preempted between the two locks.
* *Resurrection.* `validate_with_request` persists a clone after it dropped the
  guard. A logout that deletes the row in between is undone by the late
  `INSERT OR REPLACE`: after a restart the token is accepted again.
* *Probe leak.* A request admitted as a half-open probe and answered from the
  response cache makes no `record_` call, and a dropped future makes none
  either. Its place in `in_flight_probes` is never given back: with all places
  gone the breaker rejects every request of the service until a late answer to
  an older request or a restart.
* *Two writers.* Rule ids are drawn from a counter of the node, so two nodes give
  one id to two rules, and each ignores the other's rule as already present.
* *Unregister.* `request_logs` refers to `services` with foreign keys on. Once one
  of its requests is logged a service's row can be neither deleted nor replaced;
  the code logs a warning, answers success, and the service is back after the next
  start.

Variations of the constants show further limits of these guarantees: `Coherent`
also fails if the writing node restarts (`Restartable` containing a writer: its
counter starts again at 1) or if both nodes reload patterns (each draws ids of its
own); `UniqueIds` fails if a subscriber's `Bump` overlaps a reload;
`ForceLogoutIsComplete` and `LogoutIsFinal` fail with two workers for the reasons
above. In `Identity`, `OnlyLateLogins` is the most that holds: a login that has
passed the password check when an administrator disables the user creates its
session after the handler closed the others. A bound on the size of
`failed_attempts` fails with two workers: both choose the same victim, and from
then on every failure removes one entry and adds one. In `Limiter` windows must be
longer than a call may wait for its entry (`MaxDelay`), as they are in any sane
configuration: otherwise a late clock reopens a window that is over. The bound is over
`Span`, the narrowest window less `MaxDelay`: a delayed call starts a window in the past,
so a third window may begin within a stretch that is any longer.

### Bounds

* Two workers suffice for the session races: each is between two adjacent steps
  of one call. The serial run takes three tokens so that a list overflows after
  expired entries were pruned. A clock to 3 with TTL 1 lets a token be fresh, at
  its last second, and expired. One restart: a second reload starts from the
  same rows.
* Breaker: three requests with a limit of three probes (or one, in the other
  configuration) fill and overfill the half-open period. `MaxLeaked` stops clients
  disconnecting once a counter is that far off; more leaks only add to it.
  `U32Max` = 3 makes saturation happen. Recovery takes one upstream: the breaker
  does not know which upstream an answer came from.
* WAF: ids to 2 (3 on the single node), two administrators of a node at a time, one
  reload of a changed configuration on the writing node, one restart of the other.
  A second id is enough for one to be drawn while another is in flight.
* Identity: one account and an address nobody registered suffice to fill
  `failed_attempts` (`MaxEntries` 2) and have it evict; a limit of 2 is passed by
  one worker while the other still verifies. A clock to 2 with a window of 1 lets
  a counter be locked, expire, and be counted again. Two tokens: one session from
  before a force logout and one drawn around it. The part `accounts` has two users
  for one address in two spellings, and no sessions.
* Suite: two actors per component; queues, caches, rings and windows of one or two
  places, so that each is full, evicts or expires within a few steps; a ttl or
  timeout of one or two units, so that an answer arrives before, at and after it.
  The header walk takes all headers of up to three hops over a client, a second
  address, a proxy, junk and an empty hop, with every set of trusted proxies. Integer widths
  are kept where they matter: 3-bit addresses and 3-bit weights wrap as 32-bit ones
  do.
* Symmetry is used in safety runs only, over sets the specification treats
  alike (tokens, workers, addresses, requests, administrators, patterns).

### Fairness

Only the liveness properties use it, each in its own part of `MCProgress`; a part
that is not running is not obliged to anything.

* `CircuitBreaker`: time passes; a request that was admitted is forwarded and
  answered (the proxy has a timeout, so every exchange ends); some request keeps
  coming (without traffic nobody looks at the breaker); the upstreams heal some
  day. No fairness on success of any one request, on cache hits, disconnects or
  configuration changes; the part has none of the last three, which leak places as
  `breaker_leak` shows.
* `WafRules`: spawned tasks run, the subscriber loop handles what was
  delivered, a thread inside a call goes on. Administrators and reloads
  need not happen.
* `Cron`: the clock ticks, the daemon's loop and the spawned jobs go on (each job
  ends: it has a timeout), a call of an administrator that began goes on.
  Administrators and crashes need not happen.

Runs that say `CHECK_DEADLOCK FALSE` stop when a bound is used up and nothing is in
flight: administrators have drawn all ids, a workflow has run `MaxRuns` times, a
tunnel has closed. The gateway may rest.

## 4. Proofs

TLAPS checks, for all values of the constants satisfying the named assumptions:

* `Sessions_proofs`: `TypeCorrect`, `ListsAreBacked`, `Refinement`, and for calls one
  at a time `SerialLimit`, `SerialLogout`, `SerialForceLogoutHolds`.
  `IndexBacked` is not inductive: a call in the middle of a removal must be known
  to own the entry it removes, and a hash on a worker's `todo` list must belong
  to the user it works for. The invariant `IInv` adds these facts
  about `call` (which token a program counter speaks of, that a pending create
  owns its token, that a token has at most one pending create). `Refinement`
  then maps every step of `ProcessSpec` to an install, a retirement or a stutter
  of `TokenLifecycle`. It is stated for one life of a process; a restart may
  bring a token back (that is the resurrection above). `ListsAreBacked` holds
  across restarts too, which no run covers with two workers.
  The limit, the finality of logout and the completeness of force logout are false for
  two workers or a table that fails (the two violated runs), so their theorems assume
  what the run `sessions_serial` assumes, one worker and `StorageFaults = FALSE`, and
  nothing about users, tokens, expiry, the limit or the number of crashes. Their
  invariant `SerialInv` says that what validate accepts is in its user's list but for
  what create took off it (`Listed`), that the table holds only what validate accepts
  but for a write that is due (`RowsFollow`), that the limit also holds for the table,
  since a crash in the middle of a call makes the table the map (`RowLimit`), and what
  each call has done by each of its steps (`Underway`).
* `CircuitBreaker_proofs`: `TypeCorrect`, `HerdIsBounded`, `BusyUpstreamsAreCounted`,
  `ClosingIsEarned`. The herd bound counts: every step changes the number of
  probes and `in_flight_probes + stale` together; the proof rests on cardinality
  lemmas for adding and removing one request. Closing rests on
  `successes <= good` while half-open.
* `Identity_proofs`: `TypeCorrect`, `LockoutIsBounded`, `AccountsAreKept`,
  `AccountsAreFound`, `DisabledUserIsOut`. For the lockout the invariant is that the
  failures counted for an address and the workers that may still count one stay below
  the limit plus the number of workers: a worker is let in only while the count is below
  the limit, so the last to be let in finds at most all others ahead of it. That a
  restart loses nothing needs that a row and the call between the row and the map
  entry agree, and that a row is only replaced by one of the same address
  (`RowsKept`). That an account is found is not
  inductive either: a register writes the index entry before the map entry, so whoever
  goes by an address, in the map or about to be inserted, must be found by it or share
  it (`Claimed`). That a disabled user is out
  needs that the calls that re-enable nothing keep an ousted account disabled, that a
  login without the mark `late` has an enabled account, and that no ousted user is
  registered again (`OustInv`).
* `Registry_proofs`: `PrefixIsUnique`, `RowsBackServices`, `RemovedServicesStayAway` over
  `Registry`; `FailuresAreReportedOnce`, `StatusAndIncidentsAgree` over `HealthWatch`.
  The statements of one registration (delete, write, insert) are separate steps, so
  `RegistryInv` says for every prefix without an overlap that at most one caller works
  on it (`Alone`), at most one service has it (`Single`), never both but for a service
  being replaced, that a row is written before its service is inserted (`Written`) and
  agrees with it afterwards (`Backed`), and that rows are written at multiples of
  `Flush` (`Flushed`), which bounds what a restart loses. `HealthInv` adds that the
  checker's snapshot is current but for names that were touched (`Departed`, `Current`),
  that names which two services or an incident share are touched (`Apart`), that the
  checker opens an incident only when it has none open (`OneOwn`), and that statuses and
  incidents agree for all services but the one in its hands (`Agreed`, `Ready`).
* `Gates_proofs`:
  - `RevokedTokenIsRefused`. Whatever says a token is active, in the cache or on its
    way, was asked before the revocation and is therefore at least as old
    (`AnswersPredate`); the bound follows from the age check. `PinsAreRecent` is the
    same argument for addresses a name no longer has.
  - `DepthCountsTheQueue`, `ConcurrencyIsBounded`. Permits are exactly the holders, the
    depth is the clients inside plus the tasks to run plus the abandoned, dropped at the
    semaphore or at the lock behind its timeout; a disabled
    queue counts nobody.
  - `WindowIsSafe`. A request is admitted by the count it made, a key has a time to live
    only while it counts, and it is never zero.
  - `BurstsAreBounded`. A client's bucket bounds what got through in every stretch up to
    `Span`, not only in the longest: what is younger than the bucket's first request is
    less than what the bucket let through (`LastWindow`), anything longer less than a
    full window more (`TwoWindows`), and a client without a bucket has had less than one
    window (`NoWindow`), which is what lets the evictor drop it. `LimiterInv` says so at
    every step of time, eviction, reload and delayed call.
  - `HeadersProveTheKey`. For headers of any length: the walk ends at the rightmost hop
    that is neither empty nor trusted, so what stands to its left cannot choose the
    bucket.
  - `QuotaIsNearlyKept`. The count and the requests let in and not yet counted stay
    below the quota plus the requests there can be; `QuotaOvershoot` is that bound and
    already inductive.
  - `EdgeCacheIsBounded`. Without an overlap one call stores, and the room it found,
    or will make by the eviction of its victim, is still there (`RoomIsKept`).
  - `CacheServesTheCurrent`, `UnsafeIsSentOnce`. Every answer, in the cache or carried by
    a request, is younger than the last time the cache was switched off, or is known to be
    late (`OfItsTime`); a cached one is no older than a hold and a ttl allow
    (`CacheKept`). A request that must not be repeated was sent at most once, and not at
    all while it still may be (`Sends`). The connections counted are the requests at the
    upstream (`open = Cardinality(Connected)`).
  - `TunnelsRelayInOrder`. The n-th message an end got is the n-th of those the other sent
    that have an arm in the `match` of the task (`Arrived`); unless the receiver is gone it
    got all of these that were taken but the one in hand (`Follows`, with `Relayable`
    counting them, by lemmas on one message more), nothing follows a goodbye
    (`GoodbyeIsLast`), and a task that ended by itself has relayed all but the end of the
    stream (`AllTaken`).
* `Operations_proofs`:
  - `EveryLossIsCounted`. Entries stand in one line, of which the channel is the end
    (`InLine`), and those in line or refused are all that were logged (`Offered`). What a
    sink has got follows the line (`FollowsLine`), and with its errors and what it has
    coming it is everything but what a crash took from the channel (`Written`).
  - `IndexIsExact`. An id is one log's, in the vector or in a writer's hands
    (`IdsAreOnce`). While one `ingest` runs at a time the index names the kept logs,
    ahead or behind only by the log that call has in hand (`OneIngest`).
  - `ChangesAreToldOnce`. A check that is about to tell has found a change
    (`TellsChanges`), what was told is counted but for what is in flight
    (`ToldIsCounted`), without an overlap one check knows what the watcher knows
    (`OneCheck`), and events are kept, on their way, delivered or lost (`EventsAddUp`).
  - `NotificationsAddUp`. A task has tried every channel but those it has left
    (`AtWork`); unless a target was changed under it, what it calls is registered or the
    alert's current address (`Fresh`); the answers a hook got are its two counters and the
    tasks about to count (`Counted`).
  - `ReloadsArrive`. Without an overlap one write is under way, and without a pending
    event the file last looked at is the latest or a broken one (`FileIsFollowed`); the
    hash the sync remembers is that of the patterns the firewall has, and sections that
    are not dirty are installed (`HashIsTrue`).
  - `RollbackRestores`. The colour before the last switch is the other one, and active
    again after a rollback (`ColourIsKnown`); a flag that was seen on was seen so by
    clients within its percentage (`FlagIsCounted`).
  - `AdminsAreAdmins`. Unless overtaken, a request past the session filter has a live
    session and one past the role filter a SuperAdmin (`Admitted`, `WellFormed`); a
    disabled user's sessions are being closed or were issued late (`SessionsClose`).
  - `NoSilentFailure`. Without an overlap one caller executes, and the steps behind it
    are its own: all successful, or one of them skipped and remembered as such.
  - `RemovedStaysOut`. From the deletion of its row on a job is out of the table and
    neither the daemon's copy nor `add_job` can write it again, unless the copy was in
    the daemon's hand (`raced`).
  - `RestartsDelayNothing`. Neither the row nor the copy about to be written is later
    than the job.
* `WafRules_proofs`: `IdsAgree` (`Coherent`) and `AddsAreInstalled` (`TypeOK`, `UniqueIds`,
  `AddIsInstalled`), for any number of nodes, administrators and patterns, any
  configurations and a lossy bus, under `OneWriter(w)`: the administrators of one node
  alone change rules, that node does not restart, and no other node has a valid pattern
  in its configuration. Without it `Coherent` is false, as `waf_two_writers` and the
  variations of section 3 show. An event that was sent may be handled much later, so
  `WafInv` speaks of every rule there is anywhere: installed, told by the bus, or in a
  thread's hands. Among all of these an id is one rule and below `next_rule_id` of the
  writing node (`OneRuleAnId`), the id of an add under way is nobody else's
  (`PendingIsFree`), and the other nodes draw none (`OthersListen`). A step only brings rules
  that are known already, or one with a new id (the lemma `RulesMove`). That a reload
  gives the valid patterns of a configuration different ids is a fact about counting the
  positions before each (`LoadedOnce`).
* `Platform_proofs`: 21 of the 22 invariants of the run `platform_suite`, that is all but
  `RulesMean`, for any number of workers. The parts share the registers `x1` to `x11`, and
  `part` says whose they are. A step of the platform is one of the part's own
  (`OnePartMoves`); a lemma `...Reads` per part identifies its definitions with those of
  the proof module at the same registers, and a lemma `...Holds` carries the inductive
  invariant over. `TypesHold` is `PlatformTypeOK`: next to the inductive invariant of a
  part its proof module shows the bounds its type invariant names (`PipelineBounds`,
  `TunnelBounds`, `RowsLost`, `SettingsBounds`, `RolloutBounds`, `NotifyBounds`,
  `RegistryBounds`, `HealthBounds`), and the lemmas `...Kept` put the two together.

The constants of `Sessions`, `CircuitBreaker`, `Identity` and `WafRules` are restricted by
the modules' `ASSUME`s, which TLC evaluates; those of the others by an operator
(`QueueConstants`, `RegistryConstants`, `PlatformConstants` and so on) that their
theorems assume: positive bounds, finite sets, and a `None` that is no value.

Only model-checked:

* `WithinLimit`, `LogoutIsFinal` and `ForceLogoutIsComplete` for more than one worker or a
  failing table, and `Coherent` for more than one writing node: they are false there;
* `RulesMean`: what address ranges, path normalisation and canary weights compute is
  powers of two and folds over sequences, an induction over data, which the
  provers lack;
* all liveness: TLAPS cannot prove it under fairness nor reason with ENABLED.

## 5. Where the code and its texts disagree

Besides the five violated runs. Each of these is a behaviour the models have, and
the property next to it is worded so as to be true of the code.

* `identity/users.rs:310` says unique addresses are guaranteed. Look-up and
  entry are separate, so two overlapping registrations both succeed, and one row
  replaces the other; and the index is reloaded with the address as it was typed
  (`users.rs:256`), so an account registered in capitals is not found after a
  restart and its address can be registered again (`RestartLosesNothing`, `Findable`).
* `README.md:412` says every request is written to SQLite. The handler returns early
  for services with transform rules (`gateway/mod.rs:486-501`) and for answers a
  hook blocks (`Pipeline`).
* `gateway/retry.rs:5-8` says PUT and DELETE with an Idempotency-Key are retried;
  the handler's `should_retry` never does (`SentOnce`).
* `gateway/cache.rs:86-97` compares the request's header with a header of the cached
  answer of the same name when it checks Vary; hits skip the response hooks and
  transforms.
* `deployment/releases.rs:94` calls `switch` idempotent; a repeated one toggles back.
  `check_rollback` flips the colour even if nothing was ever switched (`RolloutHolds`).
* `config/mod.rs:674` skips the checks of a disabled `[jwt]`; `JwtAuth::new` stops on
  its algorithm all the same. A reload and `PUT /xira/config` install without
  `validate`; a save between the load at boot and the start of the watch is missed;
  sections that are only read at boot change in the shared configuration and not
  in the running filters (`SettingsAreCurrent`, `JwtChecksAgree`).
* `middleware/audit_sink.rs:114` says a full buffer drops old entries and that sinks
  are written in parallel; the new entry is dropped, sinks are written in turn
  (`AuditTrail`).
* `middleware/redis_rate_limit.rs:55` says INCR and EXPIRE are one transaction; they
  are two calls (`WindowEnds`).
* `middleware/ip_filter.rs:58`: a shift by the full width for `/0`
  (`RulesMean`). `middleware/tenant.rs:87` checks and counts in two calls
  (`QuotaOvershoot`). `observability/log_aggregator.rs:132` cuts by id although ids
  may be pushed out of order (`LogStore`). `gateway/edge_cache.rs:92`: overlapping
  stores choose one victim (`EdgeBound`). Two SuperAdmins may demote each other
  (`Access`). An upstream that ends without a close frame leaves the client's side
  of a tunnel open until the client sends (`Tunnel`). Both its tasks pass over messages
  of other kinds (`gateway/websocket.rs:96`, `:130`): the stream of `actix_ws` hands on the
  continuation frames of a client's fragmented message, unless asked to aggregate them, so
  such a message is lost without a word with both ends there; what tungstenite reads from
  the upstream is put together already (`Part`, `TunnelRelays`). A versioned path takes the
  first match of a map's order, not the longest prefix (`Rollout`).

## 6. Not modelled, and why

* *Not wired into the running gateway* (library code that nothing in `main.rs`
  reaches): API keys, CORS manager, GeoIP, body transforms, GraphQL, connection pool,
  trace collector, request replay, interceptors, Lua engine. Tenants, edge cache,
  request queue, canary, Redis limiter, log aggregator's `ingest`, `check_rollback`
  and `DataPipeline::check_changes` are not wired in either, but have state worth
  checking and are modelled as the libraries they are. `rotate_key`
  (`middleware/api_keys.rs`) cannot return: it holds an entry of the map while
  `disable_key` asks for it, so nothing follows it.
* *Rings, counters and reports*: uptime, SLA, metrics, traces. Each is one lock around
  an append; their contents are floating point averages nobody acts on.
* *Text and bytes*: WAF matching, query firewall, record and header transforms,
  validation, user-agent scoring, OpenAPI, the CLI and the dashboard, gRPC, TLS,
  plugins' Lua. Their decisions appear where they matter as a choice (a hook
  blocks or passes, a pattern is valid or not).
* *Cryptography*: password hashes, TOTP, sealing of secrets, JWT signatures, webhook
  signatures are right or wrong.
* *Sessions of several nodes over the bus*: a remote invalidation runs the modelled
  `apply_` functions, but `invalidate_all` on a node that holds no session of the
  user publishes nothing (`identity/sessions.rs:449`). The product of `Sessions` on two
  nodes with the bus is beyond the bounds at which either is interesting.
* *A configuration file replaced by another*. `Settings` has saves that write to the
  file in place. The watch is on the file itself (`config/mod.rs:910`), not on its
  directory: an editor or a deployment that renames a new file over the old one may end
  the watch, and later saves are then not noticed until a restart. `SettingsAreCurrent`
  says nothing of such saves.
* *Handlers* of `admin/` that only read, or that call one method of a manager that is
  not modelled.
