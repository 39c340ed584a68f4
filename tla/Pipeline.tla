------------------------------ MODULE Pipeline ------------------------------
(* A request's way through gateway_handler (src/gateway/mod.rs) once the     *)
(* breaker let it in: the response cache (gateway/cache.rs), the attempts of *)
(* RetryPolicy (gateway/retry.rs), the plugin hooks (plugins/mod.rs), and    *)
(* what is recorded of it; with the cache switched and cleared meanwhile.    *)
(* The breaker and the choice of an upstream are module CircuitBreaker.      *)
(*                                                                           *)
(* All cacheable requests ask for one key: entries do not affect each other  *)
(* but by LRU eviction, which Forget stands for.  Of an answer the model     *)
(* keeps its kind, how long ago the upstream gave it, and whether it varies. *)
EXTENDS Integers, FiniteSets

CONSTANTS
  Request,
  MaxRetries,   \* retry.max_retries
  Ttls,         \* the values of cache.ttl_secs
  MaxHold,      \* time from the upstream's answer to put, at most
  MaxSwitches,  \* bound on changes of the cache's settings
  Transforms,   \* whether the service has transform rules
  None

VARIABLES
  req,        \* req[r]: where request r is and what it carries
  cache,      \* the entry of the key, or None
  cacheOn,    \* ResponseCache.enabled
  ttl,
  clearing,   \* calls of set_enabled(false) that have still to clear
  switches, offs,   \* changes of the settings; switch-offs among them
  open,       \* connections acquired and not released
  audited     \* requests with an audit entry

pipelineVars == <<req, cache, cacheOn, ttl, clearing, switches, offs, open, audited>>

Method == {"GET", "PUT", "PUT with key", "POST"}   \* with an Idempotency-Key
Kind == {"ok", "error", "other"}
Answer == [varies: BOOLEAN, age: Nat, epoch: Nat, late: BOOLEAN]

Ready == [step |-> "new", method |-> None, plain |-> FALSE, cached |-> FALSE, sends |-> 0,
          answer |-> None]   \* answer: kept while it may still be stored

Bound == MaxHold + 1 + (CHOOSE t \in Ttls : \A u \in Ttls : u <= t)

PipelineInit ==
  /\ req = [r \in Request |-> Ready] /\ cache = None /\ cacheOn \in BOOLEAN /\ ttl \in Ttls
  /\ clearing = 0 /\ switches = 0 /\ offs = 0
  /\ open = 0 /\ audited = {}

\* cached: nothing in the request forbids it (request_is_cacheable) and the
\* configuration says so; it looks into the cache and stores.  plain: it carries
\* no header that an answer varies on.
Arrive(r, m, cached, plain) ==
  /\ req[r].step = "new" /\ (cached => m = "GET") /\ (plain => cached)
  /\ req' = [req EXCEPT ![r] = [Ready EXCEPT !.step = "admitted", !.method = m, !.plain = plain,
                                  !.cached = cached]]
  /\ UNCHANGED <<cache, cacheOn, ttl, clearing, switches, offs, open, audited>>

End(r, how) == req' = [req EXCEPT ![r] = [Ready EXCEPT !.step = how]]

\* The WAF, the bot detector, the IP filter, the schema, a plugin or the breaker.
Refuse(r) ==
  /\ req[r].step = "admitted" /\ End(r, "refused")
  /\ UNCHANGED <<cache, cacheOn, ttl, clearing, switches, offs, open, audited>>

Expired_OneLater == cache # None /\ cache.stored > ttl   \* mutant

Expired == cache # None /\ cache.stored >= ttl
Hit(r) == /\ req[r].cached /\ cacheOn /\ cache # None /\ ~Expired
          /\ cache.varies => req[r].plain
GetHit(r) ==
  /\ req[r].step = "admitted" /\ Hit(r) /\ End(r, "hit")
  /\ UNCHANGED <<cache, cacheOn, ttl, clearing, switches, offs, open, audited>>

\* Not found, or expired and dropped; then acquire_connection.
GetMiss(r) ==
  /\ req[r].step = "admitted" /\ ~Hit(r)
  /\ cache' = IF req[r].cached /\ cacheOn /\ Expired THEN None ELSE cache
  /\ req' = [req EXCEPT ![r].step = "send"] /\ open' = open + 1
  /\ UNCHANGED <<cacheOn, ttl, clearing, switches, offs, audited>>

\* gateway_handler calls RetryPolicy for these methods only.
ShouldRetry(m) == MaxRetries > 0 /\ m = "GET"
Retryable(m) == m \in {"GET", "PUT with key"}   \* is_request_retryable

TriesAgain_AnyMethod(r, kind) == kind = "error" /\ req[r].sends < MaxRetries   \* mutant
TriesAgain_OnceMore(r, kind) ==   \* mutant
  /\ ShouldRetry(req[r].method) /\ Retryable(req[r].method)
  /\ kind = "error" /\ req[r].sends <= MaxRetries

TriesAgain(r, kind) ==
  /\ ShouldRetry(req[r].method) /\ Retryable(req[r].method)
  /\ kind = "error" /\ req[r].sends < MaxRetries

\* error: a 5xx answer, no connection or a timeout, which RetryPolicy repeats;
\* other: an answer that is not stored, or another fault.
Attempt(r, kind, varies) ==
  /\ req[r].step = "send" /\ (varies => kind = "ok")
  /\ req' = [req EXCEPT ![r].sends = @ + 1,
       ![r].step = IF TriesAgain(r, kind) THEN @ ELSE "answered",
       ![r].answer = IF kind = "ok" /\ req[r].cached
                     THEN [varies |-> varies, age |-> 0, epoch |-> offs, late |-> FALSE]
                     ELSE None]
  /\ UNCHANGED <<cache, cacheOn, ttl, clearing, switches, offs, open, audited>>

\* The client disconnects and the future is dropped.
Vanish(r) ==
  /\ req[r].step = "send" /\ End(r, "vanished")
  /\ UNCHANGED <<cache, cacheOn, ttl, clearing, switches, offs, open, audited>>

\* response_is_cacheable, and the kinds of answers put stores.
Waiting(r) == req[r].answer # None

Settle(r) ==
  /\ req[r].step = "answered"
  /\ open' = open - 1
  /\ req' = [req EXCEPT ![r].step = "hook"]
  /\ UNCHANGED <<cache, cacheOn, ttl, clearing, switches, offs, audited>>

\* on_response: a plugin may replace the answer.
Hook(r, block) ==
  /\ req[r].step = "hook"
  /\ IF block THEN End(r, "blocked")
     ELSE IF Waiting(r) /\ cacheOn THEN req' = [req EXCEPT ![r].step = "put"]
     ELSE req' = [req EXCEPT ![r].step = "observe", ![r].answer = None]
  /\ UNCHANGED <<cache, cacheOn, ttl, clearing, switches, offs, open, audited>>

\* put, after its check of `enabled`.
Put(r) ==
  /\ req[r].step = "put"
  /\ cache' = [varies |-> req[r].answer.varies, age |-> req[r].answer.age, stored |-> 0,
               epoch |-> req[r].answer.epoch, late |-> req[r].answer.late]
  /\ req' = [req EXCEPT ![r].step = "observe", ![r].answer = None]
  /\ UNCHANGED <<cacheOn, ttl, clearing, switches, offs, open, audited>>

\* A transformed answer leaves at once; of the others the metrics, the scorer,
\* the audit log and the event bus are told.
Observe(r) ==
  /\ req[r].step = "observe" /\ End(r, "answered by upstream")
  /\ audited' = IF Transforms THEN audited ELSE audited \cup {r}
  /\ UNCHANGED <<cache, cacheOn, ttl, clearing, switches, offs, open>>

-----------------------------------------------------------------------------
(* Around the requests.                                                      *)
Tick ==
  /\ \A r \in Request : Waiting(r) => req[r].answer.age < MaxHold
  /\ req' = [r \in Request |-> IF Waiting(r) THEN [req[r] EXCEPT !.answer.age = @ + 1] ELSE req[r]]
  /\ cache' = IF cache = None THEN None
              ELSE [cache EXCEPT !.age = IF @ < Bound THEN @ + 1 ELSE @,
                                 !.stored = IF @ < Bound THEN @ + 1 ELSE @]
  /\ UNCHANGED <<cacheOn, ttl, clearing, switches, offs, open, audited>>

Switching == switches < MaxSwitches /\ switches' = switches + 1

SwitchOff ==
  /\ Switching /\ cacheOn' = FALSE /\ offs' = offs + 1 /\ clearing' = clearing + 1
  /\ req' = [r \in Request |-> IF Waiting(r) THEN [req[r] EXCEPT !.answer.late = TRUE] ELSE req[r]]
  /\ UNCHANGED <<cache, ttl, open, audited>>

Clear ==
  /\ clearing > 0 /\ clearing' = clearing - 1 /\ cache' = None
  /\ UNCHANGED <<req, cacheOn, ttl, switches, offs, open, audited>>

SwitchOn ==
  /\ ~cacheOn /\ Switching /\ cacheOn' = TRUE
  /\ UNCHANGED <<req, cache, ttl, clearing, offs, open, audited>>

SetTtl(t) ==
  /\ t # ttl /\ Switching /\ ttl' = t
  /\ UNCHANGED <<req, cache, cacheOn, clearing, offs, open, audited>>

\* The LRU map gives the entry up, or an administrator clears the cache.
Forget ==
  /\ cache # None /\ cache' = None
  /\ UNCHANGED <<req, cacheOn, ttl, clearing, switches, offs, open, audited>>

Step(r) ==
  \/ \E m \in Method, c, p \in BOOLEAN : Arrive(r, m, c, p)
  \/ Refuse(r) \/ GetHit(r) \/ GetMiss(r) \/ Vanish(r) \/ Settle(r) \/ Put(r) \/ Observe(r)
  \/ \E k \in Kind, v \in BOOLEAN : Attempt(r, k, v)
  \/ \E b \in BOOLEAN : Hook(r, b)

PipelineNext ==
  \/ \E r \in Request : Step(r)
  \/ Tick \/ SwitchOff \/ Clear \/ SwitchOn \/ Forget \/ \E t \in Ttls : SetTtl(t)

PipelineSpec == PipelineInit /\ [][PipelineNext]_pipelineVars

-----------------------------------------------------------------------------
Steps == {"new", "admitted", "send", "answered", "hook", "put", "observe",
          "refused", "hit", "vanished", "blocked", "answered by upstream"}
PipelineTypeOK ==
  /\ \A r \in Request : req[r].step \in Steps /\ req[r].method \in Method \cup {None}
                        /\ req[r].answer # None => req[r].answer \in Answer
  /\ cacheOn \in BOOLEAN /\ ttl \in Ttls /\ clearing \in 0..MaxSwitches
  /\ \A r \in Request : req[r].sends \in 0..MaxRetries + 1
  /\ open \in 0..Cardinality(Request) /\ audited \subseteq Request

\* What the cache can serve is never older than ttl plus the time an answer may
\* take from the upstream to put, whatever happened to ttl since it was stored,
\* and never from before the cache was last switched off, unless its request
\* was still under way then (put checks `enabled` before it takes the lock).
CacheIsCurrent ==
  cache # None /\ ~Expired =>
    /\ cache.age < ttl + MaxHold
    /\ clearing = 0 => cache.epoch = offs \/ cache.late

\* A POST, and a PUT without a key, reaches the upstream at most once, and its
\* connection is given back once, unless its client went away.
SentOnce ==
  /\ \A r \in Request : req[r].method \in {"PUT", "POST"} => req[r].sends <= 1
  /\ open = Cardinality({r \in Request : req[r].step \in {"send", "answered", "vanished"}})

=============================================================================
