------------------------------ MODULE Limiter ------------------------------
(* The rate limiter (src/middleware/rate_limit.rs): one bucket per client    *)
(* address, shared by all workers, with limits, trusted proxies and the      *)
(* X-Forwarded-For switch changed while requests are counted, and the task   *)
(* that evicts old buckets.                                                  *)
(*                                                                           *)
(* A call reads the clock and the limits before it locks its bucket, so it   *)
(* may count with a clock that is up to MaxDelay old.  Times are kept as     *)
(* ages.  An address is a model value and a trusted CIDR the set of          *)
(* addresses it contains.                                                    *)
EXTENDS Integers, Sequences, FiniteSets

CONSTANTS
  Addr,       \* addresses
  Proxies,    \* the trusted_proxies lists: sets of addresses
  Chains,     \* X-Forwarded-For headers: sequences over Hop
  Traffic,    \* the requests that are counted: pairs of a peer and a header
  Limits,     \* the [max, window] pairs set_limits may install
  Workers,
  MaxDelay,   \* how old a call's clock may be when it locks the bucket
  MaxReloads, \* bound on reloads
  Junk,       \* a hop that is no address
  Nobody      \* "unknown", an empty hop, and no bucket

VARIABLES
  limit,      \* max_requests and window_secs
  proxies,    \* trusted_proxies
  trustXff,   \* trust_xff
  bucket,     \* key -> count and age of window_start, or Nobody
  counting,   \* counting[w]: key, limits read and age of the clock read
  reloads,
  passed      \* key -> how many requests were let through in the last a seconds (history)

limiterVars == <<limit, proxies, trustXff, bucket, counting, reloads, passed>>

Hop == Addr \cup {Junk, Nobody}
ClientKey == Hop
Widest == CHOOSE n \in {l.window : l \in Limits} : \A l \in Limits : l.window <= n
Narrowest == CHOOSE n \in {l.window : l \in Limits} : \A l \in Limits : n <= l.window
Most == CHOOSE n \in {l.max : l \in Limits} : \A l \in Limits : l.max <= n
\* How far apart the first requests of two windows are: a delayed call may start
\* the first one in the past.
Span == Narrowest - MaxDelay
Oldest == 2 * Widest + MaxDelay + 1      \* ages beyond it are not told apart
Age == 0..Oldest

\* The first hop of the header, unless it is empty.
FirstHop(chain, peer) == IF chain = <<>> \/ chain[1] = Nobody THEN peer ELSE chain[1]

\* client_ip, strategy 1: from the right, past empty and trusted hops.
Stops(chain, trusted) == {k \in DOMAIN chain : chain[k] \notin trusted \cup {Nobody}}
LastStop(chain, trusted) ==
  CHOOSE k \in Stops(chain, trusted) : \A j \in Stops(chain, trusted) : j <= k
Walked_FirstHop(peer, chain, trusted) == FirstHop(chain, peer)   \* mutant

Walked(peer, chain, trusted) ==
  IF Stops(chain, trusted) = {} THEN FirstHop(chain, peer)
  ELSE IF chain[LastStop(chain, trusted)] = Junk THEN peer
  ELSE chain[LastStop(chain, trusted)]

ClientIp(peer, chain, trusted, xff) ==
  IF trusted # {} THEN IF peer \in trusted THEN Walked(peer, chain, trusted) ELSE peer
  ELSE IF xff THEN FirstHop(chain, peer)
  ELSE peer

LimiterInit ==
  /\ limit \in Limits /\ proxies \in Proxies /\ trustXff \in BOOLEAN
  /\ bucket = [k \in ClientKey |-> Nobody] /\ counting = [w \in Workers |-> Nobody]
  /\ reloads = 0 /\ passed = [k \in ClientKey |-> [a \in 0..Span |-> 0]]

Older(a) == IF a < Oldest THEN a + 1 ELSE a
OneSecondOn(through) == [a \in 0..Span |-> IF a = 0 THEN 0 ELSE through[a - 1]]
OneMoreThrough(through) == [a \in 0..Span |-> through[a] + 1]
Second ==
  /\ \A w \in Workers : counting[w] # Nobody => counting[w].age < MaxDelay
  /\ bucket' = [k \in ClientKey |-> IF bucket[k] = Nobody THEN Nobody
                                    ELSE [bucket[k] EXCEPT !.age = Older(@)]]
  /\ counting' = [w \in Workers |-> IF counting[w] = Nobody THEN Nobody
                                    ELSE [counting[w] EXCEPT !.age = @ + 1]]
  /\ passed' = [k \in ClientKey |-> OneSecondOn(passed[k])]
  /\ UNCHANGED <<limit, proxies, trustXff, reloads>>

Enter(w, peer, chain) ==
  /\ counting[w] = Nobody
  /\ counting' = [counting EXCEPT ![w] = [key |-> ClientIp(peer, chain, proxies, trustXff),
                                  max |-> limit.max, window |-> limit.window, age |-> 0]]
  /\ UNCHANGED <<limit, proxies, trustXff, bucket, reloads, passed>>

\* now.duration_since(window_start) is zero for a start that is later than now.
Elapsed(c) == IF bucket[c.key].age > c.age THEN bucket[c.key].age - c.age ELSE 0
Current(c) ==
  IF bucket[c.key] = Nobody \/ Elapsed(c) > c.window THEN [count |-> 0, age |-> c.age]
  ELSE bucket[c.key]

Passes(c) == Current(c).count + 1 <= c.max
CountRequest(w) ==
  /\ counting[w] # Nobody
  /\ LET c == counting[w] IN
     /\ bucket' = [bucket EXCEPT ![c.key] = [count |-> IF Current(c).count > Most THEN Most + 1
                                                       ELSE Current(c).count + 1,
                                             age |-> Current(c).age]]
     /\ passed' = IF Passes(c) THEN [passed EXCEPT ![c.key] = OneMoreThrough(@)] ELSE passed
  /\ counting' = [counting EXCEPT ![w] = Nobody]
  /\ UNCHANGED <<limit, proxies, trustXff, reloads>>

EvictBuckets_TooEarly ==   \* mutant
  /\ bucket' = [k \in ClientKey |-> IF bucket[k] # Nobody /\ bucket[k].age < limit.window
                                    THEN bucket[k] ELSE Nobody]
  /\ UNCHANGED <<limit, proxies, trustXff, counting, reloads, passed>>

\* Every 30 seconds: buckets as old as two windows go.
EvictBuckets ==
  /\ bucket' = [k \in ClientKey |-> IF bucket[k] # Nobody /\ bucket[k].age < 2 * limit.window
                                    THEN bucket[k] ELSE Nobody]
  /\ UNCHANGED <<limit, proxies, trustXff, counting, reloads, passed>>

\* set_limits, set_trust_xff and set_trusted_proxies of one reload.
ReloadLimits(l, p, x) ==
  /\ reloads < MaxReloads /\ reloads' = reloads + 1
  /\ limit' = l /\ proxies' = p /\ trustXff' = x
  /\ UNCHANGED <<bucket, counting, passed>>

LimiterNext ==
  \/ Second \/ EvictBuckets
  \/ \E w \in Workers : CountRequest(w) \/ \E q \in Traffic : Enter(w, q[1], q[2])
  \/ \E l \in Limits, p \in Proxies, x \in BOOLEAN : ReloadLimits(l, p, x)

LimiterSpec == LimiterInit /\ [][LimiterNext]_limiterVars

-----------------------------------------------------------------------------
LimiterTypeOK ==
  /\ limit \in Limits /\ proxies \in Proxies /\ trustXff \in BOOLEAN /\ reloads \in 0..MaxReloads
  /\ bucket \in [ClientKey -> [count: 1..Most + 1, age: Age] \cup {Nobody}]
  /\ \A w \in Workers : counting[w] # Nobody => counting[w].key \in ClientKey /\ counting[w].age \in 0..MaxDelay

\* However windows, evictions, reloads and delayed calls fall, a client gets less
\* than twice the limit through within the narrowest window, less the time by which
\* a call reads the clock before it locks the bucket (rate_limit.rs:329).
BurstBound == \A k \in ClientKey : passed[k][Span] < 2 * Most

\* A client cannot choose its bucket: behind proxies the key is the peer or a
\* hop that only trusted proxies have passed on; without them the header counts
\* only when trust_xff says so.
KeyIsProved ==
  \A peer \in Addr, chain \in Chains :
    LET key == ClientIp(peer, chain, proxies, trustXff) IN
    \/ key = peer
    \/ proxies = {} /\ trustXff /\ key = chain[1]
    \/ /\ peer \in proxies
       /\ \E k \in DOMAIN chain : /\ chain[k] = key
                                  /\ \A j \in k+1..Len(chain) : chain[j] \in proxies \cup {Nobody}

=============================================================================
