-------------------------------- MODULE Pins --------------------------------
(* The URL guard (src/alerting/url_guard.rs) and its cache of pinned         *)
(* addresses, which cron jobs connect through: a look-up that takes its time *)
(* is stored with an expiry counted from its end, whatever another look-up   *)
(* has stored meanwhile, and names change their addresses at any time.       *)
EXTENDS Integers, FiniteSets

CONSTANTS
  Address,      \* "public", "private" and "metadata" ones
  Class,        \* Address -> its class
  Resolver,     \* calls that pin the URL
  PinTtl,       \* 60 seconds in the code
  MaxLookup,    \* bound on the length of a look-up
  NoPin

VARIABLES
  dns,          \* what the name resolves to
  goneFor,      \* Address -> time since it was one of the name's
  pinned,       \* the entry of the URL, or NoPin
  resolver,     \* what each call does
  handed        \* the address each call was given last, or NoPin

pinVars == <<dns, goneFor, pinned, resolver, handed>>

\* is_ip_allowed, for the level of upstreams and the strict one.
Allowed(level, a) ==
  /\ Class[a] # "metadata"
  /\ level = "Strict" => Class[a] = "public"

\* validate_url and pin_url refuse a name when one of its addresses is refused,
\* and one that has none.
Validated(level, addrs) == addrs # {} /\ \A a \in addrs : Allowed(level, a)

Never == PinTtl + MaxLookup + 1
Calm == [step |-> "calm", found |-> {}, time |-> 0]

PinInit ==
  /\ dns \in SUBSET Address /\ goneFor = [a \in Address |-> IF a \in dns THEN 0 ELSE Never]
  /\ pinned = NoPin /\ resolver = [r \in Resolver |-> Calm]
  /\ handed = [r \in Resolver |-> NoPin]

\* now < expiry
Fresh == pinned # NoPin /\ pinned.left > 0

PinCached(r) ==
  /\ resolver[r] = Calm /\ Fresh
  /\ handed' = [handed EXCEPT ![r] = pinned.addr]
  /\ UNCHANGED <<dns, goneFor, pinned, resolver>>

StartLookup(r) ==
  /\ resolver[r] = Calm /\ ~Fresh
  /\ resolver' = [resolver EXCEPT ![r].step = "asked"]
  /\ handed' = [handed EXCEPT ![r] = NoPin]
  /\ UNCHANGED <<dns, goneFor, pinned>>

\* The name server answers; the answer may still be on its way for a while.
Resolve(r) ==
  /\ resolver[r].step = "asked"
  /\ resolver' = [resolver EXCEPT ![r].step = "told", ![r].found = dns]
  /\ UNCHANGED <<dns, goneFor, pinned, handed>>

\* The first of the addresses, in the order of the answer.
StorePin(r) ==
  /\ resolver[r].step = "told"
  /\ \/ /\ Validated("UpstreamOnly", resolver[r].found)
        /\ \E a \in resolver[r].found :
             /\ pinned' = [addr |-> a, left |-> PinTtl]
             /\ handed' = [handed EXCEPT ![r] = a]
     \/ /\ ~Validated("UpstreamOnly", resolver[r].found)
        /\ UNCHANGED <<pinned, handed>>
  /\ resolver' = [resolver EXCEPT ![r] = Calm]
  /\ UNCHANGED <<dns, goneFor>>

Move(addrs) ==
  /\ dns' = addrs
  /\ goneFor' = [a \in Address |-> IF a \in dns \cup addrs THEN 0 ELSE goneFor[a]]
  /\ UNCHANGED <<pinned, resolver, handed>>

PinTick ==
  /\ \A r \in Resolver : resolver[r] # Calm => resolver[r].time < MaxLookup
  /\ resolver' = [r \in Resolver |-> IF resolver[r] = Calm THEN Calm
                                     ELSE [resolver[r] EXCEPT !.time = @ + 1]]
  /\ goneFor' = [a \in Address |-> IF a \in dns \/ goneFor[a] = Never THEN goneFor[a]
                                   ELSE goneFor[a] + 1]
  /\ pinned' = IF pinned = NoPin \/ pinned.left = 0 THEN pinned ELSE [pinned EXCEPT !.left = @ - 1]
  /\ handed' = [r \in Resolver |-> NoPin]
  /\ UNCHANGED dns

PinNext ==
  \/ \E r \in Resolver : PinCached(r) \/ StartLookup(r) \/ Resolve(r) \/ StorePin(r)
  \/ \E addrs \in SUBSET Address : Move(addrs)
  \/ PinTick

PinSpec == PinInit /\ [][PinNext]_pinVars

-----------------------------------------------------------------------------
PinTypeOK ==
  /\ dns \subseteq Address /\ goneFor \in [Address -> 0..Never]
  /\ pinned \in [addr: Address, left: 0..PinTtl] \cup {NoPin}
  /\ \A r \in Resolver : resolver[r].time \in 0..MaxLookup
  /\ handed \in [Resolver -> Address \cup {NoPin}]

\* The address a job connects to passed the guard, and was the name's less than
\* the ttl and one look-up ago, however look-ups overtake each other.
PinIsRecent ==
  \A r \in Resolver : handed[r] # NoPin =>
    /\ Allowed("UpstreamOnly", handed[r])
    /\ goneFor[handed[r]] < PinTtl + MaxLookup

=============================================================================
