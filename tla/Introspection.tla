--------------------------- MODULE Introspection ---------------------------
(* The OAuth2 gateway (src/middleware/oauth2_gateway.rs) in front of an      *)
(* identity provider that may revoke a token at any time: validate_token     *)
(* answers from token_cache or asks the provider, and stores the answer with *)
(* the time it read before it asked.  clear_cache empties the cache whenever *)
(* an administrator likes.  One token stands for all: each has a key of its  *)
(* own.  Times are ages.                                                     *)
EXTENDS Integers

CONSTANTS
  Asker,       \* requests that validate the token
  CacheTtl,    \* 300 seconds in the code
  MaxFlight,   \* the client's timeout (10 seconds in the code)
  Nil

VARIABLES
  granted,     \* whether the provider regards the token as active
  revokedFor,  \* time since it was revoked, if it was
  tokenCache,  \* the entry of the token, or Nil
  asker,       \* asker[a]: the answer a waits for or has in hand
  verdict      \* verdict[a]: what a was told last

introspectionVars == <<granted, revokedFor, tokenCache, asker, verdict>>

Horizon == CacheTtl + MaxFlight + 1
Idle == [step |-> "idle", age |-> 0, active |-> FALSE]

IntrospectionInit ==
  /\ granted \in BOOLEAN /\ revokedFor = 0 /\ tokenCache = Nil
  /\ asker = [a \in Asker |-> Idle] /\ verdict = [a \in Asker |-> Nil]

\* now < cached_at + ttl
Usable == tokenCache # Nil /\ tokenCache.age < CacheTtl

FromCache(a) ==
  /\ asker[a] = Idle /\ Usable
  /\ verdict' = [verdict EXCEPT ![a] = IF tokenCache.valid THEN "Valid" ELSE "Invalid"]
  /\ UNCHANGED <<granted, revokedFor, tokenCache, asker>>

Ask(a) ==
  /\ asker[a] = Idle /\ ~Usable
  /\ asker' = [asker EXCEPT ![a].step = "asked"]
  /\ verdict' = [verdict EXCEPT ![a] = Nil]
  /\ UNCHANGED <<granted, revokedFor, tokenCache>>

\* The provider.
Introspect(a) ==
  /\ asker[a].step = "asked"
  /\ asker' = [asker EXCEPT ![a].step = "told", ![a].active = granted]
  /\ UNCHANGED <<granted, revokedFor, tokenCache, verdict>>

Entry_TimedOnArrival(a) == [valid |-> asker[a].active, age |-> 0]   \* mutant

Entry(a) == [valid |-> asker[a].active, age |-> asker[a].age]
Store(a) ==
  /\ asker[a].step = "told"
  /\ tokenCache' = Entry(a)
  /\ verdict' = [verdict EXCEPT ![a] = IF asker[a].active THEN "Valid" ELSE "Invalid"]
  /\ asker' = [asker EXCEPT ![a] = Idle]
  /\ UNCHANGED <<granted, revokedFor>>

\* No answer, or none that parses: nothing is stored.
NoAnswer(a) ==
  /\ asker[a].step # "idle"
  /\ verdict' = [verdict EXCEPT ![a] = "Error"]
  /\ asker' = [asker EXCEPT ![a] = Idle]
  /\ UNCHANGED <<granted, revokedFor, tokenCache>>

Revoke ==
  /\ granted /\ granted' = FALSE /\ revokedFor' = 0
  /\ UNCHANGED <<tokenCache, asker, verdict>>

ClearTokens == tokenCache' = Nil /\ UNCHANGED <<granted, revokedFor, asker, verdict>>

IntrospectionTick ==
  /\ \A a \in Asker : asker[a] # Idle => asker[a].age < MaxFlight
  /\ revokedFor' = IF granted \/ revokedFor = Horizon THEN revokedFor ELSE revokedFor + 1
  /\ tokenCache' = IF tokenCache = Nil \/ tokenCache.age = Horizon THEN tokenCache
                   ELSE [tokenCache EXCEPT !.age = @ + 1]
  /\ asker' = [a \in Asker |-> IF asker[a] = Idle THEN Idle ELSE [asker[a] EXCEPT !.age = @ + 1]]
  /\ verdict' = [a \in Asker |-> Nil]
  /\ UNCHANGED granted

IntrospectionNext ==
  \/ \E a \in Asker : FromCache(a) \/ Ask(a) \/ Introspect(a) \/ Store(a) \/ NoAnswer(a)
  \/ Revoke \/ ClearTokens \/ IntrospectionTick

IntrospectionSpec == IntrospectionInit /\ [][IntrospectionNext]_introspectionVars

-----------------------------------------------------------------------------
IntrospectionTypeOK ==
  /\ granted \in BOOLEAN /\ revokedFor \in 0..Horizon
  /\ tokenCache \in [valid: BOOLEAN, age: 0..Horizon] \cup {Nil}
  /\ \A a \in Asker : asker[a].age \in 0..MaxFlight
  /\ verdict \in [Asker -> {"Valid", "Invalid", "Error", Nil}]

\* A revoked token is accepted for less than the cache's ttl, or as long as an
\* answer may take: an answer that arrives late, also one that replaces a newer
\* one or comes after clear_cache, ages from the time of its request
\* (oauth2_gateway.rs:138).
RevocationBound ==
  \A a \in Asker : verdict[a] = "Valid" =>
    granted \/ revokedFor < CacheTtl \/ revokedFor <= MaxFlight

=============================================================================
