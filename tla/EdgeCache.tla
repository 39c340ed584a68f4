----------------------------- MODULE EdgeCache -----------------------------
(* The edge cache (src/gateway/edge_cache.rs): check answers from an entry   *)
(* or with 304, and removes an expired one after it dropped the guard; store *)
(* makes room, then inserts.  No lock spans the steps of a call.             *)
EXTENDS Integers, FiniteSets

CONSTANTS
  Key,
  MaxEntries,
  Ttl,         \* ttl_secs of every stored entry
  User,        \* callers
  Etag,        \* the bodies an upstream gives, by their hash
  NoEntry

VARIABLES
  entries,     \* Key -> etag and age, or NoEntry
  user,        \* user[u]: the call u is in
  overlapped   \* two stores ran at once (history)

edgeVars == <<entries, user, overlapped>>

Cached == {k \in Key : entries[k] # NoEntry}
Away == [step |-> "away", key |-> NoEntry, etag |-> NoEntry, victim |-> NoEntry]
Storing == {u \in User : user[u].step \in {"evict", "insert"}}

EdgeInit == entries = [k \in Key |-> NoEntry] /\ user = [u \in User |-> Away] /\ overlapped = FALSE

\* now > created_at + ttl_secs
Outlived(k) == entries[k].age > Ttl

CheckEdge(u, k) ==
  /\ user[u] = Away
  /\ user' = [user EXCEPT ![u] = IF k \in Cached /\ Outlived(k)
                                 THEN [Away EXCEPT !.step = "drop", !.key = k] ELSE Away]
  /\ UNCHANGED <<entries, overlapped>>

\* The entry of the key, which may be another one by now.
DropExpired(u) ==
  /\ user[u].step = "drop"
  /\ entries' = [entries EXCEPT ![user[u].key] = NoEntry]
  /\ user' = [user EXCEPT ![u] = Away]
  /\ UNCHANGED overlapped

OldestEntries == {k \in Cached : \A j \in Cached : entries[j].age <= entries[k].age}

\* len() and, if there is no room, the first of the oldest; its removal; the
\* insertion.  A key that is there already makes no difference.
StoreEdge(u, k, e) ==
  /\ user[u] = Away
  /\ \/ /\ Cardinality(Cached) < MaxEntries
        /\ user' = [user EXCEPT ![u] = [Away EXCEPT !.step = "insert", !.key = k, !.etag = e]]
     \/ /\ Cardinality(Cached) >= MaxEntries
        /\ \E v \in OldestEntries :
             user' = [user EXCEPT ![u] = [step |-> "evict", key |-> k, etag |-> e, victim |-> v]]
  /\ overlapped' = (overlapped \/ Storing # {})
  /\ UNCHANGED entries

EvictOldest(u) ==
  /\ user[u].step = "evict"
  /\ entries' = [entries EXCEPT ![user[u].victim] = NoEntry]
  /\ user' = [user EXCEPT ![u].step = "insert", ![u].victim = NoEntry]
  /\ UNCHANGED overlapped

InsertEdge(u) ==
  /\ user[u].step = "insert"
  /\ entries' = [entries EXCEPT ![user[u].key] = [etag |-> user[u].etag, age |-> 0]]
  /\ user' = [user EXCEPT ![u] = Away]
  /\ UNCHANGED overlapped

EdgeSecond ==
  /\ entries' = [k \in Key |-> IF entries[k] = NoEntry \/ entries[k].age > Ttl THEN entries[k]
                               ELSE [entries[k] EXCEPT !.age = @ + 1]]
  /\ UNCHANGED <<user, overlapped>>

ClearEdge == entries' = [k \in Key |-> NoEntry] /\ UNCHANGED <<user, overlapped>>

EdgeNext ==
  \/ \E u \in User : \/ \E k \in Key : CheckEdge(u, k) \/ \E e \in Etag : StoreEdge(u, k, e)
                     \/ DropExpired(u) \/ EvictOldest(u) \/ InsertEdge(u)
  \/ EdgeSecond \/ ClearEdge

EdgeSpec == EdgeInit /\ [][EdgeNext]_edgeVars

-----------------------------------------------------------------------------
EdgeTypeOK ==
  /\ entries \in [Key -> [etag: Etag, age: 0..Ttl + 1] \cup {NoEntry}]
  /\ \A u \in User : user[u].step \in {"away", "drop", "evict", "insert"}
  /\ overlapped \in BOOLEAN

\* max_entries holds as long as no two stores overlap, however checks drop
\* expired entries in between.  Overlapping ones find the same room or choose
\* the same victim, and nothing ever takes the excess back (edge_cache.rs:92).
EdgeBound == overlapped \/ Cardinality(Cached) <= MaxEntries

=============================================================================
