------------------------------ MODULE Sessions ------------------------------
(* The session manager of one gateway node (src/identity/sessions.rs).       *)
(*                                                                           *)
(* State of the code: `sessions` (hash -> Session) and `user_sessions`       *)
(* (user -> hashes), two DashMaps locked entry by entry, and the SQLite      *)
(* table identity_sessions.  No lock spans a whole call, so a call is a      *)
(* sequence of steps, one per guard or SQL statement, and `call[a]` is what  *)
(* worker thread a remembers between two of its steps.                       *)
(*                                                                           *)
(* The Vec of a user's hashes is the set index[user] ordered by `born`, the  *)
(* push number (0: loaded from SQLite, whose SELECT has no ORDER BY, so such *)
(* tokens stand in any order).  A user_agent mismatch only logs and          *)
(* device_name, created_at are never read back: they are left out.  The bus  *)
(* is NoOpBus here; a remote invalidation runs the same two apply_ calls.    *)
EXTENDS Integers, FiniteSets

CONSTANTS
  User,           \* user ids
  Token,          \* hashed session tokens; create is never given one twice (uuid)
  Ip, NoIp,       \* peer addresses; NoIp is the empty or "unknown" address
  Actor,          \* worker threads
  None,           \* an absent map entry, row or local
  MaxSessions,    \* max_sessions_per_user
  TTL,            \* ttl_secs given to create
  PersistEvery,   \* the 30 s throttle of last_activity persists, in ticks
  StorageFaults,  \* TRUE if an SQL statement may fail
  MaxTime,        \* bound on the clock
  MaxRestarts     \* bound on process restarts

Session == [user: User, expires: Nat, last: Nat, ip: Ip \cup {NoIp}, active: BOOLEAN]

ASSUME SessionsAssumption ==
  /\ MaxSessions \in Nat \ {0}      \* SessionManager::new takes max(1)
  /\ TTL \in Nat
  /\ PersistEvery \in Nat
  /\ StorageFaults \in BOOLEAN
  /\ MaxTime \in Nat
  /\ MaxRestarts \in Nat
  /\ IsFiniteSet(Token)
  /\ None \notin Session \cup User \cup Token

VARIABLES
  sessions,   \* the in-memory map
  index,      \* user_sessions
  born,       \* push order inside index
  rows,       \* SQLite rows
  call,       \* the call each worker is in the middle of
  now,        \* now_secs()
  restarts,
  owner,      \* history: the user a token was created for
  issued,     \* history: tokens whose create returned, i.e. a client holds them
  closed,     \* history: tokens a returned invalidate or binding check has closed
  evicted     \* history: tokens issued when a force logout that returned began

clientVars == <<owner, issued, closed, evicted>>
vars == <<sessions, index, born, rows, call, now, restarts, clientVars>>

Idle == [pc |-> "idle", user |-> None, tok |-> None, cur |-> None, todo |-> {},
         snap |-> None, new |-> None, due |-> {}]

CreatePcs == {"evict", "evictPersist"}
ForceLogoutPcs == {"userMark", "userDelete", "userDrop"}
Pcs == {"idle", "persistNew", "persistSnap", "mark", "unindex", "deleteRow", "drop",
        "cleanDrop", "cleanDelete", "cleanUnindex"} \cup CreatePcs \cup ForceLogoutPcs

Call == [pc: Pcs,
         user: User \cup {None},       \* whose list the call works on
         tok: Token \cup {None},       \* the token it was called with
         cur: Token \cup {None},       \* the one it is taking off a list
         todo: SUBSET Token,           \* those it has still to take off
         snap: Session \cup {None},    \* a clone taken before the guard was dropped
         new: Session \cup {None},     \* the session create will insert
         due: SUBSET Token]            \* history: held by the user when a force logout began

TypeOK ==
  /\ sessions \in [Token -> Session \cup {None}]
  /\ index \in [User -> SUBSET Token]
  /\ born \in [Token -> Nat]
  /\ rows \in [Token -> Session \cup {None}]
  /\ call \in [Actor -> Call]
  /\ now \in Nat
  /\ restarts \in Nat
  /\ owner \in [Token -> User \cup {None}]
  /\ issued \in SUBSET Token
  /\ closed \in SUBSET Token
  /\ evicted \in SUBSET Token

Init ==
  /\ sessions = [t \in Token |-> None]
  /\ index = [u \in User |-> {}]
  /\ born = [t \in Token |-> 0]
  /\ rows = [t \in Token |-> None]
  /\ call = [a \in Actor |-> Idle]
  /\ now = 0
  /\ restarts = 0
  /\ owner = [t \in Token |-> None]
  /\ issued = {}
  /\ closed = {}
  /\ evicted = {}

-----------------------------------------------------------------------------
Active(t) == sessions[t] # None /\ sessions[t].active

\* What validate and create's retain ask of an entry.
Usable(t) == Active(t) /\ now <= sessions[t].expires

At(a, pc) == call[a].pc = pc

Return(a) == call' = [call EXCEPT ![a] = Idle]

\* persist and delete_persisted: an SQL error is logged or dropped, never raised.
Persist(t, s) == \/ rows' = [rows EXCEPT ![t] = s]
                 \/ StorageFaults /\ UNCHANGED rows

\* Mutant: the row outlives the session.
DeletePersisted_Skipped(t) == UNCHANGED rows

DeletePersisted(t) == Persist(t, None)

\* What validate leaves of the session it accepts.
Touched_Underflows(s) == [s EXCEPT !.last = s.last - now]   \* mutant: operands swapped
Touched(s) == [s EXCEPT !.last = now]

\* The tokens the `while len > max { remove(0) }` loop takes off the list.
\* Mutant: evicting before the push.
Overflow_OneTooMany(kept, order) ==
  {out \in SUBSET kept :
     /\ Cardinality(kept \ out) = IF Cardinality(kept) <= MaxSessions
                                  THEN Cardinality(kept) ELSE MaxSessions + 1
     /\ \A x \in out, y \in kept \ out : order[x] <= order[y]}

Overflow(kept, order) ==
  {out \in SUBSET kept :
     /\ Cardinality(kept \ out) = IF Cardinality(kept) < MaxSessions
                                  THEN Cardinality(kept) ELSE MaxSessions
     /\ \A x \in out, y \in kept \ out : order[x] <= order[y]}

-----------------------------------------------------------------------------
(* create *)

\* Under the lock of the user's list: push, prune the stale, take off the overflow.
CreateIndex(a, u, t, ip) ==
  /\ At(a, "idle")
  /\ owner[t] = None
  /\ owner' = [owner EXCEPT ![t] = u]
  /\ born' = [born EXCEPT ![t] = 1 + Cardinality({x \in Token : born[x] > 0})]
  /\ LET kept == {x \in index[u] : Usable(x)} \cup {t}
     IN \E out \in Overflow(kept, born') :
          /\ index' = [index EXCEPT ![u] = kept \ out]
          /\ call' = [call EXCEPT ![a] =
                        [Idle EXCEPT !.pc = "evict", !.user = u, !.tok = t, !.todo = out,
                          !.new = [user |-> u, expires |-> now + TTL, last |-> now,
                                   ip |-> ip, active |-> TRUE]]]
  /\ UNCHANGED <<sessions, rows, now, restarts, issued, closed, evicted>>

\* One overflowed token, oldest first: deactivate it if it is in the map ...
EvictMark(a) ==
  /\ At(a, "evict")
  /\ \E x \in call[a].todo :
       /\ \A y \in call[a].todo : born[x] <= born[y]
       /\ IF sessions[x] = None
          THEN /\ call' = [call EXCEPT ![a].todo = @ \ {x}]
               /\ UNCHANGED sessions
          ELSE /\ sessions' = [sessions EXCEPT ![x].active = FALSE]
               /\ call' = [call EXCEPT ![a].pc = "evictPersist", ![a].cur = x,
                                       ![a].todo = @ \ {x},
                                       ![a].snap = [sessions[x] EXCEPT !.active = FALSE]]
  /\ UNCHANGED <<index, born, rows, now, restarts, clientVars>>

\* ... and write that snapshot once the guard is dropped.
EvictPersist(a) ==
  /\ At(a, "evictPersist")
  /\ Persist(call[a].cur, call[a].snap)
  /\ call' = [call EXCEPT ![a].pc = "evict", ![a].cur = None, ![a].snap = None]
  /\ UNCHANGED <<sessions, index, born, now, restarts, clientVars>>

CreateInsert(a) ==
  /\ At(a, "evict")
  /\ call[a].todo = {}
  /\ sessions' = [sessions EXCEPT ![call[a].tok] = call[a].new]
  /\ call' = [call EXCEPT ![a].pc = "persistNew"]
  /\ UNCHANGED <<index, born, rows, now, restarts, clientVars>>

CreatePersist(a) ==
  /\ At(a, "persistNew")
  /\ Persist(call[a].tok, call[a].new)
  /\ issued' = issued \cup {call[a].tok}
  /\ Return(a)
  /\ UNCHANGED <<sessions, index, born, now, restarts, owner, closed, evicted>>

-----------------------------------------------------------------------------
(* validate_with_request; a token it finds missing, inactive or expired changes *)
(* nothing.                                                                    *)

Mismatch(s, ip) == s.ip # NoIp /\ ip # NoIp /\ s.ip # ip

\* The request comes from another address: the guard is dropped and the token
\* invalidated, from apply_invalidate_token's first step on.
ValidateMismatch(a, t, ip) ==
  /\ At(a, "idle")
  /\ t \in issued
  /\ Usable(t)
  /\ Mismatch(sessions[t], ip)
  /\ call' = [call EXCEPT ![a] = [Idle EXCEPT !.pc = "mark", !.tok = t]]
  /\ UNCHANGED <<sessions, index, born, rows, now, restarts, clientVars>>

\* The request is accepted; the refreshed session is persisted after the guard is
\* dropped, if the last activity is old enough.
ValidateOk(a, t, ip) ==
  /\ At(a, "idle")
  /\ t \in issued
  /\ Usable(t)
  /\ ~Mismatch(sessions[t], ip)
  /\ sessions' = [sessions EXCEPT ![t] = Touched(@)]
  /\ IF now - sessions[t].last >= PersistEvery
     THEN call' = [call EXCEPT ![a] = [Idle EXCEPT !.pc = "persistSnap", !.tok = t,
                                         !.snap = Touched(sessions[t])]]
     ELSE UNCHANGED call
  /\ UNCHANGED <<index, born, rows, now, restarts, clientVars>>

\* Mutant: the clone is written back to the map.
ValidatePersist_WritesBack(a) ==
  /\ At(a, "persistSnap")
  /\ sessions' = [sessions EXCEPT ![call[a].tok] = call[a].snap]
  /\ Return(a)
  /\ UNCHANGED <<index, born, rows, now, restarts, clientVars>>

ValidatePersist(a) ==
  /\ At(a, "persistSnap")
  /\ Persist(call[a].tok, call[a].snap)
  /\ Return(a)
  /\ UNCHANGED <<sessions, index, born, now, restarts, clientVars>>

-----------------------------------------------------------------------------
(* invalidate: apply_invalidate_token step by step *)

Invalidate(a, t) ==
  /\ At(a, "idle")
  /\ t \in issued
  /\ call' = [call EXCEPT ![a] = [Idle EXCEPT !.pc = "mark", !.tok = t]]
  /\ UNCHANGED <<sessions, index, born, rows, now, restarts, clientVars>>

InvalidateMark(a) ==
  /\ At(a, "mark")
  /\ LET t == call[a].tok IN
       IF sessions[t] = None
       THEN Return(a) /\ UNCHANGED sessions
       ELSE /\ sessions' = [sessions EXCEPT ![t].active = FALSE]
            /\ call' = [call EXCEPT ![a].pc = "unindex", ![a].user = sessions[t].user]
  /\ UNCHANGED <<index, born, rows, now, restarts, clientVars>>

\* Mutant: the whole list of the user goes.
InvalidateUnindex_DropsList(a) ==
  /\ At(a, "unindex")
  /\ index' = [index EXCEPT ![call[a].user] = {}]
  /\ call' = [call EXCEPT ![a].pc = "deleteRow"]
  /\ UNCHANGED <<sessions, born, rows, now, restarts, clientVars>>

InvalidateUnindex(a) ==
  /\ At(a, "unindex")
  /\ index' = [index EXCEPT ![call[a].user] = @ \ {call[a].tok}]
  /\ call' = [call EXCEPT ![a].pc = "deleteRow"]
  /\ UNCHANGED <<sessions, born, rows, now, restarts, clientVars>>

InvalidateDelete(a) ==
  /\ At(a, "deleteRow")
  /\ DeletePersisted(call[a].tok)
  /\ call' = [call EXCEPT ![a].pc = "drop"]
  /\ UNCHANGED <<sessions, index, born, now, restarts, clientVars>>

InvalidateDrop(a) ==
  /\ At(a, "drop")
  /\ sessions' = [sessions EXCEPT ![call[a].tok] = None]
  /\ closed' = closed \cup {call[a].tok}
  /\ Return(a)
  /\ UNCHANGED <<index, born, rows, now, restarts, owner, issued, evicted>>

-----------------------------------------------------------------------------
(* invalidate_all: apply_invalidate_user over a clone of the user's list *)

ForceLogout(a, u) ==
  /\ At(a, "idle")
  /\ call' = [call EXCEPT ![a] = [Idle EXCEPT !.pc = "userMark", !.user = u,
                                    !.todo = index[u],
                                    !.due = {t \in issued : owner[t] = u}]]
  /\ UNCHANGED <<sessions, index, born, rows, now, restarts, clientVars>>

ForceLogoutMark(a) ==
  /\ At(a, "userMark")
  /\ \E x \in call[a].todo :
       /\ sessions' = IF sessions[x] = None THEN sessions
                      ELSE [sessions EXCEPT ![x].active = FALSE]
       /\ call' = [call EXCEPT ![a].pc = "userDelete", ![a].cur = x, ![a].todo = @ \ {x}]
  /\ UNCHANGED <<index, born, rows, now, restarts, clientVars>>

ForceLogoutDelete(a) ==
  /\ At(a, "userDelete")
  /\ DeletePersisted(call[a].cur)
  /\ call' = [call EXCEPT ![a].pc = "userDrop"]
  /\ UNCHANGED <<sessions, index, born, now, restarts, clientVars>>

ForceLogoutDrop(a) ==
  /\ At(a, "userDrop")
  /\ sessions' = [sessions EXCEPT ![call[a].cur] = None]
  /\ call' = [call EXCEPT ![a].pc = "userMark", ![a].cur = None]
  /\ UNCHANGED <<index, born, rows, now, restarts, clientVars>>

ForceLogoutUnindex(a) ==
  /\ At(a, "userMark")
  /\ call[a].todo = {}
  /\ index' = [index EXCEPT ![call[a].user] = {}]
  /\ evicted' = evicted \cup call[a].due
  /\ Return(a)
  /\ UNCHANGED <<sessions, born, rows, now, restarts, owner, issued, closed>>

-----------------------------------------------------------------------------
(* cleanup_expired *)

Cleanup(a) ==
  /\ At(a, "idle")
  /\ LET stale == {t \in Token : sessions[t] # None /\ ~Usable(t)} IN
       /\ stale # {}
       /\ call' = [call EXCEPT ![a] = [Idle EXCEPT !.pc = "cleanDrop", !.todo = stale]]
  /\ UNCHANGED <<sessions, index, born, rows, now, restarts, clientVars>>

CleanupDrop(a) ==
  /\ At(a, "cleanDrop")
  /\ IF call[a].todo = {}
     THEN Return(a) /\ UNCHANGED sessions
     ELSE \E x \in call[a].todo :
            /\ sessions' = [sessions EXCEPT ![x] = None]
            /\ call' = [call EXCEPT ![a].pc = "cleanDelete", ![a].cur = x,
                                    ![a].todo = @ \ {x}]
  /\ UNCHANGED <<index, born, rows, now, restarts, clientVars>>

CleanupDelete(a) ==
  /\ At(a, "cleanDelete")
  /\ DeletePersisted(call[a].cur)
  /\ call' = [call EXCEPT ![a].pc = "cleanUnindex"]
  /\ UNCHANGED <<sessions, index, born, now, restarts, clientVars>>

\* Mutant: cleanup leaves the user's list alone.
CleanupUnindex_Skipped(a) ==
  /\ At(a, "cleanUnindex")
  /\ call' = [call EXCEPT ![a].pc = "cleanDrop", ![a].cur = None]
  /\ UNCHANGED <<sessions, index, born, rows, now, restarts, clientVars>>

CleanupUnindex(a) ==
  /\ At(a, "cleanUnindex")
  /\ index' = [index EXCEPT ![owner[call[a].cur]] = @ \ {call[a].cur}]
  /\ call' = [call EXCEPT ![a].pc = "cleanDrop", ![a].cur = None]
  /\ UNCHANGED <<sessions, born, rows, now, restarts, clientVars>>

-----------------------------------------------------------------------------
Tick ==
  /\ now < MaxTime
  /\ now' = now + 1
  /\ UNCHANGED <<sessions, index, born, rows, call, restarts, clientVars>>

\* The process dies between any two steps; with_storage reloads the live rows.
Restart ==
  /\ restarts < MaxRestarts
  /\ restarts' = restarts + 1
  /\ sessions' = [t \in Token |->
                    IF rows[t] # None /\ rows[t].active /\ rows[t].expires > now
                    THEN rows[t] ELSE None]
  /\ index' = [u \in User |-> {t \in Token : sessions'[t] # None /\ sessions'[t].user = u}]
  /\ born' = [t \in Token |-> 0]
  /\ call' = [a \in Actor |-> Idle]
  /\ UNCHANGED <<rows, now, clientVars>>

\* A call starts ...
Begin(a) ==
  \/ \E u \in User, t \in Token, ip \in Ip \cup {NoIp} : CreateIndex(a, u, t, ip)
  \/ \E t \in Token, ip \in Ip \cup {NoIp} : ValidateMismatch(a, t, ip)
  \/ \E t \in Token, ip \in Ip \cup {NoIp} : ValidateOk(a, t, ip)
  \/ \E t \in Token : Invalidate(a, t)
  \/ \E u \in User : ForceLogout(a, u)
  \/ Cleanup(a)

\* ... or goes on from where it stands.
Continue(a) ==
  \/ EvictMark(a) \/ EvictPersist(a) \/ CreateInsert(a) \/ CreatePersist(a)
  \/ ValidatePersist(a)
  \/ InvalidateMark(a) \/ InvalidateUnindex(a) \/ InvalidateDelete(a) \/ InvalidateDrop(a)
  \/ ForceLogoutMark(a) \/ ForceLogoutDelete(a) \/ ForceLogoutDrop(a)
  \/ ForceLogoutUnindex(a)
  \/ CleanupDrop(a) \/ CleanupDelete(a) \/ CleanupUnindex(a)

\* What one process does between its start and its end.
Running == Tick \/ \E a \in Actor : Begin(a) \/ Continue(a)

Next == Running \/ Restart

Spec == Init /\ [][Next]_vars

\* The life of a single process, from an empty table.
ProcessSpec == Init /\ [][Running]_vars

-----------------------------------------------------------------------------
(* Properties *)

CreatePending(t) == \E a \in Actor : call[a].pc \in CreatePcs /\ call[a].tok = t

\* Every hash in a user's list belongs to that user and is backed by an entry of the
\* map, unless a call is on its way to insert it or to take it off the list: the list
\* that max_sessions and force logout work from never keeps a dangling hash, whatever
\* create, invalidate, invalidate_all and cleanup_expired do to each other.
IndexBacked ==
  \A u \in User : \A t \in index[u] :
    /\ owner[t] = u
    /\ \/ sessions[t] # None
       \/ CreatePending(t)
       \/ \E a \in Actor : call[a].pc \in ForceLogoutPcs /\ call[a].user = u
       \/ \E a \in Actor : call[a].pc \in {"cleanDelete", "cleanUnindex"} /\ call[a].cur = t

\* A user never has more than max_sessions_per_user sessions that validate accepts
\* (create's eviction under the lock of the user's list).
WithinLimit ==
  \A u \in User :
    Cardinality({t \in Token : Usable(t) /\ sessions[t].user = u}) <= MaxSessions

\* Once invalidate or a binding violation has closed a session, validate does not accept
\* it again, in this process or after a restart.
LogoutIsFinal == \A t \in closed : ~Usable(t)

\* When invalidate_all returns, validate accepts no session its user held when it began,
\* then or later.
ForceLogoutIsComplete == \A t \in evicted : ~Usable(t)

\* What a token is to its client: not installed yet, accepted, or over.
status == [t \in Token |->
             IF Active(t) THEN "live"
             ELSE IF owner[t] = None \/ CreatePending(t) THEN "fresh" ELSE "over"]

Lifecycle == INSTANCE TokenLifecycle WITH Token <- Token, status <- status

\* The map of sessions, with all its interleavings, is a one-way token lifecycle: a
\* token is installed once and never comes back.
ImplementsLifecycle == Lifecycle!Spec
=============================================================================
