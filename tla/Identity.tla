------------------------------ MODULE Identity ------------------------------
(* The accounts of one gateway node (src/identity/users.rs), logging in      *)
(* (src/identity/authenticator.rs) and the handlers that change an account   *)
(* and then close its sessions (src/admin/v2_handlers.rs).  The sessions are *)
(* those of TokenLifecycle, which Sessions implements: `status` is its state.*)
(*                                                                           *)
(* A call that changes an account holds its DashMap entry to the end, SQL    *)
(* statement and failure count included, so it is one step, unless it writes *)
(* to failed_attempts, a map of its own: then `Held` says who has the entry. *)
(* The password and the TOTP code are right or wrong; login_count,           *)
(* last_login, permissions and the events row of a role change decide        *)
(* nothing and are left out.                                                 *)
EXTENDS Integers, FiniteSets

CONSTANTS
  User,        \* user ids
  Email,       \* e-mail addresses as they are typed
  Normal,      \* normalize_email
  Role,
  Token,       \* session tokens; each is drawn once (uuid)
  Actor,       \* worker threads
  None,
  MaxFailed,   \* MAX_FAILED_ATTEMPTS
  Window,      \* LOCKOUT_WINDOW_SECS, in ticks
  MaxEntries,  \* FAILED_ATTEMPTS_MAX_ENTRIES
  MaxTime,     \* bound on the clock
  MaxRestarts  \* bound on process restarts

Account == [email: Email, role: Role, enabled: BOOLEAN, mfa: BOOLEAN, seeded: BOOLEAN]
Failures == [count: Nat \ {0}, first: Nat]

ASSUME IdentityAssumption ==
  /\ Normal \in [Email -> Email] /\ \A e \in Email : Normal[Normal[e]] = Normal[e]
  /\ {MaxFailed, Window, MaxEntries} \subseteq Nat \ {0}
  /\ {MaxTime, MaxRestarts} \subseteq Nat /\ IsFiniteSet(Actor)
  /\ None \notin User \cup Email \cup Role \cup Token /\ None \notin Account

VARIABLES
  users,     \* the in-memory map
  index,     \* email_index
  rows,      \* SQLite rows
  failed,    \* failed_attempts
  status,    \* the session manager
  call,      \* the call each worker is in the middle of
  now,       \* now_secs()
  restarts,
  owner,     \* history: the user a token was drawn for
  ousted,    \* history: users whose sessions were closed after they were disabled
  late       \* history: tokens drawn before their user was ousted, and not installed by then

accounts == <<users, index, rows>>
history == <<owner, ousted, late>>
vars == <<accounts, failed, status, call, now, restarts, history>>

Tokens == INSTANCE TokenLifecycle WITH Token <- Token, status <- status

Idle == [pc |-> "idle", key |-> None, user |-> None, tok |-> None, at |-> 0,
         victim |-> None, new |-> None]
Call == [pc: {"idle", "unlock", "verify", "prune", "evict", "count", "create", "oust",
              "persist", "index", "insert"},
         key: Email \cup {None},     \* the normalized address
         user: User \cup {None},
         tok: Token \cup {None},     \* the token drawn for a login
         at: Nat,                    \* record_failure's now
         victim: Email \cup {None},  \* the entry it evicts
         new: Account \cup {None}]   \* the account register will insert

TypeOK ==
  /\ {users, rows} \subseteq [User -> Account \cup {None}]
  /\ index \in [Email -> User \cup {None}]
  /\ failed \in [Email -> Failures \cup {None}]
  /\ status \in [Token -> {"fresh", "live", "over"}]
  /\ call \in [Actor -> Call]
  /\ now \in 0..MaxTime /\ restarts \in 0..MaxRestarts
  /\ owner \in [Token -> User \cup {None}]
  /\ ousted \subseteq User /\ late \subseteq Token

Init ==
  /\ users = [u \in User |-> None]
  /\ index = [e \in Email |-> None]
  /\ rows = [u \in User |-> None]
  /\ failed = [e \in Email |-> None]
  /\ Tokens!Init
  /\ call = [a \in Actor |-> Idle]
  /\ now = 0 /\ restarts = 0
  /\ owner = [t \in Token |-> None]
  /\ ousted = {} /\ late = {}
-----------------------------------------------------------------------------
At(a, pc) == call[a].pc = pc
Goto(a, pc) == call' = [call EXCEPT ![a].pc = pc]
Begin(a, c) == At(a, "idle") /\ call' = [call EXCEPT ![a] = c]
Return(a) == call' = [call EXCEPT ![a] = Idle]

\* A worker that counts a failure against an existing user still holds its entry.
Held(u) == \E a \in Actor : call[a].pc \in {"prune", "evict", "count"} /\ call[a].user = u
Writable(u) == users[u] # None /\ ~ Held(u)

\* persist_user: INSERT OR REPLACE, with id and email both unique.
Persist(u, acct) ==
  rows' = [v \in User |->
             IF v = u THEN acct
             ELSE IF rows[v] # None /\ rows[v].email = acct.email THEN None
             ELSE rows[v]]

Update_Unsaved(u, acct) ==
  /\ users' = [users EXCEPT ![u] = acct]
  /\ UNCHANGED <<rows, index>>

Update(u, acct) ==
  /\ users' = [users EXCEPT ![u] = acct]
  /\ Persist(u, acct)
  /\ UNCHANGED index

-----------------------------------------------------------------------------
(* register                                                                  *)

\* The address is looked up here and entered two steps later.
Register(a, u, e, r) ==
  /\ users[u] = None /\ rows[u] = None /\ \A b \in Actor : call[b].user # u
  /\ u \notin ousted                          \* a new uuid: nothing has borne it yet
  /\ index[Normal[e]] = None
  /\ Begin(a, [Idle EXCEPT !.pc = "persist", !.user = u,
                           !.new = [email |-> e, role |-> r, enabled |-> TRUE,
                                    mfa |-> FALSE, seeded |-> FALSE]])
  /\ UNCHANGED <<accounts, failed, status, now, restarts, history>>

RegisterPersist(a) ==
  /\ At(a, "persist")
  /\ Persist(call[a].user, call[a].new)
  /\ Goto(a, "index")
  /\ UNCHANGED <<users, index, failed, status, now, restarts, history>>

RegisterIndex(a) ==
  /\ At(a, "index")
  /\ index' = [index EXCEPT ![Normal[call[a].new.email]] = call[a].user]
  /\ Goto(a, "insert")
  /\ UNCHANGED <<users, rows, failed, status, now, restarts, history>>

RegisterInsert(a) ==
  /\ At(a, "insert")
  /\ users' = [users EXCEPT ![call[a].user] = call[a].new]
  /\ Return(a)
  /\ UNCHANGED <<index, rows, failed, status, now, restarts, history>>

-----------------------------------------------------------------------------
(* login: lockout_check                                                      *)

Full_OneLater(e) == failed[e] # None /\ failed[e].count > MaxFailed
\* The window is not looked at before the count has reached the limit.
Full(e) == failed[e] # None /\ failed[e].count >= MaxFailed
WindowOver(e) == now - failed[e].first >= Window

\* With the window running the answer is LockedOut and nothing changes.
Login(a, e) ==
  /\ ~ Full(e)
  /\ Begin(a, [Idle EXCEPT !.pc = "verify", !.key = e])
  /\ UNCHANGED <<accounts, failed, status, now, restarts, history>>

LoginAfterWindow(a, e) ==
  /\ Full(e) /\ WindowOver(e)
  /\ Begin(a, [Idle EXCEPT !.pc = "unlock", !.key = e])
  /\ UNCHANGED <<accounts, failed, status, now, restarts, history>>

\* The entry's guard was dropped: what is removed may have been counted since.
Unlock(a) ==
  /\ At(a, "unlock")
  /\ failed' = [failed EXCEPT ![call[a].key] = None]
  /\ Goto(a, "verify")
  /\ UNCHANGED <<accounts, status, now, restarts, history>>

-----------------------------------------------------------------------------
(* login: authenticate                                                       *)

\* The account an address leads to, or None.
Found(e) == IF index[e] # None /\ users[index[e]] # None THEN index[e] ELSE None

VerifyUnknown(a) ==
  /\ At(a, "verify") /\ Found(call[a].key) = None
  /\ Goto(a, "prune")
  /\ UNCHANGED <<accounts, failed, status, now, restarts, history>>

VerifyDisabled(a) ==
  LET u == Found(call[a].key) IN
  /\ At(a, "verify") /\ u # None /\ Writable(u)
  /\ ~ users[u].enabled
  /\ Return(a)
  /\ UNCHANGED <<accounts, failed, status, now, restarts, history>>

VerifyWrong(a) ==
  LET u == Found(call[a].key) IN
  /\ At(a, "verify") /\ u # None /\ Writable(u)
  /\ users[u].enabled
  /\ call' = [call EXCEPT ![a].pc = "prune", ![a].user = u]
  /\ UNCHANGED <<accounts, failed, status, now, restarts, history>>

\* A login that succeeds draws a token; Authenticator has yet to install it.
Draw(a, u) ==
  \E t \in Token :
    /\ owner[t] = None
    /\ owner' = [owner EXCEPT ![t] = u]
    /\ call' = [call EXCEPT ![a] = [Idle EXCEPT !.pc = "create", !.tok = t]]

MayLogIn_Disabled(u) == TRUE
MayLogIn(u) == users[u].enabled

VerifyRight(a) ==
  LET u == Found(call[a].key) IN
  /\ At(a, "verify") /\ u # None /\ Writable(u)
  /\ MayLogIn(u)
  /\ failed' = [failed EXCEPT ![call[a].key] = None]
  /\ IF users[u].mfa
     THEN Return(a) /\ UNCHANGED <<accounts, owner>>     \* MfaRequired
     ELSE Draw(a, u) /\ Update(u, users[u])
  /\ UNCHANGED <<status, now, restarts, ousted, late>>

\* complete_mfa_login with the right code; a wrong one changes nothing.
MfaLogin(a, u) ==
  /\ At(a, "idle") /\ Writable(u)
  /\ MayLogIn(u) /\ users[u].mfa /\ users[u].seeded
  /\ Draw(a, u)
  /\ Update(u, users[u])
  /\ UNCHANGED <<failed, status, now, restarts, ousted, late>>

Create(a) ==
  /\ At(a, "create")
  /\ Tokens!Install(call[a].tok)
  /\ Return(a)
  /\ UNCHANGED <<accounts, failed, now, restarts, history>>

-----------------------------------------------------------------------------
(* login: record_failure                                                     *)

Counted == {e \in Email : failed[e] # None}
Kept == {e \in Counted : failed[e].first + Window >= now}
Oldest == {e \in Kept : \A f \in Kept : failed[e].first <= failed[f].first}

MapFull == Cardinality(Counted) >= MaxEntries

\* A full map loses what is older than the window; if it is full even so, its
\* oldest entry, locked or not, is to go too.
Prune(a) ==
  /\ At(a, "prune")
  /\ \/ /\ ~ MapFull
        /\ call' = [call EXCEPT ![a].pc = "count", ![a].at = now]
        /\ UNCHANGED failed
     \/ /\ MapFull
        /\ failed' = [e \in Email |-> IF e \in Kept THEN failed[e] ELSE None]
        /\ IF Cardinality(Kept) < MaxEntries
           THEN call' = [call EXCEPT ![a].pc = "count", ![a].at = now]
           ELSE \E o \in Oldest :
                  call' = [call EXCEPT ![a].pc = "evict", ![a].at = now, ![a].victim = o]
  /\ UNCHANGED <<accounts, status, now, restarts, history>>

\* The entry chosen may be gone by now, or be another failure's.
Evict(a) ==
  /\ At(a, "evict")
  /\ failed' = [failed EXCEPT ![call[a].victim] = None]
  /\ Goto(a, "count")
  /\ UNCHANGED <<accounts, status, now, restarts, history>>

Counting_FromZero(f, at) ==
  IF f = None THEN [count |-> 0, first |-> at] ELSE [f EXCEPT !.count = @ + 1]
\* An entry keeps the time of its first failure.
Counting(f, at) ==
  IF f = None THEN [count |-> 1, first |-> at] ELSE [f EXCEPT !.count = @ + 1]

Count(a) ==
  /\ At(a, "count")
  /\ failed' = [failed EXCEPT ![call[a].key] = Counting(@, call[a].at)]
  /\ Return(a)
  /\ UNCHANGED <<accounts, status, now, restarts, history>>

-----------------------------------------------------------------------------
(* MFA enrolment and the administrators' handlers                            *)

\* start_mfa_enrollment: a new seed, whether or not MFA is already on.
Enroll(a, u) ==
  /\ At(a, "idle") /\ Writable(u)
  /\ Update(u, [users[u] EXCEPT !.seeded = TRUE])
  /\ UNCHANGED <<failed, status, call, now, restarts, history>>

\* verify_mfa_setup with the right code.
VerifyMfa(a, u) ==
  /\ At(a, "idle") /\ Writable(u) /\ users[u].seeded
  /\ Update(u, [users[u] EXCEPT !.mfa = TRUE])
  /\ UNCHANGED <<failed, status, call, now, restarts, history>>

DisableMfa(a, u) ==
  /\ At(a, "idle") /\ Writable(u)
  /\ Update(u, [users[u] EXCEPT !.mfa = FALSE, !.seeded = FALSE])
  /\ UNCHANGED <<failed, status, call, now, restarts, history>>

\* admin_disable_user and admin_update_role: the account first, its sessions after.
DisableUser(a, u) ==
  /\ Writable(u)
  /\ Begin(a, [Idle EXCEPT !.pc = "oust", !.user = u])
  /\ Update(u, [users[u] EXCEPT !.enabled = FALSE])
  /\ UNCHANGED <<failed, status, now, restarts, history>>

UpdateRole(a, u, r) ==
  /\ Writable(u)
  /\ Begin(a, [Idle EXCEPT !.pc = "oust", !.user = u])
  /\ Update(u, [users[u] EXCEPT !.role = r])
  /\ UNCHANGED <<failed, status, now, restarts, history>>

\* admin_logout_all and logout_all close the sessions only.
LogoutAll(a, u) ==
  /\ Begin(a, [Idle EXCEPT !.pc = "oust", !.user = u])
  /\ UNCHANGED <<accounts, failed, status, now, restarts, history>>

SessionsOf(u) == {t \in Token : owner[t] = u /\ status[t] = "live"}

\* invalidate_all
Oust(a) ==
  LET u == call[a].user IN
  /\ At(a, "oust")
  /\ Tokens!Retire(SessionsOf(u))
  /\ IF users[u] # None /\ ~ users[u].enabled
     THEN /\ ousted' = ousted \cup {u}
          /\ late' = late \cup {t \in Token : owner[t] = u /\ status[t] = "fresh"}
     ELSE UNCHANGED <<ousted, late>>
  /\ Return(a)
  /\ UNCHANGED <<accounts, failed, now, restarts, owner>>

-----------------------------------------------------------------------------
\* A logout, an expiry or an eviction in the session manager.
SessionEnds(t) ==
  /\ status[t] = "live"
  /\ Tokens!Retire({t})
  /\ UNCHANGED <<accounts, failed, call, now, restarts, history>>

Tick ==
  /\ now < MaxTime
  /\ now' = now + 1
  /\ UNCHANGED <<accounts, failed, status, call, restarts, history>>

Indexed_Nothing == {[e \in Email |-> None]}
\* with_storage enters the address of a row as it stands, not normalized.
Indexed ==
  {f \in [Email -> User \cup {None}] :
     \A e \in Email :
       LET at == {u \in User : rows[u] # None /\ rows[u].email = e}
       IN IF at = {} THEN f[e] = None ELSE f[e] \in at}

\* Accounts come back from their rows, sessions from theirs; failures are forgotten.
Restart ==
  /\ restarts < MaxRestarts
  /\ restarts' = restarts + 1
  /\ users' = rows
  /\ index' \in Indexed
  /\ failed' = [e \in Email |-> None]
  /\ call' = [a \in Actor |-> Idle]
  /\ UNCHANGED <<rows, status, now, history>>

Authenticating(a) ==
  \/ Unlock(a) \/ VerifyUnknown(a) \/ VerifyDisabled(a) \/ VerifyWrong(a) \/ VerifyRight(a)
  \/ Prune(a) \/ Evict(a) \/ Count(a) \/ Create(a)

Next ==
  \/ \E a \in Actor :
       \/ Authenticating(a)
       \/ \E e \in {Normal[e] : e \in Email} : Login(a, e) \/ LoginAfterWindow(a, e)
       \/ \E u \in User, e \in Email, r \in Role : Register(a, u, e, r)
       \/ RegisterPersist(a) \/ RegisterIndex(a) \/ RegisterInsert(a)
       \/ \E u \in User :
            \/ MfaLogin(a, u) \/ Enroll(a, u) \/ VerifyMfa(a, u) \/ DisableMfa(a, u)
            \/ DisableUser(a, u) \/ LogoutAll(a, u)
            \/ \E r \in Role : UpdateRole(a, u, r)
       \/ Oust(a)
  \/ \E t \in Token : SessionEnds(t)
  \/ Tick
  \/ Restart

Spec == Init /\ [][Next]_vars
-----------------------------------------------------------------------------
(* Properties.                                                               *)

\* lockout_check comes before the password check and record_failure after it:
\* workers that were let in together go on counting, so the count passes the
\* limit, by at most the other workers.  (No such bound holds for the size of
\* failed_attempts: a full map loses one entry per failure, and two workers may
\* choose the same one.)
LockoutOvershoot ==
  \A e \in Counted : failed[e].count <= MaxFailed + Cardinality(Actor) - 1

\* Whatever register, login, enrolment and the administrators do, in whatever
\* order, and wherever the process dies, a restart brings back every account in
\* memory as it was answered, but for one whose row was replaced by another
\* account's of the same address: two registrations may pass the look-up together
\* (persist_user; SQL statements do not fail here, it only logs it if one does).
RestartLosesNothing ==
  \A u \in User : users[u] # None =>
    \/ rows[u] = users[u]
    \/ /\ rows[u] = None
       /\ \E v \in User \ {u} : rows[v] # None /\ rows[v].email = users[u].email

\* Another account, or one about to be inserted, goes by the same address.
Shared(u) ==
  \E v \in User \ {u} :
    \/ users[v] # None /\ Normal[users[v].email] = Normal[users[u].email]
    \/ \E a \in Actor : /\ At(a, "insert") /\ call[a].user = v
                        /\ Normal[call[a].new.email] = Normal[users[u].email]

\* An account that shares its address with no other is found by it, also after a
\* restart that cut register short between its row, its index entry and its map
\* entry - unless its address was typed in another form than login looks for,
\* and the index was reloaded (email_index, normalize_email).
Findable ==
  \A u \in User : users[u] # None /\ ~ Shared(u) =>
    \/ index[Normal[users[u].email]] = u
    \/ restarts > 0 /\ Normal[users[u].email] # users[u].email

\* Once admin_disable_user has closed the sessions of a disabled user, the only
\* ones the user still has belong to logins that had passed the password check
\* (Authenticator::login creates the session afterwards and does not look again).
OnlyLateLogins ==
  \A t \in Token : status[t] = "live" /\ owner[t] \in ousted => t \in late
=============================================================================
