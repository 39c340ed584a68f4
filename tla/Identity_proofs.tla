--------------------------- MODULE Identity_proofs ---------------------------
(* Proofs about the accounts: types, the bound on counted failures, that a   *)
(* user who was disabled keeps no session but a late login's, and that no    *)
(* account loses its row but to another of the same address.                 *)
EXTENDS Identity, FiniteSetTheorems, TLAPS

Registering(a) == call[a].pc \in {"persist", "index", "insert"}

\* What a call has in hand at each of its steps.
CallsWellFormed ==
  \A a \in Actor :
    /\ call[a].pc \in {"unlock", "verify", "prune", "evict", "count"} => call[a].key \in Email
    /\ call[a].pc = "oust" => call[a].user \in User
    /\ Registering(a) => call[a].user \in User /\ call[a].new \in Account

Typed == TypeOK /\ CallsWellFormed
-----------------------------------------------------------------------------
PC == {"idle", "unlock", "verify", "prune", "evict", "count", "create", "oust",
       "persist", "index", "insert"}

LEMMA IdleType == Idle \in Call
BY DEF Idle, Call

LEMMA CallGoesOn ==
  ASSUME NEW c \in Call, NEW pc \in PC, NEW at \in Nat, NEW e \in Email, NEW u \in User
  PROVE  /\ [c EXCEPT !.pc = pc] \in Call
         /\ [c EXCEPT !.pc = pc, !.user = u] \in Call
         /\ [c EXCEPT !.pc = pc, !.at = at] \in Call
         /\ [c EXCEPT !.pc = pc, !.at = at, !.victim = e] \in Call
         /\ [c EXCEPT !.pc = pc, !.key = e] \in Call
<1>1. [c EXCEPT !.pc = pc] \in Call
  BY DEF Call, PC
<1>2. [c EXCEPT !.pc = pc, !.user = u] \in Call
  BY DEF Call, PC
<1>3. [c EXCEPT !.pc = pc, !.at = at] \in Call
  BY DEF Call, PC
<1>4. [c EXCEPT !.pc = pc, !.at = at, !.victim = e] \in Call
  BY DEF Call, PC
<1>5. [c EXCEPT !.pc = pc, !.key = e] \in Call
  BY DEF Call, PC
<1> QED BY <1>1, <1>2, <1>3, <1>4, <1>5

LEMMA CallStarts ==
  /\ \A u \in User : [Idle EXCEPT !.pc = "oust", !.user = u] \in Call
  /\ \A t \in Token : [Idle EXCEPT !.pc = "create", !.tok = t] \in Call
  /\ \A u \in User, n \in Account : [Idle EXCEPT !.pc = "persist", !.user = u, !.new = n] \in Call
BY DEF Idle, Call

LEMMA PersistType ==
  ASSUME rows \in [User -> Account \cup {None}], NEW u \in User, NEW acct \in Account, Persist(u, acct)
  PROVE  rows' \in [User -> Account \cup {None}]
BY DEF Persist

LEMMA AccountChanges ==
  ASSUME NEW c \in Account, NEW r \in Role, NEW b \in BOOLEAN
  PROVE  /\ [c EXCEPT !.enabled = b] \in Account
         /\ [c EXCEPT !.role = r] \in Account
         /\ [c EXCEPT !.seeded = b] \in Account
         /\ [c EXCEPT !.mfa = b] \in Account
         /\ [c EXCEPT !.mfa = b, !.seeded = b] \in Account
BY DEF Account

LEMMA CountingType ==
  ASSUME NEW f \in Failures \cup {None}, NEW at \in Nat
  PROVE  Counting(f, at) \in Failures
BY DEF Counting, Failures

LEMMA TypeInit == Init => Typed
<1> SUFFICES ASSUME Init PROVE Typed
  OBVIOUS
<1>1. TypeOK
  BY IdentityAssumption, IdleType DEF Init, TypeOK, Tokens!Init
<1>2. CallsWellFormed
  BY DEF Init, CallsWellFormed, Registering, Idle
<1> QED BY <1>1, <1>2 DEF Typed

\* An account that changes is written to its row.
LEMMA UpdateType ==
  ASSUME TypeOK, NEW u \in User, NEW acct \in Account, Update(u, acct)
  PROVE  {users', rows'} \subseteq [User -> Account \cup {None}]
<1>1. users' \in [User -> Account \cup {None}]
  BY DEF TypeOK, Update
<1>2. rows' \in [User -> Account \cup {None}]
  BY PersistType DEF TypeOK, Update
<1> QED BY <1>1, <1>2

\* An account found or named by a call is one.
LEMMA WritableType ==
  ASSUME TypeOK, NEW u \in User, users[u] # None
  PROVE  users[u] \in Account
BY DEF TypeOK

LEMMA FoundType ==
  ASSUME TypeOK, NEW e \in Email, Found(e) # None
  PROVE  Found(e) \in User /\ users[Found(e)] # None
BY DEF TypeOK, Found

LEMMA TypeStep == Typed /\ [Next]_vars => Typed'
<1> SUFFICES ASSUME Typed, [Next]_vars
             PROVE  Typed'
  OBVIOUS
<1>t. /\ TypeOK /\ CallsWellFormed
      /\ users \in [User -> Account \cup {None}] /\ rows \in [User -> Account \cup {None}]
      /\ call \in [Actor -> Call] /\ status \in [Token -> {"fresh", "live", "over"}]
      /\ failed \in [Email -> Failures \cup {None}] /\ index \in [Email -> User \cup {None}]
      /\ now \in Nat
  BY IdentityAssumption DEF Typed, TypeOK
<1>c. ASSUME NEW a \in Actor, NEW c \in Call, call' = [call EXCEPT ![a] = c],
             c.pc \in {"unlock", "verify", "prune", "evict", "count"} => c.key \in Email,
             c.pc = "oust" => c.user \in User,
             c.pc \in {"persist", "index", "insert"} => c.user \in User /\ c.new \in Account
      PROVE  call' \in [Actor -> Call] /\ CallsWellFormed'
  BY <1>t, <1>c DEF CallsWellFormed, Registering
<1>i. ASSUME NEW a \in Actor, Return(a)
      PROVE  call' \in [Actor -> Call] /\ CallsWellFormed'
  BY <1>c, <1>i, IdleType DEF Return, Idle
<1>g. ASSUME NEW a \in Actor, NEW pc \in PC, Goto(a, pc),
             pc \in {"unlock", "verify", "prune", "evict", "count"} => call[a].key \in Email,
             pc = "oust" => call[a].user \in User,
             pc \in {"persist", "index", "insert"} => call[a].user \in User /\ call[a].new \in Account
      PROVE  call' \in [Actor -> Call] /\ CallsWellFormed'
  <2>1. call[a] \in Call
    BY <1>t
  <2>2. [call[a] EXCEPT !.pc = pc] \in Call
    BY <2>1 DEF Call, PC
  <2>3. call' = [call EXCEPT ![a] = [call[a] EXCEPT !.pc = pc]]
    BY <1>g DEF Goto
  <2>4. /\ [call[a] EXCEPT !.pc = pc].pc = pc
        /\ [call[a] EXCEPT !.pc = pc].key = call[a].key
        /\ [call[a] EXCEPT !.pc = pc].user = call[a].user
        /\ [call[a] EXCEPT !.pc = pc].new = call[a].new
    BY <2>1 DEF Call
  <2> QED BY <1>c, <1>g, <2>2, <2>3, <2>4
<1>1. ASSUME NEW a \in Actor, Unlock(a) \/ VerifyUnknown(a)
      PROVE  Typed'
  <2>1. call' \in [Actor -> Call] /\ CallsWellFormed'
    BY <1>1, <1>t, <1>g DEF Unlock, VerifyUnknown, CallsWellFormed, At, PC
  <2>2. failed' \in [Email -> Failures \cup {None}]
    BY <1>1, <1>t DEF Unlock, VerifyUnknown
  <2> QED BY <1>1, <1>t, <2>1, <2>2 DEF Unlock, VerifyUnknown, Typed, TypeOK, accounts, history
<1>2. ASSUME NEW a \in Actor, VerifyDisabled(a)
      PROVE  Typed'
  <2>1. call' \in [Actor -> Call] /\ CallsWellFormed'
    BY <1>2, <1>i DEF VerifyDisabled
  <2> QED BY <1>2, <1>t, <2>1 DEF VerifyDisabled, Typed, TypeOK, accounts, history
<1>3. ASSUME NEW a \in Actor, VerifyWrong(a)
      PROVE  Typed'
  <2> DEFINE c == [call[a] EXCEPT !.pc = "prune", !.user = Found(call[a].key)]
  <2>1. call[a] \in Call /\ call[a].key \in Email
    BY <1>3, <1>t DEF VerifyWrong, CallsWellFormed, At
  <2>2. Found(call[a].key) \in User
    BY <1>3, <1>t, <2>1, FoundType DEF VerifyWrong
  <2>3. c \in Call /\ c.pc = "prune" /\ c.key \in Email
    BY <2>1, <2>2 DEF Call
  <2>4. call' = [call EXCEPT ![a] = c]
    BY <1>3 DEF VerifyWrong
  <2> HIDE DEF c
  <2>5. call' \in [Actor -> Call] /\ CallsWellFormed'
    BY <1>c, <2>3, <2>4
  <2> QED BY <1>3, <1>t, <2>5 DEF VerifyWrong, Typed, TypeOK, accounts, history
<1>d. ASSUME NEW a \in Actor, NEW u \in User, Draw(a, u)
      PROVE  /\ call' \in [Actor -> Call] /\ CallsWellFormed'
             /\ owner \in [Token -> User \cup {None}] => owner' \in [Token -> User \cup {None}]
  <2>1. PICK t \in Token : /\ owner' = [owner EXCEPT ![t] = u]
                           /\ call' = [call EXCEPT ![a] = [Idle EXCEPT !.pc = "create", !.tok = t]]
    BY <1>d DEF Draw
  <2>2. [Idle EXCEPT !.pc = "create", !.tok = t].pc = "create"
    BY DEF Idle
  <2>3. call' \in [Actor -> Call] /\ CallsWellFormed'
    BY <1>c, <2>1, <2>2, CallStarts
  <2> QED BY <2>1, <2>3
<1>4. ASSUME NEW a \in Actor, VerifyRight(a)
      PROVE  Typed'
  <2> DEFINE u == Found(call[a].key)
  <2>1. call[a].key \in Email
    BY <1>4, <1>t DEF VerifyRight, CallsWellFormed, At
  <2>2. u \in User /\ users[u] \in Account
    BY <1>4, <1>t, <2>1, FoundType, WritableType DEF VerifyRight
  <2>3. failed' \in [Email -> Failures \cup {None}]
    BY <1>4, <1>t DEF VerifyRight
  <2>4. CASE users[u].mfa
    <3>1. Return(a) /\ UNCHANGED <<accounts, owner>>
      BY <1>4, <2>4 DEF VerifyRight
    <3>2. call' \in [Actor -> Call] /\ CallsWellFormed'
      BY <3>1, <1>i
    <3> QED BY <1>4, <1>t, <2>3, <3>1, <3>2 DEF VerifyRight, Typed, TypeOK, accounts
  <2>5. CASE ~ users[u].mfa
    <3>1. Draw(a, u) /\ Update(u, users[u])
      BY <1>4, <2>5 DEF VerifyRight
    <3>2. call' \in [Actor -> Call] /\ CallsWellFormed' /\ owner' \in [Token -> User \cup {None}]
      BY <3>1, <2>2, <1>d, <1>t DEF TypeOK
    <3>3. {users', rows'} \subseteq [User -> Account \cup {None}] /\ index' = index
      BY <3>1, <2>2, <1>t, UpdateType DEF Update
    <3> QED BY <1>4, <1>t, <2>3, <3>2, <3>3 DEF VerifyRight, Typed, TypeOK
  <2> QED BY <2>4, <2>5
<1>5. ASSUME NEW a \in Actor, Prune(a)
      PROVE  Typed'
  <2>1. call[a] \in Call /\ call[a].key \in Email
    BY <1>5, <1>t DEF Prune, CallsWellFormed, At
  <2>2. failed' \in [Email -> Failures \cup {None}]
    BY <1>5, <1>t DEF Prune
  <2>3. CASE call' = [call EXCEPT ![a].pc = "count", ![a].at = now]
    <3> DEFINE c == [call[a] EXCEPT !.pc = "count", !.at = now]
    <3>1. c \in Call /\ c.pc = "count" /\ c.key \in Email
      BY <2>1, <1>t DEF Call
    <3>2. call' = [call EXCEPT ![a] = c]
      BY <2>3
    <3> HIDE DEF c
    <3>3. call' \in [Actor -> Call] /\ CallsWellFormed'
      BY <1>c, <3>1, <3>2
    <3> QED BY <1>5, <1>t, <2>2, <3>3 DEF Prune, Typed, TypeOK, accounts, history
  <2>4. CASE \E o \in Oldest :
               call' = [call EXCEPT ![a].pc = "evict", ![a].at = now, ![a].victim = o]
    <3>1. PICK o \in Oldest :
            call' = [call EXCEPT ![a].pc = "evict", ![a].at = now, ![a].victim = o]
      BY <2>4
    <3>2. o \in Email
      BY <3>1 DEF Oldest, Kept, Counted
    <3> DEFINE c == [call[a] EXCEPT !.pc = "evict", !.at = now, !.victim = o]
    <3>3. c \in Call /\ c.pc = "evict" /\ c.key \in Email
      BY <2>1, <1>t, <3>2 DEF Call
    <3>4. call' = [call EXCEPT ![a] = c]
      BY <3>1
    <3> HIDE DEF c
    <3>5. call' \in [Actor -> Call] /\ CallsWellFormed'
      BY <1>c, <3>3, <3>4
    <3> QED BY <1>5, <1>t, <2>2, <3>5 DEF Prune, Typed, TypeOK, accounts, history
  <2> QED BY <1>5, <2>3, <2>4 DEF Prune
<1>6. ASSUME NEW a \in Actor, Evict(a)
      PROVE  Typed'
  <2>1. call' \in [Actor -> Call] /\ CallsWellFormed'
    BY <1>6, <1>t, <1>g DEF Evict, CallsWellFormed, At, PC
  <2>2. failed' \in [Email -> Failures \cup {None}]
    BY <1>6, <1>t DEF Evict
  <2> QED BY <1>6, <1>t, <2>1, <2>2 DEF Evict, Typed, TypeOK, accounts, history
<1>7. ASSUME NEW a \in Actor, Count(a)
      PROVE  Typed'
  <2>1. call' \in [Actor -> Call] /\ CallsWellFormed'
    BY <1>7, <1>i DEF Count
  <2>2. call[a].key \in Email /\ call[a].at \in Nat
    BY <1>7, <1>t DEF Count, CallsWellFormed, At, Call
  <2>3. failed' \in [Email -> Failures \cup {None}]
    BY <1>7, <1>t, <2>2, CountingType DEF Count
  <2> QED BY <1>7, <1>t, <2>1, <2>3 DEF Count, Typed, TypeOK, accounts, history
<1>8. ASSUME NEW a \in Actor, Create(a)
      PROVE  Typed'
  <2>1. call' \in [Actor -> Call] /\ CallsWellFormed'
    BY <1>8, <1>i DEF Create
  <2>2. status' \in [Token -> {"fresh", "live", "over"}]
    BY <1>8, <1>t DEF Create, Tokens!Install
  <2> QED BY <1>8, <1>t, <2>1, <2>2 DEF Create, Typed, TypeOK, accounts, history
<1>9. ASSUME NEW a \in Actor, NEW e \in {Normal[e] : e \in Email}, Login(a, e) \/ LoginAfterWindow(a, e)
      PROVE  Typed'
  <2>1. e \in Email
    BY IdentityAssumption
  <2>2. PICK pc \in {"verify", "unlock"} : Begin(a, [Idle EXCEPT !.pc = pc, !.key = e])
    BY <1>9 DEF Login, LoginAfterWindow
  <2> DEFINE c == [Idle EXCEPT !.pc = pc, !.key = e]
  <2>3. c \in Call /\ c.pc = pc /\ c.key = e
    BY <2>1 DEF Idle, Call
  <2>4. call' = [call EXCEPT ![a] = c]
    BY <2>2 DEF Begin
  <2> HIDE DEF c
  <2>5. call' \in [Actor -> Call] /\ CallsWellFormed'
    BY <1>c, <2>1, <2>3, <2>4
  <2> QED BY <1>9, <1>t, <2>5 DEF Login, LoginAfterWindow, Typed, TypeOK, accounts, history
<1>10. ASSUME NEW a \in Actor, NEW u \in User, NEW e \in Email, NEW r \in Role, Register(a, u, e, r)
       PROVE  Typed'
  <2> DEFINE n == [email |-> e, role |-> r, enabled |-> TRUE, mfa |-> FALSE, seeded |-> FALSE]
             c == [Idle EXCEPT !.pc = "persist", !.user = u, !.new = n]
  <2>1. n \in Account
    BY DEF Account
  <2>2. call' = [call EXCEPT ![a] = c]
    BY <1>10 DEF Register, Begin
  <2> HIDE DEF n
  <2>3. c \in Call /\ c.pc = "persist" /\ c.user = u /\ c.new = n
    BY <2>1, CallStarts DEF Idle
  <2> HIDE DEF c
  <2>4. call' \in [Actor -> Call] /\ CallsWellFormed'
    BY <1>c, <2>1, <2>2, <2>3
  <2> QED BY <1>10, <1>t, <2>4 DEF Register, Typed, TypeOK, accounts, history
<1>11. ASSUME NEW a \in Actor, RegisterPersist(a)
       PROVE  Typed'
  <2>1. call[a].user \in User /\ call[a].new \in Account
    BY <1>11, <1>t DEF RegisterPersist, At, CallsWellFormed, Registering
  <2>2. call' \in [Actor -> Call] /\ CallsWellFormed'
    BY <1>11, <2>1, <1>g DEF RegisterPersist, PC
  <2>3. rows' \in [User -> Account \cup {None}]
    BY <1>11, <1>t, <2>1, PersistType DEF RegisterPersist
  <2> QED BY <1>11, <1>t, <2>2, <2>3 DEF RegisterPersist, Typed, TypeOK, history
<1>12. ASSUME NEW a \in Actor, RegisterIndex(a)
       PROVE  Typed'
  <2>1. call[a].user \in User /\ call[a].new \in Account
    BY <1>12, <1>t DEF RegisterIndex, At, CallsWellFormed, Registering
  <2>2. call' \in [Actor -> Call] /\ CallsWellFormed'
    BY <1>12, <2>1, <1>g DEF RegisterIndex, PC
  <2>3. index' \in [Email -> User \cup {None}]
    BY <1>12, <1>t, <2>1 DEF RegisterIndex
  <2> QED BY <1>12, <1>t, <2>2, <2>3 DEF RegisterIndex, Typed, TypeOK, history
<1>13. ASSUME NEW a \in Actor, RegisterInsert(a)
       PROVE  Typed'
  <2>1. call[a].user \in User /\ call[a].new \in Account
    BY <1>13, <1>t DEF RegisterInsert, At, CallsWellFormed, Registering
  <2>2. call' \in [Actor -> Call] /\ CallsWellFormed'
    BY <1>13, <1>i DEF RegisterInsert
  <2>3. users' \in [User -> Account \cup {None}]
    BY <1>13, <1>t, <2>1 DEF RegisterInsert
  <2> QED BY <1>13, <1>t, <2>2, <2>3 DEF RegisterInsert, Typed, TypeOK, history
<1>14. ASSUME NEW a \in Actor, NEW u \in User, MfaLogin(a, u)
       PROVE  Typed'
  <2>1. users[u] \in Account
    BY <1>14, <1>t, WritableType DEF MfaLogin, Writable
  <2>2. {users', rows'} \subseteq [User -> Account \cup {None}] /\ index' = index
    BY <1>14, <1>t, <2>1, UpdateType DEF MfaLogin, Update
  <2>3. call' \in [Actor -> Call] /\ CallsWellFormed' /\ owner' \in [Token -> User \cup {None}]
    BY <1>14, <1>d, <1>t DEF MfaLogin, TypeOK
  <2> QED BY <1>14, <1>t, <2>2, <2>3 DEF MfaLogin, Typed, TypeOK
<1>15. ASSUME NEW a \in Actor, NEW u \in User, Enroll(a, u) \/ VerifyMfa(a, u) \/ DisableMfa(a, u)
       PROVE  Typed'
  <2>1. users[u] \in Account
    BY <1>15, <1>t, WritableType DEF Enroll, VerifyMfa, DisableMfa, Writable
  <2>2. \E acct \in Account : Update(u, acct)
    <3>1. /\ [users[u] EXCEPT !.seeded = TRUE] \in Account
          /\ [users[u] EXCEPT !.mfa = TRUE] \in Account
          /\ [users[u] EXCEPT !.mfa = FALSE, !.seeded = FALSE] \in Account
      BY <2>1 DEF Account
    <3> QED BY <1>15, <3>1 DEF Enroll, VerifyMfa, DisableMfa
  <2>3. {users', rows'} \subseteq [User -> Account \cup {None}] /\ index' = index
    BY <1>t, <2>2, UpdateType DEF Update
  <2> QED
    BY <1>15, <1>t, <2>3 DEF Enroll, VerifyMfa, DisableMfa, Typed, TypeOK, history,
                            CallsWellFormed, Registering
<1>o. ASSUME NEW a \in Actor, NEW u \in User, Begin(a, [Idle EXCEPT !.pc = "oust", !.user = u])
      PROVE  call' \in [Actor -> Call] /\ CallsWellFormed'
  <2> DEFINE c == [Idle EXCEPT !.pc = "oust", !.user = u]
  <2>1. c \in Call /\ c.pc = "oust" /\ c.user = u
    BY CallStarts DEF Idle
  <2>2. call' = [call EXCEPT ![a] = c]
    BY <1>o DEF Begin
  <2> HIDE DEF c
  <2> QED BY <1>c, <2>1, <2>2
<1>16. ASSUME NEW a \in Actor, NEW u \in User,
              DisableUser(a, u) \/ \E r \in Role : UpdateRole(a, u, r)
       PROVE  Typed'
  <2>1. users[u] \in Account
    BY <1>16, <1>t, WritableType DEF DisableUser, UpdateRole, Writable
  <2>2. \E acct \in Account : Update(u, acct)
    <3>1. /\ [users[u] EXCEPT !.enabled = FALSE] \in Account
          /\ \A r \in Role : [users[u] EXCEPT !.role = r] \in Account
      BY <2>1 DEF Account
    <3> QED BY <1>16, <3>1 DEF DisableUser, UpdateRole
  <2>3. {users', rows'} \subseteq [User -> Account \cup {None}] /\ index' = index
    BY <1>t, <2>2, UpdateType DEF Update
  <2>4. call' \in [Actor -> Call] /\ CallsWellFormed'
    BY <1>16, <1>o DEF DisableUser, UpdateRole
  <2> QED BY <1>16, <1>t, <2>3, <2>4 DEF DisableUser, UpdateRole, Typed, TypeOK, history
<1>17. ASSUME NEW a \in Actor, NEW u \in User, LogoutAll(a, u)
       PROVE  Typed'
  <2>1. call' \in [Actor -> Call] /\ CallsWellFormed'
    BY <1>17, <1>o DEF LogoutAll
  <2> QED BY <1>17, <1>t, <2>1 DEF LogoutAll, Typed, TypeOK, accounts, history
<1>18. ASSUME NEW a \in Actor, Oust(a)
       PROVE  Typed'
  <2>1. call' \in [Actor -> Call] /\ CallsWellFormed'
    BY <1>18, <1>i DEF Oust
  <2>2. status' \in [Token -> {"fresh", "live", "over"}]
    BY <1>18, <1>t DEF Oust, Tokens!Retire
  <2>3. call[a].user \in User
    BY <1>18, <1>t DEF Oust, At, CallsWellFormed
  <2>4. ousted' \subseteq User /\ late' \subseteq Token
    BY <1>18, <1>t, <2>3 DEF Oust, TypeOK
  <2> QED BY <1>18, <1>t, <2>1, <2>2, <2>4 DEF Oust, Typed, TypeOK, accounts
<1>19. ASSUME NEW t \in Token, SessionEnds(t)
       PROVE  Typed'
  <2>1. status' \in [Token -> {"fresh", "live", "over"}]
    BY <1>19, <1>t DEF SessionEnds, Tokens!Retire
  <2> QED
    BY <1>19, <1>t, <2>1 DEF SessionEnds, Typed, TypeOK, accounts, history, CallsWellFormed, Registering
<1>20. CASE Tick
  <2>1. now' \in 0..MaxTime
    BY <1>20, <1>t, IdentityAssumption DEF Tick, TypeOK
  <2> QED
    BY <1>20, <1>t, <2>1 DEF Tick, Typed, TypeOK, accounts, history, CallsWellFormed, Registering
<1>21. CASE Restart
  <2>1. call' \in [Actor -> Call] /\ CallsWellFormed'
    BY <1>21, IdleType DEF Restart, CallsWellFormed, Registering, Idle
  <2>2. restarts' \in 0..MaxRestarts
    BY <1>21, <1>t, IdentityAssumption DEF Restart, TypeOK
  <2>3. /\ users' \in [User -> Account \cup {None}] /\ rows' \in [User -> Account \cup {None}]
        /\ index' \in [Email -> User \cup {None}] /\ failed' \in [Email -> Failures \cup {None}]
    BY <1>21, <1>t DEF Restart, Indexed
  <2> QED BY <1>21, <1>t, <2>1, <2>2, <2>3 DEF Restart, Typed, TypeOK, history
<1>22. CASE UNCHANGED vars
  BY <1>22, <1>t DEF vars, accounts, history, Typed, TypeOK, CallsWellFormed, Registering
<1> QED
  BY <1>1, <1>2, <1>3, <1>4, <1>5, <1>6, <1>7, <1>8, <1>9, <1>10, <1>11, <1>12, <1>13, <1>14,
     <1>15, <1>16, <1>17, <1>18, <1>19, <1>20, <1>21, <1>22 DEF Next, Authenticating

\* Accounts, rows, index, failures and calls keep their types, whatever
\* interleaves (UserManager, Authenticator).
THEOREM TypeCorrect == Spec => []TypeOK
<1>1. Init => Typed
  BY TypeInit
<1>2. Typed /\ [Next]_vars => Typed'
  BY TypeStep
<1>3. Typed => TypeOK
  BY DEF Typed
<1> QED BY <1>1, <1>2, <1>3, PTL DEF Spec
-----------------------------------------------------------------------------
(* A disabled user's sessions.  A new account is its own worker's business   *)
(* until it is inserted; memory and row agree on who is disabled.            *)

Newcomers ==
  \A a \in Actor : Registering(a) =>
    /\ users[call[a].user] = None /\ call[a].user \notin ousted
    /\ call[a].pc # "persist" => rows[call[a].user] \in {None, call[a].new}
    /\ \A b \in Actor \ {a} : Registering(b) => call[b].user # call[a].user

RowIsCurrent == \A u \in User : users[u] # None => rows[u] \in {None, users[u]}

OustedStayOut ==
  \A u \in ousted : /\ users[u] = None \/ ~ users[u].enabled
                    /\ rows[u] = None \/ ~ rows[u].enabled

NoSessionLeft == \A t \in Token : owner[t] \in ousted => status[t] = "over" \/ t \in late

OustInv == Newcomers /\ RowIsCurrent /\ OustedStayOut /\ NoSessionLeft

\* What an update of an account does to the account invariants: it is
\* enabled only if it was.
LEMMA UpdateKeeps ==
  ASSUME Typed, Newcomers, RowIsCurrent, OustedStayOut,
         NEW u \in User, NEW acct \in Account, Update(u, acct), users[u] # None,
         ~ users[u].enabled => ~ acct.enabled,
         ousted' = ousted,
         \A b \in Actor : call'[b].pc \in {"persist", "index", "insert"} => call'[b] = call[b]
  PROVE  Newcomers' /\ RowIsCurrent' /\ OustedStayOut'
<1>1. /\ users' = [users EXCEPT ![u] = acct] /\ users \in [User -> Account \cup {None}]
      /\ \A v \in User : rows'[v] \in {None, rows[v]} \/ (v = u /\ rows'[v] = acct)
      /\ rows'[u] = acct
  BY DEF Update, Persist, Typed, TypeOK
<1>2. RowIsCurrent'
  BY <1>1 DEF RowIsCurrent
<1>3. Newcomers'
  <2> SUFFICES ASSUME NEW a \in Actor, Registering(a)'
               PROVE  /\ users'[call'[a].user] = None /\ call'[a].user \notin ousted
                      /\ call'[a].pc # "persist" => rows'[call'[a].user] \in {None, call'[a].new}
                      /\ \A b \in Actor \ {a} : Registering(b)' => call'[b].user # call'[a].user
    BY DEF Newcomers
  <2>1. Registering(a) /\ call'[a] = call[a]
    BY DEF Registering
  <2>2. \A b \in Actor \ {a} : Registering(b)' => call'[b].user # call'[a].user
    BY <2>1 DEF Newcomers, Registering
  <2>3. /\ call[a].user \in User /\ users[call[a].user] = None /\ call[a].user \notin ousted
        /\ call[a].pc # "persist" => rows[call[a].user] \in {None, call[a].new}
    BY <2>1 DEF Typed, CallsWellFormed, Newcomers
  <2>4. call[a].user # u
    BY <2>3
  <2>5. users'[call[a].user] = None
    BY <1>1, <2>3, <2>4
  <2>6. call[a].pc # "persist" => rows'[call[a].user] \in {None, call[a].new}
    BY <1>1, <2>3, <2>4
  <2> QED BY <2>1, <2>2, <2>3, <2>5, <2>6
<1>4. OustedStayOut'
  <2> SUFFICES ASSUME NEW v \in ousted
               PROVE  /\ users'[v] = None \/ ~ users'[v].enabled
                      /\ rows'[v] = None \/ ~ rows'[v].enabled
    BY DEF OustedStayOut
  <2>1. v \in User
    BY DEF Typed, TypeOK
  <2>2. CASE v = u
    BY <1>1, <2>1, <2>2 DEF OustedStayOut
  <2>3. CASE v # u
    BY <1>1, <2>1, <2>3 DEF OustedStayOut
  <2> QED BY <2>2, <2>3
<1> QED BY <1>2, <1>3, <1>4

\* A token drawn for a user who may log in is nobody's who was ousted.
LEMMA DrawKeeps ==
  ASSUME Typed, OustedStayOut, NoSessionLeft, NEW a \in Actor, NEW u \in User, Draw(a, u),
         users[u] # None, users[u].enabled,
         UNCHANGED <<status, ousted, late>>
  PROVE  NoSessionLeft'
<1>1. u \notin ousted
  BY DEF OustedStayOut
<1>2. PICK t \in Token : owner' = [owner EXCEPT ![t] = u]
  BY DEF Draw
<1> QED BY <1>1, <1>2 DEF NoSessionLeft, Typed, TypeOK

LEMMA OustStep == Typed /\ OustInv /\ [Next]_vars => OustInv'
<1> SUFFICES ASSUME Typed, OustInv, [Next]_vars
             PROVE  OustInv'
  OBVIOUS
<1>t. /\ TypeOK /\ CallsWellFormed
      /\ users \in [User -> Account \cup {None}] /\ rows \in [User -> Account \cup {None}]
      /\ call \in [Actor -> Call]
      /\ Newcomers /\ RowIsCurrent /\ OustedStayOut /\ NoSessionLeft
  BY DEF Typed, TypeOK, OustInv
\* A step that touches neither accounts nor history and starts no registration.
<1>s. ASSUME UNCHANGED <<accounts, history>>,
             \A b \in Actor : Registering(b)' => call'[b] = call[b],
             \A t \in Token : status'[t] = status[t] \/ status'[t] = "over"
                              \/ status[t] = "fresh"
      PROVE  OustInv'
  <2>1. Newcomers'
    BY <1>t, <1>s DEF Newcomers, Registering, accounts, history
  <2>2. RowIsCurrent' /\ OustedStayOut'
    BY <1>t, <1>s DEF RowIsCurrent, OustedStayOut, accounts, history
  <2>3. NoSessionLeft'
    BY <1>t, <1>s DEF NoSessionLeft, accounts, history
  <2> QED BY <2>1, <2>2, <2>3 DEF OustInv
<1>1. ASSUME NEW a \in Actor,
             \/ Unlock(a) \/ VerifyUnknown(a) \/ VerifyDisabled(a) \/ VerifyWrong(a)
             \/ Prune(a) \/ Evict(a) \/ Count(a)
      PROVE  OustInv'
  <2>1. \A b \in Actor : Registering(b)' => call'[b] = call[b]
    <3>1. ASSUME Unlock(a) \/ VerifyUnknown(a) \/ VerifyWrong(a) \/ Evict(a)
          PROVE  \A b \in Actor : Registering(b)' => call'[b] = call[b]
      BY <3>1, <1>t DEF Unlock, VerifyUnknown, VerifyWrong, Evict, Goto, Registering, Call
    <3>2. ASSUME Prune(a)
          PROVE  \A b \in Actor : Registering(b)' => call'[b] = call[b]
      BY <3>2, <1>t DEF Prune, Registering, Call
    <3>3. ASSUME VerifyDisabled(a) \/ Count(a)
          PROVE  \A b \in Actor : Registering(b)' => call'[b] = call[b]
      BY <3>3, <1>t DEF VerifyDisabled, Count, Return, Registering, Idle
    <3> QED BY <1>1, <3>1, <3>2, <3>3
  <2>2. UNCHANGED <<accounts, history, status>>
    BY <1>1 DEF Unlock, VerifyUnknown, VerifyDisabled, VerifyWrong, Prune, Evict, Count
  <2> QED BY <1>s, <2>1, <2>2
<1>2. ASSUME NEW a \in Actor, Create(a)
      PROVE  OustInv'
  <2>1. \A b \in Actor : Registering(b)' => call'[b] = call[b]
    BY <1>2, <1>t DEF Create, Return, Registering, Idle
  <2>2. \A t \in Token : status'[t] = status[t] \/ status[t] = "fresh"
    BY <1>2, <1>t DEF Create, Tokens!Install, TypeOK
  <2> QED BY <1>2, <1>s, <2>1, <2>2 DEF Create
<1>3. ASSUME NEW a \in Actor, VerifyRight(a)
      PROVE  OustInv'
  <2> DEFINE u == Found(call[a].key)
  <2>1. u \in User /\ users[u] # None /\ users[u] \in Account /\ users[u].enabled
    BY <1>3, <1>t, FoundType, WritableType DEF VerifyRight, MayLogIn, CallsWellFormed, At
  <2>2. CASE users[u].mfa
    <3>1. Return(a) /\ UNCHANGED <<accounts, history, status>>
      BY <1>3, <2>2 DEF VerifyRight, history
    <3>2. \A b \in Actor : Registering(b)' => call'[b] = call[b]
      BY <3>1, <1>t DEF Return, Registering, Idle
    <3> QED BY <3>1, <3>2, <1>s
  <2>3. CASE ~ users[u].mfa
    <3>1. Draw(a, u) /\ Update(u, users[u]) /\ UNCHANGED <<status, ousted, late>>
      BY <1>3, <2>3 DEF VerifyRight
    <3>2. \A b \in Actor : Registering(b)' => call'[b] = call[b]
      BY <3>1, <1>t DEF Draw, Registering, Idle
    <3>3. Newcomers' /\ RowIsCurrent' /\ OustedStayOut'
      BY <2>1, <3>1, <3>2, <1>t, UpdateKeeps DEF Typed, Registering
    <3>4. NoSessionLeft'
      BY <2>1, <3>1, <1>t, DrawKeeps DEF Typed
    <3> QED BY <3>3, <3>4 DEF OustInv
  <2> QED BY <2>2, <2>3
<1>4. ASSUME NEW a \in Actor, NEW u \in User, MfaLogin(a, u)
      PROVE  OustInv'
  <2>1. users[u] # None /\ users[u] \in Account /\ users[u].enabled
    BY <1>4, <1>t, WritableType DEF MfaLogin, Writable, MayLogIn
  <2>2. Draw(a, u) /\ Update(u, users[u]) /\ UNCHANGED <<status, ousted, late>>
    BY <1>4 DEF MfaLogin
  <2>3. \A b \in Actor : Registering(b)' => call'[b] = call[b]
    BY <2>2, <1>t DEF Draw, Registering, Idle
  <2>4. Newcomers' /\ RowIsCurrent' /\ OustedStayOut'
    BY <2>1, <2>2, <2>3, <1>t, UpdateKeeps DEF Typed, Registering
  <2>5. NoSessionLeft'
    BY <2>1, <2>2, <1>t, DrawKeeps DEF Typed
  <2> QED BY <2>4, <2>5 DEF OustInv
<1>5. ASSUME NEW a \in Actor, NEW e \in {Normal[e] : e \in Email}, Login(a, e) \/ LoginAfterWindow(a, e)
      PROVE  OustInv'
  <2>1. \A b \in Actor : Registering(b)' => call'[b] = call[b]
    BY <1>5, <1>t DEF Login, LoginAfterWindow, Begin, Registering, Idle
  <2> QED BY <1>5, <1>s, <2>1 DEF Login, LoginAfterWindow
<1>6. ASSUME NEW a \in Actor, NEW u \in User, LogoutAll(a, u)
      PROVE  OustInv'
  <2>1. \A b \in Actor : Registering(b)' => call'[b] = call[b]
    BY <1>6, <1>t DEF LogoutAll, Begin, Registering, Idle
  <2> QED BY <1>6, <1>s, <2>1 DEF LogoutAll
<1>7. ASSUME NEW a \in Actor, NEW u \in User, NEW e \in Email, NEW r \in Role, Register(a, u, e, r)
      PROVE  OustInv'
  <2>1. /\ call'[a].user = u /\ call'[a].pc = "persist"
        /\ \A b \in Actor \ {a} : call'[b] = call[b] /\ call[b].user # u
    BY <1>7, <1>t DEF Register, Begin, Idle
  <2>2. users[u] = None /\ u \notin ousted /\ UNCHANGED <<accounts, history, status>>
    BY <1>7 DEF Register
  <2>3. Newcomers'
    BY <1>t, <2>1, <2>2 DEF Newcomers, Registering, accounts, history
  <2>4. RowIsCurrent' /\ OustedStayOut' /\ NoSessionLeft'
    BY <1>t, <2>2 DEF RowIsCurrent, OustedStayOut, NoSessionLeft, accounts, history
  <2> QED BY <2>3, <2>4 DEF OustInv
<1>8. ASSUME NEW a \in Actor, RegisterPersist(a)
      PROVE  OustInv'
  <2> DEFINE u == call[a].user
  <2>1. u \in User /\ users[u] = None /\ u \notin ousted
    BY <1>8, <1>t DEF RegisterPersist, At, Registering, CallsWellFormed, Newcomers
  <2>2. /\ \A v \in User : rows'[v] \in {None, rows[v]} \/ (v = u /\ rows'[v] = call[a].new)
        /\ rows'[u] = call[a].new
        /\ UNCHANGED <<users, ousted, late, owner, status>>
    BY <1>8, <1>t, <2>1 DEF RegisterPersist, Persist, history
  <2>3. /\ call'[a].user = u /\ call'[a].new = call[a].new /\ call[a].pc = "persist"
        /\ \A b \in Actor \ {a} : call'[b] = call[b]
    BY <1>8, <1>t DEF RegisterPersist, Goto, At, Call
  <2>4. Newcomers'
    <3> SUFFICES ASSUME NEW b \in Actor, Registering(b)'
                 PROVE  /\ users'[call'[b].user] = None /\ call'[b].user \notin ousted'
                        /\ call'[b].pc # "persist" => rows'[call'[b].user] \in {None, call'[b].new}
                        /\ \A c \in Actor \ {b} : Registering(c)' => call'[c].user # call'[b].user
      BY DEF Newcomers
    <3>1. \A c \in Actor : Registering(c)' => Registering(c) /\ call'[c].user = call[c].user
      BY <2>3 DEF Registering
    <3>2. \A c \in Actor \ {b} : Registering(c)' => call'[c].user # call'[b].user
      BY <3>1, <1>t DEF Newcomers
    <3>3. users'[call'[b].user] = None /\ call'[b].user \notin ousted'
      BY <3>1, <2>2, <1>t DEF Newcomers
    <3>4. ASSUME b # a, call'[b].pc # "persist"
          PROVE  rows'[call'[b].user] \in {None, call'[b].new}
      <4>1. Registering(b) /\ call'[b] = call[b] /\ call[b].user \in User
        BY <3>1, <3>4, <2>3, <1>t DEF CallsWellFormed
      <4>2. call[b].user # u /\ rows[call[b].user] \in {None, call[b].new}
        BY <4>1, <3>4, <2>3, <1>t DEF Newcomers, Registering
      <4> QED BY <4>1, <4>2, <2>2
    <3>5. b = a => rows'[call'[b].user] \in {None, call'[b].new}
      BY <2>2, <2>3
    <3> QED BY <3>2, <3>3, <3>4, <3>5
  <2>5. RowIsCurrent'
    BY <1>t, <2>1, <2>2 DEF RowIsCurrent
  <2>6. OustedStayOut'
    BY <1>t, <2>1, <2>2 DEF OustedStayOut, TypeOK
  <2>7. NoSessionLeft'
    BY <1>t, <2>2 DEF NoSessionLeft
  <2> QED BY <2>4, <2>5, <2>6, <2>7 DEF OustInv
<1>9. ASSUME NEW a \in Actor, RegisterIndex(a)
      PROVE  OustInv'
  <2>1. /\ call'[a].user = call[a].user /\ call'[a].new = call[a].new /\ call[a].pc = "index"
        /\ \A b \in Actor \ {a} : call'[b] = call[b]
    BY <1>9, <1>t DEF RegisterIndex, Goto, At, Call
  <2>2. UNCHANGED <<users, rows, history, status>>
    BY <1>9 DEF RegisterIndex
  <2>3. Newcomers'
    BY <1>t, <2>1, <2>2 DEF Newcomers, Registering, history
  <2>4. RowIsCurrent' /\ OustedStayOut' /\ NoSessionLeft'
    BY <1>t, <2>2 DEF RowIsCurrent, OustedStayOut, NoSessionLeft, history
  <2> QED BY <2>3, <2>4 DEF OustInv
<1>10. ASSUME NEW a \in Actor, RegisterInsert(a)
       PROVE  OustInv'
  <2> DEFINE u == call[a].user
  <2>1. /\ u \in User /\ users[u] = None /\ u \notin ousted
        /\ rows[u] \in {None, call[a].new}
    BY <1>10, <1>t DEF RegisterInsert, At, Registering, CallsWellFormed, Newcomers
  <2>2. /\ call'[a].pc = "idle"
        /\ \A b \in Actor \ {a} : call'[b] = call[b]
    BY <1>10, <1>t DEF RegisterInsert, Return, Idle
  <2>3. users' = [users EXCEPT ![u] = call[a].new] /\ UNCHANGED <<rows, history, status>>
    BY <1>10 DEF RegisterInsert
  <2>4. Newcomers'
    <3>1. Registering(a)
      BY <1>10 DEF RegisterInsert, At, Registering
    <3> QED BY <1>t, <2>1, <2>2, <2>3, <3>1 DEF Newcomers, Registering, CallsWellFormed, history
  <2>5. RowIsCurrent' /\ OustedStayOut' /\ NoSessionLeft'
    BY <1>t, <2>1, <2>3 DEF RowIsCurrent, OustedStayOut, NoSessionLeft, history, TypeOK
  <2> QED BY <2>4, <2>5 DEF OustInv
<1>11. ASSUME NEW a \in Actor, NEW u \in User, Enroll(a, u) \/ VerifyMfa(a, u) \/ DisableMfa(a, u)
       PROVE  OustInv'
  <2>1. users[u] # None /\ users[u] \in Account
    BY <1>11, <1>t, WritableType DEF Enroll, VerifyMfa, DisableMfa, Writable
  <2>2. PICK acct \in Account : Update(u, acct) /\ acct.enabled = users[u].enabled
    <3>1. /\ [users[u] EXCEPT !.seeded = TRUE] \in Account
          /\ [users[u] EXCEPT !.mfa = TRUE] \in Account
          /\ [users[u] EXCEPT !.mfa = FALSE, !.seeded = FALSE] \in Account
          /\ [users[u] EXCEPT !.seeded = TRUE].enabled = users[u].enabled
          /\ [users[u] EXCEPT !.mfa = TRUE].enabled = users[u].enabled
          /\ [users[u] EXCEPT !.mfa = FALSE, !.seeded = FALSE].enabled = users[u].enabled
      BY <2>1 DEF Account
    <3> QED BY <1>11, <3>1 DEF Enroll, VerifyMfa, DisableMfa
  <2>3. UNCHANGED <<call, status, history>>
    BY <1>11 DEF Enroll, VerifyMfa, DisableMfa
  <2>4. Newcomers' /\ RowIsCurrent' /\ OustedStayOut'
    BY <2>1, <2>2, <2>3, <1>t, UpdateKeeps DEF Typed, history
  <2> QED BY <1>t, <2>3, <2>4 DEF OustInv, NoSessionLeft, history
<1>12. ASSUME NEW a \in Actor, NEW u \in User,
              DisableUser(a, u) \/ \E r \in Role : UpdateRole(a, u, r)
       PROVE  OustInv'
  <2>1. users[u] # None /\ users[u] \in Account
    BY <1>12, <1>t, WritableType DEF DisableUser, UpdateRole, Writable
  <2>2. PICK acct \in Account : Update(u, acct) /\ (~ users[u].enabled => ~ acct.enabled)
    <3>1. /\ [users[u] EXCEPT !.enabled = FALSE] \in Account
          /\ ~ [users[u] EXCEPT !.enabled = FALSE].enabled
          /\ \A r \in Role : /\ [users[u] EXCEPT !.role = r] \in Account
                             /\ [users[u] EXCEPT !.role = r].enabled = users[u].enabled
      BY <2>1 DEF Account
    <3> QED BY <1>12, <3>1 DEF DisableUser, UpdateRole
  <2>3. \A b \in Actor : Registering(b)' => call'[b] = call[b]
    BY <1>12, <1>t DEF DisableUser, UpdateRole, Begin, Registering, Idle
  <2>4. UNCHANGED <<status, history>>
    BY <1>12 DEF DisableUser, UpdateRole
  <2>5. Newcomers' /\ RowIsCurrent' /\ OustedStayOut'
    BY <2>1, <2>2, <2>3, <2>4, <1>t, UpdateKeeps DEF Typed, history, Registering
  <2> QED BY <1>t, <2>4, <2>5 DEF OustInv, NoSessionLeft, history
<1>13. ASSUME NEW a \in Actor, Oust(a)
       PROVE  OustInv'
  <2> DEFINE u == call[a].user
  <2>1. /\ u \in User /\ UNCHANGED <<accounts, owner>>
        /\ call[a].pc = "oust" /\ call'[a].pc = "idle" /\ \A b \in Actor \ {a} : call'[b] = call[b]
    BY <1>13, <1>t DEF Oust, At, CallsWellFormed, Return, Idle
  <2>2. \/ ousted' = ousted /\ late' = late
        \/ /\ users[u] # None /\ ~ users[u].enabled
           /\ ousted' = ousted \cup {u}
           /\ late' = late \cup {t \in Token : owner[t] = u /\ status[t] = "fresh"}
    BY <1>13 DEF Oust
  <2>3. \A t \in Token : status'[t] = IF owner[t] = u /\ status[t] = "live" THEN "over" ELSE status[t]
    BY <1>13 DEF Oust, Tokens!Retire, SessionsOf
  <2>4. Newcomers'
    BY <1>t, <2>1, <2>2 DEF Newcomers, Registering, accounts
  <2>5. RowIsCurrent'
    BY <1>t, <2>1 DEF RowIsCurrent, accounts
  <2>6. OustedStayOut'
    <3>1. rows[u] = None \/ rows[u] = users[u] \/ users[u] = None
      BY <1>t, <2>1 DEF RowIsCurrent
    <3> QED BY <1>t, <2>1, <2>2, <3>1 DEF OustedStayOut, accounts
  <2>7. NoSessionLeft'
    BY <1>t, <2>1, <2>2, <2>3 DEF NoSessionLeft, TypeOK
  <2> QED BY <2>4, <2>5, <2>6, <2>7 DEF OustInv
<1>14. ASSUME NEW t \in Token, SessionEnds(t)
       PROVE  OustInv'
  <2>1. \A s \in Token : status'[s] = status[s] \/ status'[s] = "over"
    BY <1>14 DEF SessionEnds, Tokens!Retire
  <2> QED BY <1>14, <1>s, <2>1 DEF SessionEnds
<1>15. CASE Tick
  BY <1>15, <1>s DEF Tick
<1>16. CASE Restart
  <2>1. \A b \in Actor : ~ Registering(b)'
    BY <1>16 DEF Restart, Registering, Idle
  <2>2. users' = rows /\ UNCHANGED <<rows, status, history>>
    BY <1>16 DEF Restart
  <2>3. RowIsCurrent' /\ OustedStayOut' /\ NoSessionLeft'
    BY <1>t, <2>2 DEF RowIsCurrent, OustedStayOut, NoSessionLeft, history
  <2> QED BY <2>1, <2>3 DEF OustInv, Newcomers
<1>17. CASE UNCHANGED vars
  BY <1>17, <1>s DEF vars
<1> QED
  BY <1>1, <1>2, <1>3, <1>4, <1>5, <1>6, <1>7, <1>8, <1>9, <1>10, <1>11, <1>12, <1>13, <1>14,
     <1>15, <1>16, <1>17 DEF Next, Authenticating

\* Whatever logs in, registers, enrols, is disabled or restarts in whatever
\* order: once admin_disable_user has closed a disabled user's sessions, the
\* user's live ones are those of logins that had passed the password check.
THEOREM DisabledUserIsOut == Spec => []OnlyLateLogins
<1>1. Init => Typed /\ OustInv
  <2> SUFFICES ASSUME Init PROVE Typed /\ OustInv
    OBVIOUS
  <2>1. Typed
    BY TypeInit
  <2>2. OustInv
    BY DEF Init, OustInv, Newcomers, Registering, Idle, RowIsCurrent, OustedStayOut, NoSessionLeft
  <2> QED BY <2>1, <2>2
<1>2. Typed /\ OustInv /\ [Next]_vars => Typed' /\ OustInv'
  BY TypeStep, OustStep
<1>3. OustInv => OnlyLateLogins
  BY DEF OustInv, NoSessionLeft, OnlyLateLogins
<1> QED BY <1>1, <1>2, <1>3, PTL DEF Spec
-----------------------------------------------------------------------------
(* The lockout.  A worker that passed lockout_check may still count.         *)

MayCount(e) == {a \in Actor : /\ call[a].key = e
                              /\ call[a].pc \in {"verify", "prune", "evict", "count"}}
Failed(e) == IF failed[e] = None THEN 0 ELSE failed[e].count

Lockout == \A e \in Email : Failed(e) + Cardinality(MayCount(e)) <= MaxFailed - 1 + Cardinality(Actor)

LEMMA ActorSets ==
  ASSUME NEW S, S \subseteq Actor
  PROVE  /\ IsFiniteSet(S) /\ Cardinality(S) \in Nat /\ Cardinality(Actor) \in Nat
         /\ Cardinality(S) <= Cardinality(Actor)
BY IdentityAssumption, FS_Subset, FS_CardinalityType

LEMMA FailedType == TypeOK => \A e \in Email : Failed(e) \in Nat
BY DEF TypeOK, Failed, Failures

LEMMA LockoutStep == Typed /\ Lockout /\ [Next]_vars => Lockout'
<1> SUFFICES ASSUME Typed, Lockout, [Next]_vars
             PROVE  Lockout'
  OBVIOUS
<1>t. /\ TypeOK /\ CallsWellFormed /\ TypeOK' /\ MaxFailed \in Nat \ {0}
      /\ call \in [Actor -> Call] /\ failed \in [Email -> Failures \cup {None}]
  BY TypeStep, IdentityAssumption DEF Typed, TypeOK
\* Fewer workers that may count, and no more failures.
<1>s. ASSUME NEW e \in Email, MayCount(e)' \subseteq MayCount(e), Failed(e)' <= Failed(e)
      PROVE  Failed(e)' + Cardinality(MayCount(e)') <= MaxFailed - 1 + Cardinality(Actor)
  <2>1. /\ MayCount(e) \subseteq Actor /\ IsFiniteSet(MayCount(e))
        /\ Cardinality(MayCount(e)) \in Nat /\ Cardinality(Actor) \in Nat
    BY ActorSets DEF MayCount
  <2>2. Cardinality(MayCount(e)') <= Cardinality(MayCount(e)) /\ Cardinality(MayCount(e)') \in Nat
    BY <1>s, <2>1, FS_Subset, FS_CardinalityType
  <2>3. Failed(e) \in Nat /\ Failed(e)' \in Nat
    BY <1>t, FailedType DEF TypeOK, Failed, Failures
  <2>4. Failed(e) + Cardinality(MayCount(e)) <= MaxFailed - 1 + Cardinality(Actor)
    BY DEF Lockout
  <2> QED BY <1>s, <1>t, <2>1, <2>2, <2>3, <2>4
\* However many workers may count, there is room for them below the limit.
<1>r. ASSUME NEW e \in Email, Failed(e)' <= MaxFailed - 1
      PROVE  Failed(e)' + Cardinality(MayCount(e)') <= MaxFailed - 1 + Cardinality(Actor)
  <2>1. /\ Cardinality(MayCount(e)') \in Nat /\ Cardinality(Actor) \in Nat
        /\ Cardinality(MayCount(e)') <= Cardinality(Actor)
    BY ActorSets DEF MayCount
  <2>2. Failed(e)' \in Nat
    BY <1>t DEF TypeOK, Failed, Failures
  <2> QED BY <1>r, <1>t, <2>1, <2>2
<1>u. ASSUME UNCHANGED failed, \A e \in Email : MayCount(e)' \subseteq MayCount(e)
      PROVE  Lockout'
  <2>1. \A e \in Email : Failed(e)' <= Failed(e)
    BY <1>u, <1>t, FailedType DEF Failed
  <2> QED BY <1>u, <1>s, <2>1 DEF Lockout
\* A step that leaves the failures alone, of a call that is not about to count.
<1>n. ASSUME UNCHANGED failed, NEW a \in Actor,
             \A b \in Actor \ {a} : call'[b] = call[b],
             call'[a].pc \notin {"verify", "prune", "evict", "count"}
      PROVE  Lockout'
  BY <1>u, <1>n DEF MayCount
<1>1. ASSUME NEW a \in Actor, Unlock(a)
      PROVE  Lockout'
  <2>1. call[a].key \in Email /\ failed' = [failed EXCEPT ![call[a].key] = None]
    BY <1>1, <1>t DEF Unlock, At, CallsWellFormed
  <2>2. /\ call'[a].key = call[a].key
        /\ \A b \in Actor \ {a} : call'[b] = call[b]
    BY <1>1, <1>t DEF Unlock, Goto, Call
  <2> SUFFICES ASSUME NEW e \in Email
               PROVE  Failed(e)' + Cardinality(MayCount(e)') <= MaxFailed - 1 + Cardinality(Actor)
    BY DEF Lockout
  <2>3. CASE e = call[a].key
    BY <2>1, <2>3, <1>r, <1>t DEF Failed
  <2>4. CASE e # call[a].key
    <3>1. MayCount(e)' \subseteq MayCount(e)
      BY <2>2, <2>4 DEF MayCount
    <3>2. Failed(e)' <= Failed(e)
      BY <2>1, <2>4, <1>t, FailedType DEF Failed
    <3> QED BY <3>1, <3>2, <1>s
  <2> QED BY <2>3, <2>4
<1>2. ASSUME NEW a \in Actor, VerifyUnknown(a) \/ VerifyWrong(a)
      PROVE  Lockout'
  <2>1. /\ call'[a].key = call[a].key /\ call[a].pc = "verify" /\ call'[a].pc = "prune"
        /\ \A b \in Actor \ {a} : call'[b] = call[b]
    <3>1. CASE VerifyUnknown(a)
      BY <3>1, <1>t DEF VerifyUnknown, Goto, At, Call
    <3>2. CASE VerifyWrong(a)
      BY <3>2, <1>t DEF VerifyWrong, At, Call
    <3> QED BY <1>2, <3>1, <3>2
  <2>2. \A e \in Email : MayCount(e)' \subseteq MayCount(e)
    BY <2>1 DEF MayCount
  <2>3. UNCHANGED failed
    BY <1>2 DEF VerifyUnknown, VerifyWrong
  <2> QED BY <2>2, <2>3, <1>u
<1>3. ASSUME NEW a \in Actor, VerifyDisabled(a) \/ Create(a) \/ Oust(a) \/ RegisterInsert(a)
      PROVE  Lockout'
  <2>1. call' = [call EXCEPT ![a] = Idle] /\ UNCHANGED failed
    BY <1>3 DEF VerifyDisabled, Create, Oust, RegisterInsert, Return
  <2> QED BY <2>1, <1>t, <1>n DEF Idle
<1>4. ASSUME NEW a \in Actor, VerifyRight(a)
      PROVE  Lockout'
  <2>1. /\ call'[a].pc \in {"idle", "create"}
        /\ \A b \in Actor \ {a} : call'[b] = call[b]
    <3>1. Return(a) \/ Draw(a, Found(call[a].key))
      BY <1>4 DEF VerifyRight
    <3>2. CASE Return(a)
      BY <3>2, <1>t DEF Return, Idle
    <3>3. CASE Draw(a, Found(call[a].key))
      BY <3>3, <1>t DEF Draw, Idle
    <3> QED BY <3>1, <3>2, <3>3
  <2>2. failed' = [failed EXCEPT ![call[a].key] = None]
    BY <1>4 DEF VerifyRight
  <2> SUFFICES ASSUME NEW e \in Email
               PROVE  Failed(e)' + Cardinality(MayCount(e)') <= MaxFailed - 1 + Cardinality(Actor)
    BY DEF Lockout
  <2>3. MayCount(e)' \subseteq MayCount(e)
    BY <2>1 DEF MayCount
  <2>4. Failed(e)' <= Failed(e)
    BY <2>2, <1>t, FailedType DEF Failed
  <2> QED BY <2>3, <2>4, <1>s
<1>5. ASSUME NEW a \in Actor, Prune(a)
      PROVE  Lockout'
  <2>1. /\ call'[a].key = call[a].key /\ call[a].pc = "prune"
        /\ \A b \in Actor \ {a} : call'[b] = call[b]
    BY <1>5, <1>t DEF Prune, At, Call
  <2>2. \A e \in Email : failed'[e] \in {failed[e], None}
    BY <1>5, <1>t DEF Prune
  <2> SUFFICES ASSUME NEW e \in Email
               PROVE  Failed(e)' + Cardinality(MayCount(e)') <= MaxFailed - 1 + Cardinality(Actor)
    BY DEF Lockout
  <2>3. MayCount(e)' \subseteq MayCount(e)
    BY <2>1 DEF MayCount
  <2>4. Failed(e)' <= Failed(e)
    BY <2>2, <1>t, FailedType DEF Failed
  <2> QED BY <2>3, <2>4, <1>s
<1>6. ASSUME NEW a \in Actor, Evict(a)
      PROVE  Lockout'
  <2>1. /\ call'[a].key = call[a].key /\ call[a].pc = "evict"
        /\ \A b \in Actor \ {a} : call'[b] = call[b]
    BY <1>6, <1>t DEF Evict, Goto, At, Call
  <2>2. failed' = [failed EXCEPT ![call[a].victim] = None]
    BY <1>6 DEF Evict
  <2> SUFFICES ASSUME NEW e \in Email
               PROVE  Failed(e)' + Cardinality(MayCount(e)') <= MaxFailed - 1 + Cardinality(Actor)
    BY DEF Lockout
  <2>3. MayCount(e)' \subseteq MayCount(e)
    BY <2>1 DEF MayCount
  <2>4. Failed(e)' <= Failed(e)
    BY <2>2, <1>t, FailedType DEF Failed
  <2> QED BY <2>3, <2>4, <1>s
<1>7. ASSUME NEW a \in Actor, Count(a)
      PROVE  Lockout'
  <2>1. /\ call[a].key \in Email /\ call[a].pc = "count" /\ call'[a].pc = "idle"
        /\ \A b \in Actor \ {a} : call'[b] = call[b]
    BY <1>7, <1>t DEF Count, At, CallsWellFormed, Return, Idle
  <2>2. failed' = [failed EXCEPT ![call[a].key] = Counting(@, call[a].at)]
    BY <1>7 DEF Count
  <2> SUFFICES ASSUME NEW e \in Email
               PROVE  Failed(e)' + Cardinality(MayCount(e)') <= MaxFailed - 1 + Cardinality(Actor)
    BY DEF Lockout
  <2>3. CASE e # call[a].key
    <3>1. MayCount(e)' \subseteq MayCount(e)
      BY <2>1 DEF MayCount
    <3>2. Failed(e)' <= Failed(e)
      BY <2>2, <2>3, <1>t, FailedType DEF Failed
    <3> QED BY <3>1, <3>2, <1>s
  <2>4. CASE e = call[a].key
    <3>1. MayCount(e)' = MayCount(e) \ {a} /\ a \in MayCount(e)
      BY <2>1, <2>4 DEF MayCount
    <3>2. /\ IsFiniteSet(MayCount(e)) /\ Cardinality(MayCount(e)) \in Nat
          /\ Cardinality(Actor) \in Nat
      BY ActorSets DEF MayCount
    <3>3. Cardinality(MayCount(e)') = Cardinality(MayCount(e)) - 1
      BY <3>1, <3>2, FS_RemoveElement
    <3>4. Failed(e) \in Nat /\ Failed(e)' \in Nat /\ Failed(e)' <= Failed(e) + 1
      <4>1. Failed(e) \in Nat /\ Failed(e)' \in Nat
        BY <1>t DEF TypeOK, Failed, Failures
      <4>2. failed'[e] = Counting(failed[e], call[a].at)
        BY <2>2, <2>4, <1>t
      <4>3. CASE failed[e] = None
        BY <4>2, <4>3 DEF Failed, Counting
      <4>4. CASE failed[e] # None
        <5>1. failed[e] \in Failures
          BY <1>t, <4>4
        <5>2. failed'[e].count = failed[e].count + 1
          BY <4>2, <4>4, <5>1 DEF Counting, Failures
        <5> QED BY <4>1, <4>4, <5>2 DEF Failed
      <4> QED BY <4>1, <4>3, <4>4
    <3>5. Failed(e) + Cardinality(MayCount(e)) <= MaxFailed - 1 + Cardinality(Actor)
      BY DEF Lockout
    <3> QED BY <3>2, <3>3, <3>4, <3>5, <1>t
  <2> QED BY <2>3, <2>4
<1>8. ASSUME NEW a \in Actor, NEW e \in {Normal[e] : e \in Email}, Login(a, e)
      PROVE  Lockout'
  <2>1. /\ e \in Email /\ call' = [call EXCEPT ![a] = [Idle EXCEPT !.pc = "verify", !.key = e]]
        /\ UNCHANGED failed
    BY <1>8, IdentityAssumption DEF Login, Begin
  <2> SUFFICES ASSUME NEW f \in Email
               PROVE  Failed(f)' + Cardinality(MayCount(f)') <= MaxFailed - 1 + Cardinality(Actor)
    BY DEF Lockout
  <2>2. CASE f = e
    <3>1. Failed(e)' <= MaxFailed - 1
      BY <1>8, <2>1, <1>t DEF Login, Full, Failed, Failures
    <3> QED BY <2>2, <3>1, <1>r
  <2>3. CASE f # e
    <3>1. MayCount(f)' \subseteq MayCount(f)
      BY <2>1, <2>3, <1>t DEF MayCount, Idle
    <3>2. Failed(f)' <= Failed(f)
      BY <2>1, <1>t, FailedType DEF Failed
    <3> QED BY <3>1, <3>2, <1>s
  <2> QED BY <2>2, <2>3
<1>9. ASSUME NEW a \in Actor, NEW e, LoginAfterWindow(a, e)
      PROVE  Lockout'
  <2>1. /\ call' = [call EXCEPT ![a] = [Idle EXCEPT !.pc = "unlock", !.key = e]]
        /\ UNCHANGED failed
    BY <1>9 DEF LoginAfterWindow, Begin
  <2> QED BY <2>1, <1>t, <1>n DEF Idle
<1>10. ASSUME NEW a \in Actor, NEW u \in User, NEW e \in Email, NEW r \in Role, Register(a, u, e, r)
       PROVE  Lockout'
  <2> DEFINE n == [email |-> e, role |-> r, enabled |-> TRUE, mfa |-> FALSE, seeded |-> FALSE]
  <2>1. /\ call' = [call EXCEPT ![a] = [Idle EXCEPT !.pc = "persist", !.user = u, !.new = n]]
        /\ UNCHANGED failed
    BY <1>10 DEF Register, Begin
  <2> HIDE DEF n
  <2> QED BY <2>1, <1>t, <1>n DEF Idle
<1>11. ASSUME NEW a \in Actor, RegisterPersist(a) \/ RegisterIndex(a)
       PROVE  Lockout'
  <2>1. /\ call'[a].pc \in {"index", "insert"}
        /\ \A b \in Actor \ {a} : call'[b] = call[b]
    BY <1>11, <1>t DEF RegisterPersist, RegisterIndex, Goto, Call
  <2>2. UNCHANGED failed
    BY <1>11 DEF RegisterPersist, RegisterIndex
  <2> QED BY <2>1, <2>2, <1>n
<1>12. ASSUME NEW a \in Actor, NEW u \in User, MfaLogin(a, u)
       PROVE  Lockout'
  <2>1. /\ call'[a].pc = "create" /\ UNCHANGED failed
        /\ \A b \in Actor \ {a} : call'[b] = call[b]
    BY <1>12, <1>t DEF MfaLogin, Draw, Idle
  <2> QED BY <2>1, <1>n
<1>13. ASSUME NEW a \in Actor, NEW u \in User, Enroll(a, u) \/ VerifyMfa(a, u) \/ DisableMfa(a, u)
       PROVE  Lockout'
  <2>1. UNCHANGED <<call, failed>>
    BY <1>13 DEF Enroll, VerifyMfa, DisableMfa
  <2> QED BY <2>1, <1>u DEF MayCount
<1>14. ASSUME NEW a \in Actor, NEW u \in User,
              DisableUser(a, u) \/ LogoutAll(a, u) \/ \E r \in Role : UpdateRole(a, u, r)
       PROVE  Lockout'
  <2>1. /\ call' = [call EXCEPT ![a] = [Idle EXCEPT !.pc = "oust", !.user = u]]
        /\ UNCHANGED failed
    BY <1>14 DEF DisableUser, LogoutAll, UpdateRole, Begin
  <2> QED BY <2>1, <1>t, <1>n DEF Idle
<1>15. ASSUME (\E t \in Token : SessionEnds(t)) \/ Tick \/ UNCHANGED vars
       PROVE  Lockout'
  <2>1. UNCHANGED <<call, failed>>
    BY <1>15 DEF SessionEnds, Tick, vars
  <2> QED BY <2>1, <1>u DEF MayCount
<1>16. CASE Restart
  <2>1. \A e \in Email : Failed(e)' = 0
    BY <1>16 DEF Restart, Failed
  <2> QED BY <2>1, <1>r, <1>t DEF Lockout
<1> QED
  BY <1>1, <1>2, <1>3, <1>4, <1>5, <1>6, <1>7, <1>8, <1>9, <1>10, <1>11, <1>12, <1>13, <1>14,
     <1>15, <1>16 DEF Next, Authenticating

\* However many workers try passwords for one address at the same time, and
\* whatever the full map evicts meanwhile, the failures counted pass the limit
\* by at most the other workers (lockout_check, record_failure).
THEOREM LockoutIsBounded == Spec => []LockoutOvershoot
<1>1. Init => Typed /\ Lockout
  <2> SUFFICES ASSUME Init PROVE Typed /\ Lockout
    OBVIOUS
  <2>1. Typed
    BY TypeInit
  <2>2. ASSUME NEW e \in Email
        PROVE  Failed(e) + Cardinality(MayCount(e)) <= MaxFailed - 1 + Cardinality(Actor)
    <3>1. Failed(e) = 0
      BY DEF Init, Failed
    <3>2. /\ Cardinality(MayCount(e)) \in Nat /\ Cardinality(Actor) \in Nat
          /\ Cardinality(MayCount(e)) <= Cardinality(Actor)
      BY ActorSets DEF MayCount
    <3> QED BY <3>1, <3>2, IdentityAssumption
  <2> QED BY <2>1, <2>2 DEF Lockout
<1>2. Typed /\ Lockout /\ [Next]_vars => Typed' /\ Lockout'
  BY TypeStep, LockoutStep
<1>3. Typed /\ Lockout => LockoutOvershoot
  <2> SUFFICES ASSUME Typed, Lockout, NEW e \in Counted
               PROVE  failed[e].count <= MaxFailed + Cardinality(Actor) - 1
    BY DEF LockoutOvershoot
  <2>1. e \in Email /\ Failed(e) = failed[e].count /\ Failed(e) \in Nat
    BY FailedType DEF Counted, Failed, Typed
  <2>2. Cardinality(MayCount(e)) \in Nat /\ Cardinality(Actor) \in Nat
    BY ActorSets DEF MayCount
  <2>3. Failed(e) + Cardinality(MayCount(e)) <= MaxFailed - 1 + Cardinality(Actor)
    BY <2>1 DEF Lockout
  <2> QED BY <2>1, <2>2, <2>3, IdentityAssumption
<1> QED BY <1>1, <1>2, <1>3, PTL DEF Spec
-----------------------------------------------------------------------------
(* Rows.  An account has its row, or another account of its address has one. *)

HasRow(u, acct) ==
  \/ rows[u] = acct
  \/ /\ rows[u] = None
     /\ \E v \in User \ {u} : rows[v] # None /\ rows[v].email = acct.email

RowsKept ==
  /\ \A u \in User : users[u] # None => HasRow(u, users[u])
  /\ \A a \in Actor : call[a].pc = "persist" => rows[call[a].user] = None
  /\ \A a \in Actor : call[a].pc \in {"index", "insert"} => HasRow(call[a].user, call[a].new)

\* INSERT OR REPLACE gives its own account a row, and takes another's only for
\* the same address.
LEMMA PersistKeeps ==
  ASSUME TypeOK, NEW w \in User, NEW new \in Account, Persist(w, new),
         rows[w] = None \/ rows[w].email = new.email
  PROVE  /\ HasRow(w, new)'
         /\ \A u \in User \ {w}, acct \in Account : HasRow(u, acct) => HasRow(u, acct)'
         /\ \A u \in User \ {w} : rows[u] = None => rows'[u] = None
<1>1. /\ rows'[w] = new /\ rows'[w] # None
      /\ \A v \in User \ {w} :
           rows'[v] = IF rows[v] # None /\ rows[v].email = new.email THEN None ELSE rows[v]
  BY IdentityAssumption DEF Persist
<1>2. HasRow(w, new)'
  BY <1>1 DEF HasRow
<1>3. ASSUME NEW u \in User \ {w}, NEW acct \in Account, HasRow(u, acct)
      PROVE  HasRow(u, acct)'
  <2>1. CASE rows[u] = acct /\ acct.email # new.email
    BY <1>1, <2>1 DEF HasRow
  <2>2. CASE rows[u] = acct /\ acct.email = new.email
    <3>1. rows'[u] = None
      BY <1>1, <2>2, IdentityAssumption
    <3> QED BY <1>1, <2>2, <3>1 DEF HasRow
  <2>3. CASE rows[u] = None /\ \E v \in User \ {u} : rows[v] # None /\ rows[v].email = acct.email
    <3>1. PICK v \in User \ {u} : rows[v] # None /\ rows[v].email = acct.email
      BY <2>3
    <3>2. rows'[u] = None
      BY <1>1, <2>3
    <3>3. CASE v = w \/ rows[v].email = new.email
      <4>1. rows'[w] # None /\ rows'[w].email = acct.email
        BY <1>1, <3>1, <3>3
      <4> QED BY <3>2, <4>1 DEF HasRow
    <3>4. CASE v # w /\ rows[v].email # new.email
      <4>1. rows'[v] # None /\ rows'[v].email = acct.email
        BY <1>1, <3>1, <3>4
      <4> QED BY <3>2, <4>1 DEF HasRow
    <3> QED BY <3>3, <3>4
  <2> QED BY <1>3, <2>1, <2>2, <2>3 DEF HasRow
<1>4. \A u \in User \ {w} : rows[u] = None => rows'[u] = None
  BY <1>1
<1> QED BY <1>2, <1>3, <1>4

LEMMA UpdateKeepsRows ==
  ASSUME Typed, Newcomers, RowsKept, NEW u \in User, NEW acct \in Account, Update(u, acct),
         users[u] # None, acct.email = users[u].email,
         \A b \in Actor : call'[b].pc \in {"persist", "index", "insert"} => call'[b] = call[b]
  PROVE  RowsKept'
<1>1. /\ users' = [users EXCEPT ![u] = acct] /\ Persist(u, acct)
      /\ users \in [User -> Account \cup {None}]
  BY DEF Update, Typed, TypeOK
<1>2. rows[u] = None \/ rows[u].email = acct.email
  BY DEF RowsKept, HasRow
<1>3. /\ HasRow(u, acct)'
      /\ \A v \in User \ {u}, other \in Account : HasRow(v, other) => HasRow(v, other)'
      /\ \A v \in User \ {u} : rows[v] = None => rows'[v] = None
  BY <1>1, <1>2, PersistKeeps DEF Typed
<1>4. ASSUME NEW v \in User, users'[v] # None
      PROVE  HasRow(v, users[v])' \/ v = u
  <2>1. CASE v # u
    <3>1. users[v] # None /\ users[v] \in Account
      BY <1>1, <1>4, <2>1
    <3>2. HasRow(v, users[v])
      BY <3>1 DEF RowsKept
    <3>3. users'[v] = users[v]
      BY <1>1, <2>1
    <3>4. \A other \in Account : HasRow(v, other) => HasRow(v, other)'
      BY <1>3, <2>1
    <3>5. PICK other \in Account : other = users[v]
      BY <3>1
    <3>6. HasRow(v, other)'
      BY <3>2, <3>4, <3>5
    <3> QED BY <3>3, <3>5, <3>6 DEF HasRow
  <2> QED BY <2>1
<1>5. \A v \in User : users'[v] # None => HasRow(v, users[v])'
  <2>1. users'[u] = acct
    BY <1>1
  <2> QED BY <1>3, <1>4, <2>1 DEF HasRow
<1>6. ASSUME NEW a \in Actor, call'[a].pc \in {"persist", "index", "insert"}
      PROVE  /\ call'[a].pc = "persist" => rows'[call'[a].user] = None
             /\ call'[a].pc \in {"index", "insert"} => HasRow(call[a].user, call[a].new)'
  <2>1. call'[a] = call[a] /\ Registering(a)
    BY <1>6 DEF Registering
  <2>2. call[a].user \in User \ {u} /\ call[a].new \in Account
    BY <2>1 DEF Newcomers, Typed, CallsWellFormed
  <2>3. call[a].pc = "persist" => rows'[call[a].user] = None
    BY <1>3, <2>2 DEF RowsKept
  <2>4. PICK v \in User \ {u}, other \in Account : v = call[a].user /\ other = call[a].new
    BY <2>2
  <2>5. call[a].pc \in {"index", "insert"} => HasRow(v, other)'
    BY <1>3, <2>4 DEF RowsKept
  <2> QED BY <2>1, <2>3, <2>4, <2>5 DEF HasRow
<1> QED BY <1>5, <1>6 DEF RowsKept

LEMMA RowsStep == Typed /\ OustInv /\ RowsKept /\ [Next]_vars => RowsKept'
<1> SUFFICES ASSUME Typed, OustInv, RowsKept, [Next]_vars
             PROVE  RowsKept'
  OBVIOUS
<1>t. /\ TypeOK /\ CallsWellFormed /\ call \in [Actor -> Call] /\ Newcomers
      /\ users \in [User -> Account \cup {None}] /\ rows \in [User -> Account \cup {None}]
  BY DEF Typed, TypeOK, OustInv
\* A step that leaves the accounts alone and starts no registration.
<1>s. ASSUME users' = users, rows' = rows, \A b \in Actor : Registering(b)' => call'[b] = call[b]
      PROVE  RowsKept'
  BY <1>s DEF RowsKept, HasRow, Registering
<1>1. ASSUME NEW a \in Actor,
             \/ Unlock(a) \/ VerifyUnknown(a) \/ VerifyDisabled(a) \/ VerifyWrong(a)
             \/ Prune(a) \/ Evict(a) \/ Count(a) \/ Create(a) \/ Oust(a)
      PROVE  RowsKept'
  <2>1. \A b \in Actor : Registering(b)' => call'[b] = call[b]
    <3>1. ASSUME Unlock(a) \/ VerifyUnknown(a) \/ VerifyWrong(a) \/ Evict(a)
          PROVE  \A b \in Actor : Registering(b)' => call'[b] = call[b]
      BY <3>1, <1>t DEF Unlock, VerifyUnknown, VerifyWrong, Evict, Goto, Registering, Call
    <3>2. ASSUME Prune(a)
          PROVE  \A b \in Actor : Registering(b)' => call'[b] = call[b]
      BY <3>2, <1>t DEF Prune, Registering, Call
    <3>3. ASSUME VerifyDisabled(a) \/ Count(a) \/ Create(a) \/ Oust(a)
          PROVE  \A b \in Actor : Registering(b)' => call'[b] = call[b]
      BY <3>3, <1>t DEF VerifyDisabled, Count, Create, Oust, Return, Registering, Idle
    <3> QED BY <1>1, <3>1, <3>2, <3>3
  <2>2. users' = users /\ rows' = rows
    BY <1>1 DEF Unlock, VerifyUnknown, VerifyDisabled, VerifyWrong, Prune, Evict, Count, Create, Oust,
                accounts
  <2> QED BY <1>s, <2>1, <2>2
<1>2. ASSUME NEW a \in Actor, VerifyRight(a) \/ \E u \in User : MfaLogin(a, u)
      PROVE  RowsKept'
  <2>1. \/ Return(a) /\ UNCHANGED accounts
        \/ \E u \in User : users[u] # None /\ Draw(a, u) /\ Update(u, users[u])
    BY <1>2, <1>t, FoundType DEF VerifyRight, MfaLogin, Writable, CallsWellFormed, At
  <2>2. CASE Return(a) /\ UNCHANGED accounts
    BY <2>2, <1>s, <1>t DEF Return, Registering, Idle, accounts
  <2>3. ASSUME NEW u \in User, users[u] # None, Draw(a, u), Update(u, users[u])
        PROVE  RowsKept'
    <3>1. \A b \in Actor : Registering(b)' => call'[b] = call[b]
      BY <2>3, <1>t DEF Draw, Registering, Idle
    <3>2. users[u] \in Account
      BY <2>3, <1>t
    <3> QED BY <2>3, <3>1, <3>2, <1>t, UpdateKeepsRows DEF Registering
  <2> QED BY <2>1, <2>2, <2>3
<1>3. ASSUME NEW a \in Actor, NEW e, Login(a, e) \/ LoginAfterWindow(a, e)
      PROVE  RowsKept'
  <2>1. \A b \in Actor : Registering(b)' => call'[b] = call[b]
    BY <1>3, <1>t DEF Login, LoginAfterWindow, Begin, Registering, Idle
  <2> QED BY <1>3, <1>s, <2>1 DEF Login, LoginAfterWindow, accounts
<1>4. ASSUME NEW a \in Actor, NEW u \in User, LogoutAll(a, u)
      PROVE  RowsKept'
  <2>1. \A b \in Actor : Registering(b)' => call'[b] = call[b]
    BY <1>4, <1>t DEF LogoutAll, Begin, Registering, Idle
  <2> QED BY <1>4, <1>s, <2>1 DEF LogoutAll, accounts
<1>5. ASSUME NEW a \in Actor, NEW u \in User, NEW e \in Email, NEW r \in Role, Register(a, u, e, r)
      PROVE  RowsKept'
  <2>1. /\ call'[a].user = u /\ call'[a].pc = "persist" /\ rows[u] = None
        /\ \A b \in Actor \ {a} : call'[b] = call[b]
        /\ users' = users /\ rows' = rows
    BY <1>5, <1>t DEF Register, Begin, Idle, accounts
  <2> QED BY <2>1 DEF RowsKept, HasRow
<1>6. ASSUME NEW a \in Actor, RegisterPersist(a)
      PROVE  RowsKept'
  <2>1. PICK u \in User, new \in Account : u = call[a].user /\ new = call[a].new
    BY <1>6, <1>t DEF RegisterPersist, At, Registering, CallsWellFormed
  <2>2. Persist(u, new) /\ rows[u] = None /\ users[u] = None /\ users' = users
    BY <1>6, <1>t, <2>1 DEF RegisterPersist, At, RowsKept, Newcomers, Registering
  <2>3. /\ HasRow(u, new)'
        /\ \A v \in User \ {u}, other \in Account : HasRow(v, other) => HasRow(v, other)'
        /\ \A v \in User \ {u} : rows[v] = None => rows'[v] = None
    BY <2>2, <1>t, PersistKeeps
  <2>4. /\ call'[a].user = u /\ call'[a].new = new /\ call'[a].pc = "index" /\ Registering(a)
        /\ \A b \in Actor \ {a} : call'[b] = call[b]
    BY <1>6, <1>t, <2>1 DEF RegisterPersist, Goto, At, Call, Registering
  <2>5. ASSUME NEW v \in User, users'[v] # None
        PROVE  HasRow(v, users[v])'
    <3>1. v # u /\ users[v] \in Account /\ HasRow(v, users[v])
      BY <2>2, <2>5, <1>t DEF RowsKept
    <3>2. PICK other \in Account : other = users[v]
      BY <3>1
    <3>3. HasRow(v, other)'
      BY <2>3, <3>1, <3>2
    <3> QED BY <2>2, <3>2, <3>3 DEF HasRow
  <2>6. ASSUME NEW b \in Actor, call'[b].pc \in {"persist", "index", "insert"}
        PROVE  /\ call'[b].pc = "persist" => rows'[call'[b].user] = None
               /\ call'[b].pc \in {"index", "insert"} => HasRow(call[b].user, call[b].new)'
    <3>1. CASE b = a
      BY <2>3, <2>4, <3>1 DEF HasRow
    <3>2. CASE b # a
      <4>1. call'[b] = call[b] /\ Registering(b) /\ call[b].user # u
        BY <2>1, <2>4, <2>6, <3>2, <1>t DEF Registering, Newcomers
      <4>2. PICK v \in User \ {u}, other \in Account : v = call[b].user /\ other = call[b].new
        BY <4>1, <1>t DEF CallsWellFormed
      <4>3. call[b].pc = "persist" => rows'[v] = None
        BY <2>3, <4>2 DEF RowsKept
      <4>4. call[b].pc \in {"index", "insert"} => HasRow(v, other)'
        BY <2>3, <4>2 DEF RowsKept
      <4> QED BY <4>1, <4>2, <4>3, <4>4 DEF HasRow
    <3> QED BY <3>1, <3>2
  <2> QED BY <2>5, <2>6 DEF RowsKept
<1>7. ASSUME NEW a \in Actor, RegisterIndex(a)
      PROVE  RowsKept'
  <2>1. /\ call'[a].user = call[a].user /\ call'[a].new = call[a].new
        /\ call[a].pc = "index" /\ call'[a].pc = "insert"
        /\ \A b \in Actor \ {a} : call'[b] = call[b]
    BY <1>7, <1>t DEF RegisterIndex, Goto, At, Call
  <2>2. UNCHANGED <<users, rows>>
    BY <1>7 DEF RegisterIndex
  <2> QED BY <2>1, <2>2 DEF RowsKept, HasRow
<1>8. ASSUME NEW a \in Actor, RegisterInsert(a)
      PROVE  RowsKept'
  <2>1. /\ call'[a].pc = "idle" /\ \A b \in Actor \ {a} : call'[b] = call[b]
    BY <1>8, <1>t DEF RegisterInsert, Return, Idle
  <2>2. /\ HasRow(call[a].user, call[a].new) /\ users' = [users EXCEPT ![call[a].user] = call[a].new]
        /\ rows' = rows
    BY <1>8 DEF RegisterInsert, At, RowsKept
  <2> QED BY <2>1, <2>2, <1>t DEF RowsKept, HasRow
<1>9. ASSUME NEW a \in Actor, NEW u \in User,
             \/ Enroll(a, u) \/ VerifyMfa(a, u) \/ DisableMfa(a, u)
             \/ DisableUser(a, u) \/ \E r \in Role : UpdateRole(a, u, r)
      PROVE  RowsKept'
  <2>1. users[u] # None /\ users[u] \in Account
    BY <1>9, <1>t, WritableType
       DEF Enroll, VerifyMfa, DisableMfa, DisableUser, UpdateRole, Writable
  <2>2. PICK acct \in Account : Update(u, acct) /\ acct.email = users[u].email
    <3>1. /\ [users[u] EXCEPT !.seeded = TRUE] \in Account
          /\ [users[u] EXCEPT !.mfa = TRUE] \in Account
          /\ [users[u] EXCEPT !.mfa = FALSE, !.seeded = FALSE] \in Account
          /\ [users[u] EXCEPT !.enabled = FALSE] \in Account
          /\ \A r \in Role : [users[u] EXCEPT !.role = r] \in Account
      BY <2>1 DEF Account
    <3>2. /\ [users[u] EXCEPT !.seeded = TRUE].email = users[u].email
          /\ [users[u] EXCEPT !.mfa = TRUE].email = users[u].email
          /\ [users[u] EXCEPT !.mfa = FALSE, !.seeded = FALSE].email = users[u].email
          /\ [users[u] EXCEPT !.enabled = FALSE].email = users[u].email
          /\ \A r \in Role : [users[u] EXCEPT !.role = r].email = users[u].email
      BY <2>1 DEF Account
    <3> QED BY <1>9, <3>1, <3>2 DEF Enroll, VerifyMfa, DisableMfa, DisableUser, UpdateRole
  <2>3. \A b \in Actor : Registering(b)' => call'[b] = call[b]
    BY <1>9, <1>t DEF Enroll, VerifyMfa, DisableMfa, DisableUser, UpdateRole, Begin, Registering, Idle
  <2> QED BY <2>1, <2>2, <2>3, <1>t, UpdateKeepsRows DEF Registering
<1>10. ASSUME (\E t \in Token : SessionEnds(t)) \/ Tick \/ UNCHANGED vars
       PROVE  RowsKept'
  BY <1>10, <1>s DEF SessionEnds, Tick, vars, accounts
<1>11. CASE Restart
  <2>1. \A b \in Actor : call'[b].pc = "idle"
    BY <1>11 DEF Restart, Idle
  <2>2. users' = rows /\ rows' = rows
    BY <1>11 DEF Restart
  <2> QED BY <2>1, <2>2 DEF RowsKept, HasRow
<1> QED
  BY <1>1, <1>2, <1>3, <1>4, <1>5, <1>6, <1>7, <1>8, <1>9, <1>10, <1>11 DEF Next, Authenticating
-----------------------------------------------------------------------------
(* The index.  Whoever goes by an address, in the map or about to be inserted, *)
(* is found by it, unless somebody else goes by it too or the index has been   *)
(* reloaded and the address was typed in another form.                        *)

Claims(u, e) ==
  \/ users[u] # None /\ Normal[users[u].email] = e
  \/ \E a \in Actor : call[a].pc = "insert" /\ call[a].user = u /\ Normal[call[a].new.email] = e

Reloaded(u, e) ==
  restarts > 0 /\ users[u] # None /\ Normal[users[u].email] = e /\ users[u].email # e

Claimed == \A u \in User, e \in Email : Claims(u, e) =>
  \/ index[e] = u
  \/ \E v \in User \ {u} : Claims(v, e)
  \/ Reloaded(u, e)

\* A step that leaves the index and everybody's address alone.
LEMMA ClaimsFrame ==
  ASSUME Claimed, index' = index,
         \A u \in User, e \in Email : Claims(u, e)' <=> Claims(u, e),
         \A u \in User, e \in Email : Reloaded(u, e) => Reloaded(u, e)'
  PROVE  Claimed'
BY DEF Claimed

LEMMA CallsFrame ==
  ASSUME Claimed, UNCHANGED <<users, index, restarts>>,
         \A b \in Actor : call[b].pc = "insert" \/ call'[b].pc = "insert" => call'[b] = call[b]
  PROVE  Claimed'
<1>1. ASSUME NEW u \in User, NEW e \in Email
      PROVE  (Claims(u, e)' <=> Claims(u, e)) /\ (Reloaded(u, e) => Reloaded(u, e)')
  BY DEF Claims, Reloaded
<1> QED BY <1>1, ClaimsFrame

\* An account keeps its address for life.
LEMMA UpdateKeepsClaims ==
  ASSUME Typed, Claimed, NEW w \in User, NEW acct \in Account, Update(w, acct),
         users[w] # None, acct.email = users[w].email, restarts' = restarts,
         \A b \in Actor : call[b].pc = "insert" \/ call'[b].pc = "insert" => call'[b] = call[b]
  PROVE  Claimed'
<1>1. /\ index' = index /\ users'[w] = acct /\ users'[w] # None
      /\ \A u \in User \ {w} : users'[u] = users[u]
  BY IdentityAssumption DEF Update, Typed, TypeOK
<1>2. ASSUME NEW u \in User
      PROVE  (users'[u] # None <=> users[u] # None) /\ (users[u] # None => users'[u].email = users[u].email)
  BY <1>1
<1>3. ASSUME NEW u \in User, NEW e \in Email
      PROVE  (Claims(u, e)' <=> Claims(u, e)) /\ (Reloaded(u, e) => Reloaded(u, e)')
  <2>1. (\E a \in Actor : call[a].pc = "insert" /\ call[a].user = u /\ Normal[call[a].new.email] = e)' <=>
        (\E a \in Actor : call[a].pc = "insert" /\ call[a].user = u /\ Normal[call[a].new.email] = e)
    OBVIOUS
  <2> QED BY <1>2, <2>1 DEF Claims, Reloaded
<1> QED BY <1>1, <1>3, ClaimsFrame

LEMMA ClaimedStep == Typed /\ OustInv /\ Claimed /\ [Next]_vars => Claimed'
<1> SUFFICES ASSUME Typed, OustInv, Claimed, [Next]_vars
             PROVE  Claimed'
  OBVIOUS
<1> DEFINE Same == \A b \in Actor : call[b].pc = "insert" \/ call'[b].pc = "insert" => call'[b] = call[b]
<1>t. /\ TypeOK /\ CallsWellFormed /\ call \in [Actor -> Call] /\ Newcomers
      /\ users \in [User -> Account \cup {None}] /\ rows \in [User -> Account \cup {None}]
      /\ index \in [Email -> User \cup {None}] /\ restarts \in Nat
  BY IdentityAssumption DEF Typed, TypeOK, OustInv
<1>1. ASSUME NEW a \in Actor,
             \/ Unlock(a) \/ VerifyUnknown(a) \/ VerifyDisabled(a) \/ VerifyWrong(a)
             \/ Prune(a) \/ Evict(a) \/ Count(a) \/ Create(a) \/ Oust(a)
      PROVE  Claimed'
  <2>1. Same
    <3>1. ASSUME Unlock(a) \/ VerifyUnknown(a) \/ VerifyWrong(a) \/ Evict(a) PROVE Same
      BY <3>1, <1>t DEF Unlock, VerifyUnknown, VerifyWrong, Evict, Goto, At, Call
    <3>2. ASSUME Prune(a) PROVE Same
      BY <3>2, <1>t DEF Prune, At, Call
    <3>3. ASSUME VerifyDisabled(a) \/ Count(a) \/ Create(a) \/ Oust(a) PROVE Same
      BY <3>3, <1>t DEF VerifyDisabled, Count, Create, Oust, Return, At, Idle
    <3> QED BY <1>1, <3>1, <3>2, <3>3
  <2>2. UNCHANGED <<users, index, restarts>>
    BY <1>1 DEF Unlock, VerifyUnknown, VerifyDisabled, VerifyWrong, Prune, Evict, Count, Create, Oust,
                accounts
  <2> QED BY <2>1, <2>2, CallsFrame
<1>2. ASSUME NEW a \in Actor, VerifyRight(a) \/ \E u \in User : MfaLogin(a, u)
      PROVE  Claimed'
  <2>0. call[a].pc # "insert" /\ restarts' = restarts
    BY <1>2 DEF VerifyRight, MfaLogin, At
  <2>1. \/ Return(a) /\ UNCHANGED accounts
        \/ \E u \in User : users[u] # None /\ Draw(a, u) /\ Update(u, users[u])
    BY <1>2, <1>t, FoundType DEF VerifyRight, MfaLogin, Writable, CallsWellFormed, At
  <2>2. CASE Return(a) /\ UNCHANGED accounts
    <3>1. Same
      BY <2>0, <2>2, <1>t DEF Return, Idle
    <3> QED BY <2>0, <2>2, <3>1, CallsFrame DEF accounts
  <2>3. ASSUME NEW u \in User, users[u] # None, Draw(a, u), Update(u, users[u])
        PROVE  Claimed'
    <3>1. Same
      BY <2>0, <2>3, <1>t DEF Draw, Idle
    <3>2. users[u] \in Account
      BY <2>3, <1>t
    <3> QED BY <2>0, <2>3, <3>1, <3>2, UpdateKeepsClaims
  <2> QED BY <2>1, <2>2, <2>3
<1>3. ASSUME NEW a \in Actor, NEW e, Login(a, e) \/ LoginAfterWindow(a, e)
      PROVE  Claimed'
  <2>1. Same
    BY <1>3, <1>t DEF Login, LoginAfterWindow, Begin, At, Idle
  <2> QED BY <1>3, <2>1, CallsFrame DEF Login, LoginAfterWindow, accounts
<1>4. ASSUME NEW a \in Actor, NEW u \in User, LogoutAll(a, u)
      PROVE  Claimed'
  <2>1. Same
    BY <1>4, <1>t DEF LogoutAll, Begin, At, Idle
  <2> QED BY <1>4, <2>1, CallsFrame DEF LogoutAll, accounts
<1>5. ASSUME NEW a \in Actor, NEW u \in User, NEW e \in Email, NEW r \in Role, Register(a, u, e, r)
      PROVE  Claimed'
  <2>1. Same
    BY <1>5, <1>t DEF Register, Begin, At, Idle
  <2> QED BY <1>5, <2>1, CallsFrame DEF Register, accounts
<1>6. ASSUME NEW a \in Actor, RegisterPersist(a)
      PROVE  Claimed'
  <2>1. Same
    BY <1>6, <1>t DEF RegisterPersist, Goto, At, Call
  <2> QED BY <1>6, <2>1, CallsFrame DEF RegisterPersist
<1>7. ASSUME NEW a \in Actor, RegisterIndex(a)
      PROVE  Claimed'
  <2>1. PICK w \in User, k \in Email : w = call[a].user /\ k = Normal[call[a].new.email]
    BY <1>7, <1>t, IdentityAssumption DEF RegisterIndex, At, Registering, CallsWellFormed, Account
  <2>2. /\ call'[a].pc = "insert" /\ call'[a].user = w /\ Normal[call'[a].new.email] = k
        /\ call[a].pc = "index"
        /\ \A b \in Actor \ {a} : call'[b] = call[b]
        /\ UNCHANGED <<users, restarts>>
        /\ index'[k] = w /\ \A e \in Email \ {k} : index'[e] = index[e]
    BY <1>7, <1>t, <2>1 DEF RegisterIndex, Goto, At, Call
  <2>3. ASSUME NEW u \in User, NEW e \in Email
        PROVE  /\ Claims(u, e)' <=> Claims(u, e) \/ (u = w /\ e = k)
               /\ Reloaded(u, e) => Reloaded(u, e)'
    <3>1. (\E b \in Actor : call[b].pc = "insert" /\ call[b].user = u /\ Normal[call[b].new.email] = e)' <=>
          \/ \E b \in Actor : call[b].pc = "insert" /\ call[b].user = u /\ Normal[call[b].new.email] = e
          \/ u = w /\ e = k
      BY <2>2
    <3> QED BY <2>2, <3>1 DEF Claims, Reloaded
  <2>4. ASSUME NEW u \in User, NEW e \in Email, Claims(u, e)'
        PROVE  index'[e] = u \/ (\E v \in User \ {u} : Claims(v, e)') \/ Reloaded(u, e)'
    <3>1. CASE e = k
      BY <2>2, <2>3, <3>1
    <3>2. CASE e # k
      BY <2>2, <2>3, <2>4, <3>2 DEF Claimed
    <3> QED BY <3>1, <3>2
  <2> QED BY <2>4 DEF Claimed
<1>8. ASSUME NEW a \in Actor, RegisterInsert(a)
      PROVE  Claimed'
  <2>1. PICK w \in User, new \in Account : w = call[a].user /\ new = call[a].new
    BY <1>8, <1>t DEF RegisterInsert, At, Registering, CallsWellFormed
  <2>2. /\ call[a].pc = "insert" /\ call'[a].pc = "idle" /\ \A b \in Actor \ {a} : call'[b] = call[b]
        /\ users[w] = None /\ users'[w] = new /\ users'[w] # None
        /\ \A u \in User \ {w} : users'[u] = users[u]
        /\ UNCHANGED <<index, restarts>>
    BY <1>8, <1>t, <2>1, IdentityAssumption
    DEF RegisterInsert, Return, At, Idle, Newcomers, Registering
  <2>3. ASSUME NEW u \in User, NEW e \in Email
        PROVE  (Claims(u, e)' <=> Claims(u, e)) /\ (Reloaded(u, e) => Reloaded(u, e)')
    <3>1. CASE u # w
      BY <2>1, <2>2, <3>1 DEF Claims, Reloaded
    <3>2. CASE u = w
      <4>1. ~Reloaded(w, e)
        BY <2>2 DEF Reloaded
      <4>2. Claims(w, e) <=> Normal[new.email] = e
        <5>1. \A b \in Actor \ {a} : call[b].pc = "insert" => call[b].user # w
          BY <1>t, <2>1, <2>2 DEF Newcomers, Registering
        <5> QED BY <2>1, <2>2, <5>1 DEF Claims
      <4>3. Claims(w, e)' <=> Normal[new.email] = e
        <5>1. \A b \in Actor : call'[b].pc = "insert" => call'[b].user # w
          BY <1>t, <2>1, <2>2 DEF Newcomers, Registering
        <5> QED BY <2>2, <5>1 DEF Claims
      <4> QED BY <3>2, <4>1, <4>2, <4>3
    <3> QED BY <3>1, <3>2
  <2> QED BY <2>2, <2>3, ClaimsFrame
<1>9. ASSUME NEW a \in Actor, NEW u \in User,
             \/ Enroll(a, u) \/ VerifyMfa(a, u) \/ DisableMfa(a, u)
             \/ DisableUser(a, u) \/ \E r \in Role : UpdateRole(a, u, r)
      PROVE  Claimed'
  <2>1. users[u] # None /\ users[u] \in Account
    BY <1>9, <1>t, WritableType
       DEF Enroll, VerifyMfa, DisableMfa, DisableUser, UpdateRole, Writable
  <2>2. PICK acct \in Account : Update(u, acct) /\ acct.email = users[u].email
    <3>1. /\ [users[u] EXCEPT !.seeded = TRUE] \in Account
          /\ [users[u] EXCEPT !.mfa = TRUE] \in Account
          /\ [users[u] EXCEPT !.mfa = FALSE, !.seeded = FALSE] \in Account
          /\ [users[u] EXCEPT !.enabled = FALSE] \in Account
          /\ \A r \in Role : [users[u] EXCEPT !.role = r] \in Account
      BY <2>1 DEF Account
    <3>2. /\ [users[u] EXCEPT !.seeded = TRUE].email = users[u].email
          /\ [users[u] EXCEPT !.mfa = TRUE].email = users[u].email
          /\ [users[u] EXCEPT !.mfa = FALSE, !.seeded = FALSE].email = users[u].email
          /\ [users[u] EXCEPT !.enabled = FALSE].email = users[u].email
          /\ \A r \in Role : [users[u] EXCEPT !.role = r].email = users[u].email
      BY <2>1 DEF Account
    <3> QED BY <1>9, <3>1, <3>2 DEF Enroll, VerifyMfa, DisableMfa, DisableUser, UpdateRole
  <2>3. Same
    BY <1>9, <1>t DEF Enroll, VerifyMfa, DisableMfa, DisableUser, UpdateRole, Begin, At, Idle
  <2>4. restarts' = restarts
    BY <1>9 DEF Enroll, VerifyMfa, DisableMfa, DisableUser, UpdateRole
  <2> QED BY <2>1, <2>2, <2>3, <2>4, UpdateKeepsClaims DEF Typed
<1>10. ASSUME (\E t \in Token : SessionEnds(t)) \/ Tick \/ UNCHANGED vars
       PROVE  Claimed'
  BY <1>10, CallsFrame DEF SessionEnds, Tick, vars, accounts
<1>11. CASE Restart
  <2>1. /\ \A b \in Actor : call'[b].pc = "idle"
        /\ users' = rows /\ index' \in Indexed /\ restarts' > 0
    BY <1>11, <1>t DEF Restart, Idle
  <2>2. ASSUME NEW u \in User, NEW e \in Email, Claims(u, e)'
        PROVE  index'[e] = u \/ (\E v \in User \ {u} : Claims(v, e)') \/ Reloaded(u, e)'
    <3>1. users'[u] # None /\ Normal[users'[u].email] = e
      BY <2>1, <2>2 DEF Claims
    <3>2. CASE users'[u].email # e
      BY <2>1, <3>1, <3>2 DEF Reloaded
    <3>3. CASE users'[u].email = e
      <4> DEFINE at == {v \in User : rows[v] # None /\ rows[v].email = e}
      <4>1. u \in at
        BY <2>1, <3>1, <3>3
      <4>2. index'[e] \in at
        BY <2>1, <4>1 DEF Indexed
      <4>3. PICK v \in User : index'[e] = v /\ rows[v] # None /\ rows[v].email = e
        BY <4>2
      <4>4. Claims(v, e)'
        BY <2>1, <3>1, <3>3, <4>3 DEF Claims
      <4> QED BY <4>3, <4>4
    <3> QED BY <3>2, <3>3
  <2> QED BY <2>2 DEF Claimed
<1> QED
  BY <1>1, <1>2, <1>3, <1>4, <1>5, <1>6, <1>7, <1>8, <1>9, <1>10, <1>11 DEF Next, Authenticating

-----------------------------------------------------------------------------
\* What is true of the accounts, their rows and the index together.
AccountsInv == Typed /\ OustInv /\ RowsKept /\ Claimed

LEMMA AccountsInitInv == Init => AccountsInv
<1> SUFFICES ASSUME Init PROVE AccountsInv
  OBVIOUS
<1>1. Typed
  BY TypeInit
<1>2. OustInv
  BY DEF Init, OustInv, Newcomers, Registering, Idle, RowIsCurrent, OustedStayOut, NoSessionLeft
<1>3. RowsKept
  BY DEF Init, RowsKept, Idle
<1>4. Claimed
  BY DEF Init, Claimed, Claims, Idle
<1> QED BY <1>1, <1>2, <1>3, <1>4 DEF AccountsInv

LEMMA AccountsStepInv == AccountsInv /\ [Next]_vars => AccountsInv'
BY TypeStep, OustStep, RowsStep, ClaimedStep DEF AccountsInv

LEMMA AccountsInvMeans == AccountsInv => RestartLosesNothing /\ Findable
<1>1. RowsKept => RestartLosesNothing
  BY DEF RowsKept, HasRow, RestartLosesNothing
<1>2. Typed /\ Claimed => Findable
  <2> SUFFICES ASSUME Typed, Claimed, NEW u \in User, users[u] # None, ~Shared(u)
               PROVE  \/ index[Normal[users[u].email]] = u
                      \/ restarts > 0 /\ Normal[users[u].email] # users[u].email
    BY DEF Findable
  <2>1. PICK e \in Email : e = Normal[users[u].email]
    BY IdentityAssumption DEF Typed, TypeOK, Account
  <2>2. Claims(u, e) /\ \A v \in User \ {u} : ~Claims(v, e)
    BY <2>1 DEF Claims, Shared, At
  <2> QED BY <2>1, <2>2 DEF Claimed, Reloaded
<1> QED BY <1>1, <1>2 DEF AccountsInv

\* However registrations of one address overlap, and wherever the process dies:
\* an account in memory has its row, unless another account of the same address
\* has replaced it (register, persist_user).
THEOREM AccountsAreKept == Spec => []RestartLosesNothing
<1> QED BY AccountsInitInv, AccountsStepInv, AccountsInvMeans, PTL DEF Spec

\* An account that is the only one of its address is found by it, however often it
\* changed and wherever register was cut short, unless the index was reloaded and
\* the address typed in another form (email_index, normalize_email).
THEOREM AccountsAreFound == Spec => []Findable
<1> QED BY AccountsInitInv, AccountsStepInv, AccountsInvMeans, PTL DEF Spec
=============================================================================
