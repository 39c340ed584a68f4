--------------------------- MODULE Sessions_proofs ---------------------------
(* Proofs about the session manager: types, the user lists (IndexBacked), and *)
(* the one-way lifecycle of a token within a process.                         *)
EXTENDS Sessions, FiniteSetTheorems, TLAPS

\* Every copy of a session, in memory, in SQLite or in a call, is of the user its
\* token was created for.
UsersAgree ==
  /\ \A t \in Token : sessions[t] # None => sessions[t].user = owner[t]
  /\ \A t \in Token : rows[t] # None => rows[t].user = owner[t]

\* What a call in progress knows, by the step it is at.
CallWellFormed(a) ==
  /\ call[a].pc \in CreatePcs \cup {"persistNew"} =>
       /\ call[a].tok \in Token /\ call[a].new \in Session
       /\ call[a].new.user = owner[call[a].tok]
  /\ call[a].pc = "evictPersist" =>
       call[a].cur \in Token /\ call[a].snap \in Session /\ call[a].snap.user = owner[call[a].cur]
  /\ call[a].pc = "persistSnap" =>
       call[a].tok \in Token /\ call[a].snap \in Session /\ call[a].snap.user = owner[call[a].tok]
  /\ call[a].pc \in {"mark", "unindex", "deleteRow", "drop"} =>
       call[a].tok \in Token
  /\ call[a].pc = "unindex" => call[a].user \in User /\ call[a].user = owner[call[a].tok]
  /\ call[a].pc \in {"deleteRow", "drop"} =>
       /\ owner[call[a].tok] # None
       /\ \A u \in User : call[a].tok \notin index[u]
  /\ call[a].pc \in ForceLogoutPcs =>
       call[a].user \in User /\ \A x \in call[a].todo : owner[x] = call[a].user
  /\ call[a].pc \in {"userDelete", "userDrop"} =>
       call[a].cur \in Token /\ owner[call[a].cur] = call[a].user
  /\ call[a].pc \in {"cleanDrop", "cleanDelete", "cleanUnindex"} =>
       \A x \in call[a].todo : owner[x] # None
  /\ call[a].pc \in {"cleanDelete", "cleanUnindex"} =>
       call[a].cur \in Token /\ owner[call[a].cur] # None

\* A token whose create has not reached sessions.insert is in no map and has one creator,
\* who will insert it active.
PendingIsAbsent ==
  \A a \in Actor : call[a].pc \in CreatePcs =>
    /\ sessions[call[a].tok] = None
    /\ call[a].new.active
    /\ \A b \in Actor : call[b].pc \in CreatePcs /\ call[b].tok = call[a].tok => b = a

IInv ==
  /\ TypeOK
  /\ UsersAgree
  /\ \A a \in Actor : CallWellFormed(a)
  /\ IndexBacked

\* Within one process the map of pending creates is exact as well.
PInv == IInv /\ PendingIsAbsent
-----------------------------------------------------------------------------
LEMMA InitIInv == Init => IInv
BY SessionsAssumption DEF Init, IInv, TypeOK, UsersAgree, CallWellFormed, IndexBacked, Idle, Call,
   Pcs, CreatePcs, ForceLogoutPcs

\* A call that does not step stays well formed while tokens get owners and lists lose
\* tokens or gain new ones.
LEMMA CallFrame ==
  ASSUME TypeOK, NEW b \in Actor, CallWellFormed(b), call'[b] = call[b],
         \A x \in Token : owner[x] # None => owner'[x] = owner[x],
         \A u \in User : \A x \in index'[u] : x \in index[u] \/ owner[x] = None
  PROVE  CallWellFormed(b)'
BY SessionsAssumption DEF CallWellFormed, TypeOK, Call, Session, CreatePcs, ForceLogoutPcs

\* A call that only goes on to another place stays a call.
LEMMA CallGoesOn ==
  ASSUME TypeOK, NEW a \in Actor, NEW pc \in Pcs, call' = [call EXCEPT ![a].pc = pc]
  PROVE  call' \in [Actor -> Call]
BY DEF TypeOK, Call

\* The same for a call that also notes the user whose set it will touch.
LEMMA CallNotesUser ==
  ASSUME NEW c \in Call, NEW pc \in Pcs, NEW u \in User
  PROVE  [c EXCEPT !.pc = pc, !.user = u] \in Call
BY DEF Call

\* Deactivating or refreshing a session leaves a session of the same user.
LEMMA SessionUpdate ==
  ASSUME NEW s \in Session
  PROVE  /\ [s EXCEPT !.active = FALSE] \in Session
         /\ [s EXCEPT !.active = FALSE].user = s.user
BY DEF Session

LEMMA TouchedSession ==
  ASSUME now \in Nat, NEW s \in Session
  PROVE  Touched(s) \in Session /\ Touched(s).user = s.user /\ Touched(s).active = s.active
BY DEF Session, Touched

LEMMA CallStep ==
  ASSUME NEW c \in Call, NEW pc \in Pcs
  PROVE  [c EXCEPT !.pc = pc] \in Call
BY DEF Call

\* A step that takes nothing out of the map or into a list, and that ends no call able to
\* explain a dangling hash, keeps the lists backed.
LEMMA IndexFrame ==
  ASSUME TypeOK, IndexBacked, NEW a \in Actor, owner' = owner, index' = index,
         \A t \in Token : sessions[t] # None => sessions'[t] # None,
         \A b \in Actor : b # a => call'[b] = call[b],
         call[a].pc \in CreatePcs => call'[a].pc \in CreatePcs /\ call'[a].tok = call[a].tok,
         call[a].pc \in ForceLogoutPcs =>
           call'[a].pc \in ForceLogoutPcs /\ call'[a].user = call[a].user,
         call[a].pc \notin {"cleanDelete", "cleanUnindex"}
  PROVE  IndexBacked'
BY DEF IndexBacked, TypeOK, CreatePending

\* What a step of call a has to show for the invariant: the other calls follow by CallFrame.
LEMMA StepFrame ==
  ASSUME IInv, NEW a \in Actor, \A b \in Actor : b # a => call'[b] = call[b],
         \A x \in Token : owner[x] # None => owner'[x] = owner[x],
         \A u \in User : \A x \in index'[u] : x \in index[u] \/ owner[x] = None,
         TypeOK', UsersAgree', CallWellFormed(a)', IndexBacked'
  PROVE  IInv'
<1>1. ASSUME NEW b \in Actor, b # a PROVE CallWellFormed(b)'
  BY <1>1, CallFrame DEF IInv
<1> QED BY <1>1 DEF IInv

LEMMA StepCreateIndex ==
  ASSUME IInv, NEW a \in Actor, NEW u \in User, NEW t \in Token, NEW ip \in Ip \cup {NoIp},
         CreateIndex(a, u, t, ip)
  PROVE  IInv'
<1> USE DEF IInv
<1> DEFINE new == [user |-> u, expires |-> now + TTL, last |-> now, ip |-> ip, active |-> TRUE]
<1> DEFINE kept == {x \in index[u] : Usable(x)} \cup {t}
<1>a. PICK out \in Overflow(kept, born') :
        /\ index' = [index EXCEPT ![u] = kept \ out]
        /\ call' = [call EXCEPT ![a] = [Idle EXCEPT !.pc = "evict", !.user = u, !.tok = t,
                                          !.todo = out, !.new = new]]
  BY DEF CreateIndex
<1>1. /\ out \in SUBSET Token
        /\ call[a].pc = "idle"
        /\ owner[t] = None
        /\ owner' = [owner EXCEPT ![t] = u]
        /\ index' = [index EXCEPT ![u] = ({x \in index[u] : Usable(x)} \cup {t}) \ out]
        /\ call' = [call EXCEPT ![a] = [Idle EXCEPT !.pc = "evict", !.user = u, !.tok = t,
                                          !.todo = out, !.new = new]]
        /\ UNCHANGED <<sessions, rows, now, restarts, issued, closed, evicted>>
  BY <1>a DEF CreateIndex, Overflow, TypeOK, At
<1>2. new \in Session /\ new.user = u
  BY SessionsAssumption DEF Session, TypeOK
<1> HIDE DEF new
<1>3. TypeOK'
  <2>1. 1 + Cardinality({x \in Token : born[x] > 0}) \in Nat
    <3> {x \in Token : born[x] > 0} \subseteq Token
      OBVIOUS
    <3> QED BY SessionsAssumption, FS_Subset, FS_CardinalityType
  <2>2. born' \in [Token -> Nat]
    BY <2>1 DEF CreateIndex, TypeOK
  <2>3. call' \in [Actor -> Call]
    BY <1>1, <1>2 DEF TypeOK, Idle, Call, Pcs, CreatePcs
  <2> QED BY <1>1, <2>2, <2>3 DEF TypeOK
<1>4. UsersAgree'
  BY <1>1, SessionsAssumption DEF UsersAgree, TypeOK, Session
<1>5. ASSUME NEW b \in Actor PROVE CallWellFormed(b)'
  <2>1. CASE b = a
    BY <1>1, <1>2, <2>1 DEF CallWellFormed, TypeOK, Idle, Call, CreatePcs, ForceLogoutPcs
  <2>2. CASE b # a
    BY <1>1, <2>2, CallFrame DEF TypeOK
  <2> QED BY <2>1, <2>2
<1>6. IndexBacked'
  BY <1>1, SessionsAssumption
  DEF IndexBacked, TypeOK, Idle, Call, CreatePcs, ForceLogoutPcs, CreatePending
<1> QED BY <1>3, <1>4, <1>5, <1>6

LEMMA StepEvictMark ==
  ASSUME IInv, NEW a \in Actor, EvictMark(a)
  PROVE  IInv'
<1>0. TypeOK /\ UsersAgree /\ CallWellFormed(a) /\ IndexBacked
  BY DEF IInv
<1>1. PICK x \in call[a].todo :
        /\ call[a].pc = "evict"
        /\ \/ /\ call' = [call EXCEPT ![a].todo = @ \ {x}]
              /\ sessions' = sessions
           \/ /\ sessions[x] # None
              /\ sessions' = [sessions EXCEPT ![x].active = FALSE]
              /\ call' = [call EXCEPT ![a].pc = "evictPersist", ![a].cur = x,
                                      ![a].todo = @ \ {x},
                                      ![a].snap = [sessions[x] EXCEPT !.active = FALSE]]
        /\ UNCHANGED <<index, born, rows, now, restarts, owner, issued, closed, evicted>>
  BY DEF EvictMark, clientVars, At
<1>2. TypeOK'
  <2>1. sessions[x] # None => [sessions[x] EXCEPT !.active = FALSE] \in Session
    BY <1>0, <1>1, SessionUpdate DEF TypeOK, Call
  <2>2. sessions' \in [Token -> Session \cup {None}]
    BY <1>0, <1>1, <2>1 DEF TypeOK, Call
  <2>3. call' \in [Actor -> Call]
    <3>1. "evictPersist" \in Pcs
      BY DEF Pcs, CreatePcs
    <3>2. CASE call' = [call EXCEPT ![a].todo = @ \ {x}]
      BY <1>0, <3>2 DEF TypeOK, Call
    <3>3. CASE /\ sessions[x] # None
               /\ call' = [call EXCEPT ![a].pc = "evictPersist", ![a].cur = x,
                                       ![a].todo = @ \ {x},
                                       ![a].snap = [sessions[x] EXCEPT !.active = FALSE]]
      BY <1>0, <1>1, <2>1, <3>1, <3>3 DEF TypeOK, Call
    <3> QED BY <1>1, <3>2, <3>3
  <2> QED BY <1>0, <1>1, <2>2, <2>3 DEF TypeOK
<1>3. UsersAgree'
  BY <1>0, <1>1, <1>2, SessionsAssumption DEF UsersAgree, TypeOK, Call, Session, CallWellFormed, CreatePcs
<1>4. CallWellFormed(a)'
  <2>1. CASE call' = [call EXCEPT ![a].todo = @ \ {x}]
    BY <1>0, <1>1, <2>1, SessionsAssumption
    DEF CallWellFormed, TypeOK, Call, CreatePcs, ForceLogoutPcs
  <2>2. CASE call' = [call EXCEPT ![a].pc = "evictPersist", ![a].cur = x,
                                  ![a].todo = @ \ {x},
                                  ![a].snap = [sessions[x] EXCEPT !.active = FALSE]]
    BY <1>0, <1>1, <2>2, SessionsAssumption
    DEF CallWellFormed, TypeOK, Call, Session, CreatePcs, ForceLogoutPcs, UsersAgree
  <2> QED BY <1>1, <2>1, <2>2
<1>5. IndexBacked'
  BY <1>0, <1>1, <1>2, IndexFrame DEF TypeOK, Call, Idle, CreatePcs, ForceLogoutPcs
<1> QED BY <1>0, <1>1, <1>2, <1>3, <1>4, <1>5, StepFrame DEF TypeOK

LEMMA StepEvictPersist ==
  ASSUME IInv, NEW a \in Actor, EvictPersist(a)
  PROVE  IInv'
<1>0. TypeOK /\ UsersAgree /\ CallWellFormed(a) /\ IndexBacked
  BY DEF IInv
<1>1. /\ call[a].pc = "evictPersist"
      /\ rows' \in {rows, [rows EXCEPT ![call[a].cur] = call[a].snap]}
      /\ call' = [call EXCEPT ![a].pc = "evict", ![a].cur = None, ![a].snap = None]
      /\ UNCHANGED <<sessions, index, born, now, restarts, owner, issued, closed, evicted>>
  BY DEF EvictPersist, clientVars, At, Return, Persist, DeletePersisted
<1>2. TypeOK'
  BY <1>0, <1>1, SessionsAssumption DEF TypeOK, Call, Session, Idle, Pcs, CreatePcs, ForceLogoutPcs, CallWellFormed
<1>3. UsersAgree'
  BY <1>0, <1>1, <1>2, SessionsAssumption DEF UsersAgree, TypeOK, Call, Session, CallWellFormed, CreatePcs
<1>4. CallWellFormed(a)'
  BY <1>0, <1>1, SessionsAssumption
  DEF CallWellFormed, TypeOK, Call, Session, Idle, CreatePcs, ForceLogoutPcs, UsersAgree
<1>5. IndexBacked'
  BY <1>0, <1>1, SessionsAssumption
  DEF IndexBacked, CreatePending, TypeOK, Call, Idle, CreatePcs, ForceLogoutPcs, CallWellFormed
<1> QED BY <1>0, <1>1, <1>2, <1>3, <1>4, <1>5, StepFrame DEF TypeOK

LEMMA StepCreateInsert ==
  ASSUME IInv, NEW a \in Actor, CreateInsert(a)
  PROVE  IInv'
<1>0. TypeOK /\ UsersAgree /\ CallWellFormed(a) /\ IndexBacked
  BY DEF IInv
<1>1. /\ call[a].pc = "evict"
      /\ sessions' = [sessions EXCEPT ![call[a].tok] = call[a].new]
      /\ call' = [call EXCEPT ![a].pc = "persistNew"]
      /\ UNCHANGED <<index, rows, born, now, restarts, owner, issued, closed, evicted>>
  BY DEF CreateInsert, clientVars, At, Return, Persist, DeletePersisted
<1>2. TypeOK'
  <2>1. call[a].tok \in Token /\ call[a].new \in Session
    BY <1>0, <1>1 DEF CallWellFormed, CreatePcs
  <2>2. call' \in [Actor -> Call]
    BY <1>0, <1>1, CallStep DEF TypeOK, Pcs
  <2> QED BY <1>0, <1>1, <2>1, <2>2 DEF TypeOK
<1>3. UsersAgree'
  BY <1>0, <1>1, <1>2, SessionsAssumption DEF UsersAgree, TypeOK, Call, Session, CallWellFormed, CreatePcs
<1>4. CallWellFormed(a)'
  BY <1>0, <1>1, SessionsAssumption
  DEF CallWellFormed, TypeOK, Call, Session, Idle, CreatePcs, ForceLogoutPcs, UsersAgree
<1>5. IndexBacked'
  BY <1>0, <1>1, SessionsAssumption
  DEF IndexBacked, CreatePending, TypeOK, Call, Idle, CreatePcs, ForceLogoutPcs, CallWellFormed
<1> QED BY <1>0, <1>1, <1>2, <1>3, <1>4, <1>5, StepFrame DEF TypeOK

LEMMA StepCreatePersist ==
  ASSUME IInv, NEW a \in Actor, CreatePersist(a)
  PROVE  IInv'
<1>0. TypeOK /\ UsersAgree /\ CallWellFormed(a) /\ IndexBacked
  BY DEF IInv
<1>1. /\ call[a].pc = "persistNew"
      /\ rows' \in {rows, [rows EXCEPT ![call[a].tok] = call[a].new]}
      /\ issued' = issued \cup {call[a].tok}
      /\ call' = [call EXCEPT ![a] = Idle]
      /\ UNCHANGED <<sessions, index, born, now, restarts, owner, closed, evicted>>
  BY DEF CreatePersist, clientVars, At, Return, Persist, DeletePersisted
<1>2. TypeOK'
  BY <1>0, <1>1, SessionsAssumption DEF TypeOK, Call, Session, Idle, Pcs, CreatePcs, ForceLogoutPcs, CallWellFormed
<1>3. UsersAgree'
  BY <1>0, <1>1, <1>2, SessionsAssumption DEF UsersAgree, TypeOK, Call, Session, CallWellFormed, CreatePcs
<1>4. CallWellFormed(a)'
  BY <1>0, <1>1, SessionsAssumption
  DEF CallWellFormed, TypeOK, Call, Session, Idle, CreatePcs, ForceLogoutPcs, UsersAgree
<1>5. IndexBacked'
  BY <1>0, <1>1, SessionsAssumption
  DEF IndexBacked, CreatePending, TypeOK, Call, Idle, CreatePcs, ForceLogoutPcs, CallWellFormed
<1> QED BY <1>0, <1>1, <1>2, <1>3, <1>4, <1>5, StepFrame DEF TypeOK

LEMMA StepValidateMismatch ==
  ASSUME IInv, NEW a \in Actor, NEW t \in Token, NEW ip \in Ip \cup {NoIp}, ValidateMismatch(a, t, ip)
  PROVE  IInv'
<1>0. TypeOK /\ UsersAgree /\ CallWellFormed(a) /\ IndexBacked
  BY DEF IInv
<1>1. /\ call[a].pc = "idle"
      /\ call' = [call EXCEPT ![a] = [Idle EXCEPT !.pc = "mark", !.tok = t]]
      /\ UNCHANGED <<sessions, index, rows, born, now, restarts, owner, issued, closed, evicted>>
  BY DEF ValidateMismatch, clientVars, At, Return, Persist, DeletePersisted
<1>2. TypeOK'
  BY <1>0, <1>1, SessionsAssumption DEF TypeOK, Call, Session, Idle, Pcs, CreatePcs, ForceLogoutPcs, CallWellFormed
<1>3. UsersAgree'
  BY <1>0, <1>1, <1>2, SessionsAssumption DEF UsersAgree, TypeOK, Call, Session, CallWellFormed, CreatePcs
<1>4. CallWellFormed(a)'
  BY <1>0, <1>1, SessionsAssumption
  DEF CallWellFormed, TypeOK, Call, Session, Idle, CreatePcs, ForceLogoutPcs, UsersAgree
<1>5. IndexBacked'
  BY <1>0, <1>1, SessionsAssumption
  DEF IndexBacked, CreatePending, TypeOK, Call, Idle, CreatePcs, ForceLogoutPcs, CallWellFormed
<1> QED BY <1>0, <1>1, <1>2, <1>3, <1>4, <1>5, StepFrame DEF TypeOK

LEMMA StepValidateOk ==
  ASSUME IInv, NEW a \in Actor, NEW t \in Token, NEW ip \in Ip \cup {NoIp}, ValidateOk(a, t, ip)
  PROVE  IInv'
<1>0. TypeOK /\ UsersAgree /\ CallWellFormed(a) /\ IndexBacked
  BY DEF IInv
<1>1. /\ call[a].pc = "idle"
      /\ sessions[t] # None
      /\ sessions' = [sessions EXCEPT ![t] = Touched(sessions[t])]
      /\ \/ call' = call
         \/ call' = [call EXCEPT ![a] = [Idle EXCEPT !.pc = "persistSnap", !.tok = t,
                                           !.snap = Touched(sessions[t])]]
      /\ UNCHANGED <<index, rows, born, now, restarts, owner, issued, closed, evicted>>
  BY DEF ValidateOk, Usable, Active, clientVars, At, Return, Persist, DeletePersisted
<1>2. TypeOK'
  <2>1. Touched(sessions[t]) \in Session
    BY <1>0, <1>1, TouchedSession DEF TypeOK
  <2>2. [Idle EXCEPT !.pc = "persistSnap", !.tok = t,
                     !.snap = Touched(sessions[t])] \in Call
    BY <2>1 DEF Call, Idle, Pcs
  <2>3. call' \in [Actor -> Call]
    BY <1>0, <1>1, <2>2 DEF TypeOK
  <2> QED BY <1>0, <1>1, <2>1, <2>3 DEF TypeOK
<1>3. UsersAgree'
  <2>1. sessions[t] \in Session
    BY <1>0, <1>1 DEF TypeOK
  <2>2. Touched(sessions[t]).user = sessions[t].user
    BY <1>0, <2>1, TouchedSession DEF TypeOK
  <2> QED BY <1>0, <1>1, <2>2 DEF UsersAgree, TypeOK
<1>4. CallWellFormed(a)'
  <2>1. CASE call' = call
    BY <1>0, <1>1, <2>1 DEF CallWellFormed, TypeOK, CreatePcs, ForceLogoutPcs
  <2>2. CASE call' # call
    <3> DEFINE snap == Touched(sessions[t])
    <3>1. snap \in Session /\ snap.user = owner[t]
      BY <1>0, <1>1, TouchedSession DEF TypeOK, UsersAgree
    <3>2. call' = [call EXCEPT ![a] = [Idle EXCEPT !.pc = "persistSnap", !.tok = t, !.snap = snap]]
      BY <1>1, <2>2
    <3> HIDE DEF snap
    <3> QED BY <1>0, <1>1, <3>1, <3>2
            DEF CallWellFormed, TypeOK, Idle, CreatePcs, ForceLogoutPcs
  <2> QED BY <2>1, <2>2
<1>5. IndexBacked'
  <2>1. \A x \in Token : sessions[x] # None => sessions'[x] # None
    BY <1>0, <1>1, TouchedSession, SessionsAssumption DEF TypeOK
  <2>2. call[a].pc \notin CreatePcs \cup ForceLogoutPcs \cup {"cleanDelete", "cleanUnindex"}
    BY <1>1 DEF CreatePcs, ForceLogoutPcs
  <2>3. \A b \in Actor : b # a => call'[b] = call[b]
    BY <1>0, <1>1 DEF TypeOK
  <2> QED BY <1>0, <1>1, <2>1, <2>2, <2>3, IndexFrame
<1> QED BY <1>0, <1>1, <1>2, <1>3, <1>4, <1>5, StepFrame DEF TypeOK

LEMMA StepValidatePersist ==
  ASSUME IInv, NEW a \in Actor, ValidatePersist(a)
  PROVE  IInv'
<1>0. TypeOK /\ UsersAgree /\ CallWellFormed(a) /\ IndexBacked
  BY DEF IInv
<1>1. /\ call[a].pc = "persistSnap"
      /\ rows' \in {rows, [rows EXCEPT ![call[a].tok] = call[a].snap]}
      /\ call' = [call EXCEPT ![a] = Idle]
      /\ UNCHANGED <<sessions, index, born, now, restarts, owner, issued, closed, evicted>>
  BY DEF ValidatePersist, clientVars, At, Return, Persist, DeletePersisted
<1>2. TypeOK'
  BY <1>0, <1>1, SessionsAssumption DEF TypeOK, Call, Session, Idle, Pcs, CreatePcs, ForceLogoutPcs, CallWellFormed
<1>3. UsersAgree'
  BY <1>0, <1>1, <1>2, SessionsAssumption DEF UsersAgree, TypeOK, Call, Session, CallWellFormed, CreatePcs
<1>4. CallWellFormed(a)'
  BY <1>0, <1>1, SessionsAssumption
  DEF CallWellFormed, TypeOK, Call, Session, Idle, CreatePcs, ForceLogoutPcs, UsersAgree
<1>5. IndexBacked'
  BY <1>0, <1>1, SessionsAssumption
  DEF IndexBacked, CreatePending, TypeOK, Call, Idle, CreatePcs, ForceLogoutPcs, CallWellFormed
<1> QED BY <1>0, <1>1, <1>2, <1>3, <1>4, <1>5, StepFrame DEF TypeOK

LEMMA StepInvalidate ==
  ASSUME IInv, NEW a \in Actor, NEW t \in Token, Invalidate(a, t)
  PROVE  IInv'
<1>0. TypeOK /\ UsersAgree /\ CallWellFormed(a) /\ IndexBacked
  BY DEF IInv
<1>1. /\ call[a].pc = "idle"
      /\ call' = [call EXCEPT ![a] = [Idle EXCEPT !.pc = "mark", !.tok = t]]
      /\ UNCHANGED <<sessions, index, rows, born, now, restarts, owner, issued, closed, evicted>>
  BY DEF Invalidate, clientVars, At, Return, Persist, DeletePersisted
<1>2. TypeOK'
  BY <1>0, <1>1, SessionsAssumption DEF TypeOK, Call, Session, Idle, Pcs, CreatePcs, ForceLogoutPcs, CallWellFormed
<1>3. UsersAgree'
  BY <1>0, <1>1, <1>2, SessionsAssumption DEF UsersAgree, TypeOK, Call, Session, CallWellFormed, CreatePcs
<1>4. CallWellFormed(a)'
  BY <1>0, <1>1, SessionsAssumption
  DEF CallWellFormed, TypeOK, Call, Session, Idle, CreatePcs, ForceLogoutPcs, UsersAgree
<1>5. IndexBacked'
  BY <1>0, <1>1, SessionsAssumption
  DEF IndexBacked, CreatePending, TypeOK, Call, Idle, CreatePcs, ForceLogoutPcs, CallWellFormed
<1> QED BY <1>0, <1>1, <1>2, <1>3, <1>4, <1>5, StepFrame DEF TypeOK

LEMMA StepInvalidateMark ==
  ASSUME IInv, NEW a \in Actor, InvalidateMark(a)
  PROVE  IInv'
<1>0. TypeOK /\ UsersAgree /\ CallWellFormed(a) /\ IndexBacked
  BY DEF IInv
<1>1. /\ call[a].pc = "mark"
      /\ \/ /\ call' = [call EXCEPT ![a] = Idle]
            /\ sessions' = sessions
         \/ /\ sessions[call[a].tok] # None
            /\ sessions' = [sessions EXCEPT ![call[a].tok].active = FALSE]
            /\ call' = [call EXCEPT ![a].pc = "unindex", ![a].user = sessions[call[a].tok].user]
      /\ UNCHANGED <<index, rows, born, now, restarts, owner, issued, closed, evicted>>
  BY DEF InvalidateMark, clientVars, At, Return, Persist, DeletePersisted
<1>2. TypeOK'
  <2>1. call[a].tok \in Token
    BY <1>0, <1>1 DEF CallWellFormed
  <2>2. sessions[call[a].tok] # None =>
          /\ [sessions[call[a].tok] EXCEPT !.active = FALSE] \in Session
          /\ sessions[call[a].tok].user \in User
    BY <1>0, <2>1 DEF TypeOK, Session
  <2>3. sessions' \in [Token -> Session \cup {None}]
    BY <1>0, <1>1, <2>1, <2>2 DEF TypeOK
  <2>4. call' \in [Actor -> Call]
    <3>1. "idle" \in Pcs /\ "unindex" \in Pcs
      BY DEF Pcs
    <3>2. CASE call' = [call EXCEPT ![a] = Idle]
      BY <1>0, <3>1, <3>2 DEF TypeOK, Call, Idle
    <3>3. CASE /\ sessions[call[a].tok] # None
               /\ call' = [call EXCEPT ![a].pc = "unindex",
                                       ![a].user = sessions[call[a].tok].user]
      <4>1. [call[a] EXCEPT !.pc = "unindex", !.user = sessions[call[a].tok].user] \in Call
        <5>1. call[a] \in Call
          BY <1>0 DEF TypeOK
        <5> QED BY <2>2, <3>1, <3>3, <5>1, CallNotesUser
      <4> QED BY <1>0, <3>3, <4>1 DEF TypeOK
    <3> QED BY <1>1, <3>2, <3>3
  <2> QED BY <1>0, <1>1, <2>3, <2>4 DEF TypeOK
<1>3. UsersAgree'
  BY <1>0, <1>1, <1>2, SessionsAssumption DEF UsersAgree, TypeOK, Call, Session, CallWellFormed, CreatePcs
<1>4. CallWellFormed(a)'
  BY <1>0, <1>1, SessionsAssumption
  DEF CallWellFormed, TypeOK, Call, Session, Idle, CreatePcs, ForceLogoutPcs, UsersAgree
<1>5. IndexBacked'
  <2>1. \A x \in Token : sessions[x] # None => sessions'[x] # None
    <3>1. CASE sessions' = sessions
      BY <3>1
    <3>2. CASE sessions' = [sessions EXCEPT ![call[a].tok].active = FALSE]
      <4>1. \A s \in Session : [s EXCEPT !.active = FALSE] \in Session
        BY DEF Session
      <4> QED BY <1>0, <3>2, <4>1, SessionsAssumption DEF TypeOK
    <3> QED BY <1>1, <3>1, <3>2
  <2>2. call[a].pc \notin CreatePcs \cup ForceLogoutPcs \cup {"cleanDelete", "cleanUnindex"}
    BY <1>1 DEF CreatePcs, ForceLogoutPcs
  <2>3. \A b \in Actor : b # a => call'[b] = call[b]
    BY <1>0, <1>1 DEF TypeOK
  <2> QED BY <1>0, <1>1, <2>1, <2>2, <2>3, IndexFrame
<1> QED BY <1>0, <1>1, <1>2, <1>3, <1>4, <1>5, StepFrame DEF TypeOK

LEMMA StepInvalidateUnindex ==
  ASSUME IInv, NEW a \in Actor, InvalidateUnindex(a)
  PROVE  IInv'
<1>0. TypeOK /\ UsersAgree /\ CallWellFormed(a) /\ IndexBacked
  BY DEF IInv
<1>1. /\ call[a].pc = "unindex"
      /\ index' = [index EXCEPT ![call[a].user] = @ \ {call[a].tok}]
      /\ call' = [call EXCEPT ![a].pc = "deleteRow"]
      /\ UNCHANGED <<sessions, rows, born, now, restarts, owner, issued, closed, evicted>>
  BY DEF InvalidateUnindex, clientVars, At, Return, Persist, DeletePersisted
<1>2. TypeOK'
  <2>1. call' \in [Actor -> Call]
    <3>1. "deleteRow" \in Pcs
      BY DEF Pcs, CreatePcs, ForceLogoutPcs
    <3> QED BY <1>0, <1>1, <3>1, CallGoesOn
  <2>2. index' \in [User -> SUBSET Token]
    BY <1>0, <1>1 DEF TypeOK
  <2> QED BY <1>0, <1>1, <2>1, <2>2 DEF TypeOK
<1>3. UsersAgree'
  BY <1>0, <1>1, <1>2, SessionsAssumption DEF UsersAgree, TypeOK, Call, Session, CallWellFormed, CreatePcs
<1>4. CallWellFormed(a)'
  BY <1>0, <1>1, SessionsAssumption
  DEF CallWellFormed, TypeOK, Call, Session, Idle, CreatePcs, ForceLogoutPcs, UsersAgree, IndexBacked
<1>5. IndexBacked'
  BY <1>0, <1>1, SessionsAssumption
  DEF IndexBacked, CreatePending, TypeOK, Call, Idle, CreatePcs, ForceLogoutPcs, CallWellFormed
<1> QED BY <1>0, <1>1, <1>2, <1>3, <1>4, <1>5, StepFrame DEF TypeOK

LEMMA StepInvalidateDelete ==
  ASSUME IInv, NEW a \in Actor, InvalidateDelete(a)
  PROVE  IInv'
<1>0. TypeOK /\ UsersAgree /\ CallWellFormed(a) /\ IndexBacked
  BY DEF IInv
<1>1. /\ call[a].pc = "deleteRow"
      /\ rows' \in {rows, [rows EXCEPT ![call[a].tok] = None]}
      /\ call' = [call EXCEPT ![a].pc = "drop"]
      /\ UNCHANGED <<sessions, index, born, now, restarts, owner, issued, closed, evicted>>
  BY DEF InvalidateDelete, clientVars, At, Return, Persist, DeletePersisted
<1>2. TypeOK'
  <2>1. call' \in [Actor -> Call]
    <3>1. "drop" \in Pcs
      BY DEF Pcs, CreatePcs, ForceLogoutPcs
    <3> QED BY <1>0, <1>1, <3>1, CallGoesOn
  <2>2. rows' \in [Token -> Session \cup {None}]
    BY <1>0, <1>1 DEF TypeOK
  <2> QED BY <1>0, <1>1, <2>1, <2>2 DEF TypeOK
<1>3. UsersAgree'
  BY <1>0, <1>1, <1>2, SessionsAssumption DEF UsersAgree, TypeOK, Call, Session, CallWellFormed, CreatePcs
<1>4. CallWellFormed(a)'
  BY <1>0, <1>1, SessionsAssumption
  DEF CallWellFormed, TypeOK, Call, Session, Idle, CreatePcs, ForceLogoutPcs, UsersAgree
<1>5. IndexBacked'
  BY <1>0, <1>1, SessionsAssumption
  DEF IndexBacked, CreatePending, TypeOK, Call, Idle, CreatePcs, ForceLogoutPcs, CallWellFormed
<1> QED BY <1>0, <1>1, <1>2, <1>3, <1>4, <1>5, StepFrame DEF TypeOK

LEMMA StepInvalidateDrop ==
  ASSUME IInv, NEW a \in Actor, InvalidateDrop(a)
  PROVE  IInv'
<1>0. TypeOK /\ UsersAgree /\ CallWellFormed(a) /\ IndexBacked
  BY DEF IInv
<1>1. /\ call[a].pc = "drop"
      /\ sessions' = [sessions EXCEPT ![call[a].tok] = None]
      /\ closed' = closed \cup {call[a].tok}
      /\ call' = [call EXCEPT ![a] = Idle]
      /\ UNCHANGED <<index, rows, born, now, restarts, owner, issued, evicted>>
  BY DEF InvalidateDrop, clientVars, At, Return, Persist, DeletePersisted
<1>2. TypeOK'
  BY <1>0, <1>1, SessionsAssumption DEF TypeOK, Call, Session, Idle, Pcs, CreatePcs, ForceLogoutPcs, CallWellFormed
<1>3. UsersAgree'
  BY <1>0, <1>1, <1>2, SessionsAssumption DEF UsersAgree, TypeOK, Call, Session, CallWellFormed, CreatePcs
<1>4. CallWellFormed(a)'
  BY <1>0, <1>1, SessionsAssumption
  DEF CallWellFormed, TypeOK, Call, Session, Idle, CreatePcs, ForceLogoutPcs, UsersAgree
<1>5. IndexBacked'
  BY <1>0, <1>1, SessionsAssumption
  DEF IndexBacked, CreatePending, TypeOK, Call, Idle, CreatePcs, ForceLogoutPcs, CallWellFormed
<1> QED BY <1>0, <1>1, <1>2, <1>3, <1>4, <1>5, StepFrame DEF TypeOK

LEMMA StepForceLogout ==
  ASSUME IInv, NEW a \in Actor, NEW u \in User, ForceLogout(a, u)
  PROVE  IInv'
<1>0. TypeOK /\ UsersAgree /\ CallWellFormed(a) /\ IndexBacked
  BY DEF IInv
<1>1. /\ call[a].pc = "idle"
      /\ call' = [call EXCEPT ![a] = [Idle EXCEPT !.pc = "userMark", !.user = u, !.todo = index[u],
                                        !.due = {t \in issued : owner[t] = u}]]
      /\ UNCHANGED <<sessions, index, rows, born, now, restarts, owner, issued, closed, evicted>>
  BY DEF ForceLogout, clientVars, At, Return, Persist, DeletePersisted
<1>2. TypeOK'
  BY <1>0, <1>1, SessionsAssumption DEF TypeOK, Call, Session, Idle, Pcs, CreatePcs, ForceLogoutPcs, CallWellFormed
<1>3. UsersAgree'
  BY <1>0, <1>1, <1>2, SessionsAssumption DEF UsersAgree, TypeOK, Call, Session, CallWellFormed, CreatePcs
<1>4. CallWellFormed(a)'
  BY <1>0, <1>1, SessionsAssumption
  DEF CallWellFormed, TypeOK, Call, Session, Idle, CreatePcs, ForceLogoutPcs, UsersAgree, IndexBacked
<1>5. IndexBacked'
  BY <1>0, <1>1, SessionsAssumption
  DEF IndexBacked, CreatePending, TypeOK, Call, Idle, CreatePcs, ForceLogoutPcs, CallWellFormed
<1> QED BY <1>0, <1>1, <1>2, <1>3, <1>4, <1>5, StepFrame DEF TypeOK

LEMMA StepForceLogoutMark ==
  ASSUME IInv, NEW a \in Actor, ForceLogoutMark(a)
  PROVE  IInv'
<1>0. TypeOK /\ UsersAgree /\ CallWellFormed(a) /\ IndexBacked
  BY DEF IInv
<1>1. PICK x \in call[a].todo :
        /\ call[a].pc = "userMark"
        /\ sessions' = IF sessions[x] = None THEN sessions
                       ELSE [sessions EXCEPT ![x].active = FALSE]
        /\ call' = [call EXCEPT ![a].pc = "userDelete", ![a].cur = x, ![a].todo = @ \ {x}]
        /\ UNCHANGED <<index, rows, born, now, restarts, owner, issued, closed, evicted>>
  BY DEF ForceLogoutMark, At, clientVars
<1>2. TypeOK'
  BY <1>0, <1>1, SessionsAssumption DEF TypeOK, Call, Session, Idle, Pcs, CreatePcs, ForceLogoutPcs, CallWellFormed
<1>3. UsersAgree'
  BY <1>0, <1>1, <1>2, SessionsAssumption DEF UsersAgree, TypeOK, Call, Session, CallWellFormed, CreatePcs
<1>4. CallWellFormed(a)'
  BY <1>0, <1>1, SessionsAssumption
  DEF CallWellFormed, TypeOK, Call, Session, Idle, CreatePcs, ForceLogoutPcs, UsersAgree
<1>5. IndexBacked'
  BY <1>0, <1>1, SessionsAssumption
  DEF IndexBacked, CreatePending, TypeOK, Call, Idle, CreatePcs, ForceLogoutPcs, CallWellFormed
<1> QED BY <1>0, <1>1, <1>2, <1>3, <1>4, <1>5, StepFrame DEF TypeOK

LEMMA StepForceLogoutDelete ==
  ASSUME IInv, NEW a \in Actor, ForceLogoutDelete(a)
  PROVE  IInv'
<1>0. TypeOK /\ UsersAgree /\ CallWellFormed(a) /\ IndexBacked
  BY DEF IInv
<1>1. /\ call[a].pc = "userDelete"
      /\ rows' \in {rows, [rows EXCEPT ![call[a].cur] = None]}
      /\ call' = [call EXCEPT ![a].pc = "userDrop"]
      /\ UNCHANGED <<sessions, index, born, now, restarts, owner, issued, closed, evicted>>
  BY DEF ForceLogoutDelete, clientVars, At, Return, Persist, DeletePersisted
<1>2. TypeOK'
  <2>1. call' \in [Actor -> Call]
    <3>1. "userDrop" \in Pcs
      BY DEF Pcs, CreatePcs, ForceLogoutPcs
    <3> QED BY <1>0, <1>1, <3>1, CallGoesOn
  <2>2. rows' \in [Token -> Session \cup {None}]
    BY <1>0, <1>1 DEF TypeOK
  <2> QED BY <1>0, <1>1, <2>1, <2>2 DEF TypeOK
<1>3. UsersAgree'
  BY <1>0, <1>1, <1>2, SessionsAssumption DEF UsersAgree, TypeOK, Call, Session, CallWellFormed, CreatePcs
<1>4. CallWellFormed(a)'
  BY <1>0, <1>1, SessionsAssumption
  DEF CallWellFormed, TypeOK, Call, Session, Idle, CreatePcs, ForceLogoutPcs, UsersAgree
<1>5. IndexBacked'
  BY <1>0, <1>1, SessionsAssumption
  DEF IndexBacked, CreatePending, TypeOK, Call, Idle, CreatePcs, ForceLogoutPcs, CallWellFormed
<1> QED BY <1>0, <1>1, <1>2, <1>3, <1>4, <1>5, StepFrame DEF TypeOK

LEMMA StepForceLogoutDrop ==
  ASSUME IInv, NEW a \in Actor, ForceLogoutDrop(a)
  PROVE  IInv'
<1>0. TypeOK /\ UsersAgree /\ CallWellFormed(a) /\ IndexBacked
  BY DEF IInv
<1>1. /\ call[a].pc = "userDrop"
      /\ sessions' = [sessions EXCEPT ![call[a].cur] = None]
      /\ call' = [call EXCEPT ![a].pc = "userMark", ![a].cur = None]
      /\ UNCHANGED <<index, rows, born, now, restarts, owner, issued, closed, evicted>>
  BY DEF ForceLogoutDrop, clientVars, At, Return, Persist, DeletePersisted
<1>2. TypeOK'
  BY <1>0, <1>1, SessionsAssumption DEF TypeOK, Call, Session, Idle, Pcs, CreatePcs, ForceLogoutPcs, CallWellFormed
<1>3. UsersAgree'
  BY <1>0, <1>1, <1>2, SessionsAssumption DEF UsersAgree, TypeOK, Call, Session, CallWellFormed, CreatePcs
<1>4. CallWellFormed(a)'
  BY <1>0, <1>1, SessionsAssumption
  DEF CallWellFormed, TypeOK, Call, Session, Idle, CreatePcs, ForceLogoutPcs, UsersAgree
<1>5. IndexBacked'
  BY <1>0, <1>1, SessionsAssumption
  DEF IndexBacked, CreatePending, TypeOK, Call, Idle, CreatePcs, ForceLogoutPcs, CallWellFormed
<1> QED BY <1>0, <1>1, <1>2, <1>3, <1>4, <1>5, StepFrame DEF TypeOK

LEMMA StepForceLogoutUnindex ==
  ASSUME IInv, NEW a \in Actor, ForceLogoutUnindex(a)
  PROVE  IInv'
<1>0. TypeOK /\ UsersAgree /\ CallWellFormed(a) /\ IndexBacked
  BY DEF IInv
<1>1. /\ call[a].pc = "userMark"
      /\ index' = [index EXCEPT ![call[a].user] = {}]
      /\ evicted' = evicted \cup call[a].due
      /\ call' = [call EXCEPT ![a] = Idle]
      /\ UNCHANGED <<sessions, rows, born, now, restarts, owner, issued, closed>>
  BY DEF ForceLogoutUnindex, clientVars, At, Return, Persist, DeletePersisted
<1>2. TypeOK'
  BY <1>0, <1>1, SessionsAssumption DEF TypeOK, Call, Session, Idle, Pcs, CreatePcs, ForceLogoutPcs, CallWellFormed
<1>3. UsersAgree'
  BY <1>0, <1>1, <1>2, SessionsAssumption DEF UsersAgree, TypeOK, Call, Session, CallWellFormed, CreatePcs
<1>4. CallWellFormed(a)'
  BY <1>0, <1>1, SessionsAssumption
  DEF CallWellFormed, TypeOK, Call, Session, Idle, CreatePcs, ForceLogoutPcs, UsersAgree
<1>5. IndexBacked'
  BY <1>0, <1>1, SessionsAssumption
  DEF IndexBacked, CreatePending, TypeOK, Call, Idle, CreatePcs, ForceLogoutPcs, CallWellFormed
<1> QED BY <1>0, <1>1, <1>2, <1>3, <1>4, <1>5, StepFrame DEF TypeOK

LEMMA StepCleanup ==
  ASSUME IInv, NEW a \in Actor, Cleanup(a)
  PROVE  IInv'
<1>0. TypeOK /\ UsersAgree /\ CallWellFormed(a) /\ IndexBacked
  BY DEF IInv
<1>1. /\ call[a].pc = "idle"
      /\ call' = [call EXCEPT ![a] = [Idle EXCEPT !.pc = "cleanDrop",
                 !.todo = {t \in Token : sessions[t] # None /\ ~Usable(t)}]]
      /\ UNCHANGED <<sessions, index, rows, born, now, restarts, owner, issued, closed, evicted>>
  BY DEF Cleanup, clientVars, At, Return, Persist, DeletePersisted
<1>2. TypeOK'
  BY <1>0, <1>1, SessionsAssumption DEF TypeOK, Call, Session, Idle, Pcs, CreatePcs, ForceLogoutPcs, CallWellFormed
<1>3. UsersAgree'
  BY <1>0, <1>1, <1>2, SessionsAssumption DEF UsersAgree, TypeOK, Call, Session, CallWellFormed, CreatePcs
<1>4. CallWellFormed(a)'
  BY <1>0, <1>1, SessionsAssumption
  DEF CallWellFormed, TypeOK, Call, Session, Idle, CreatePcs, ForceLogoutPcs, UsersAgree
<1>5. IndexBacked'
  BY <1>0, <1>1, SessionsAssumption
  DEF IndexBacked, CreatePending, TypeOK, Call, Idle, CreatePcs, ForceLogoutPcs, CallWellFormed
<1> QED BY <1>0, <1>1, <1>2, <1>3, <1>4, <1>5, StepFrame DEF TypeOK

LEMMA StepCleanupDrop ==
  ASSUME IInv, NEW a \in Actor, CleanupDrop(a)
  PROVE  IInv'
<1>0. TypeOK /\ UsersAgree /\ CallWellFormed(a) /\ IndexBacked
  BY DEF IInv
<1>1. /\ call[a].pc = "cleanDrop"
      /\ UNCHANGED <<index, rows, born, now, restarts, owner, issued, closed, evicted>>
  BY DEF CleanupDrop, clientVars, At
<1>2. CASE call' = [call EXCEPT ![a] = Idle] /\ sessions' = sessions
  <2>1. TypeOK'
    BY <1>0, <1>1, <1>2 DEF TypeOK, Call, Idle, Pcs
  <2>2. UsersAgree'
    BY <1>0, <1>1, <1>2 DEF UsersAgree
  <2>3. CallWellFormed(a)'
    BY <1>0, <1>1, <1>2 DEF CallWellFormed, TypeOK, Idle, CreatePcs, ForceLogoutPcs
  <2>4. IndexBacked'
    BY <1>0, <1>1, <1>2, IndexFrame DEF TypeOK, CreatePcs, ForceLogoutPcs
  <2> QED BY <1>0, <1>1, <1>2, <2>1, <2>2, <2>3, <2>4, StepFrame DEF TypeOK
<1>3. ASSUME NEW x \in call[a].todo,
             sessions' = [sessions EXCEPT ![x] = None],
             call' = [call EXCEPT ![a].pc = "cleanDelete", ![a].cur = x, ![a].todo = @ \ {x}]
      PROVE  IInv'
  <2>0. x \in Token
    BY <1>0, <1>1 DEF TypeOK, Call
  <2>1. TypeOK'
    <3>1. call' \in [Actor -> Call]
      BY <1>0, <1>3, <2>0 DEF TypeOK, Call, Pcs
    <3> QED BY <1>0, <1>1, <1>3, <2>0, <3>1 DEF TypeOK
  <2>2. UsersAgree'
    BY <1>0, <1>1, <1>3 DEF UsersAgree, TypeOK
  <2>3. CallWellFormed(a)'
    BY <1>0, <1>1, <1>3, <2>0
    DEF CallWellFormed, TypeOK, Call, CreatePcs, ForceLogoutPcs
  <2>4. IndexBacked'
    BY <1>0, <1>1, <1>3
    DEF IndexBacked, CreatePending, TypeOK, Call, CreatePcs, ForceLogoutPcs
  <2> QED BY <1>0, <1>1, <1>3, <2>1, <2>2, <2>3, <2>4, StepFrame DEF TypeOK
<1> QED BY <1>2, <1>3 DEF CleanupDrop, Return

LEMMA StepCleanupDelete ==
  ASSUME IInv, NEW a \in Actor, CleanupDelete(a)
  PROVE  IInv'
<1>0. TypeOK /\ UsersAgree /\ CallWellFormed(a) /\ IndexBacked
  BY DEF IInv
<1>1. /\ call[a].pc = "cleanDelete"
      /\ rows' \in {rows, [rows EXCEPT ![call[a].cur] = None]}
      /\ call' = [call EXCEPT ![a].pc = "cleanUnindex"]
      /\ UNCHANGED <<sessions, index, born, now, restarts, owner, issued, closed, evicted>>
  BY DEF CleanupDelete, clientVars, At, Return, Persist, DeletePersisted
<1>2. TypeOK'
  <2>1. call' \in [Actor -> Call]
    <3>1. "cleanUnindex" \in Pcs
      BY DEF Pcs, CreatePcs, ForceLogoutPcs
    <3> QED BY <1>0, <1>1, <3>1, CallGoesOn
  <2>2. rows' \in [Token -> Session \cup {None}]
    BY <1>0, <1>1 DEF TypeOK
  <2> QED BY <1>0, <1>1, <2>1, <2>2 DEF TypeOK
<1>3. UsersAgree'
  BY <1>0, <1>1, <1>2, SessionsAssumption DEF UsersAgree, TypeOK, Call, Session, CallWellFormed, CreatePcs
<1>4. CallWellFormed(a)'
  BY <1>0, <1>1, SessionsAssumption
  DEF CallWellFormed, TypeOK, Call, Session, Idle, CreatePcs, ForceLogoutPcs, UsersAgree
<1>5. IndexBacked'
  BY <1>0, <1>1, SessionsAssumption
  DEF IndexBacked, CreatePending, TypeOK, Call, Idle, CreatePcs, ForceLogoutPcs, CallWellFormed
<1> QED BY <1>0, <1>1, <1>2, <1>3, <1>4, <1>5, StepFrame DEF TypeOK

LEMMA StepCleanupUnindex ==
  ASSUME IInv, NEW a \in Actor, CleanupUnindex(a)
  PROVE  IInv'
<1>0. TypeOK /\ UsersAgree /\ CallWellFormed(a) /\ IndexBacked
  BY DEF IInv
<1>1. /\ call[a].pc = "cleanUnindex"
      /\ index' = [index EXCEPT ![owner[call[a].cur]] = @ \ {call[a].cur}]
      /\ call' = [call EXCEPT ![a].pc = "cleanDrop", ![a].cur = None]
      /\ UNCHANGED <<sessions, rows, born, now, restarts, owner, issued, closed, evicted>>
  BY DEF CleanupUnindex, clientVars, At, Return, Persist, DeletePersisted
<1>2. TypeOK'
  BY <1>0, <1>1, SessionsAssumption DEF TypeOK, Call, Session, Idle, Pcs, CreatePcs, ForceLogoutPcs, CallWellFormed
<1>3. UsersAgree'
  BY <1>0, <1>1, <1>2, SessionsAssumption DEF UsersAgree, TypeOK, Call, Session, CallWellFormed, CreatePcs
<1>4. CallWellFormed(a)'
  BY <1>0, <1>1, SessionsAssumption
  DEF CallWellFormed, TypeOK, Call, Session, Idle, CreatePcs, ForceLogoutPcs, UsersAgree
<1>5. IndexBacked'
  BY <1>0, <1>1, SessionsAssumption
  DEF IndexBacked, CreatePending, TypeOK, Call, Idle, CreatePcs, ForceLogoutPcs, CallWellFormed
<1> QED BY <1>0, <1>1, <1>2, <1>3, <1>4, <1>5, StepFrame DEF TypeOK

\* Restart rebuilds both maps from the rows and forgets every call.
LEMMA StepRestart ==
  ASSUME IInv, Restart
  PROVE  IInv'
<1>0. TypeOK /\ UsersAgree
  BY DEF IInv
<1>1. \A t \in Token : sessions'[t] # None => rows[t] # None /\ sessions'[t] = rows[t]
  BY DEF Restart
<1>2. TypeOK'
  <2>1. sessions' \in [Token -> Session \cup {None}]
    BY <1>0 DEF Restart, TypeOK
  <2>2. call' \in [Actor -> Call]
    BY DEF Restart, Call, Idle, Pcs
  <2>3. restarts' \in Nat
    BY <1>0 DEF Restart, TypeOK
  <2> QED BY <1>0, <2>1, <2>2, <2>3 DEF Restart, TypeOK, clientVars
<1>3. UsersAgree'
  BY <1>0, <1>1 DEF UsersAgree, Restart, clientVars
<1>4. ASSUME NEW b \in Actor PROVE CallWellFormed(b)'
  BY DEF Restart, CallWellFormed, Idle, CreatePcs, ForceLogoutPcs
<1>5. IndexBacked'
  <2> SUFFICES ASSUME NEW u \in User, NEW t \in index'[u]
               PROVE  owner'[t] = u /\ sessions'[t] # None
    BY DEF IndexBacked
  <2>1. t \in Token /\ sessions'[t] # None /\ sessions'[t].user = u
    BY DEF Restart
  <2> QED BY <1>3, <2>1 DEF UsersAgree
<1> QED BY <1>2, <1>3, <1>4, <1>5 DEF IInv

\* Time passing, or nothing at all, keeps the invariant.
LEMMA StepQuiet ==
  ASSUME IInv, Tick \/ UNCHANGED vars
  PROVE  IInv'
<1>1. /\ UNCHANGED <<sessions, index, born, rows, call, restarts, owner, issued, closed, evicted>>
      /\ now' \in Nat
  BY DEF IInv, TypeOK, Tick, vars, clientVars
<1> QED BY <1>1 DEF IInv, TypeOK, UsersAgree, CallWellFormed, IndexBacked, CreatePending

\* Every step of a call keeps the invariant.
LEMMA StepCall ==
  ASSUME IInv, NEW a \in Actor, Begin(a) \/ Continue(a)
  PROVE  IInv'
<1>1. CASE Begin(a)
  BY <1>1, StepCreateIndex, StepValidateMismatch, StepValidateOk, StepInvalidate,
     StepForceLogout, StepCleanup DEF Begin
<1>2. CASE Continue(a)
  BY <1>2, StepEvictMark, StepEvictPersist, StepCreateInsert, StepCreatePersist,
     StepValidatePersist, StepInvalidateMark, StepInvalidateUnindex, StepInvalidateDelete,
     StepInvalidateDrop, StepForceLogoutMark, StepForceLogoutDelete, StepForceLogoutDrop,
     StepForceLogoutUnindex, StepCleanupDrop, StepCleanupDelete, StepCleanupUnindex
  DEF Continue
<1> QED BY <1>1, <1>2

LEMMA StepIInv == IInv /\ [Next]_vars => IInv'
BY StepCall, StepQuiet, StepRestart DEF Next, Running

LEMMA IInvInvariant == Spec => []IInv
BY InitIInv, StepIInv, PTL DEF Spec

\* The session manager's maps, rows and calls in progress keep their types, whatever the
\* interleaving, the failing SQL statements and the restarts.
THEOREM TypeCorrect == Spec => []TypeOK
<1>1. IInv => TypeOK
  BY DEF IInv
<1> QED BY <1>1, IInvInvariant, PTL

\* The user lists behind max_sessions and force logout hold no dangling hash (src/identity/
\* sessions.rs, user_sessions), for any number of users, tokens and worker threads.
THEOREM ListsAreBacked == Spec => []IndexBacked
<1>1. IInv => IndexBacked
  BY DEF IInv
<1> QED BY <1>1, IInvInvariant, PTL

-----------------------------------------------------------------------------
(* The refinement: in one process, every step installs one token, retires some or *)
(* changes no token's status.                                                     *)

\* What every step but create's first and its insert does.
OnlyRetires ==
  /\ owner' = owner
  /\ \A t \in Token : sessions'[t] # None =>
       sessions[t] # None /\ (sessions'[t].active => sessions[t].active)
  /\ \A b \in Actor : call'[b].pc \in CreatePcs =>
       call[b].pc \in CreatePcs /\ call'[b].tok = call[b].tok /\ call'[b].new = call[b].new

\* No token becomes usable or fresh: the step is a Retire.
LEMMA RetireStep ==
  ASSUME IInv, PendingIsAbsent,
         \A t \in Token : sessions'[t] # None =>
           sessions[t] # None /\ (sessions'[t].active => sessions[t].active),
         \A t \in Token : owner'[t] = None \/ CreatePending(t)' =>
           owner[t] = None \/ CreatePending(t)
  PROVE  Lifecycle!Next
<1> DEFINE S == {t \in Token : status'[t] = "over"}
<1>1. ASSUME NEW t \in Token PROVE status'[t] = "over" \/ status'[t] = status[t]
  <2>1. owner[t] = None \/ CreatePending(t) => sessions[t] = None
    BY SessionsAssumption DEF IInv, UsersAgree, TypeOK, Session, PendingIsAbsent, CreatePending
  <2>2. CASE Active(t)'
    BY <2>2 DEF status, Active
  <2>3. CASE ~Active(t)' /\ (owner'[t] = None \/ CreatePending(t)')
    BY <2>1, <2>3 DEF status, Active
  <2>4. CASE ~Active(t)' /\ ~(owner'[t] = None \/ CreatePending(t)')
    BY <2>4 DEF status
  <2> QED BY <2>2, <2>3, <2>4
<1>2. status' = [t \in Token |-> status'[t]]
  BY DEF status
<1>3. status' = [t \in Token |-> IF t \in S THEN "over" ELSE status[t]]
  BY <1>1, <1>2
<1> QED BY <1>3 DEF Lifecycle!Next, Lifecycle!Retire

LEMMA OnlyRetiresStep ==
  ASSUME IInv, PendingIsAbsent, OnlyRetires
  PROVE  PendingIsAbsent' /\ Lifecycle!Next
<1>1. PendingIsAbsent'
  BY DEF PendingIsAbsent, OnlyRetires, IInv, CallWellFormed
<1>2. \A t \in Token : CreatePending(t)' => CreatePending(t)
  BY DEF OnlyRetires, CreatePending
<1> QED BY <1>1, <1>2, RetireStep DEF OnlyRetires

\* Refreshing, deactivating or removing an entry makes no token usable.
LEMMA SessionsShrink ==
  ASSUME TypeOK, NEW x \in Token,
         \/ sessions' = sessions
         \/ sessions[x] # None /\ sessions' = [sessions EXCEPT ![x].active = FALSE]
         \/ sessions[x] # None /\ sessions' = [sessions EXCEPT ![x] = Touched(sessions[x])]
         \/ sessions' = [sessions EXCEPT ![x] = None],
         NEW t \in Token, sessions'[t] # None
  PROVE  sessions[t] # None /\ (sessions'[t].active => sessions[t].active)
<1>1. CASE sessions' = [sessions EXCEPT ![x] = Touched(sessions[x])]
  BY <1>1, TouchedSession, SessionsAssumption DEF TypeOK
<1>2. CASE sessions' # [sessions EXCEPT ![x] = Touched(sessions[x])]
  BY <1>2, SessionsAssumption DEF TypeOK, Session
<1> QED BY <1>1, <1>2

\* Every call but create starts, and goes on, without making a token usable.
LEMMA RetiringCalls ==
  ASSUME IInv, NEW a \in Actor, Begin(a) \/ Continue(a), ~CreateInsert(a),
         \A u \in User, t \in Token, ip \in Ip \cup {NoIp} : ~CreateIndex(a, u, t, ip)
  PROVE  OnlyRetires
<1>a. ASSUME NEW t \in Token, NEW ip \in Ip \cup {NoIp}, ValidateOk(a, t, ip)
      PROVE  \/ call' = call
             \/ \E n : call' = [call EXCEPT ![a] = [Idle EXCEPT !.pc = "persistSnap",
                                                      !.tok = t, !.snap = n]]
  BY <1>a DEF ValidateOk
<1>b. ASSUME InvalidateMark(a)
      PROVE  \/ /\ call' = [call EXCEPT ![a] = Idle]
                /\ sessions' = sessions
             \/ /\ call' = [call EXCEPT ![a].pc = "unindex", ![a].user = sessions[call[a].tok].user]
                /\ sessions[call[a].tok] # None
                /\ sessions' = [sessions EXCEPT ![call[a].tok].active = FALSE]
  BY <1>b DEF InvalidateMark, Return
<1>c. ASSUME CleanupDrop(a)
      PROVE  \/ /\ call' = [call EXCEPT ![a] = Idle]
                /\ sessions' = sessions
             \/ \E x \in call[a].todo :
                  /\ sessions' = [sessions EXCEPT ![x] = None]
                  /\ call' = [call EXCEPT ![a].pc = "cleanDelete", ![a].cur = x, ![a].todo = @ \ {x}]
  BY <1>c DEF CleanupDrop, Return
<1> USE SessionsAssumption DEF OnlyRetires, At, clientVars, CreatePcs, Return, Idle, IInv, TypeOK
<1>1. ASSUME NEW t \in Token, NEW ip \in Ip \cup {NoIp}, ValidateMismatch(a, t, ip)
      PROVE  OnlyRetires
  BY <1>1 DEF ValidateMismatch
<1>2. ASSUME NEW t \in Token, NEW ip \in Ip \cup {NoIp}, ValidateOk(a, t, ip)
      PROVE  OnlyRetires
  <2>1. sessions[t] # None /\ sessions' = [sessions EXCEPT ![t] = Touched(sessions[t])]
    BY <1>2 DEF ValidateOk, Usable, Active
  <2>2. \A b \in Actor : call'[b].pc \in CreatePcs => call'[b] = call[b]
    <3>1. \A b \in Actor : b # a => call'[b] = call[b]
      BY <1>2 DEF ValidateOk
    <3>2. call'[a] = call[a] \/ call'[a].pc = "persistSnap"
      <4>1. CASE call' = call
        BY <4>1
      <4>2. ASSUME NEW n, call' = [call EXCEPT ![a] = [Idle EXCEPT !.pc = "persistSnap",
                                                         !.tok = t, !.snap = n]]
            PROVE  call'[a].pc = "persistSnap"
        BY <4>2
      <4> QED BY <1>a, <1>2, <4>1, <4>2
    <3> QED BY <3>1, <3>2
  <2> QED BY <1>2, <2>1, <2>2, SessionsShrink DEF ValidateOk
<1>3. ASSUME NEW t \in Token, Invalidate(a, t) PROVE OnlyRetires
  BY <1>3 DEF Invalidate
<1>4. ASSUME NEW u \in User, ForceLogout(a, u) PROVE OnlyRetires
  BY <1>4 DEF ForceLogout
<1>5. CASE Cleanup(a)
  BY <1>5 DEF Cleanup
<1>6. CASE EvictMark(a)
  BY <1>6 DEF EvictMark, Session, Call
<1>7. CASE EvictPersist(a)
  BY <1>7 DEF EvictPersist
<1>8. CASE CreatePersist(a)
  BY <1>8 DEF CreatePersist
<1>9. CASE ValidatePersist(a)
  BY <1>9 DEF ValidatePersist
<1>10. CASE InvalidateMark(a)
  <2>1. \A b \in Actor : call'[b].pc \in CreatePcs => call'[b] = call[b]
    <3>1. \A b \in Actor : b # a => call'[b] = call[b]
      BY <1>10 DEF InvalidateMark
    <3>2. call'[a].pc \in {"idle", "unindex"}
      BY <1>b, <1>10 DEF Call
    <3> QED BY <3>1, <3>2
  <2>2. call[a].tok \in Token
    BY <1>10 DEF InvalidateMark, CallWellFormed
  <2>3. \/ sessions' = sessions
        \/ /\ sessions[call[a].tok] # None
           /\ sessions' = [sessions EXCEPT ![call[a].tok].active = FALSE]
    BY <1>b, <1>10
  <2> QED BY <1>10, <2>1, <2>2, <2>3, SessionsShrink DEF InvalidateMark
<1>11. CASE InvalidateUnindex(a)
  BY <1>11 DEF InvalidateUnindex, Call
<1>20. CASE InvalidateDelete(a)
  BY <1>20 DEF InvalidateDelete, Call
<1>12. CASE InvalidateDrop(a)
  BY <1>12 DEF InvalidateDrop
<1>13. CASE ForceLogoutMark(a)
  <2>1. \A b \in Actor : call'[b].pc \in CreatePcs => call'[b] = call[b]
    BY <1>13 DEF ForceLogoutMark
  <2>2. PICK x \in call[a].todo :
          sessions' = IF sessions[x] = None THEN sessions ELSE [sessions EXCEPT ![x].active = FALSE]
    BY <1>13 DEF ForceLogoutMark
  <2>3. x \in Token
    BY DEF Call
  <2> QED BY <1>13, <2>1, <2>2, <2>3, SessionsShrink DEF ForceLogoutMark
<1>14. CASE ForceLogoutDelete(a)
  BY <1>14 DEF ForceLogoutDelete
<1>15. CASE ForceLogoutDrop(a)
  BY <1>15 DEF ForceLogoutDrop
<1>16. CASE ForceLogoutUnindex(a)
  BY <1>16 DEF ForceLogoutUnindex
<1>17. CASE CleanupDrop(a)
  <2>1. \A b \in Actor : call'[b].pc \in CreatePcs => call'[b] = call[b]
    <3>1. \A b \in Actor : b # a => call'[b] = call[b]
      BY <1>17 DEF CleanupDrop
    <3>2. call'[a].pc \in {"idle", "cleanDelete"}
      <4>1. CASE call' = [call EXCEPT ![a] = Idle]
        BY <4>1
      <4>2. ASSUME NEW x, call' = [call EXCEPT ![a].pc = "cleanDelete", ![a].cur = x, ![a].todo = @ \ {x}]
            PROVE  call'[a].pc = "cleanDelete"
        BY <4>2 DEF Call
      <4> QED BY <1>c, <1>17, <4>1, <4>2
    <3> QED BY <3>1, <3>2
  <2>2. CASE sessions' = sessions
    BY <1>17, <2>1, <2>2 DEF CleanupDrop
  <2>3. ASSUME NEW x \in call[a].todo, sessions' = [sessions EXCEPT ![x] = None]
        PROVE  OnlyRetires
    BY <1>17, <2>1, <2>3 DEF CleanupDrop
  <2> QED BY <1>17, <2>2, <2>3 DEF CleanupDrop
<1>18. CASE CleanupDelete(a)
  BY <1>18 DEF CleanupDelete
<1>19. CASE CleanupUnindex(a)
  BY <1>19 DEF CleanupUnindex
<1> QED BY <1>1, <1>2, <1>3, <1>4, <1>5, <1>6, <1>7, <1>8, <1>9, <1>10, <1>11, <1>12, <1>13,
           <1>14, <1>15, <1>16, <1>17, <1>18, <1>19, <1>20 DEF Begin, Continue

\* create's first step makes its token pending: to its holder nothing happens.
LEMMA CreateIndexRetires ==
  ASSUME IInv, PendingIsAbsent, NEW a \in Actor, NEW u \in User, NEW t \in Token,
         NEW ip \in Ip \cup {NoIp}, CreateIndex(a, u, t, ip)
  PROVE  PendingIsAbsent' /\ Lifecycle!Next
<1>1. /\ owner[t] = None /\ sessions[t] = None
      /\ owner' = [owner EXCEPT ![t] = u]
      /\ sessions' = sessions
      /\ call'[a].pc = "evict" /\ call'[a].tok = t /\ call'[a].new.active
      /\ \A b \in Actor : b # a => call'[b] = call[b]
  BY SessionsAssumption
  DEF CreateIndex, At, Idle, IInv, TypeOK, UsersAgree, Session
<1>2. \A b \in Actor : call[b].pc \in CreatePcs => call[b].tok # t
  BY <1>1, SessionsAssumption DEF IInv, CallWellFormed, TypeOK, Session
<1>3. PendingIsAbsent'
  BY <1>1, <1>2 DEF PendingIsAbsent, CreatePcs
<1>4. \A x \in Token : owner'[x] = None \/ CreatePending(x)' => owner[x] = None \/ CreatePending(x)
  BY <1>1 DEF CreatePending, IInv, TypeOK
<1> QED BY <1>1, <1>3, <1>4, RetireStep

\* create's insert installs its token.
LEMMA CreateInsertInstalls ==
  ASSUME IInv, PendingIsAbsent, NEW a \in Actor, CreateInsert(a)
  PROVE  PendingIsAbsent' /\ Lifecycle!Next
<1> DEFINE t == call[a].tok
<1>1. /\ t \in Token /\ sessions[t] = None /\ call[a].new \in Session /\ call[a].new.active
      /\ CreatePending(t)
      /\ \A b \in Actor : b # a /\ call[b].pc \in CreatePcs => call[b].tok # t
  BY DEF CreateInsert, At, IInv, CallWellFormed, PendingIsAbsent, CreatePending, CreatePcs
<1>2. /\ sessions' = [sessions EXCEPT ![t] = call[a].new]
      /\ owner' = owner
      /\ call'[a].pc = "persistNew"
      /\ call[a].pc = "evict"
      /\ \A b \in Actor : b # a => call'[b] = call[b]
  BY DEF CreateInsert, At, IInv, TypeOK, clientVars
<1>3. PendingIsAbsent'
  BY <1>1, <1>2 DEF PendingIsAbsent, CreatePcs, IInv, TypeOK, CallWellFormed
<1>4. status[t] = "fresh"
  BY <1>1 DEF status, Active
<1>5. status'[t] = "live"
  BY <1>1, <1>2, SessionsAssumption DEF status, Active, IInv, TypeOK
<1>6. ASSUME NEW x \in Token, x # t PROVE status'[x] = status[x]
  <2>1. CreatePending(x)' <=> CreatePending(x)
    BY <1>2, <1>6 DEF CreatePending, CreatePcs
  <2>2. sessions'[x] = sessions[x]
    BY <1>2, <1>6 DEF IInv, TypeOK
  <2> QED BY <1>2, <2>1, <2>2 DEF status, Active
<1>7. status' = [status EXCEPT ![t] = "live"]
  <2>1. status' = [x \in Token |-> status'[x]] /\ status = [x \in Token |-> status[x]]
    BY DEF status
  <2> QED BY <1>5, <1>6, <2>1
<1> QED BY <1>1, <1>3, <1>4, <1>7 DEF Lifecycle!Next, Lifecycle!Install

LEMMA InitLifecycle == Init => PendingIsAbsent /\ Lifecycle!Init
BY SessionsAssumption
DEF Init, PendingIsAbsent, Idle, CreatePcs, Lifecycle!Init, status, Active

LEMMA StepPInv == PInv /\ [Running]_vars => PInv' /\ [Lifecycle!Next]_status
<1> SUFFICES ASSUME PInv, [Running]_vars PROVE PInv' /\ [Lifecycle!Next]_status
  OBVIOUS
<1> USE DEF PInv
<1>1. IInv'
  BY StepIInv DEF Next
<1>2. CASE Tick \/ UNCHANGED vars
  BY <1>1, <1>2 DEF Tick, vars, clientVars, PendingIsAbsent, status, Active, CreatePending
<1>3. ASSUME NEW a \in Actor, Begin(a) \/ Continue(a) PROVE PendingIsAbsent' /\ Lifecycle!Next
  <2>1. CASE CreateInsert(a)
    BY <2>1, CreateInsertInstalls
  <2>2. CASE \E u \in User, t \in Token, ip \in Ip \cup {NoIp} : CreateIndex(a, u, t, ip)
    BY <2>2, CreateIndexRetires
  <2>3. CASE ~CreateInsert(a) /\ \A u \in User, t \in Token, ip \in Ip \cup {NoIp} :
                                   ~CreateIndex(a, u, t, ip)
    BY <1>3, <2>3, RetiringCalls, OnlyRetiresStep
  <2> QED BY <2>1, <2>2, <2>3
<1> QED BY <1>1, <1>2, <1>3 DEF Running

\* Within a process, the interleaved steps of create, validate, invalidate, force logout
\* and cleanup implement the one-way token lifecycle: a closed session never comes back
\* (src/identity/sessions.rs).
THEOREM Refinement == ProcessSpec => ImplementsLifecycle
<1>1. Init => PInv /\ Lifecycle!Init
  BY InitIInv, InitLifecycle DEF PInv
<1> QED BY <1>1, StepPInv, PTL DEF ProcessSpec, ImplementsLifecycle, Lifecycle!Spec


-----------------------------------------------------------------------------
(* One worker and a table that does not fail: the limit and the two ways of  *)
(* closing sessions hold, through a crash after any step.  With more workers *)
(* they do not (runs sessions_limit_race and sessions_resurrection).         *)

\* A row that a restart would load.
RowLive(t) == rows[t] # None /\ rows[t].active /\ rows[t].expires > now

\* An accepted session that a restart would find as it is.
Mirrored(t) == Active(t) /\ sessions[t].expires = rows[t].expires

\* The limit of the table, which a restart makes that of the map.
RowLimit == \A u \in User : Cardinality({t \in Token : RowLive(t) /\ rows[t].user = u}) <= MaxSessions

\* What validate accepts stands in its user's list, but for what create took off it.
Listed(w) == \A t \in Token : Usable(t) =>
  \/ t \in index[owner[t]]
  \/ call[w].pc \in CreatePcs /\ t \in call[w].todo

\* The table holds only what validate accepts, but for a write that is due.
RowsFollow(w) == \A t \in Token : RowLive(t) =>
  \/ Mirrored(t)
  \/ call[w].pc \in {"evictPersist", "userDelete"} /\ call[w].cur = t
  \/ call[w].pc \in {"unindex", "deleteRow"} /\ call[w].tok = t

\* Both hold only what a client holds, but for the session being created.
Held(w) == \A t \in Token :
  /\ Usable(t) => t \in issued \/ (call[w].pc = "persistNew" /\ call[w].tok = t)
  /\ RowLive(t) => t \in issued

\* What has been closed stays closed.
Closed == /\ \A t \in closed \cup evicted : t \in issued /\ ~Usable(t) /\ ~RowLive(t)
          /\ \A t \in issued : owner[t] # None

\* The newest push has the highest number.
PushOrder == \A t \in Token : /\ born[t] <= Cardinality({x \in Token : born[x] > 0})
                              /\ owner[t] = None => born[t] = 0

\* What the call under way has done so far.
CreateUnderway(w) ==
  /\ call[w].pc \in CreatePcs =>
       /\ call[w].user = owner[call[w].tok] /\ call[w].user \in User
       /\ call[w].tok \in index[call[w].user] /\ call[w].tok \notin issued
       /\ Cardinality(index[call[w].user]) <= MaxSessions
  /\ call[w].pc = "evictPersist" => call[w].snap.active = FALSE
  /\ call[w].pc = "persistNew" =>
       sessions[call[w].tok] = call[w].new /\ call[w].tok \notin issued

ValidateUnderway(w) == call[w].pc = "persistSnap" =>
  sessions[call[w].tok] = call[w].snap /\ call[w].tok \in issued \ (closed \cup evicted)

InvalidateUnderway(w) ==
  /\ call[w].pc \in {"mark", "unindex", "deleteRow", "drop"} => call[w].tok \in issued
  /\ call[w].pc \in {"unindex", "deleteRow", "drop"} => ~Active(call[w].tok)
  /\ call[w].pc = "drop" => ~RowLive(call[w].tok)

ForceLogoutUnderway(w) == call[w].pc \in ForceLogoutPcs =>
  /\ call[w].due \subseteq issued
  /\ \A t \in call[w].due : owner[t] = call[w].user
  /\ \A t \in Token : owner[t] = call[w].user /\ Usable(t) => t \in call[w].todo
  /\ \A t \in Token : owner[t] = call[w].user /\ RowLive(t) =>
       \/ t \in call[w].todo
       \/ call[w].pc = "userDelete" /\ t = call[w].cur
  /\ call[w].pc # "userMark" => call[w].cur \notin call[w].todo

CleanupUnderway(w) ==
  /\ call[w].pc \in {"cleanDrop", "cleanDelete", "cleanUnindex"} =>
       \A t \in call[w].todo : ~Usable(t)
  /\ call[w].pc \in {"cleanDelete", "cleanUnindex"} => ~Usable(call[w].cur)

Underway(w) == /\ CreateUnderway(w) /\ ValidateUnderway(w) /\ InvalidateUnderway(w)
               /\ ForceLogoutUnderway(w) /\ CleanupUnderway(w)

SerialInv(w) == /\ WithinLimit /\ RowLimit /\ Listed(w) /\ RowsFollow(w) /\ Held(w)
                /\ Closed /\ PushOrder /\ Underway(w)

\* One worker, a table that does not fail, and the two invariants.
Serial(w) == Actor = {w} /\ StorageFaults = FALSE /\ IInv /\ SerialInv(w)

\* If fewer tokens are accepted, and fewer rows live, both limits stay kept.
LEMMA LimitsKept ==
  ASSUME IInv, IInv', WithinLimit, RowLimit, owner' = owner,
         \A t \in Token : Usable(t)' => Usable(t),
         \A t \in Token : RowLive(t)' => RowLive(t)
  PROVE  WithinLimit' /\ RowLimit'
<1>1. ASSUME NEW t \in Token, Usable(t)'
      PROVE  sessions'[t].user = sessions[t].user
  <2>1. sessions[t] # None /\ sessions'[t] # None
    BY <1>1 DEF Usable, Active
  <2> QED BY <2>1 DEF IInv, UsersAgree
<1>2. ASSUME NEW t \in Token, RowLive(t)'
      PROVE  rows'[t].user = rows[t].user
  <2>1. rows[t] # None /\ rows'[t] # None
    BY <1>2 DEF RowLive
  <2> QED BY <2>1 DEF IInv, UsersAgree
<1>3. ASSUME NEW u \in User
      PROVE  Cardinality({t \in Token : Usable(t)' /\ sessions'[t].user = u}) <= MaxSessions
  <2> DEFINE S == {t \in Token : Usable(t)' /\ sessions'[t].user = u}
             T == {t \in Token : Usable(t) /\ sessions[t].user = u}
  <2>1. T \subseteq Token /\ S \subseteq T
    BY <1>1
  <2>2. Cardinality(T) <= MaxSessions
    BY DEF WithinLimit
  <2> QED BY <2>1, <2>2, SessionsAssumption, FS_Subset, FS_CardinalityType
<1>4. ASSUME NEW u \in User
      PROVE  Cardinality({t \in Token : RowLive(t)' /\ rows'[t].user = u}) <= MaxSessions
  <2> DEFINE S == {t \in Token : RowLive(t)' /\ rows'[t].user = u}
             T == {t \in Token : RowLive(t) /\ rows[t].user = u}
  <2>1. T \subseteq Token /\ S \subseteq T
    BY <1>2
  <2>2. Cardinality(T) <= MaxSessions
    BY DEF RowLimit
  <2> QED BY <2>1, <2>2, SessionsAssumption, FS_Subset, FS_CardinalityType
<1> QED BY <1>3, <1>4 DEF WithinLimit, RowLimit

\* What a step that accepts no token anew and writes no live row has still to show.
LEMMA ShrinkStep ==
  ASSUME NEW w \in Actor, Serial(w), IInv',
         UNCHANGED <<owner, born, issued, closed, evicted>>,
         \A t \in Token : Usable(t)' => Usable(t),
         \A t \in Token : RowLive(t)' => RowLive(t),
         call[w].pc = "persistNew" => call'[w] = call[w],
         Listed(w)', RowsFollow(w)', Underway(w)'
  PROVE  SerialInv(w)'
<1>1. WithinLimit' /\ RowLimit'
  BY LimitsKept DEF Serial, SerialInv
<1>2. Held(w)'
  BY DEF Held, Serial, SerialInv
<1>3. Closed'
  <2>1. Closed /\ closed \subseteq Token /\ evicted \subseteq Token
    BY DEF Serial, SerialInv, IInv, TypeOK
  <2> QED BY <2>1 DEF Closed
<1>4. PushOrder'
  BY DEF PushOrder, Serial, SerialInv
<1> QED BY <1>1, <1>2, <1>3, <1>4 DEF SerialInv

\* The three things a step does to the map and the table, and what validate and a restart
\* see of them.
LEMMA SameEntry ==
  ASSUME NEW t \in Token, sessions'[t] = sessions[t], now' = now
  PROVE  (Active(t)' <=> Active(t)) /\ (Usable(t)' <=> Usable(t))
BY DEF Active, Usable

LEMMA SameRow ==
  ASSUME NEW t \in Token, rows'[t] = rows[t], now' = now
  PROVE  RowLive(t)' <=> RowLive(t)
BY DEF RowLive

LEMMA SameBoth ==
  ASSUME NEW t \in Token, sessions'[t] = sessions[t], rows'[t] = rows[t]
  PROVE  Mirrored(t)' <=> Mirrored(t)
BY DEF Active, Mirrored

LEMMA Deactivated ==
  ASSUME TypeOK, NEW x \in Token, sessions[x] # None, now' = now,
         sessions' = [sessions EXCEPT ![x].active = FALSE]
  PROVE  /\ ~Active(x)' /\ ~Usable(x)'
         /\ \A t \in Token \ {x} : sessions'[t] = sessions[t]
         /\ \A t \in Token : (Active(t)' => Active(t)) /\ (Usable(t)' => Usable(t))
<1>1. sessions'[x].active = FALSE
  BY DEF TypeOK, Session
<1>2. \A t \in Token \ {x} : sessions'[t] = sessions[t]
  BY DEF TypeOK
<1>3. ~Active(x)' /\ ~Usable(x)'
  BY <1>1, Zenon DEF Active, Usable
<1>4. ASSUME NEW t \in Token PROVE (Active(t)' => Active(t)) /\ (Usable(t)' => Usable(t))
  BY <1>2, <1>3, SameEntry
<1> QED BY <1>2, <1>3, <1>4

LEMMA Removed ==
  ASSUME TypeOK, NEW x \in Token, now' = now, sessions' = [sessions EXCEPT ![x] = None]
  PROVE  /\ ~Active(x)' /\ ~Usable(x)'
         /\ \A t \in Token \ {x} : sessions'[t] = sessions[t]
         /\ \A t \in Token : (Active(t)' => Active(t)) /\ (Usable(t)' => Usable(t))
<1>1. sessions'[x] = None
  BY DEF TypeOK
<1>2. \A t \in Token \ {x} : sessions'[t] = sessions[t]
  BY DEF TypeOK
<1>3. ~Active(x)' /\ ~Usable(x)'
  BY <1>1, Zenon DEF Active, Usable
<1>4. ASSUME NEW t \in Token PROVE (Active(t)' => Active(t)) /\ (Usable(t)' => Usable(t))
  BY <1>2, <1>3, SameEntry
<1> QED BY <1>2, <1>3, <1>4

\* Writing an inactive session over a row, or deleting it.
LEMMA RowDies ==
  ASSUME TypeOK, NEW x \in Token, NEW s, s = None \/ s.active = FALSE, now' = now,
         rows' = [rows EXCEPT ![x] = s]
  PROVE  /\ ~RowLive(x)'
         /\ \A t \in Token \ {x} : rows'[t] = rows[t]
         /\ \A t \in Token : RowLive(t)' => RowLive(t)
<1>1. rows'[x] = s
  BY DEF TypeOK
<1>2. \A t \in Token \ {x} : rows'[t] = rows[t]
  BY DEF TypeOK
<1>3. ~RowLive(x)'
  BY <1>1, Zenon DEF RowLive
<1>4. ASSUME NEW t \in Token PROVE RowLive(t)' => RowLive(t)
  BY <1>2, <1>3, SameRow
<1> QED BY <1>2, <1>3, <1>4

LEMMA SerialTick ==
  ASSUME NEW w \in Actor, Serial(w), IInv', Tick \/ UNCHANGED vars
  PROVE  SerialInv(w)'
<1>1. UNCHANGED <<sessions, index, born, rows, call, owner, issued, closed, evicted>>
  BY DEF Tick, vars, clientVars
<1>2. now \in Nat /\ now' \in Nat /\ now <= now'
  BY DEF Tick, vars, Serial, IInv, TypeOK
<1>3. ASSUME NEW t \in Token
      PROVE  (Active(t)' <=> Active(t)) /\ (Mirrored(t)' <=> Mirrored(t))
  BY <1>1, SameBoth DEF Active
<1>4. ASSUME NEW t \in Token, Usable(t)' PROVE Usable(t)
  <2>1. Active(t) /\ sessions[t] \in Session
    BY <1>1, <1>3, <1>4 DEF Usable, Active, Serial, IInv, TypeOK
  <2>2. now' <= sessions[t].expires
    BY <1>1, <1>4 DEF Usable
  <2>3. now <= sessions[t].expires
    BY <1>2, <2>1, <2>2 DEF Session
  <2> QED BY <2>1, <2>3 DEF Usable
<1>5. ASSUME NEW t \in Token, RowLive(t)' PROVE RowLive(t)
  <2>1. rows[t] # None /\ rows[t].active /\ rows[t].expires > now'
    BY <1>1, <1>5, Zenon DEF RowLive
  <2>2. rows[t].expires \in Nat
    BY <2>1 DEF Serial, IInv, TypeOK, Session
  <2>3. rows[t].expires > now
    BY <1>2, <2>1, <2>2
  <2> QED BY <2>1, <2>3 DEF RowLive
<1>6. Listed(w)' /\ RowsFollow(w)'
  BY <1>1, <1>3, <1>4, <1>5 DEF Listed, RowsFollow, Serial, SerialInv
<1>7. Underway(w)'
  <2>0. Underway(w) /\ CallWellFormed(w) /\ call[w] \in Call
    BY DEF Serial, SerialInv, IInv, TypeOK
  <2>1. CreateUnderway(w)' /\ ValidateUnderway(w)'
    BY <1>1, <2>0 DEF Underway, CreateUnderway, ValidateUnderway
  <2>2. InvalidateUnderway(w)'
    BY <1>1, <1>3, <1>5, <2>0 DEF Underway, InvalidateUnderway, CallWellFormed
  <2>3. ForceLogoutUnderway(w)'
    BY <1>1, <1>4, <1>5, <2>0 DEF Underway, ForceLogoutUnderway
  <2>4. CleanupUnderway(w)'
    BY <1>1, <1>4, <2>0 DEF Underway, CleanupUnderway, CallWellFormed, Call
  <2> QED BY <2>1, <2>2, <2>3, <2>4 DEF Underway
<1> QED BY <1>1, <1>4, <1>5, <1>6, <1>7, ShrinkStep

LEMMA SerialCreateIndex ==
  ASSUME NEW w \in Actor, Serial(w), IInv', NEW u \in User, NEW t \in Token,
         NEW ip \in Ip \cup {NoIp}, CreateIndex(w, u, t, ip)
  PROVE  SerialInv(w)'
<1> DEFINE kept == {x \in index[u] : Usable(x)} \cup {t}
           pushed == {x \in Token : born[x] > 0}
<1>0. /\ TypeOK /\ UsersAgree /\ SerialInv(w)
      /\ \A x \in Token : x \in pushed <=> born[x] > 0
  BY DEF Serial, IInv
<1>1. /\ call[w].pc = "idle" /\ owner[t] = None
      /\ owner' = [owner EXCEPT ![t] = u]
      /\ born' = [born EXCEPT ![t] = 1 + Cardinality(pushed)]
      /\ UNCHANGED <<sessions, rows, now, issued, closed, evicted>>
  BY DEF CreateIndex, At
<1>2. PICK out \in Overflow(kept, born') :
        /\ index' = [index EXCEPT ![u] = kept \ out]
        /\ \E new : call' = [call EXCEPT ![w] = [Idle EXCEPT !.pc = "evict", !.user = u, !.tok = t,
                                                   !.todo = out, !.new = new]]
  BY DEF CreateIndex
<1>3. /\ out \subseteq kept
      /\ Cardinality(kept \ out) = IF Cardinality(kept) < MaxSessions
                                   THEN Cardinality(kept) ELSE MaxSessions
      /\ \A x \in out, y \in kept \ out : born'[x] <= born'[y]
  BY <1>2 DEF Overflow
<1>4. call'[w].pc = "evict" /\ call'[w].user = u /\ call'[w].tok = t /\ call'[w].todo = out
  BY <1>0, <1>2 DEF TypeOK, Idle
<1>5. IsFiniteSet(pushed) /\ Cardinality(pushed) \in Nat /\ pushed \subseteq Token
  BY SessionsAssumption, FS_Subset, FS_CardinalityType
<1>6. kept \subseteq Token /\ IsFiniteSet(kept) /\ IsFiniteSet(kept \ out) /\ t \in kept
  <2>1. kept \subseteq Token
    BY <1>0 DEF TypeOK
  <2> QED BY <2>1, SessionsAssumption, FS_Subset
<1>7. Cardinality(kept \ out) <= MaxSessions
  BY <1>3, <1>6, FS_CardinalityType, SessionsAssumption
<1>8. t \notin out
  <2> SUFFICES ASSUME t \in out PROVE FALSE
    OBVIOUS
  <2>1. kept \ out # {}
    <3> SUFFICES ASSUME kept \ out = {} PROVE FALSE
      OBVIOUS
    <3>1. Cardinality(kept \ out) = 0
      BY FS_EmptySet
    <3>2. Cardinality(kept) = 0
      BY <1>3, <3>1, SessionsAssumption
    <3>3. kept = {}
      BY <1>6, <3>2, FS_EmptySet
    <3> QED BY <1>6, <3>3
  <2>2. PICK y : y \in kept \ out
    BY <2>1
  <2>3. born'[t] <= born'[y] /\ y # t /\ y \in Token
    BY <1>3, <1>6, <2>2
  <2>4. born'[t] = 1 + Cardinality(pushed) /\ born'[y] = born[y] /\ born[y] \in Nat
    BY <1>0, <1>1, <2>3 DEF TypeOK
  <2>5. born[y] <= Cardinality(pushed)
    BY <1>0, <2>3 DEF SerialInv, PushOrder
  <2> QED BY <1>5, <2>3, <2>4, <2>5
<1> HIDE DEF pushed
<1>9. PushOrder'
  <2>1. t \notin pushed
    <3>1. born[t] = 0
      BY <1>0, <1>1 DEF SerialInv, PushOrder
    <3> QED BY <1>0, <3>1
  <2>2. {x \in Token : born'[x] > 0} = pushed \cup {t}
    BY <1>0, <1>1, <1>5 DEF TypeOK
  <2>3. Cardinality(pushed \cup {t}) = 1 + Cardinality(pushed)
    <3>1. Cardinality(pushed \cup {t}) = Cardinality(pushed) + 1
      BY <1>5, <2>1, FS_AddElement
    <3> QED BY <1>5, <3>1
  <2>4. ASSUME NEW x \in Token
        PROVE  born'[x] <= 1 + Cardinality(pushed) /\ (owner'[x] = None => born'[x] = 0)
    <3>1. CASE x = t
      BY <1>0, <1>1, <1>5, <3>1, SessionsAssumption DEF TypeOK
    <3>2. CASE x # t
      <4>1. born'[x] = born[x] /\ owner'[x] = owner[x] /\ born[x] \in Nat
        BY <1>0, <1>1, <3>2 DEF TypeOK
      <4>2. born[x] <= Cardinality(pushed) /\ (owner[x] = None => born[x] = 0)
        BY <1>0 DEF SerialInv, PushOrder, pushed
      <4> QED BY <1>5, <4>1, <4>2
    <3> QED BY <3>1, <3>2
  <2> QED BY <2>2, <2>3, <2>4 DEF PushOrder
<1>10. ASSUME NEW x \in Token
       PROVE  /\ Usable(x)' <=> Usable(x)
              /\ RowLive(x)' <=> RowLive(x)
              /\ Mirrored(x)' <=> Mirrored(x)
              /\ Usable(x) => x # t
  <2>1. sessions[t] = None
    BY <1>0, <1>1, SessionsAssumption DEF UsersAgree, TypeOK, Session
  <2>2. Usable(x) => x # t
    BY <2>1 DEF Usable, Active
  <2> QED BY <1>1, <2>2, SameEntry, SameRow, SameBoth
<1>11. WithinLimit' /\ RowLimit'
  BY <1>0, <1>1, <1>10 DEF SerialInv, WithinLimit, RowLimit
<1>12. Closed'
  <2>1. Closed /\ closed \subseteq Token /\ evicted \subseteq Token /\ issued \subseteq Token
    BY <1>0 DEF SerialInv, TypeOK
  <2>2. \A x \in issued : owner'[x] # None
    BY <1>0, <1>1, <2>1, SessionsAssumption DEF Closed, TypeOK
  <2> QED BY <1>1, <1>10, <2>1, <2>2 DEF Closed
<1>13. Held(w)'
  BY <1>0, <1>1, <1>10 DEF SerialInv, Held
<1>14. Listed(w)'
  <2> SUFFICES ASSUME NEW x \in Token, Usable(x)'
               PROVE  x \in index'[owner'[x]] \/ x \in out
    BY <1>4 DEF Listed, CreatePcs
  <2>1. Usable(x) /\ x # t /\ owner'[x] = owner[x]
    BY <1>0, <1>1, <1>10 DEF TypeOK
  <2>2. x \in index[owner[x]]
    BY <1>0, <1>1, <2>1 DEF SerialInv, Listed, CreatePcs
  <2>3. owner[x] \in User
    <3>1. sessions[x] # None /\ sessions[x] \in Session /\ sessions[x].user = owner[x]
      BY <1>0, <2>1 DEF Usable, Active, UsersAgree, TypeOK
    <3> QED BY <3>1 DEF Session
  <2>4. CASE owner[x] = u
    BY <1>0, <1>2, <2>1, <2>2, <2>4 DEF TypeOK
  <2>5. CASE owner[x] # u
    BY <1>0, <1>2, <2>1, <2>2, <2>3, <2>5 DEF TypeOK
  <2> QED BY <2>4, <2>5
<1>15. RowsFollow(w)'
  BY <1>0, <1>1, <1>10 DEF SerialInv, RowsFollow
<1>16. Underway(w)'
  <2>1. index'[u] = kept \ out /\ owner'[t] = u
    BY <1>0, <1>1, <1>2 DEF TypeOK
  <2>2. t \notin issued
    BY <1>0, <1>1 DEF SerialInv, Closed
  <2>3. CreateUnderway(w)'
    BY <1>1, <1>4, <1>6, <1>7, <1>8, <2>1, <2>2 DEF CreateUnderway
  <2> QED BY <1>4, <2>3 DEF Underway, ValidateUnderway, InvalidateUnderway, ForceLogoutUnderway,
        CleanupUnderway, ForceLogoutPcs
<1> QED BY <1>9, <1>11, <1>12, <1>13, <1>14, <1>15, <1>16 DEF SerialInv

\* A step of create's eviction leaves the rest of what create knows.
LEMMA EvictGoesOn ==
  ASSUME NEW w \in Actor, Serial(w), call[w].pc \in CreatePcs, index' = index, owner' = owner,
         issued' = issued, call'[w].user = call[w].user, call'[w].tok = call[w].tok,
         \/ call'[w].pc = "evict"
         \/ call'[w].pc = "evictPersist" /\ call'[w].snap.active = FALSE
  PROVE  Underway(w)'
<1>1. CreateUnderway(w)
  BY DEF Serial, SerialInv, Underway
<1>2. CreateUnderway(w)'
  BY <1>1 DEF CreateUnderway, CreatePcs
<1> QED BY <1>2 DEF Underway, ValidateUnderway, InvalidateUnderway, ForceLogoutUnderway,
      CleanupUnderway, ForceLogoutPcs

LEMMA SerialEvictMark ==
  ASSUME NEW w \in Actor, Serial(w), IInv', EvictMark(w)
  PROVE  SerialInv(w)'
<1>0. TypeOK /\ SerialInv(w) /\ call[w] \in Call
  BY DEF Serial, IInv, TypeOK
<1>1. PICK x \in call[w].todo :
        /\ call[w].pc = "evict"
        /\ \/ /\ sessions[x] = None
              /\ call' = [call EXCEPT ![w].todo = @ \ {x}]
              /\ sessions' = sessions
           \/ /\ sessions[x] # None
              /\ sessions' = [sessions EXCEPT ![x].active = FALSE]
              /\ call' = [call EXCEPT ![w].pc = "evictPersist", ![w].cur = x,
                                      ![w].todo = @ \ {x},
                                      ![w].snap = [sessions[x] EXCEPT !.active = FALSE]]
        /\ UNCHANGED <<index, born, rows, now, owner, issued, closed, evicted>>
  BY DEF EvictMark, clientVars, At
<1>2. x \in Token
  BY <1>0 DEF Call
<1>3. /\ \A t \in Token \ {x} : sessions'[t] = sessions[t]
      /\ \A t \in Token : Usable(t)' => Usable(t)
      /\ ~Usable(x)'
  <2>1. CASE sessions[x] = None
    BY <1>1, <1>2, <2>1, SameEntry DEF Usable, Active
  <2>2. CASE sessions[x] # None
    BY <1>0, <1>1, <1>2, <2>2, Deactivated
  <2> QED BY <2>1, <2>2
<1>4. \A t \in Token : RowLive(t)' <=> RowLive(t)
  BY <1>1, SameRow
<1>5. /\ call'[w].todo = call[w].todo \ {x} /\ call'[w].user = call[w].user
      /\ call'[w].tok = call[w].tok
      /\ \/ call'[w].pc = "evict" /\ sessions' = sessions /\ sessions[x] = None
         \/ /\ call'[w].pc = "evictPersist" /\ call'[w].cur = x
            /\ call'[w].snap.active = FALSE
  <2>1. CASE sessions[x] = None
    BY <1>0, <1>1, <2>1 DEF TypeOK, Call
  <2>2. CASE sessions[x] # None
    <3>1. sessions[x] \in Session
      BY <1>0, <1>2, <2>2 DEF TypeOK
    <3>2. [sessions[x] EXCEPT !.active = FALSE].active = FALSE
      BY <3>1 DEF Session
    <3> QED BY <1>0, <1>1, <2>2, <3>2 DEF TypeOK, Call
  <2> QED BY <2>1, <2>2
<1>6. Listed(w)'
  BY <1>0, <1>1, <1>3, <1>5 DEF SerialInv, Listed, CreatePcs
<1>7. RowsFollow(w)'
  <2> SUFFICES ASSUME NEW t \in Token, RowLive(t)'
               PROVE  Mirrored(t)' \/ (call'[w].pc = "evictPersist" /\ call'[w].cur = t)
    BY DEF RowsFollow
  <2>1. Mirrored(t)
    BY <1>0, <1>1, <1>4 DEF SerialInv, RowsFollow
  <2>2. CASE t = x
    BY <1>5, <2>1, <2>2 DEF Mirrored, Active
  <2>3. CASE t # x
    BY <1>1, <1>3, <2>1, <2>3, SameBoth
  <2> QED BY <2>2, <2>3
<1>8. Underway(w)'
  BY <1>1, <1>5, EvictGoesOn DEF CreatePcs
<1> QED BY <1>1, <1>3, <1>4, <1>6, <1>7, <1>8, ShrinkStep

LEMMA SerialEvictPersist ==
  ASSUME NEW w \in Actor, Serial(w), IInv', EvictPersist(w)
  PROVE  SerialInv(w)'
<1>0. TypeOK /\ SerialInv(w) /\ CallWellFormed(w)
  BY DEF Serial, IInv
<1>x. PICK x : x = call[w].cur
  OBVIOUS
<1>1. /\ call[w].pc = "evictPersist"
      /\ rows' = [rows EXCEPT ![x] = call[w].snap]
      /\ call' = [call EXCEPT ![w].pc = "evict", ![w].cur = None, ![w].snap = None]
      /\ UNCHANGED <<sessions, index, born, now, owner, issued, closed, evicted>>
  BY <1>x DEF EvictPersist, clientVars, At, Persist, Serial
<1>2. x \in Token
  BY <1>0, <1>1, <1>x DEF CallWellFormed
<1>3. call[w].snap.active = FALSE
  BY <1>0, <1>1 DEF SerialInv, Underway, CreateUnderway
<1>4. /\ \A t \in Token : Usable(t)' <=> Usable(t)
      /\ ~RowLive(x)'
      /\ \A t \in Token \ {x} : rows'[t] = rows[t]
      /\ \A t \in Token : RowLive(t)' => RowLive(t)
  <2>1. \A t \in Token : Usable(t)' <=> Usable(t)
    BY <1>1, SameEntry
  <2>2. /\ ~RowLive(x)'
        /\ \A t \in Token \ {x} : rows'[t] = rows[t]
        /\ \A t \in Token : RowLive(t)' => RowLive(t)
    BY <1>0, <1>1, <1>2, <1>3, RowDies
  <2> QED BY <2>1, <2>2
<1>5. /\ call'[w].pc = "evict" /\ call'[w].user = call[w].user
      /\ call'[w].tok = call[w].tok /\ call'[w].todo = call[w].todo
  BY <1>0, <1>1 DEF TypeOK, Call
<1>6. Listed(w)'
  BY <1>0, <1>1, <1>4, <1>5 DEF SerialInv, Listed, CreatePcs
<1>7. RowsFollow(w)'
  <2> SUFFICES ASSUME NEW t \in Token, RowLive(t)' PROVE Mirrored(t)'
    BY DEF RowsFollow
  <2>1. t # x /\ RowLive(t)
    BY <1>4
  <2>2. Mirrored(t)
    BY <1>0, <1>1, <1>x, <2>1 DEF SerialInv, RowsFollow
  <2> QED BY <1>1, <1>4, <2>1, <2>2, SameBoth
<1>8. Underway(w)'
  BY <1>1, <1>5, EvictGoesOn DEF CreatePcs
<1> QED BY <1>1, <1>4, <1>6, <1>7, <1>8, ShrinkStep

LEMMA SerialCreateInsert ==
  ASSUME NEW w \in Actor, Serial(w), IInv', CreateInsert(w)
  PROVE  SerialInv(w)'
<1>0. TypeOK /\ UsersAgree /\ UsersAgree' /\ SerialInv(w) /\ CallWellFormed(w)
  BY DEF Serial, IInv
<1>x. PICK t : t = call[w].tok
  OBVIOUS
<1>u. PICK v : v = call[w].user
  OBVIOUS
<1>1. /\ call[w].pc = "evict" /\ call[w].todo = {}
      /\ sessions' = [sessions EXCEPT ![t] = call[w].new]
      /\ call' = [call EXCEPT ![w].pc = "persistNew"]
      /\ UNCHANGED <<index, born, rows, now, owner, issued, closed, evicted>>
  BY <1>x DEF CreateInsert, clientVars, At
<1>2. /\ t \in Token /\ v = owner[t] /\ v \in User /\ t \in index[v] /\ t \notin issued
      /\ Cardinality(index[v]) <= MaxSessions
  BY <1>0, <1>1, <1>x, <1>u DEF CallWellFormed, CreatePcs, SerialInv, Underway, CreateUnderway
<1>3. /\ call'[w].pc = "persistNew" /\ call'[w].tok = t /\ call'[w].new = call[w].new
      /\ sessions'[t] = call[w].new
      /\ \A y \in Token \ {t} : sessions'[y] = sessions[y]
  BY <1>0, <1>1, <1>2, <1>x DEF TypeOK, Call
<1>4. /\ \A y \in Token \ {t} : Usable(y)' <=> Usable(y)
      /\ \A y \in Token \ {t} : Mirrored(y)' <=> Mirrored(y)
      /\ \A y \in Token : RowLive(y)' <=> RowLive(y)
  BY <1>1, <1>3, SameEntry, SameRow, SameBoth
<1>5. Listed(w)'
  <2> SUFFICES ASSUME NEW y \in Token, Usable(y)' PROVE y \in index[owner[y]]
    BY <1>1 DEF Listed
  <2>1. CASE y = t
    BY <1>2, <2>1
  <2>2. CASE y # t
    BY <1>0, <1>1, <1>4, <2>2 DEF SerialInv, Listed
  <2> QED BY <2>1, <2>2
<1>6. ASSUME NEW u \in User
      PROVE  Cardinality({y \in Token : Usable(y)' /\ sessions'[y].user = u}) <= MaxSessions
  <2> DEFINE S == {y \in Token : Usable(y)' /\ sessions'[y].user = u}
             T == {y \in Token : Usable(y) /\ sessions[y].user = u}
  <2>1. CASE u = v
    <3>1. S \subseteq index[v]
      <4> SUFFICES ASSUME NEW y \in Token, Usable(y)', sessions'[y].user = v
                   PROVE  y \in index[v]
        BY <2>1
      <4>1. sessions'[y] # None
        BY DEF Usable, Active
      <4>2. owner[y] = v
        BY <1>0, <1>1, <4>1 DEF UsersAgree
      <4> QED BY <1>1, <1>3, <1>5, <4>2 DEF Listed, CreatePcs
    <3>2. index[v] \subseteq Token
      BY <1>0, <1>2 DEF TypeOK
    <3> QED BY <1>2, <3>1, <3>2, SessionsAssumption, FS_Subset, FS_CardinalityType
  <2>2. CASE u # v
    <3>1. S \subseteq T
      <4> SUFFICES ASSUME NEW y \in Token, Usable(y)', sessions'[y].user = u
                   PROVE  Usable(y) /\ sessions[y].user = u
        OBVIOUS
      <4>1. sessions'[y] # None
        BY DEF Usable, Active
      <4>2. owner[y] = u
        BY <1>0, <1>1, <4>1 DEF UsersAgree
      <4>3. y # t
        BY <1>2, <2>2, <4>2
      <4> QED BY <1>3, <1>4, <4>3
    <3>2. Cardinality(T) <= MaxSessions /\ T \subseteq Token
      BY <1>0 DEF SerialInv, WithinLimit
    <3> QED BY <3>1, <3>2, SessionsAssumption, FS_Subset, FS_CardinalityType
  <2> QED BY <2>1, <2>2
<1>7. WithinLimit' /\ RowLimit'
  BY <1>0, <1>1, <1>4, <1>6 DEF SerialInv, WithinLimit, RowLimit
<1>8. RowsFollow(w)'
  <2> SUFFICES ASSUME NEW y \in Token, RowLive(y)' PROVE Mirrored(y)'
    BY DEF RowsFollow
  <2>1. RowLive(y) /\ y # t
    BY <1>0, <1>2, <1>4 DEF SerialInv, Held
  <2>2. Mirrored(y)
    BY <1>0, <1>1, <2>1 DEF SerialInv, RowsFollow
  <2> QED BY <1>4, <2>1, <2>2
<1>9. Held(w)'
  <2> SUFFICES ASSUME NEW y \in Token
               PROVE  (Usable(y)' => y \in issued \/ y = t) /\ (RowLive(y)' => y \in issued)
    BY <1>1, <1>3 DEF Held
  <2> QED BY <1>0, <1>1, <1>4 DEF SerialInv, Held
<1>10. Closed'
  <2>1. Closed /\ closed \subseteq Token /\ evicted \subseteq Token
    BY <1>0 DEF SerialInv, TypeOK
  <2> QED BY <1>1, <1>2, <1>4, <2>1 DEF Closed
<1>11. PushOrder'
  BY <1>0, <1>1 DEF SerialInv, PushOrder
<1>12. Underway(w)'
  <2>1. CreateUnderway(w)'
    BY <1>1, <1>2, <1>3 DEF CreateUnderway, CreatePcs
  <2> QED BY <1>3, <2>1 DEF Underway, ValidateUnderway, InvalidateUnderway, ForceLogoutUnderway,
        CleanupUnderway, ForceLogoutPcs
<1> QED BY <1>5, <1>7, <1>8, <1>9, <1>10, <1>11, <1>12 DEF SerialInv

\* Between calls, or in one that has nothing more to write, nothing of a call is left to tell.
LEMMA NothingUnderway ==
  ASSUME NEW w \in Actor, call'[w] = Idle
  PROVE  Underway(w)'
BY DEF Underway, CreateUnderway, ValidateUnderway, InvalidateUnderway, ForceLogoutUnderway,
   CleanupUnderway, CreatePcs, ForceLogoutPcs, Idle

\* Where every live row is that of an accepted session, the limit of the map is that of
\* the table.
LEMMA MirrorLimit ==
  ASSUME IInv', WithinLimit', \A t \in Token : RowLive(t)' => Mirrored(t)'
  PROVE  RowLimit'
<1>0. TypeOK' /\ UsersAgree'
  BY DEF IInv
<1>1. ASSUME NEW u \in User
      PROVE  Cardinality({t \in Token : RowLive(t)' /\ rows'[t].user = u}) <= MaxSessions
  <2> DEFINE S == {t \in Token : RowLive(t)' /\ rows'[t].user = u}
             T == {t \in Token : Usable(t)' /\ sessions'[t].user = u}
  <2>1. ASSUME NEW t \in Token, RowLive(t)', rows'[t].user = u
        PROVE  Usable(t)' /\ sessions'[t].user = u
    <3>1. rows'[t] # None /\ rows'[t].expires > now'
      BY <2>1 DEF RowLive
    <3>2. Active(t)' /\ sessions'[t].expires = rows'[t].expires
      BY <2>1 DEF Mirrored
    <3>3. sessions'[t] # None
      BY <3>2 DEF Active
    <3>4. sessions'[t].user = u
      BY <1>0, <2>1, <3>1, <3>3 DEF UsersAgree
    <3>5. sessions'[t].expires \in Nat /\ now' \in Nat
      BY <1>0, <3>3 DEF TypeOK, Session
    <3>6. now' <= sessions'[t].expires
      BY <3>1, <3>2, <3>5
    <3> QED BY <3>2, <3>4, <3>6 DEF Usable
  <2>2. S \subseteq T /\ T \subseteq Token
    BY <2>1
  <2>3. Cardinality(T) <= MaxSessions
    BY DEF WithinLimit
  <2> QED BY <2>2, <2>3, SessionsAssumption, FS_Subset, FS_CardinalityType
<1> QED BY <1>1 DEF RowLimit

\* Writing the session a call has cloned from the map, while nothing else is due.
LEMMA WriteBack ==
  ASSUME NEW w \in Actor, Serial(w), IInv', call[w].pc \in {"persistNew", "persistSnap"},
         NEW t \in Token, sessions[t] # None, rows' = [rows EXCEPT ![t] = sessions[t]],
         UNCHANGED <<sessions, index, born, now, owner, closed, evicted>>,
         t = call[w].tok, issued' = issued \cup {t}, t \notin closed \cup evicted,
         call'[w] = Idle
  PROVE  SerialInv(w)'
<1>0. TypeOK /\ UsersAgree /\ SerialInv(w)
  BY DEF Serial, IInv
<1>1. rows'[t] = sessions[t] /\ \A y \in Token \ {t} : rows'[y] = rows[y]
  BY <1>0 DEF TypeOK
<1>2. /\ \A y \in Token : Usable(y)' <=> Usable(y)
      /\ \A y \in Token \ {t} : Mirrored(y)' <=> Mirrored(y)
      /\ \A y \in Token \ {t} : RowLive(y)' <=> RowLive(y)
  BY <1>1, SameEntry, SameRow, SameBoth
<1>3. \A y \in Token : RowLive(y)' => Mirrored(y)'
  <2>1. RowLive(t)' => Active(t)'
    BY <1>1, Zenon DEF RowLive, Active
  <2>2. RowLive(t)' => Mirrored(t)'
    BY <1>1, <2>1 DEF Mirrored
  <2>3. ASSUME NEW y \in Token \ {t}, RowLive(y)' PROVE Mirrored(y)'
    <3>1. RowLive(y)
      BY <1>2, <2>3
    <3>2. Mirrored(y)
      BY <1>0, <3>1 DEF SerialInv, RowsFollow
    <3> QED BY <1>2, <3>2
  <2> QED BY <2>2, <2>3
<1>4. WithinLimit'
  BY <1>0, <1>2 DEF SerialInv, WithinLimit
<1>5. RowLimit'
  BY <1>3, <1>4, MirrorLimit
<1>6. Listed(w)' /\ RowsFollow(w)'
  BY <1>0, <1>2, <1>3 DEF SerialInv, Listed, RowsFollow, CreatePcs
<1>7. Held(w)'
  <2> SUFFICES ASSUME NEW y \in Token
               PROVE  (Usable(y)' => y \in issued') /\ (RowLive(y)' => y \in issued')
    BY DEF Held
  <2> QED BY <1>0, <1>2 DEF SerialInv, Held
<1>8. Closed'
  <2>1. Closed /\ closed \subseteq Token /\ evicted \subseteq Token
    BY <1>0 DEF SerialInv, TypeOK
  <2>2. owner'[t] # None
    <3>1. sessions[t].user \in User /\ owner[t] = sessions[t].user
      BY <1>0 DEF TypeOK, Session, UsersAgree
    <3> QED BY <3>1, SessionsAssumption
  <2>3. ASSUME NEW y \in closed \cup evicted
        PROVE  y \in issued' /\ ~Usable(y)' /\ ~RowLive(y)'
    BY <1>2, <2>1, <2>3 DEF Closed
  <2>4. \A y \in issued' : owner'[y] # None
    BY <2>1, <2>2 DEF Closed
  <2> QED BY <2>3, <2>4 DEF Closed
<1>9. PushOrder'
  BY <1>0 DEF SerialInv, PushOrder
<1> QED BY <1>4, <1>5, <1>6, <1>7, <1>8, <1>9, NothingUnderway DEF SerialInv

LEMMA SerialCreatePersist ==
  ASSUME NEW w \in Actor, Serial(w), IInv', CreatePersist(w)
  PROVE  SerialInv(w)'
<1>0. TypeOK /\ SerialInv(w) /\ CallWellFormed(w)
  BY DEF Serial, IInv
<1>x. PICK t : t = call[w].tok
  OBVIOUS
<1>1. /\ call[w].pc = "persistNew"
      /\ rows' = [rows EXCEPT ![t] = call[w].new]
      /\ issued' = issued \cup {t}
      /\ call' = [call EXCEPT ![w] = Idle]
      /\ UNCHANGED <<sessions, index, born, now, owner, closed, evicted>>
  BY <1>x DEF CreatePersist, At, Persist, Serial, Return
<1>2. /\ t \in Token /\ t \notin issued
      /\ call[w].new = sessions[t] /\ call[w].new \in Session
  BY <1>0, <1>1, <1>x DEF CallWellFormed, SerialInv, Underway, CreateUnderway
<1>3. t \notin closed \cup evicted
  BY <1>0, <1>2 DEF SerialInv, Closed
<1>4. call'[w] = Idle
  BY <1>0, <1>1 DEF TypeOK
<1> QED BY <1>1, <1>2, <1>3, <1>4, <1>x, WriteBack, SessionsAssumption

LEMMA SerialValidatePersist ==
  ASSUME NEW w \in Actor, Serial(w), IInv', ValidatePersist(w)
  PROVE  SerialInv(w)'
<1>0. TypeOK /\ SerialInv(w) /\ CallWellFormed(w)
  BY DEF Serial, IInv
<1>x. PICK t : t = call[w].tok
  OBVIOUS
<1>1. /\ call[w].pc = "persistSnap"
      /\ rows' = [rows EXCEPT ![t] = call[w].snap]
      /\ call' = [call EXCEPT ![w] = Idle]
      /\ UNCHANGED <<sessions, index, born, now, owner, issued, closed, evicted>>
  BY <1>x DEF ValidatePersist, At, Persist, Serial, Return, clientVars
<1>2. /\ t \in Token /\ t \in issued /\ t \notin closed \cup evicted
      /\ call[w].snap = sessions[t] /\ call[w].snap \in Session
  BY <1>0, <1>1, <1>x DEF CallWellFormed, SerialInv, Underway, ValidateUnderway
<1>4. call'[w] = Idle
  BY <1>0, <1>1 DEF TypeOK
<1> QED BY <1>1, <1>2, <1>4, <1>x, WriteBack, SessionsAssumption

\* A call that starts, or ends, without touching the map, the lists or the table.
LEMMA CallOnly ==
  ASSUME NEW w \in Actor, Serial(w), IInv',
         UNCHANGED <<sessions, index, born, rows, now, owner, issued, closed, evicted>>,
         call[w].pc \notin CreatePcs \cup {"persistNew", "userDelete", "unindex", "deleteRow"},
         Underway(w)'
  PROVE  SerialInv(w)'
<1>0. SerialInv(w)
  BY DEF Serial
<1>1. ASSUME NEW t \in Token
      PROVE  /\ Usable(t)' <=> Usable(t)
             /\ RowLive(t)' <=> RowLive(t)
             /\ Mirrored(t)' <=> Mirrored(t)
  BY SameEntry, SameRow, SameBoth
<1>2. Listed(w)' /\ RowsFollow(w)'
  BY <1>0, <1>1 DEF SerialInv, Listed, RowsFollow, CreatePcs
<1> QED BY <1>1, <1>2, ShrinkStep

LEMMA SerialInvalidate ==
  ASSUME NEW w \in Actor, Serial(w), IInv', NEW t \in Token,
         \/ Invalidate(w, t)
         \/ \E ip \in Ip \cup {NoIp} : ValidateMismatch(w, t, ip)
  PROVE  SerialInv(w)'
<1>1. /\ call[w].pc = "idle" /\ t \in issued
      /\ call' = [call EXCEPT ![w] = [Idle EXCEPT !.pc = "mark", !.tok = t]]
      /\ UNCHANGED <<sessions, index, born, rows, now, owner, issued, closed, evicted>>
  BY DEF Invalidate, ValidateMismatch, At, clientVars
<1>2. call'[w].pc = "mark" /\ call'[w].tok = t
  BY <1>1 DEF Serial, IInv, TypeOK, Idle
<1>3. Underway(w)'
  BY <1>1, <1>2 DEF Underway, CreateUnderway, ValidateUnderway, InvalidateUnderway,
     ForceLogoutUnderway, CleanupUnderway, CreatePcs, ForceLogoutPcs
<1> QED BY <1>1, <1>3, CallOnly DEF CreatePcs

LEMMA SerialValidateOk ==
  ASSUME NEW w \in Actor, Serial(w), IInv', NEW t \in Token, NEW ip \in Ip \cup {NoIp},
         ValidateOk(w, t, ip)
  PROVE  SerialInv(w)'
<1>0. TypeOK /\ SerialInv(w)
  BY DEF Serial, IInv
<1>1. /\ call[w].pc = "idle" /\ t \in issued /\ Usable(t)
      /\ sessions' = [sessions EXCEPT ![t] = Touched(sessions[t])]
      /\ \/ call' = call
         \/ call' = [call EXCEPT ![w] = [Idle EXCEPT !.pc = "persistSnap", !.tok = t,
                                           !.snap = Touched(sessions[t])]]
      /\ UNCHANGED <<index, born, rows, now, owner, issued, closed, evicted>>
  BY DEF ValidateOk, At, clientVars
<1>2. /\ sessions'[t] = Touched(sessions[t])
      /\ \A x \in Token \ {t} : sessions'[x] = sessions[x]
  BY <1>0, <1>1 DEF TypeOK
<1>3. ASSUME NEW x \in Token
      PROVE  /\ Usable(x)' => Usable(x)
             /\ RowLive(x)' <=> RowLive(x)
             /\ Mirrored(x) => Mirrored(x)'
  <2>1. CASE x = t
    <3>1. sessions[t] \in Session
      BY <1>0, <1>1 DEF Usable, Active, TypeOK
    <3>2. /\ sessions'[t] \in Session /\ sessions'[t].expires = sessions[t].expires
          /\ sessions'[t].active = sessions[t].active
      BY <1>0, <1>2, <3>1 DEF Touched, Session, TypeOK
    <3>3. sessions'[t] # None
      BY <3>2, SessionsAssumption
    <3>4. Active(t)
      BY <1>1 DEF Usable
    <3>5. Active(t)'
      BY <3>2, <3>3, <3>4, Zenon DEF Active
    <3> QED BY <1>1, <2>1, <3>2, <3>5, SameRow DEF Mirrored
  <2>2. CASE x # t
    BY <1>1, <1>2, <2>2, SameEntry, SameRow, SameBoth
  <2> QED BY <2>1, <2>2
<1>4. t \notin closed \cup evicted
  BY <1>0, <1>1 DEF SerialInv, Closed
<1>5. Listed(w)' /\ RowsFollow(w)'
  BY <1>0, <1>1, <1>3 DEF SerialInv, Listed, RowsFollow, CreatePcs
<1>6. Underway(w)'
  <2>1. \/ call'[w].pc = "idle"
        \/ call'[w].pc = "persistSnap" /\ call'[w].tok = t /\ call'[w].snap = Touched(sessions[t])
    BY <1>0, <1>1 DEF TypeOK, Idle
  <2> QED BY <1>1, <1>2, <1>4, <2>1 DEF Underway, CreateUnderway, ValidateUnderway,
        InvalidateUnderway, ForceLogoutUnderway, CleanupUnderway, CreatePcs, ForceLogoutPcs
<1> QED BY <1>1, <1>3, <1>5, <1>6, ShrinkStep

LEMMA SerialInvalidateMark ==
  ASSUME NEW w \in Actor, Serial(w), IInv', InvalidateMark(w)
  PROVE  SerialInv(w)'
<1>0. TypeOK /\ SerialInv(w) /\ CallWellFormed(w)
  BY DEF Serial, IInv
<1>x. PICK t : t = call[w].tok
  OBVIOUS
<1>1. /\ call[w].pc = "mark"
      /\ UNCHANGED <<index, born, rows, now, owner, issued, closed, evicted>>
      /\ \/ sessions[t] = None /\ call' = [call EXCEPT ![w] = Idle] /\ sessions' = sessions
         \/ /\ sessions[t] # None
            /\ sessions' = [sessions EXCEPT ![t].active = FALSE]
            /\ call' = [call EXCEPT ![w].pc = "unindex", ![w].user = sessions[t].user]
  BY <1>x DEF InvalidateMark, At, Return, clientVars
<1>2. t \in Token /\ t \in issued
  BY <1>0, <1>1, <1>x DEF CallWellFormed, SerialInv, Underway, InvalidateUnderway
<1>3. CASE sessions[t] = None
  <2>1. call'[w] = Idle
    BY <1>0, <1>1, <1>3 DEF TypeOK
  <2> QED BY <1>1, <1>3, <2>1, NothingUnderway, CallOnly DEF CreatePcs
<1>4. CASE sessions[t] # None
  <2>1. /\ ~Active(t)'
        /\ \A y \in Token \ {t} : sessions'[y] = sessions[y]
        /\ \A y \in Token : Usable(y)' => Usable(y)
    BY <1>0, <1>1, <1>2, <1>4, Deactivated
  <2>2. call'[w].pc = "unindex" /\ call'[w].tok = t
    BY <1>0, <1>1, <1>4, <1>x DEF TypeOK, Call
  <2>3. \A y \in Token : RowLive(y)' <=> RowLive(y)
    BY <1>1, SameRow
  <2>4. Listed(w)'
    BY <1>0, <1>1, <2>1 DEF SerialInv, Listed, CreatePcs
  <2>5. RowsFollow(w)'
    <3> SUFFICES ASSUME NEW y \in Token, RowLive(y)', y # t PROVE Mirrored(y)'
      BY <2>2 DEF RowsFollow
    <3>1. Mirrored(y)
      BY <1>0, <1>1, <2>3 DEF SerialInv, RowsFollow
    <3> QED BY <1>1, <2>1, <3>1, SameBoth
  <2>6. Underway(w)'
    <3>1. ~Active(call[w].tok)'
      BY <2>1, <2>2 DEF Active
    <3>2. InvalidateUnderway(w)'
      BY <1>1, <1>2, <2>2, <3>1 DEF InvalidateUnderway
    <3> QED BY <2>2, <3>2 DEF Underway, CreateUnderway, ValidateUnderway,
          ForceLogoutUnderway, CleanupUnderway, CreatePcs, ForceLogoutPcs
  <2> QED BY <1>1, <2>1, <2>3, <2>4, <2>5, <2>6, ShrinkStep
<1> QED BY <1>3, <1>4

LEMMA SerialInvalidateUnindex ==
  ASSUME NEW w \in Actor, Serial(w), IInv', InvalidateUnindex(w)
  PROVE  SerialInv(w)'
<1>0. TypeOK /\ SerialInv(w) /\ CallWellFormed(w)
  BY DEF Serial, IInv
<1>x. PICK t : t = call[w].tok
  OBVIOUS
<1>1. /\ call[w].pc = "unindex"
      /\ index' = [index EXCEPT ![call[w].user] = @ \ {t}]
      /\ call' = [call EXCEPT ![w].pc = "deleteRow"]
      /\ UNCHANGED <<sessions, born, rows, now, owner, issued, closed, evicted>>
  BY <1>x DEF InvalidateUnindex, At, clientVars
<1>2. t \in Token /\ t \in issued /\ ~Active(t)
  BY <1>0, <1>1, <1>x DEF CallWellFormed, SerialInv, Underway, InvalidateUnderway
<1>3. call'[w].pc = "deleteRow" /\ call'[w].tok = t
  BY <1>0, <1>1, <1>x DEF TypeOK, Call
<1>4. \A y \in Token : /\ Usable(y)' <=> Usable(y)
                       /\ Active(y)' <=> Active(y)
                       /\ RowLive(y)' <=> RowLive(y)
                       /\ Mirrored(y)' <=> Mirrored(y)
  BY <1>1, SameEntry, SameRow, SameBoth
<1>5. Listed(w)'
  <2> SUFFICES ASSUME NEW y \in Token, Usable(y) PROVE y \in index'[owner[y]]
    BY <1>1, <1>4 DEF Listed
  <2>1. y # t
    BY <1>2 DEF Usable
  <2>2. y \in index[owner[y]]
    BY <1>0, <1>1 DEF SerialInv, Listed, CreatePcs
  <2>3. owner[y] \in User
    <3>1. sessions[y] # None /\ sessions[y] \in Session /\ sessions[y].user = owner[y]
      BY <1>0 DEF Usable, Active, UsersAgree, TypeOK, Serial, IInv
    <3> QED BY <3>1 DEF Session
  <2> QED BY <1>0, <1>1, <2>1, <2>2, <2>3 DEF TypeOK
<1>6. RowsFollow(w)'
  <2> SUFFICES ASSUME NEW y \in Token, RowLive(y), y # t PROVE Mirrored(y)
    BY <1>3, <1>4 DEF RowsFollow
  <2> QED BY <1>0, <1>1, <1>x DEF SerialInv, RowsFollow
<1>7. Underway(w)'
  <2>1. ~Active(call[w].tok)'
    BY <1>2, <1>3, <1>4
    DEF Active
  <2>2. InvalidateUnderway(w)'
    BY <1>1, <1>2, <1>3, <2>1 DEF InvalidateUnderway
  <2> QED BY <1>3, <2>2 DEF Underway, CreateUnderway, ValidateUnderway,
        ForceLogoutUnderway, CleanupUnderway, CreatePcs, ForceLogoutPcs
<1> QED BY <1>1, <1>4, <1>5, <1>6, <1>7, ShrinkStep

LEMMA SerialInvalidateDelete ==
  ASSUME NEW w \in Actor, Serial(w), IInv', InvalidateDelete(w)
  PROVE  SerialInv(w)'
<1>0. TypeOK /\ SerialInv(w) /\ CallWellFormed(w)
  BY DEF Serial, IInv
<1>x. PICK t : t = call[w].tok
  OBVIOUS
<1>1. /\ call[w].pc = "deleteRow"
      /\ rows' = [rows EXCEPT ![t] = None]
      /\ call' = [call EXCEPT ![w].pc = "drop"]
      /\ UNCHANGED <<sessions, index, born, now, owner, issued, closed, evicted>>
  BY <1>x DEF InvalidateDelete, DeletePersisted, Persist, Serial, At, clientVars
<1>2. t \in Token /\ t \in issued /\ ~Active(t)
  BY <1>0, <1>1, <1>x DEF CallWellFormed, SerialInv, Underway, InvalidateUnderway
<1>3. call'[w].pc = "drop" /\ call'[w].tok = t
  BY <1>0, <1>1, <1>x DEF TypeOK, Call
<1>4. /\ \A y \in Token : (Usable(y)' <=> Usable(y)) /\ (Active(y)' <=> Active(y))
      /\ ~RowLive(t)'
      /\ \A y \in Token \ {t} : rows'[y] = rows[y]
      /\ \A y \in Token : RowLive(y)' => RowLive(y)
  <2>1. \A y \in Token : (Usable(y)' <=> Usable(y)) /\ (Active(y)' <=> Active(y))
    BY <1>1, SameEntry
  <2>2. /\ ~RowLive(t)'
        /\ \A y \in Token \ {t} : rows'[y] = rows[y]
        /\ \A y \in Token : RowLive(y)' => RowLive(y)
    BY <1>0, <1>1, <1>2, RowDies
  <2> QED BY <2>1, <2>2
<1>5. Listed(w)'
  BY <1>0, <1>1, <1>4 DEF SerialInv, Listed, CreatePcs
<1>6. RowsFollow(w)'
  <2> SUFFICES ASSUME NEW y \in Token, RowLive(y)' PROVE Mirrored(y)'
    BY DEF RowsFollow
  <2>1. y # t /\ RowLive(y)
    BY <1>4
  <2>2. Mirrored(y)
    BY <1>0, <1>1, <1>x, <2>1 DEF SerialInv, RowsFollow
  <2> QED BY <1>1, <1>4, <2>1, <2>2, SameBoth
<1>7. Underway(w)'
  <2>1. ~Active(call[w].tok)'
    BY <1>2, <1>3, <1>4 DEF Active
  <2>2. ~RowLive(call[w].tok)'
    BY <1>3, <1>4 DEF RowLive
  <2>3. InvalidateUnderway(w)'
    BY <1>1, <1>2, <1>3, <2>1, <2>2 DEF InvalidateUnderway
  <2> QED BY <1>3, <2>3 DEF Underway, CreateUnderway, ValidateUnderway,
        ForceLogoutUnderway, CleanupUnderway, CreatePcs, ForceLogoutPcs
<1> QED BY <1>1, <1>4, <1>5, <1>6, <1>7, ShrinkStep

\* A call that has closed tokens and returns: nothing else changes for the two limits.
LEMMA CloseStep ==
  ASSUME NEW w \in Actor, Serial(w), IInv',
         UNCHANGED <<owner, born, issued>>,
         \A t \in Token : Usable(t)' => Usable(t),
         \A t \in Token : RowLive(t)' => RowLive(t),
         call[w].pc # "persistNew",
         closed \cup evicted \subseteq Token,
         \A t \in (closed \cup evicted)' \ (closed \cup evicted) :
           t \in issued /\ ~Usable(t)' /\ ~RowLive(t)',
         Listed(w)', RowsFollow(w)', Underway(w)'
  PROVE  SerialInv(w)'
<1>1. WithinLimit' /\ RowLimit'
  BY LimitsKept DEF Serial, SerialInv
<1>2. Held(w)'
  BY DEF Held, Serial, SerialInv
<1>3. Closed'
  <2>1. Closed
    BY DEF Serial, SerialInv
  <2> QED BY <2>1 DEF Closed
<1>4. PushOrder'
  BY DEF PushOrder, Serial, SerialInv
<1> QED BY <1>1, <1>2, <1>3, <1>4 DEF SerialInv

LEMMA SerialInvalidateDrop ==
  ASSUME NEW w \in Actor, Serial(w), IInv', InvalidateDrop(w)
  PROVE  SerialInv(w)'
<1>0. TypeOK /\ SerialInv(w) /\ CallWellFormed(w)
  BY DEF Serial, IInv
<1>x. PICK t : t = call[w].tok
  OBVIOUS
<1>1. /\ call[w].pc = "drop"
      /\ sessions' = [sessions EXCEPT ![t] = None]
      /\ closed' = closed \cup {t}
      /\ call' = [call EXCEPT ![w] = Idle]
      /\ UNCHANGED <<index, born, rows, now, owner, issued, evicted>>
  BY <1>x DEF InvalidateDrop, At, Return
<1>2. t \in Token /\ t \in issued /\ ~Active(t) /\ ~RowLive(t)
  BY <1>0, <1>1, <1>x DEF CallWellFormed, SerialInv, Underway, InvalidateUnderway
<1>3. call'[w] = Idle
  BY <1>0, <1>1 DEF TypeOK
<1>4. /\ ~Usable(t)'
      /\ \A y \in Token \ {t} : sessions'[y] = sessions[y]
      /\ \A y \in Token : Usable(y)' => Usable(y)
  BY <1>0, <1>1, <1>2, Removed
<1>5. \A y \in Token : RowLive(y)' <=> RowLive(y)
  BY <1>1, SameRow
<1>6. Listed(w)'
  BY <1>0, <1>1, <1>4 DEF SerialInv, Listed, CreatePcs
<1>7. RowsFollow(w)'
  <2> SUFFICES ASSUME NEW y \in Token, RowLive(y)' PROVE Mirrored(y)'
    BY DEF RowsFollow
  <2>1. y # t /\ RowLive(y)
    BY <1>2, <1>5
  <2>2. Mirrored(y)
    BY <1>0, <1>1, <2>1 DEF SerialInv, RowsFollow
  <2> QED BY <1>1, <1>4, <2>1, <2>2, SameBoth
<1>8. closed \cup evicted \subseteq Token
  BY <1>0 DEF TypeOK
<1>9. ASSUME NEW y \in (closed \cup evicted)' \ (closed \cup evicted)
      PROVE  y \in issued /\ ~Usable(y)' /\ ~RowLive(y)'
  <2>1. y = t
    BY <1>1, <1>9
  <2> QED BY <1>2, <1>4, <1>5, <2>1
<1> QED BY <1>1, <1>3, <1>4, <1>5, <1>6, <1>7, <1>8, <1>9, NothingUnderway, CloseStep

LEMMA SerialForceLogout ==
  ASSUME NEW w \in Actor, Serial(w), IInv', NEW u \in User, ForceLogout(w, u)
  PROVE  SerialInv(w)'
<1>0. TypeOK /\ SerialInv(w)
  BY DEF Serial, IInv
<1>1. /\ call[w].pc = "idle"
      /\ call' = [call EXCEPT ![w] = [Idle EXCEPT !.pc = "userMark", !.user = u, !.todo = index[u],
                                        !.due = {t \in issued : owner[t] = u}]]
      /\ UNCHANGED <<sessions, index, born, rows, now, owner, issued, closed, evicted>>
  BY DEF ForceLogout, At, clientVars
<1>2. /\ call'[w].pc = "userMark" /\ call'[w].user = u /\ call'[w].todo = index[u]
      /\ call'[w].due = {t \in issued : owner[t] = u}
  BY <1>0, <1>1 DEF TypeOK, Idle
<1>3. ASSUME NEW t \in Token
      PROVE  (Usable(t)' <=> Usable(t)) /\ (RowLive(t)' <=> RowLive(t))
  BY <1>1, SameEntry, SameRow
<1>4. ASSUME NEW t \in Token, owner[t] = u, Usable(t) PROVE t \in index[u]
  BY <1>0, <1>1, <1>4 DEF SerialInv, Listed, CreatePcs
<1>5. ASSUME NEW t \in Token, RowLive(t) PROVE Usable(t)
  <2>1. Active(t) /\ sessions[t].expires = rows[t].expires
    BY <1>0, <1>1, <1>5 DEF SerialInv, RowsFollow, Mirrored
  <2>2. rows[t].expires > now
    BY <1>5 DEF RowLive
  <2>3. sessions[t].expires \in Nat /\ now \in Nat
    BY <1>0, <2>1 DEF Active, TypeOK, Session
  <2>4. now <= sessions[t].expires
    BY <2>1, <2>2, <2>3
  <2> QED BY <2>1, <2>4 DEF Usable
<1>6. ForceLogoutUnderway(w)'
  <2>1. call'[w].due \subseteq issued /\ \A t \in call'[w].due : owner[t] = u
    BY <1>2
  <2>2. ASSUME NEW t \in Token, owner[t] = u, Usable(t)' \/ RowLive(t)' PROVE t \in call'[w].todo
    BY <1>2, <1>3, <1>4, <1>5, <2>2
  <2> QED BY <1>1, <1>2, <2>1, <2>2 DEF ForceLogoutUnderway
<1>7. Underway(w)'
  BY <1>2, <1>6 DEF Underway, CreateUnderway, ValidateUnderway, InvalidateUnderway,
     CleanupUnderway, CreatePcs
<1> QED BY <1>1, <1>7, CallOnly DEF CreatePcs

LEMMA SerialForceLogoutMark ==
  ASSUME NEW w \in Actor, Serial(w), IInv', ForceLogoutMark(w)
  PROVE  SerialInv(w)'
<1>0. TypeOK /\ SerialInv(w) /\ call[w] \in Call
  BY DEF Serial, IInv, TypeOK
<1>1. PICK x \in call[w].todo :
        /\ call[w].pc = "userMark"
        /\ \/ sessions[x] = None /\ sessions' = sessions
           \/ sessions[x] # None /\ sessions' = [sessions EXCEPT ![x].active = FALSE]
        /\ call' = [call EXCEPT ![w].pc = "userDelete", ![w].cur = x, ![w].todo = @ \ {x}]
        /\ UNCHANGED <<index, born, rows, now, owner, issued, closed, evicted>>
  BY DEF ForceLogoutMark, At, clientVars
<1>2. x \in Token
  BY <1>0 DEF Call
<1>3. /\ \A t \in Token \ {x} : sessions'[t] = sessions[t]
      /\ \A t \in Token : Usable(t)' => Usable(t)
      /\ ~Usable(x)'
  <2>1. CASE sessions[x] = None
    BY <1>1, <1>2, <2>1, SameEntry DEF Usable, Active
  <2>2. CASE sessions[x] # None
    BY <1>0, <1>1, <1>2, <2>2, Deactivated
  <2> QED BY <2>1, <2>2
<1>4. \A t \in Token : RowLive(t)' <=> RowLive(t)
  BY <1>1, SameRow
<1>5. /\ call'[w].pc = "userDelete" /\ call'[w].cur = x /\ call'[w].todo = call[w].todo \ {x}
      /\ call'[w].user = call[w].user /\ call'[w].due = call[w].due
  BY <1>0, <1>1 DEF TypeOK, Call
<1>6. Listed(w)'
  BY <1>0, <1>1, <1>3, <1>5 DEF SerialInv, Listed, CreatePcs
<1>7. RowsFollow(w)'
  <2> SUFFICES ASSUME NEW t \in Token, RowLive(t)', t # x PROVE Mirrored(t)'
    BY <1>5 DEF RowsFollow
  <2>1. Mirrored(t)
    BY <1>0, <1>1, <1>4 DEF SerialInv, RowsFollow
  <2> QED BY <1>1, <1>3, <2>1, SameBoth
<1>8. ForceLogoutUnderway(w)'
  <2>1. ForceLogoutUnderway(w)
    BY <1>0 DEF SerialInv, Underway
  <2>2. /\ call[w].due \subseteq issued
        /\ \A t \in call[w].due : owner[t] = call[w].user
        /\ \A t \in Token : owner[t] = call[w].user /\ Usable(t) => t \in call[w].todo
        /\ \A t \in Token : owner[t] = call[w].user /\ RowLive(t) => t \in call[w].todo
    BY <1>1, <2>1 DEF ForceLogoutUnderway, ForceLogoutPcs
  <2> QED BY <1>1, <1>3, <1>4, <1>5, <2>2 DEF ForceLogoutUnderway
<1>9. Underway(w)'
  BY <1>5, <1>8 DEF Underway, CreateUnderway, ValidateUnderway, InvalidateUnderway,
     CleanupUnderway, CreatePcs
<1> QED BY <1>1, <1>3, <1>4, <1>6, <1>7, <1>9, ShrinkStep

LEMMA SerialForceLogoutDelete ==
  ASSUME NEW w \in Actor, Serial(w), IInv', ForceLogoutDelete(w)
  PROVE  SerialInv(w)'
<1>0. TypeOK /\ SerialInv(w) /\ CallWellFormed(w)
  BY DEF Serial, IInv
<1>x. PICK x : x = call[w].cur
  OBVIOUS
<1>1. /\ call[w].pc = "userDelete"
      /\ rows' = [rows EXCEPT ![x] = None]
      /\ call' = [call EXCEPT ![w].pc = "userDrop"]
      /\ UNCHANGED <<sessions, index, born, now, owner, issued, closed, evicted>>
  BY <1>x DEF ForceLogoutDelete, DeletePersisted, Persist, Serial, At, clientVars
<1>2. x \in Token
  BY <1>0, <1>1, <1>x DEF CallWellFormed
<1>3. /\ call'[w].pc = "userDrop" /\ call'[w].todo = call[w].todo /\ call'[w].cur = x
      /\ call'[w].user = call[w].user /\ call'[w].due = call[w].due
  BY <1>0, <1>1, <1>x DEF TypeOK, Call
<1>4. /\ \A y \in Token : Usable(y)' <=> Usable(y)
      /\ ~RowLive(x)'
      /\ \A y \in Token \ {x} : rows'[y] = rows[y]
      /\ \A y \in Token : RowLive(y)' => RowLive(y)
  <2>1. \A y \in Token : Usable(y)' <=> Usable(y)
    BY <1>1, SameEntry
  <2>2. /\ ~RowLive(x)'
        /\ \A y \in Token \ {x} : rows'[y] = rows[y]
        /\ \A y \in Token : RowLive(y)' => RowLive(y)
    BY <1>0, <1>1, <1>2, RowDies
  <2> QED BY <2>1, <2>2
<1>5. Listed(w)'
  BY <1>0, <1>1, <1>4 DEF SerialInv, Listed, CreatePcs
<1>6. RowsFollow(w)'
  <2> SUFFICES ASSUME NEW y \in Token, RowLive(y)' PROVE Mirrored(y)'
    BY DEF RowsFollow
  <2>1. y # x /\ RowLive(y)
    BY <1>4
  <2>2. Mirrored(y)
    BY <1>0, <1>1, <1>x, <2>1 DEF SerialInv, RowsFollow
  <2> QED BY <1>1, <1>4, <2>1, <2>2, SameBoth
<1>7. ForceLogoutUnderway(w)'
  <2>1. ForceLogoutUnderway(w)
    BY <1>0 DEF SerialInv, Underway
  <2>2. /\ call[w].due \subseteq issued
        /\ \A t \in call[w].due : owner[t] = call[w].user
        /\ \A t \in Token : owner[t] = call[w].user /\ Usable(t) => t \in call[w].todo
        /\ \A t \in Token : owner[t] = call[w].user /\ RowLive(t) => t \in call[w].todo \/ t = x
        /\ x \notin call[w].todo
    BY <1>1, <1>x, <2>1 DEF ForceLogoutUnderway, ForceLogoutPcs
  <2> QED BY <1>1, <1>3, <1>4, <2>2 DEF ForceLogoutUnderway
<1>8. Underway(w)'
  BY <1>3, <1>7 DEF Underway, CreateUnderway, ValidateUnderway, InvalidateUnderway,
     CleanupUnderway, CreatePcs
<1> QED BY <1>1, <1>4, <1>5, <1>6, <1>8, ShrinkStep

LEMMA SerialForceLogoutDrop ==
  ASSUME NEW w \in Actor, Serial(w), IInv', ForceLogoutDrop(w)
  PROVE  SerialInv(w)'
<1>0. TypeOK /\ SerialInv(w) /\ CallWellFormed(w)
  BY DEF Serial, IInv
<1>x. PICK x : x = call[w].cur
  OBVIOUS
<1>1. /\ call[w].pc = "userDrop"
      /\ sessions' = [sessions EXCEPT ![x] = None]
      /\ call' = [call EXCEPT ![w].pc = "userMark", ![w].cur = None]
      /\ UNCHANGED <<index, born, rows, now, owner, issued, closed, evicted>>
  BY <1>x DEF ForceLogoutDrop, At, clientVars
<1>2. x \in Token /\ owner[x] = call[w].user
  BY <1>0, <1>1, <1>x DEF CallWellFormed
<1>3. /\ call'[w].pc = "userMark" /\ call'[w].todo = call[w].todo
      /\ call'[w].user = call[w].user /\ call'[w].due = call[w].due
  BY <1>0, <1>1 DEF TypeOK, Call
<1>4. /\ ~Usable(x)'
      /\ \A y \in Token \ {x} : sessions'[y] = sessions[y]
      /\ \A y \in Token : Usable(y)' => Usable(y)
  BY <1>0, <1>1, <1>2, Removed
<1>5. \A y \in Token : RowLive(y)' <=> RowLive(y)
  BY <1>1, SameRow
<1>6. Listed(w)'
  BY <1>0, <1>1, <1>4 DEF SerialInv, Listed, CreatePcs
<1>7. ForceLogoutUnderway(w)
  BY <1>0 DEF SerialInv, Underway
<1>8. /\ call[w].due \subseteq issued
      /\ \A t \in call[w].due : owner[t] = call[w].user
      /\ \A t \in Token : owner[t] = call[w].user /\ Usable(t) => t \in call[w].todo
      /\ \A t \in Token : owner[t] = call[w].user /\ RowLive(t) => t \in call[w].todo
      /\ x \notin call[w].todo
  BY <1>1, <1>7, <1>x DEF ForceLogoutUnderway, ForceLogoutPcs
<1>9. ForceLogoutUnderway(w)'
  BY <1>1, <1>3, <1>4, <1>5, <1>8 DEF ForceLogoutUnderway
<1>10. RowsFollow(w)'
  <2> SUFFICES ASSUME NEW y \in Token, RowLive(y)' PROVE Mirrored(y)'
    BY DEF RowsFollow
  <2>1. RowLive(y)
    BY <1>5
  <2>2. Mirrored(y)
    BY <1>0, <1>1, <2>1 DEF SerialInv, RowsFollow
  <2>3. y # x
    BY <1>2, <1>8, <2>1
  <2> QED BY <1>1, <1>4, <2>2, <2>3, SameBoth
<1>11. Underway(w)'
  BY <1>3, <1>9 DEF Underway, CreateUnderway, ValidateUnderway, InvalidateUnderway,
     CleanupUnderway, CreatePcs
<1> QED BY <1>1, <1>4, <1>5, <1>6, <1>10, <1>11, ShrinkStep

LEMMA SerialForceLogoutUnindex ==
  ASSUME NEW w \in Actor, Serial(w), IInv', ForceLogoutUnindex(w)
  PROVE  SerialInv(w)'
<1>0. TypeOK /\ UsersAgree /\ SerialInv(w) /\ CallWellFormed(w)
  BY DEF Serial, IInv
<1>u. PICK u : u = call[w].user
  OBVIOUS
<1>d. PICK due : due = call[w].due
  OBVIOUS
<1>1. /\ call[w].pc = "userMark" /\ call[w].todo = {}
      /\ index' = [index EXCEPT ![u] = {}]
      /\ evicted' = evicted \cup due
      /\ call' = [call EXCEPT ![w] = Idle]
      /\ UNCHANGED <<sessions, born, rows, now, owner, issued, closed>>
  BY <1>u, <1>d DEF ForceLogoutUnindex, At, Return
<1>2. u \in User
  BY <1>0, <1>1, <1>u DEF CallWellFormed, ForceLogoutPcs
<1>3. call'[w] = Idle
  BY <1>0, <1>1 DEF TypeOK
<1>4. \A y \in Token : /\ Usable(y)' <=> Usable(y)
                       /\ RowLive(y)' <=> RowLive(y)
                       /\ Mirrored(y)' <=> Mirrored(y)
  BY <1>1, SameEntry, SameRow, SameBoth
<1>5. ForceLogoutUnderway(w)
  BY <1>0 DEF SerialInv, Underway
<1>6. /\ due \subseteq issued
      /\ \A t \in due : owner[t] = u
      /\ \A t \in Token : owner[t] = u => ~Usable(t) /\ ~RowLive(t)
  BY <1>1, <1>5, <1>u, <1>d DEF ForceLogoutUnderway, ForceLogoutPcs
<1>7. Listed(w)'
  <2> SUFFICES ASSUME NEW y \in Token, Usable(y) PROVE y \in index'[owner[y]]
    BY <1>1, <1>4 DEF Listed
  <2>1. y \in index[owner[y]]
    BY <1>0, <1>1 DEF SerialInv, Listed, CreatePcs
  <2>2. owner[y] # u
    BY <1>6
  <2>3. owner[y] \in User
    <3>1. sessions[y] # None /\ sessions[y] \in Session /\ sessions[y].user = owner[y]
      BY <1>0 DEF Usable, Active, UsersAgree, TypeOK
    <3> QED BY <3>1 DEF Session
  <2> QED BY <1>0, <1>1, <2>1, <2>2, <2>3 DEF TypeOK
<1>8. RowsFollow(w)'
  BY <1>0, <1>1, <1>4 DEF SerialInv, RowsFollow
<1>9. closed \cup evicted \subseteq Token /\ issued \subseteq Token
  BY <1>0 DEF TypeOK
<1>10. ASSUME NEW y \in (closed \cup evicted)' \ (closed \cup evicted)
       PROVE  y \in issued /\ ~Usable(y)' /\ ~RowLive(y)'
  <2>1. y \in due
    BY <1>1, <1>10
  <2> QED BY <1>4, <1>6, <1>9, <2>1
<1> QED BY <1>1, <1>3, <1>4, <1>7, <1>8, <1>9, <1>10, NothingUnderway, CloseStep

LEMMA SerialCleanup ==
  ASSUME NEW w \in Actor, Serial(w), IInv', Cleanup(w)
  PROVE  SerialInv(w)'
<1> DEFINE stale == {t \in Token : sessions[t] # None /\ ~Usable(t)}
<1>0. TypeOK /\ SerialInv(w)
  BY DEF Serial, IInv
<1>1. /\ call[w].pc = "idle"
      /\ call' = [call EXCEPT ![w] = [Idle EXCEPT !.pc = "cleanDrop", !.todo = stale]]
      /\ UNCHANGED <<sessions, index, born, rows, now, owner, issued, closed, evicted>>
  BY DEF Cleanup, At, clientVars
<1>2. call'[w].pc = "cleanDrop" /\ call'[w].todo = stale
  BY <1>0, <1>1 DEF TypeOK, Idle
<1>3. \A t \in Token : Usable(t)' <=> Usable(t)
  BY <1>1, SameEntry
<1>4. Underway(w)'
  BY <1>2, <1>3 DEF Underway, CreateUnderway, ValidateUnderway, InvalidateUnderway,
     ForceLogoutUnderway, CleanupUnderway, CreatePcs, ForceLogoutPcs
<1> QED BY <1>1, <1>4, CallOnly DEF CreatePcs

LEMMA SerialCleanupDrop ==
  ASSUME NEW w \in Actor, Serial(w), IInv', CleanupDrop(w)
  PROVE  SerialInv(w)'
<1>0. TypeOK /\ SerialInv(w) /\ call[w] \in Call
  BY DEF Serial, IInv, TypeOK
<1>1. CASE call[w].todo = {}
  <2>1. /\ call[w].pc = "cleanDrop"
        /\ call' = [call EXCEPT ![w] = Idle]
        /\ UNCHANGED <<sessions, index, born, rows, now, owner, issued, closed, evicted>>
    BY <1>1 DEF CleanupDrop, At, clientVars, Return
  <2>2. call'[w] = Idle
    BY <1>0, <2>1 DEF TypeOK
  <2> QED BY <2>1, <2>2, NothingUnderway, CallOnly DEF CreatePcs
<1>2. CASE call[w].todo # {}
  <2>1. PICK x \in call[w].todo :
          /\ call[w].pc = "cleanDrop"
          /\ sessions' = [sessions EXCEPT ![x] = None]
          /\ call' = [call EXCEPT ![w].pc = "cleanDelete", ![w].cur = x, ![w].todo = @ \ {x}]
          /\ UNCHANGED <<index, born, rows, now, owner, issued, closed, evicted>>
    BY <1>2 DEF CleanupDrop, At, clientVars
  <2>2. x \in Token /\ \A y \in call[w].todo : ~Usable(y) /\ y \in Token
    BY <1>0, <2>1 DEF Call, SerialInv, Underway, CleanupUnderway
  <2>3. /\ ~Usable(x)'
        /\ \A y \in Token \ {x} : sessions'[y] = sessions[y]
        /\ \A y \in Token : Usable(y)' => Usable(y)
    BY <1>0, <2>1, <2>2, Removed
  <2>4. call'[w].pc = "cleanDelete" /\ call'[w].cur = x /\ call'[w].todo = call[w].todo \ {x}
    BY <1>0, <2>1 DEF TypeOK, Call
  <2>5. \A y \in Token : RowLive(y)' <=> RowLive(y)
    BY <2>1, SameRow
  <2>6. Listed(w)'
    BY <1>0, <2>1, <2>3 DEF SerialInv, Listed, CreatePcs
  <2>7. RowsFollow(w)'
    <3> SUFFICES ASSUME NEW y \in Token, RowLive(y)' PROVE Mirrored(y)'
      BY DEF RowsFollow
    <3>1. RowLive(y)
      BY <2>5
    <3>2. Mirrored(y)
      BY <1>0, <2>1, <3>1 DEF SerialInv, RowsFollow
    <3>3. Usable(y)
      <4>1. Active(y) /\ sessions[y].expires = rows[y].expires /\ rows[y].expires > now
        BY <3>1, <3>2 DEF RowLive, Mirrored
      <4>2. sessions[y].expires \in Nat /\ now \in Nat
        BY <1>0, <4>1 DEF Active, TypeOK, Session
      <4>3. now <= sessions[y].expires
        BY <4>1, <4>2
      <4> QED BY <4>1, <4>3 DEF Usable
    <3>4. y # x
      BY <2>2, <3>3
    <3> QED BY <2>1, <2>3, <3>2, <3>4, SameBoth
  <2>8. Underway(w)'
    <3>1. ~Usable(call[w].cur)'
      BY <2>3, <2>4 DEF Usable, Active
    <3>2. \A y \in call'[w].todo : ~Usable(y)'
      BY <2>2, <2>3, <2>4
    <3>3. CleanupUnderway(w)'
      BY <3>1, <3>2 DEF CleanupUnderway
    <3> QED BY <2>4, <3>3 DEF Underway, CreateUnderway, ValidateUnderway, InvalidateUnderway,
          ForceLogoutUnderway, CreatePcs, ForceLogoutPcs
  <2> QED BY <2>1, <2>3, <2>5, <2>6, <2>7, <2>8, ShrinkStep
<1> QED BY <1>1, <1>2

LEMMA SerialCleanupDelete ==
  ASSUME NEW w \in Actor, Serial(w), IInv', CleanupDelete(w)
  PROVE  SerialInv(w)'
<1>0. TypeOK /\ SerialInv(w) /\ CallWellFormed(w) /\ call[w] \in Call
  BY DEF Serial, IInv, TypeOK
<1>x. PICK x : x = call[w].cur
  OBVIOUS
<1>1. /\ call[w].pc = "cleanDelete"
      /\ rows' = [rows EXCEPT ![x] = None]
      /\ call' = [call EXCEPT ![w].pc = "cleanUnindex"]
      /\ UNCHANGED <<sessions, index, born, now, owner, issued, closed, evicted>>
  BY <1>x DEF CleanupDelete, DeletePersisted, Persist, Serial, At, clientVars
<1>2. /\ x \in Token /\ ~Usable(x)
      /\ \A y \in call[w].todo : ~Usable(y) /\ y \in Token
  BY <1>0, <1>1, <1>x DEF CallWellFormed, Call, SerialInv, Underway, CleanupUnderway
<1>3. call'[w].pc = "cleanUnindex" /\ call'[w].todo = call[w].todo /\ call'[w].cur = x
  BY <1>0, <1>1, <1>x DEF TypeOK, Call
<1>4. /\ \A y \in Token : Usable(y)' <=> Usable(y)
      /\ ~RowLive(x)'
      /\ \A y \in Token \ {x} : rows'[y] = rows[y]
      /\ \A y \in Token : RowLive(y)' => RowLive(y)
  <2>1. \A y \in Token : Usable(y)' <=> Usable(y)
    BY <1>1, SameEntry
  <2>2. /\ ~RowLive(x)'
        /\ \A y \in Token \ {x} : rows'[y] = rows[y]
        /\ \A y \in Token : RowLive(y)' => RowLive(y)
    BY <1>0, <1>1, <1>2, RowDies
  <2> QED BY <2>1, <2>2
<1>5. Listed(w)'
  BY <1>0, <1>1, <1>4 DEF SerialInv, Listed, CreatePcs
<1>6. RowsFollow(w)'
  <2> SUFFICES ASSUME NEW y \in Token, RowLive(y)' PROVE Mirrored(y)'
    BY DEF RowsFollow
  <2>1. y # x /\ RowLive(y)
    BY <1>4
  <2>2. Mirrored(y)
    BY <1>0, <1>1, <2>1 DEF SerialInv, RowsFollow
  <2> QED BY <1>1, <1>4, <2>1, <2>2, SameBoth
<1>7. Underway(w)'
  <2>1. ~Usable(call[w].cur)'
    BY <1>1, <1>2, <1>3 DEF Usable, Active
  <2>2. \A y \in call'[w].todo : ~Usable(y)'
    BY <1>2, <1>3, <1>4
  <2>3. CleanupUnderway(w)'
    BY <2>1, <2>2 DEF CleanupUnderway
  <2> QED BY <1>3, <2>3 DEF Underway, CreateUnderway, ValidateUnderway, InvalidateUnderway,
        ForceLogoutUnderway, CreatePcs, ForceLogoutPcs
<1> QED BY <1>1, <1>4, <1>5, <1>6, <1>7, ShrinkStep

LEMMA SerialCleanupUnindex ==
  ASSUME NEW w \in Actor, Serial(w), IInv', CleanupUnindex(w)
  PROVE  SerialInv(w)'
<1>0. TypeOK /\ UsersAgree /\ SerialInv(w) /\ CallWellFormed(w) /\ call[w] \in Call
  BY DEF Serial, IInv, TypeOK
<1>x. PICK x : x = call[w].cur
  OBVIOUS
<1>1. /\ call[w].pc = "cleanUnindex"
      /\ index' = [index EXCEPT ![owner[x]] = @ \ {x}]
      /\ call' = [call EXCEPT ![w].pc = "cleanDrop", ![w].cur = None]
      /\ UNCHANGED <<sessions, born, rows, now, owner, issued, closed, evicted>>
  BY <1>x DEF CleanupUnindex, At, clientVars
<1>2. /\ x \in Token /\ ~Usable(x)
      /\ \A y \in call[w].todo : ~Usable(y) /\ y \in Token
  BY <1>0, <1>1, <1>x DEF CallWellFormed, Call, SerialInv, Underway, CleanupUnderway
<1>3. call'[w].pc = "cleanDrop" /\ call'[w].todo = call[w].todo
  BY <1>0, <1>1 DEF TypeOK, Call
<1>4. \A y \in Token : /\ Usable(y)' <=> Usable(y)
                       /\ RowLive(y)' <=> RowLive(y)
                       /\ Mirrored(y)' <=> Mirrored(y)
  BY <1>1, SameEntry, SameRow, SameBoth
<1>5. Listed(w)'
  <2> SUFFICES ASSUME NEW y \in Token, Usable(y) PROVE y \in index'[owner[y]]
    BY <1>1, <1>4 DEF Listed
  <2>1. y \in index[owner[y]]
    BY <1>0, <1>1 DEF SerialInv, Listed, CreatePcs
  <2>2. y # x
    BY <1>2
  <2>3. owner[y] \in User
    <3>1. sessions[y] # None /\ sessions[y] \in Session /\ sessions[y].user = owner[y]
      BY <1>0 DEF Usable, Active, UsersAgree, TypeOK
    <3> QED BY <3>1 DEF Session
  <2> QED BY <1>0, <1>1, <2>1, <2>2, <2>3 DEF TypeOK
<1>6. RowsFollow(w)'
  BY <1>0, <1>1, <1>4 DEF SerialInv, RowsFollow
<1>7. Underway(w)'
  <2>1. CleanupUnderway(w)'
    BY <1>2, <1>3, <1>4 DEF CleanupUnderway
  <2> QED BY <1>3, <2>1 DEF Underway, CreateUnderway, ValidateUnderway, InvalidateUnderway,
        ForceLogoutUnderway, CreatePcs, ForceLogoutPcs
<1> QED BY <1>1, <1>4, <1>5, <1>6, <1>7, ShrinkStep

\* A restart accepts exactly the live rows, and forgets the call.
LEMMA SerialRestart ==
  ASSUME NEW w \in Actor, Serial(w), IInv', Restart
  PROVE  SerialInv(w)'
<1>0. TypeOK /\ UsersAgree /\ UsersAgree' /\ SerialInv(w)
  BY DEF Serial, IInv
<1>1. /\ \A t \in Token : sessions'[t] = IF RowLive(t) THEN rows[t] ELSE None
      /\ \A u \in User : index'[u] = {t \in Token : sessions'[t] # None /\ sessions'[t].user = u}
      /\ born' = [t \in Token |-> 0]
      /\ call'[w] = Idle
      /\ UNCHANGED <<rows, now, owner, issued, closed, evicted>>
  <2>1. \A t \in Token : sessions'[t] = IF RowLive(t) THEN rows[t] ELSE None
    BY DEF Restart, RowLive
  <2> QED BY <2>1 DEF Restart, clientVars
<1>2. ASSUME NEW t \in Token
      PROVE  /\ RowLive(t)' <=> RowLive(t)
             /\ Usable(t)' => RowLive(t)
             /\ RowLive(t) => Active(t)' /\ sessions'[t] = rows[t]
  <2>1. RowLive(t)' <=> RowLive(t)
    BY <1>1, SameRow
  <2>2. Usable(t)' => RowLive(t)
    BY <1>1 DEF Usable, Active
  <2>3. ASSUME RowLive(t) PROVE Active(t)' /\ sessions'[t] = rows[t]
    <3>1. sessions'[t] = rows[t]
      BY <1>1, <2>3
    <3>2. rows[t] # None /\ rows[t].active
      BY <2>3 DEF RowLive
    <3>3. Active(t)'
      BY <3>1, <3>2, Zenon DEF Active
    <3> QED BY <3>1, <3>3
  <2> QED BY <2>1, <2>2, <2>3
<1>3. \A t \in Token : RowLive(t)' => Mirrored(t)'
  BY <1>1, <1>2 DEF Mirrored
<1>4. RowLimit'
  BY <1>0, <1>1, <1>2 DEF SerialInv, RowLimit
<1>5. WithinLimit'
  <2> SUFFICES ASSUME NEW u \in User
               PROVE  Cardinality({t \in Token : Usable(t)' /\ sessions'[t].user = u}) <= MaxSessions
    BY DEF WithinLimit
  <2> DEFINE S == {t \in Token : Usable(t)' /\ sessions'[t].user = u}
             T == {t \in Token : RowLive(t) /\ rows[t].user = u}
  <2>1. S \subseteq T /\ T \subseteq Token
    BY <1>2
  <2>2. Cardinality(T) <= MaxSessions
    BY <1>0 DEF SerialInv, RowLimit
  <2> QED BY <2>1, <2>2, SessionsAssumption, FS_Subset, FS_CardinalityType
<1>6. Listed(w)'
  <2> SUFFICES ASSUME NEW t \in Token, Usable(t)' PROVE t \in index'[owner'[t]]
    BY DEF Listed
  <2>1. sessions'[t] # None
    BY DEF Usable, Active
  <2>2. sessions'[t].user = owner'[t] /\ sessions'[t].user \in User
    <3>1. sessions'[t] = rows[t] /\ rows[t] # None
      BY <1>2, <2>1
    <3> QED BY <1>0, <2>1, <3>1 DEF UsersAgree, TypeOK, Session
  <2> QED BY <1>1, <2>1, <2>2
<1>7. RowsFollow(w)'
  BY <1>3 DEF RowsFollow
<1>8. Held(w)'
  BY <1>0, <1>1, <1>2 DEF SerialInv, Held
<1>9. Closed'
  <2>1. Closed /\ closed \subseteq Token /\ evicted \subseteq Token
    BY <1>0 DEF SerialInv, TypeOK
  <2> QED BY <1>1, <1>2, <2>1 DEF Closed
<1>10. PushOrder'
  <2>1. {x \in Token : born'[x] > 0} = {}
    BY <1>1
  <2>2. Cardinality({x \in Token : born'[x] > 0}) = 0
    BY <2>1, FS_EmptySet
  <2> QED BY <1>1, <2>2 DEF PushOrder
<1> QED BY <1>1, <1>4, <1>5, <1>6, <1>7, <1>8, <1>9, <1>10, NothingUnderway DEF SerialInv

LEMMA SerialInit ==
  ASSUME NEW w \in Actor, Init
  PROVE  SerialInv(w)
<1>1. /\ \A t \in Token : sessions[t] = None /\ rows[t] = None /\ born[t] = 0 /\ owner[t] = None
      /\ call[w] = Idle /\ issued = {} /\ closed = {} /\ evicted = {}
  BY DEF Init
<1>2. \A t \in Token : ~Usable(t) /\ ~RowLive(t)
  BY <1>1 DEF Usable, Active, RowLive
<1>3. \A u \in User : /\ {t \in Token : Usable(t) /\ sessions[t].user = u} = {}
                      /\ {t \in Token : RowLive(t) /\ rows[t].user = u} = {}
  BY <1>2
<1>4. WithinLimit /\ RowLimit
  <2>1. ASSUME NEW u \in User
        PROVE  /\ Cardinality({t \in Token : Usable(t) /\ sessions[t].user = u}) = 0
               /\ Cardinality({t \in Token : RowLive(t) /\ rows[t].user = u}) = 0
    <3>1. Cardinality({}) = 0
      BY FS_EmptySet
    <3> QED BY <1>3, <3>1
  <2>2. 0 <= MaxSessions
    BY SessionsAssumption
  <2> QED BY <2>1, <2>2 DEF WithinLimit, RowLimit
<1>5. Listed(w) /\ RowsFollow(w) /\ Held(w) /\ Closed
  BY <1>1, <1>2 DEF Listed, RowsFollow, Held, Closed
<1>6. PushOrder
  <2>1. {x \in Token : born[x] > 0} = {}
    BY <1>1
  <2>2. Cardinality({x \in Token : born[x] > 0}) = 0
    BY <2>1, FS_EmptySet
  <2> QED BY <1>1, <2>2 DEF PushOrder
<1>7. Underway(w)
  BY <1>1 DEF Underway, CreateUnderway, ValidateUnderway, InvalidateUnderway,
     ForceLogoutUnderway, CleanupUnderway, CreatePcs, ForceLogoutPcs, Idle
<1> QED BY <1>4, <1>5, <1>6, <1>7 DEF SerialInv

LEMMA SerialStep ==
  ASSUME NEW w \in Actor, Serial(w), [Next]_vars
  PROVE  SerialInv(w)'
<1>0. IInv' /\ Actor = {w}
  BY StepIInv DEF Serial
<1>1. CASE Tick \/ UNCHANGED vars
  BY <1>0, <1>1, SerialTick
<1>2. CASE Restart
  BY <1>0, <1>2, SerialRestart
<1>3. CASE Begin(w)
  BY <1>0, <1>3, SerialCreateIndex, SerialInvalidate, SerialValidateOk, SerialForceLogout,
     SerialCleanup DEF Begin
<1>4. CASE Continue(w)
  BY <1>0, <1>4, SerialEvictMark, SerialEvictPersist, SerialCreateInsert, SerialCreatePersist,
     SerialValidatePersist, SerialInvalidateMark, SerialInvalidateUnindex, SerialInvalidateDelete,
     SerialInvalidateDrop, SerialForceLogoutMark, SerialForceLogoutDelete, SerialForceLogoutDrop,
     SerialForceLogoutUnindex, SerialCleanupDrop, SerialCleanupDelete, SerialCleanupUnindex
  DEF Continue
<1> QED BY <1>0, <1>1, <1>2, <1>3, <1>4 DEF Next, Running

\* With one worker, and a table that does not fail, both invariants hold at every moment.
LEMMA SerialInvariant ==
  ASSUME NEW CONSTANT w \in Actor, Actor = {w}, StorageFaults = FALSE
  PROVE  Spec => []SerialInv(w)
<1>1. Init => SerialInv(w)
  BY SerialInit
<1>2. IInv /\ SerialInv(w) /\ [Next]_vars => SerialInv(w)'
  BY SerialStep DEF Serial
<1> QED BY <1>1, <1>2, IInvInvariant, PTL DEF Spec

\* A single worker keeps max_sessions_per_user (create's eviction), whatever create,
\* cleanup and a crash between two of their steps leave behind.
THEOREM SerialLimit ==
  ASSUME NEW CONSTANT w \in Actor, Actor = {w}, StorageFaults = FALSE
  PROVE  Spec => []WithinLimit
<1>1. SerialInv(w) => WithinLimit
  BY DEF SerialInv
<1> QED BY <1>1, SerialInvariant, PTL

\* A session that invalidate has closed is closed for good, through restarts from the table.
THEOREM SerialLogout ==
  ASSUME NEW CONSTANT w \in Actor, Actor = {w}, StorageFaults = FALSE
  PROVE  Spec => []LogoutIsFinal
<1>1. SerialInv(w) => LogoutIsFinal
  BY DEF SerialInv, Closed, LogoutIsFinal
<1> QED BY <1>1, SerialInvariant, PTL

\* invalidate_all closes every session its user held, for good.
THEOREM SerialForceLogoutHolds ==
  ASSUME NEW CONSTANT w \in Actor, Actor = {w}, StorageFaults = FALSE
  PROVE  Spec => []ForceLogoutIsComplete
<1>1. SerialInv(w) => ForceLogoutIsComplete
  BY DEF SerialInv, Closed, ForceLogoutIsComplete
<1> QED BY <1>1, SerialInvariant, PTL
=============================================================================
