------------------------------- MODULE Access -------------------------------
(* Who reaches a handler: the filters main.rs wraps around the app, the      *)
(* session and role filters of the /auth scopes, and the handlers of         *)
(* /auth/admin and /auth that change what those filters read.  The filters   *)
(* look at sessions and roles one after the other, the handlers change them  *)
(* one after the other, and other workers run in between.                    *)
EXTENDS Integers, SequencesExt

CONSTANTS
  User,
  Visitor,
  Bits,         \* width of an address
  NoOne

VARIABLES
  role,         \* User -> "SuperAdmin" or a lesser role
  enabled,      \* User -> BOOLEAN
  live,         \* the users with a session
  old,          \* the users with a session older than their role (history)
  late,         \* the users a login gave a session though disabled (history)
  visit         \* Visitor -> the request it serves

accessVars == <<role, enabled, live, old, late, visit>>

\* What each area of the app demands, outermost filter first (main.rs:365-501);
\* the JWT filter exempts the areas that have a check of their own, which is the
\* API key for "api" (/xira).  The blacklist, the whitelist and the rate limiter
\* see every area.
Areas == {"admin", "own", "login", "api", "service"}
Demands(area) ==
  CASE area = "admin" -> <<"ip", "rate", "session", "role">>
    [] area = "own" -> <<"ip", "rate", "session">>
    [] area = "login" -> <<"ip", "rate">>
    [] area = "api" -> <<"key", "ip", "rate">>
    [] area = "service" -> <<"ip", "jwt", "rate">>

NoVisit == [next |-> 0, area |-> NoOne, who |-> NoOne, op |-> NoOne, target |-> NoOne, overtaken |-> FALSE]
AdminOps == {"role", "disable", "logout"}
Done(r) == r # NoVisit /\ r.next = Len(Demands(r.area)) + 1
At(r, filter) == r # NoVisit /\ r.next \in DOMAIN Demands(r.area) /\ Demands(r.area)[r.next] = filter
Sweeping(u) == \E w \in Visitor : visit[w].next = -1 /\ visit[w].target = u

AccessInit ==
  /\ role \in [User -> {"SuperAdmin", "Viewer"}] /\ enabled = [u \in User |-> TRUE]
  /\ live = {} /\ old = {} /\ late = {} /\ visit = [w \in Visitor |-> NoVisit]

Ask(w, area, who, op, target) ==
  /\ visit[w] = NoVisit
  /\ area = "login" => enabled[who]      \* Authenticator::login, password included
  /\ visit' = [visit EXCEPT ![w] = [next |-> 1, area |-> area, who |-> who, op |-> op,
                                target |-> target, overtaken |-> FALSE]]
  /\ UNCHANGED <<role, enabled, live, old, late>>

\* A filter that looks at the request alone.
PassStateless(w) ==
  /\ \E f \in {"key", "ip", "jwt", "rate"} : At(visit[w], f)
  /\ \/ visit' = [visit EXCEPT ![w].next = @ + 1]
     \/ visit' = [visit EXCEPT ![w] = NoVisit]
  /\ UNCHANGED <<role, enabled, live, old, late>>

PassSession(w) ==
  /\ At(visit[w], "session")
  /\ IF visit[w].who \in live THEN visit' = [visit EXCEPT ![w].next = @ + 1]
     ELSE visit' = [visit EXCEPT ![w] = NoVisit]
  /\ UNCHANGED <<role, enabled, live, old, late>>

PassRole(w) ==
  /\ At(visit[w], "role")
  /\ IF role[visit[w].who] = "SuperAdmin" THEN visit' = [visit EXCEPT ![w].next = @ + 1]
     ELSE visit' = [visit EXCEPT ![w] = NoVisit]
  /\ UNCHANGED <<role, enabled, live, old, late>>

\* Requests of u that have passed a filter whose answer has changed by now.
Overtake(u, w) ==
  [v \in Visitor |-> IF v = w THEN NoVisit
                    ELSE IF visit[v].who = u THEN [visit[v] EXCEPT !.overtaken = TRUE] ELSE visit[v]]
NowSweep(w, new) == [new EXCEPT ![w] = [visit[w] EXCEPT !.next = -1]]

\* admin_update_role, first half.
UpdateRole(w, new) ==
  LET u == visit[w].target IN
  /\ Done(visit[w]) /\ visit[w].area = "admin" /\ visit[w].op = "role"
  /\ role' = [role EXCEPT ![u] = new]
  /\ old' = IF u \in live THEN old \cup {u} ELSE old
  /\ visit' = NowSweep(w, Overtake(u, w))
  /\ UNCHANGED <<enabled, live, late>>

DisableUser_KeepsSessions(w) ==   \* mutant
  /\ Done(visit[w]) /\ visit[w].area = "admin" /\ visit[w].op = "disable"
  /\ enabled' = [enabled EXCEPT ![visit[w].target] = FALSE]
  /\ visit' = [visit EXCEPT ![w] = NoVisit]
  /\ UNCHANGED <<role, live, old, late>>

\* admin_disable_user, first half.
DisableUser(w) ==
  LET u == visit[w].target IN
  /\ Done(visit[w]) /\ visit[w].area = "admin" /\ visit[w].op = "disable"
  /\ enabled' = [enabled EXCEPT ![u] = FALSE]
  /\ visit' = NowSweep(w, visit)
  /\ UNCHANGED <<role, live, old, late>>

\* invalidate_all: the second half of both, and all of admin_logout_all,
\* logout and logout_all.
InvalidateAll(w) ==
  LET u == IF visit[w].area = "own" THEN visit[w].who ELSE visit[w].target IN
  /\ \/ visit[w].next = -1
     \/ Done(visit[w]) /\ visit[w].area = "own"
     \/ Done(visit[w]) /\ visit[w].area = "admin" /\ visit[w].op = "logout"
  /\ live' = live \ {u} /\ old' = old \ {u} /\ late' = late \ {u}
  /\ visit' = Overtake(u, w)
  /\ UNCHANGED <<role, enabled>>

\* create, after the password was found right.
IssueSession(w) ==
  LET u == visit[w].who IN
  /\ Done(visit[w]) /\ visit[w].area = "login"
  /\ live' = live \cup {u}
  /\ late' = IF enabled[u] THEN late ELSE late \cup {u}
  /\ visit' = [visit EXCEPT ![w] = NoVisit]
  /\ UNCHANGED <<role, enabled, old>>

Respond(w) ==
  /\ Done(visit[w]) /\ visit[w].area \in {"api", "service"}
  /\ visit' = [visit EXCEPT ![w] = NoVisit]
  /\ UNCHANGED <<role, enabled, live, old, late>>

AccessNext == \E w \in Visitor :
  \/ \E u, t \in User, op \in AdminOps : Ask(w, "admin", u, op, t)
  \/ \E u \in User, area \in {"own", "login"} : Ask(w, area, u, NoOne, NoOne)
  \/ \E area \in {"api", "service"} : Ask(w, area, NoOne, NoOne, NoOne)
  \/ PassStateless(w) \/ PassSession(w) \/ PassRole(w)
  \/ \E new \in {"SuperAdmin", "Viewer"} : UpdateRole(w, new)
  \/ DisableUser(w) \/ InvalidateAll(w) \/ IssueSession(w) \/ Respond(w)

AccessSpec == AccessInit /\ [][AccessNext]_accessVars

-----------------------------------------------------------------------------
(* The address filter and the path rule, as functions.                       *)

HostSize_Shifted(len) == 2 ^ (Bits - len + 1)   \* mutant

\* 1u32 << (32 - len): a shift by the whole width is a shift by none.
HostSize(len) == 2 ^ ((Bits - len) % Bits)
MatchesCidr(ip, base, len) ==
  IF len >= Bits THEN ip = base ELSE ip \div HostSize(len) = base \div HostSize(len)

IsAllowed(ip, black, white) ==
  /\ \A c \in black : ~MatchesCidr(ip, c.base, c.len)
  /\ white = {} \/ \E c \in white : MatchesCidr(ip, c.base, c.len)

Normalized(path) ==
  FoldLeft(LAMBDA out, seg :
             CASE seg \in {"", "."} -> out
               [] seg = ".." -> IF out = <<>> THEN out ELSE SubSeq(out, 1, Len(out) - 1)
               [] OTHER -> Append(out, seg), <<>>, path)

Addresses == 0..2 ^ Bits - 1
Paths == UNION {[1..n -> {"a", "xira", "..", ""}] : n \in 0..4}

AccessTypeOK ==
  /\ role \in [User -> {"SuperAdmin", "Viewer"}] /\ enabled \in [User -> BOOLEAN]
  /\ live \subseteq User /\ old \subseteq User /\ late \subseteq User
  /\ \A w \in Visitor : visit[w].next \in -1..5

\* A request is at an admin handler with a live session of a SuperAdmin, or was
\* overtaken by a change of them after it had passed.  A session outlives a
\* change of role only while the handler that made the change still runs, and a
\* disabled account has one only then or from a login that began before.
AccessIsCurrent ==
  /\ \A w \in Visitor : Done(visit[w]) /\ visit[w].area = "admin" /\ ~visit[w].overtaken =>
       visit[w].who \in live /\ role[visit[w].who] = "SuperAdmin"
  /\ \A u \in old : Sweeping(u)
  /\ \A u \in live : ~enabled[u] => Sweeping(u) \/ u \in late

\* A network of at least one bit means its prefix (a length of 0 does not: it
\* names one address, ip_filter.rs:58); a path is resolved once and for all and
\* never climbs above its root.
FilterRulesMean ==
  /\ \A ip, base \in Addresses, len \in 1..Bits :
       MatchesCidr(ip, base, len) <=>
         \A k \in Bits - len..Bits - 1 : (ip \div 2 ^ k) % 2 = (base \div 2 ^ k) % 2
  /\ \A p \in Paths : /\ Normalized(Normalized(p)) = Normalized(p)
                      /\ \A i \in DOMAIN Normalized(p) : Normalized(p)[i] \in {"a", "xira"}
                      /\ Normalized(<<"..">> \o p) = Normalized(p)

=============================================================================
