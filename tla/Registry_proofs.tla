--------------------------- MODULE Registry_proofs ---------------------------
(* Proofs about the service registry and the health checker over it, for any *)
(* number of services, prefixes, names and callers.                          *)
EXTENDS HealthWatch, FiniteSetTheorems, TLAPS

\* None is no value of the program's, a configured service has a prefix and a
\* name, and a count is written every Flush requests.
RegistryConstants ==
  /\ None \notin Id \cup Prefix \cup Name \cup Row \cup Entry
  /\ DOMAIN ConfigServices \subseteq Prefix
  /\ \A p \in DOMAIN ConfigServices : ConfigServices[p] \in Name
  /\ Flush \in Nat \ {0} /\ MaxRequests \in Nat

-----------------------------------------------------------------------------
(* The inductive invariant of the registry.                                  *)

\* What a caller remembers fits the step it is at.
OpFits(o) ==
  /\ o \in Op
  /\ o.step \in {"find", "unmap", "unrow", "save", "insert", "extend"} => o.prefix \in Prefix /\ o.name \in Name
  /\ o.step \in {"unmap", "unrow", "forget"} => o.found \in Id
  /\ o.step = "insert" => o.id \in Id
  /\ o.step \in {"idle", "forget"} => o.prefix = None
Types ==
  /\ services \in [Id -> Entry \cup {None}] /\ rows \in [Id -> Row \cup {None}]
  /\ op \in [Caller -> Op] /\ \A w \in Caller : OpFits(op[w])
  /\ failed \subseteq Id /\ gone \subseteq Id

\* Unless registrations of it overlapped, a prefix has one caller at most, ...
Alone == \A v, w \in Caller : op[v].prefix \in Prefix /\ op[v].prefix = op[w].prefix
                              /\ op[v].prefix \notin overlapped => v = w
\* ... one service at most, ...
Single == \A i, j \in Id : services[i] # None /\ services[j] # None
            /\ services[i].prefix = services[j].prefix /\ services[i].prefix \notin overlapped => i = j
\* ... and none once its caller has taken the old one away.
Room == \A w \in Caller, i \in Id :
          services[i] # None /\ services[i].prefix = op[w].prefix /\ op[w].prefix \notin overlapped =>
            /\ op[w].step \notin {"unrow", "save", "insert"}
            /\ op[w].step = "unmap" => op[w].found = i
\* The UNIQUE constraint of the table.
Unique == \A i, j \in Id : rows[i] # None /\ rows[j] # None /\ rows[i].prefix = rows[j].prefix => i = j

\* An id that is about to be inserted is nobody else's ...
Coming == \A w \in Caller : op[w].step = "insert" =>
            /\ services[op[w].id] = None /\ op[w].id \notin gone
            /\ \A v \in Caller : /\ op[v].step \in {"unmap", "unrow", "forget"} => op[v].found # op[w].id
                                 /\ op[v].step = "insert" /\ op[v].id = op[w].id => v = w
\* ... and one that is about to be deleted has left the map.
Going == \A w \in Caller : op[w].step \in {"unrow", "forget"} => services[op[w].found] = None

\* A row is written before its service is inserted and agrees with it after.
Written == \A w \in Caller :
  op[w].step = "insert" /\ op[w].id \notin failed /\ op[w].prefix \notin overlapped =>
    rows[op[w].id] = AsRow(NewEntry(op[w].prefix, op[w].name))
Backed == \A i \in Id : services[i] # None /\ i \notin failed /\ services[i].prefix \notin overlapped =>
  /\ rows[i] # None /\ rows[i].name = services[i].name /\ rows[i].prefix = services[i].prefix
  /\ services[i].count - rows[i].count \in 0..Flush-1
Flushed == \A i \in Id : rows[i] # None => rows[i].count % Flush = 0
Gone == \A i \in Id : i \in gone /\ i \notin failed => services[i] = None /\ rows[i] = None

RegistryInv == Types /\ Alone /\ Single /\ Room /\ Unique /\ Coming /\ Going /\ Written /\ Backed /\ Flushed /\ Gone

-----------------------------------------------------------------------------
(* The inductive invariant of the checker, beside that of the registry.      *)

\* The checker's own incidents that are open for a name.
Own(n) == {k \in Open(n) : incidents[k].own}

HealthTypes ==
  /\ check \in Check /\ incidents \in Seq(Incident)
  /\ check.step = "rest" => check.todo = {}
  /\ check.step \in {"resolve", "look", "create", "write"} => check.at \in check.todo /\ check.found \in Result
  /\ check.step = "resolve" => check.found = "Up"
  /\ check.step \in {"look", "create"} => check.found = "Down"

\* At most one of them at a time, and none when the checker opens one.
OneOwn == /\ \A n \in Name : \A k, l \in Own(n) : k = l
          /\ check.step = "create" => Own(check.at.name) = {}

\* Names that two services share, and those of an incident for several, are touched.
Apart == /\ Shared(services) \subseteq touched
         /\ \A k \in DOMAIN incidents : incidents[k].of \subseteq touched \/ \E n \in Name : incidents[k].of = {n}

\* A service of the snapshot that left the map is on its way out or gone, ...
Departed == \A s \in check.todo :
  \/ services[s.id] # None /\ services[s.id].name = s.name
  \/ services[s.id] = None /\ s.id \in gone
  \/ services[s.id] = None /\ \E v \in Caller : op[v].step \in {"unrow", "forget"} /\ op[v].found = s.id
\* ... no two of them have one name, and one that took its place is unprobed.
Current == \A s \in check.todo : s.name \notin touched =>
  /\ \A t \in check.todo : t.name = s.name => t = s
  /\ \A i \in Id : services[i] # None /\ services[i].name = s.name =>
       IF i = s.id THEN services[i].status = s.status ELSE services[i].status = "Unknown"

\* Statuses and incidents agree, but for the service in the checker's hands, ...
Agree(i) == /\ services[i].status = "Down" => Open(services[i].name) # {}
            /\ services[i].status = "Up" => Open(services[i].name) = {}
InHand(i) == check.step \in {"resolve", "look", "create", "write"} /\ check.at.id = i
Agreed == \A i \in Id : services[i] # None /\ services[i].name \notin touched /\ ~InHand(i) => Agree(i)
\* ... and for it what was found agrees with them before it is written.
Ready == check.step = "write" /\ services[check.at.id] # None /\ check.at.name \notin touched =>
           /\ check.found = "Down" => Open(check.at.name) # {}
           /\ check.found = "Up" => Open(check.at.name) = {}

HealthInv == HealthTypes /\ OneOwn /\ Apart /\ Departed /\ Current /\ Agreed /\ Ready

-----------------------------------------------------------------------------
(* What the pieces of the invariant need of a step to survive it.            *)

\* Callers keep their prefix or leave it.
LEMMA AloneStays ==
  ASSUME RegistryConstants, Alone, overlapped \subseteq overlapped',
         \A v \in Caller : op'[v].prefix = op[v].prefix \/ op'[v].prefix = None
  PROVE  Alone'
BY DEF RegistryConstants, Alone

\* Services keep their prefix or leave.
LEMMA SingleStays ==
  ASSUME Single, overlapped \subseteq overlapped',
         \A i \in Id : services'[i] # None =>
           services[i] # None /\ services'[i].prefix = services[i].prefix
  PROVE  Single'
<1> SUFFICES ASSUME NEW i \in Id, NEW j \in Id, services'[i] # None, services'[j] # None,
                    services'[i].prefix = services'[j].prefix, services'[i].prefix \notin overlapped'
             PROVE  i = j
  BY DEF Single
<1> QED BY DEF Single

\* Callers stay where they are, or go where no room is asked for.
LEMMA RoomStays ==
  ASSUME Room, overlapped \subseteq overlapped',
         \A i \in Id : services'[i] # None =>
           services[i] # None /\ services'[i].prefix = services[i].prefix,
         \A v \in Caller : op'[v] = op[v] \/ op'[v].step \notin {"unmap", "unrow", "save", "insert"}
  PROVE  Room'
<1> SUFFICES ASSUME NEW v \in Caller, NEW i \in Id, services'[i] # None,
                    services'[i].prefix = op'[v].prefix, op'[v].prefix \notin overlapped'
             PROVE  /\ op'[v].step \notin {"unrow", "save", "insert"}
                    /\ op'[v].step = "unmap" => op'[v].found = i
  BY DEF Room
<1> QED BY DEF Room

\* Rows keep their prefix or leave.
LEMMA UniqueStays ==
  ASSUME Unique, \A i \in Id : rows'[i] # None => rows[i] # None /\ rows'[i].prefix = rows[i].prefix
  PROVE  Unique'
<1> SUFFICES ASSUME NEW i \in Id, NEW j \in Id, rows'[i] # None, rows'[j] # None,
                    rows'[i].prefix = rows'[j].prefix
             PROVE  i = j
  BY DEF Unique
<1> QED BY DEF Unique

\* Nothing is inserted, removed for good or taken into hand, but what was in the map.
LEMMA ComingStays ==
  ASSUME Coming,
         \A i \in Id : services[i] = None => services'[i] = None,
         \A v \in Caller : OpFits(op[v]) /\ OpFits(op'[v]),
         \A v \in Caller : op'[v].step = "insert" => op[v].step = "insert" /\ op'[v].id = op[v].id,
         \A v \in Caller : op'[v].step \in {"unmap", "unrow", "forget"} =>
           \/ op[v].step \in {"unmap", "unrow", "forget"} /\ op'[v].found = op[v].found
           \/ services[op'[v].found] # None,
         \A i \in gone' : i \in gone \/ \E v \in Caller : op[v].step \in {"unrow", "forget"} /\ i = op[v].found
  PROVE  Coming'
<1> SUFFICES ASSUME NEW v \in Caller, op'[v].step = "insert"
             PROVE  /\ services'[op'[v].id] = None /\ op'[v].id \notin gone'
                    /\ \A u \in Caller :
                         /\ op'[u].step \in {"unmap", "unrow", "forget"} => op'[u].found # op'[v].id
                         /\ op'[u].step = "insert" /\ op'[u].id = op'[v].id => u = v
  BY DEF Coming
<1>1. op[v].step = "insert" /\ op'[v].id = op[v].id /\ op[v].id \in Id
  BY DEF OpFits
<1>2. /\ services[op[v].id] = None /\ op[v].id \notin gone
      /\ \A u \in Caller : /\ op[u].step \in {"unmap", "unrow", "forget"} => op[u].found # op[v].id
                           /\ op[u].step = "insert" /\ op[u].id = op[v].id => u = v
  BY <1>1 DEF Coming
<1> QED BY <1>1, <1>2

\* Who is about to delete has waited since the map lost the id.
LEMMA GoingStays ==
  ASSUME Going,
         \A v \in Caller : OpFits(op[v]),
         \A v \in Caller : op'[v].step \in {"unrow", "forget"} =>
           \/ services'[op'[v].found] = None
           \/ op[v].step \in {"unrow", "forget"} /\ op'[v].found = op[v].found,
         \A i \in Id : services[i] = None => services'[i] = None
  PROVE  Going'
<1> SUFFICES ASSUME NEW v \in Caller, op'[v].step \in {"unrow", "forget"}
             PROVE  services'[op'[v].found] = None
  BY DEF Going
<1> QED BY DEF Going, OpFits

\* What is written for an insertion stays until it happens.
LEMMA WrittenStays ==
  ASSUME Written, overlapped \subseteq overlapped', failed \subseteq failed',
         \A v \in Caller : op'[v].step = "insert" =>
           /\ op[v].step = "insert" /\ op'[v].id = op[v].id
           /\ op'[v].prefix = op[v].prefix /\ op'[v].name = op[v].name
           /\ op[v].id \in failed' \/ op[v].prefix \in overlapped' \/ rows'[op[v].id] = rows[op[v].id]
  PROVE  Written'
<1> SUFFICES ASSUME NEW v \in Caller, op'[v].step = "insert", op'[v].id \notin failed', op'[v].prefix \notin overlapped'
             PROVE  rows'[op'[v].id] = AsRow(NewEntry(op'[v].prefix, op'[v].name))
  BY DEF Written, AsRow, NewEntry
<1>1. rows[op[v].id] = AsRow(NewEntry(op[v].prefix, op[v].name))
  BY DEF Written
<1> QED BY <1>1

\* A service and its row keep what they agree on.
LEMMA BackedStays ==
  ASSUME Backed, overlapped \subseteq overlapped', failed \subseteq failed',
         \A i \in Id : services'[i] # None =>
           /\ services[i] # None /\ services'[i].prefix = services[i].prefix
           /\ services'[i].name = services[i].name /\ services'[i].count = services[i].count
           /\ i \in failed' \/ services[i].prefix \in overlapped' \/ rows'[i] = rows[i]
  PROVE  Backed'
<1> SUFFICES ASSUME NEW i \in Id, services'[i] # None, i \notin failed', services'[i].prefix \notin overlapped'
             PROVE  /\ rows'[i] # None /\ rows'[i].name = services'[i].name /\ rows'[i].prefix = services'[i].prefix
                    /\ services'[i].count - rows'[i].count \in 0..Flush-1
  BY DEF Backed
<1>1. /\ rows[i] # None /\ rows[i].name = services[i].name /\ rows[i].prefix = services[i].prefix
      /\ services[i].count - rows[i].count \in 0..Flush-1
  BY DEF Backed
<1> QED BY <1>1

LEMMA FlushedStays ==
  ASSUME Flushed, \A i \in Id : rows'[i] # None => rows[i] # None /\ rows'[i].count = rows[i].count
  PROVE  Flushed'
BY DEF Flushed

LEMMA GoneStays ==
  ASSUME Gone, gone' = gone, failed \subseteq failed',
         \A i \in gone : /\ services[i] = None => services'[i] = None
                         /\ rows[i] = None => rows'[i] = None
  PROVE  Gone'
BY DEF Gone

\* A step that leaves the table alone, and takes services out of the map or keeps
\* what a row holds of them.
LEMMA MapShrinks ==
  ASSUME RegistryConstants, RegistryInv, UNCHANGED <<rows, gone, failed>>,
         overlapped \subseteq overlapped', op' \in [Caller -> Op], \A v \in Caller : OpFits(op'[v]),
         services' \in [Id -> Entry \cup {None}],
         \A i \in Id : services'[i] # None =>
              /\ services[i] # None /\ services'[i].prefix = services[i].prefix
              /\ services'[i].name = services[i].name /\ services'[i].count = services[i].count,
         \A v \in Caller : op'[v].step = "insert" => op'[v] = op[v],
         \A v \in Caller : op'[v].step \in {"unmap", "unrow", "forget"} =>
           \/ op'[v] = op[v]
           \/ op'[v].step = "unmap" /\ services[op'[v].found] # None
           \/ op[v].step = "unmap" /\ op'[v].found = op[v].found /\ services'[op'[v].found] = None
           \/ services[op'[v].found] # None /\ services'[op'[v].found] = None
  PROVE  Types' /\ Single' /\ Unique' /\ Coming' /\ Going' /\ Written' /\ Backed' /\ Flushed' /\ Gone'
<1>1. Types'
  BY DEF RegistryInv, Types
<1>2. Single'
  <2>1. \A i \in Id : services'[i] # None =>
           services[i] # None /\ services'[i].prefix = services[i].prefix
    <3> TAKE i \in Id
    <3> QED OBVIOUS
  <2> QED BY <2>1, SingleStays DEF RegistryInv
<1>3. Unique'
  BY UniqueStays DEF RegistryInv
<1>4. Coming'
  BY ComingStays DEF RegistryInv, Types
<1>5. Going'
  BY GoingStays DEF RegistryInv, Types
<1>6. Written'
  BY WrittenStays DEF RegistryInv
<1>7. Backed'
  BY BackedStays DEF RegistryInv
<1>8. Flushed'
  BY FlushedStays DEF RegistryInv
<1>9. Gone'
  <2>1. \A i \in gone : services[i] = None => services'[i] = None
    BY DEF RegistryInv, Types
  <2> QED BY <2>1, GoneStays DEF RegistryInv
<1> QED BY <1>1, <1>2, <1>3, <1>4, <1>5, <1>6, <1>7, <1>8, <1>9

LEMMA BeginKeeps ==
  ASSUME RegistryConstants, RegistryInv,
         NEW w \in Caller, NEW p \in Prefix, NEW n \in Name, Begin(w, p, n)
  PROVE  RegistryInv'
<1> DEFINE o == [IdleOp EXCEPT !.step = "find", !.prefix = p, !.name = n]
<1>1. OpFits(o) /\ o.step = "find" /\ o.prefix = p
  BY DEF OpFits, Op, IdleOp
<1>2. op \in [Caller -> Op] /\ \A v \in Caller : OpFits(op[v])
  BY DEF RegistryInv, Types
<1>3. op' \in [Caller -> Op] /\ op'[w] = o /\ \A v \in Caller \ {w} : op'[v] = op[v]
  BY <1>1, <1>2 DEF Begin, OpFits
<1>4. UNCHANGED <<services, rows, gone, failed>> /\ overlapped \subseteq overlapped'
  BY DEF Begin
<1>5. Types' /\ Single' /\ Unique' /\ Coming' /\ Going' /\ Written' /\ Backed' /\ Flushed' /\ Gone'
  <2>1. \A v \in Caller : OpFits(op'[v])
    BY <1>1, <1>2, <1>3
  <2>2. services' \in [Id -> Entry \cup {None}]
    BY <1>4 DEF RegistryInv, Types
  <2> QED BY <1>1, <1>3, <1>4, <2>1, <2>2, MapShrinks
<1>6. Alone'
  <2> SUFFICES ASSUME NEW v \in Caller, NEW u \in Caller, op'[v].prefix \in Prefix,
                      op'[v].prefix = op'[u].prefix, op'[v].prefix \notin overlapped', u # v
               PROVE  FALSE
    BY DEF Alone
  <2>1. CASE v # w /\ u # w
    BY <1>3, <1>4, <2>1 DEF RegistryInv, Alone
  <2>2. CASE v = w
    <3>1. u \in Working(p)
      BY <1>1, <1>3, <2>2 DEF Working
    <3> QED BY <1>1, <1>3, <2>2, <3>1 DEF Begin
  <2>3. CASE u = w
    <3>1. v \in Working(p)
      BY <1>1, <1>3, <2>3 DEF Working
    <3> QED BY <1>1, <1>3, <2>3, <3>1 DEF Begin
  <2> QED BY <2>1, <2>2, <2>3
<1>7. Room'
  <2>1. \A v \in Caller : op'[v] = op[v] \/ op'[v].step \notin {"unmap", "unrow", "save", "insert"}
    BY <1>1, <1>3
  <2> QED BY <1>4, <2>1, RoomStays DEF RegistryInv
<1> QED BY <1>5, <1>6, <1>7 DEF RegistryInv

LEMMA FindKeeps ==
  ASSUME RegistryConstants, RegistryInv, NEW w \in Caller, Find(w)
  PROVE  RegistryInv'
<1> DEFINE p == op[w].prefix
<1>1. op \in [Caller -> Op] /\ \A v \in Caller : OpFits(op[v])
  BY DEF RegistryInv, Types
<1>2. op[w] \in Op /\ op[w].step = "find" /\ p \in Prefix /\ op[w].name \in Name
  BY <1>1 DEF Find, OpFits
<1>3. UNCHANGED <<services, rows, gone, failed, overlapped>>
  BY DEF Find
<1>4. PICK o : /\ op' = [op EXCEPT ![w] = o] /\ OpFits(o) /\ o.prefix = p
               /\ \/ o.step = "save" /\ FindByPrefix(p) = {}
                  \/ o.step = "unmap" /\ o.found \in FindByPrefix(p)
  <2>1. CASE FindByPrefix(p) = {}
    <3> DEFINE s == [op[w] EXCEPT !.step = "save"]
    <3>1. OpFits(s) /\ s.step = "save" /\ s.prefix = p
      BY <1>2 DEF OpFits, Op
    <3>2. op' = [op EXCEPT ![w] = s]
      BY <1>1, <2>1 DEF Find
    <3> QED BY <2>1, <3>1, <3>2
  <2>2. CASE FindByPrefix(p) # {}
    <3>1. PICK i \in FindByPrefix(p) : op' = [op EXCEPT ![w].step = "unmap", ![w].found = i]
      BY <2>2 DEF Find
    <3>2. i \in Id
      BY DEF FindByPrefix, Live
    <3> DEFINE s == [op[w] EXCEPT !.step = "unmap", !.found = i]
    <3>3. OpFits(s) /\ s.step = "unmap" /\ s.prefix = p /\ s.found = i
      BY <1>2, <3>2 DEF OpFits, Op
    <3>4. op' = [op EXCEPT ![w] = s]
      BY <1>1, <1>2, <3>1 DEF Op
    <3> QED BY <3>1, <3>3, <3>4
  <2> QED BY <2>1, <2>2
<1>5. op' \in [Caller -> Op] /\ op'[w] = o /\ \A v \in Caller \ {w} : op'[v] = op[v]
  BY <1>1, <1>4 DEF OpFits
<1>6. Types' /\ Single' /\ Unique' /\ Coming' /\ Going' /\ Written' /\ Backed' /\ Flushed' /\ Gone'
  <2>1. o.step = "unmap" => services[o.found] # None
    BY <1>4 DEF FindByPrefix, Live
  <2>2. \A v \in Caller : OpFits(op'[v])
    BY <1>1, <1>4, <1>5
  <2>3. services' \in [Id -> Entry \cup {None}]
    BY <1>3 DEF RegistryInv, Types
  <2> QED BY <1>3, <1>4, <1>5, <2>1, <2>2, <2>3, MapShrinks
<1>7. Alone'
  BY <1>3, <1>4, <1>5, AloneStays DEF RegistryInv
<1>8. Room'
  <2> SUFFICES ASSUME NEW v \in Caller, NEW i \in Id, services[i] # None,
                      services[i].prefix = op'[v].prefix, op'[v].prefix \notin overlapped
               PROVE  /\ op'[v].step \notin {"unrow", "save", "insert"}
                      /\ op'[v].step = "unmap" => op'[v].found = i
    BY <1>3 DEF Room
  <2>1. CASE v # w
    BY <1>5, <2>1 DEF RegistryInv, Room
  <2>2. CASE v = w
    <3>1. i \in FindByPrefix(p)
      BY <1>4, <1>5, <2>2 DEF FindByPrefix, Live
    <3>2. o.step = "unmap" => o.found = i
      BY <1>3, <1>4, <1>5, <2>2, <3>1 DEF RegistryInv, Single, FindByPrefix, Live
    <3> QED BY <1>4, <1>5, <2>2, <3>1, <3>2
  <2> QED BY <2>1, <2>2
<1> QED BY <1>6, <1>7, <1>8 DEF RegistryInv

LEMMA UnmapKeeps ==
  ASSUME RegistryConstants, RegistryInv, NEW w \in Caller, Unmap(w)
  PROVE  RegistryInv'
<1> DEFINE o == [op[w] EXCEPT !.step = "unrow"]
<1>1. /\ op \in [Caller -> Op] /\ \A v \in Caller : OpFits(op[v])
      /\ services \in [Id -> Entry \cup {None}]
  BY DEF RegistryInv, Types
<1>2. op[w] \in Op /\ op[w].step = "unmap" /\ op[w].prefix \in Prefix /\ op[w].name \in Name /\ op[w].found \in Id
  BY <1>1 DEF Unmap, OpFits
<1>3. UNCHANGED <<rows, gone, failed, overlapped>>
  BY DEF Unmap
<1>4. OpFits(o) /\ o.step = "unrow" /\ o.prefix = op[w].prefix /\ o.found = op[w].found
  BY <1>2 DEF OpFits, Op
<1>5. op' \in [Caller -> Op] /\ op'[w] = o /\ \A v \in Caller \ {w} : op'[v] = op[v]
  BY <1>1, <1>4 DEF Unmap, OpFits
<1>6. /\ services' \in [Id -> Entry \cup {None}] /\ services'[op[w].found] = None
      /\ \A i \in Id \ {op[w].found} : services'[i] = services[i]
  BY <1>1, <1>2 DEF Unmap
<1>7. Types' /\ Single' /\ Unique' /\ Coming' /\ Going' /\ Written' /\ Backed' /\ Flushed' /\ Gone'
  <2>1. \A v \in Caller : OpFits(op'[v])
    BY <1>1, <1>4, <1>5
  <2> QED BY <1>2, <1>3, <1>4, <1>5, <1>6, <2>1, MapShrinks
<1>8. Alone'
  BY <1>3, <1>4, <1>5, AloneStays DEF RegistryInv
<1>9. Room'
  <2> SUFFICES ASSUME NEW v \in Caller, NEW i \in Id, services'[i] # None,
                      services'[i].prefix = op'[v].prefix, op'[v].prefix \notin overlapped
               PROVE  /\ op'[v].step \notin {"unrow", "save", "insert"}
                      /\ op'[v].step = "unmap" => op'[v].found = i
    BY <1>3 DEF Room
  <2>1. services[i] # None /\ services[i] = services'[i] /\ i # op[w].found
    BY <1>6
  <2>2. Room
    BY DEF RegistryInv
  <2>3. CASE v = w
    <3>1. services[i].prefix = op[w].prefix /\ op[w].prefix \notin overlapped
      BY <1>4, <1>5, <2>1, <2>3
    <3> QED BY <1>2, <2>1, <2>2, <3>1 DEF Room
  <2>4. CASE v # w
    BY <1>5, <2>1, <2>2, <2>4 DEF Room
  <2> QED BY <2>3, <2>4
<1> QED BY <1>7, <1>8, <1>9 DEF RegistryInv

LEMMA UnregisterKeeps ==
  ASSUME RegistryConstants, RegistryInv, NEW w \in Caller, NEW i \in Id, Unregister(w, i)
  PROVE  RegistryInv'
<1> DEFINE o == [IdleOp EXCEPT !.step = "forget", !.found = i]
<1>1. /\ op \in [Caller -> Op] /\ \A v \in Caller : OpFits(op[v])
      /\ services \in [Id -> Entry \cup {None}]
  BY DEF RegistryInv, Types
<1>2. services[i] # None /\ UNCHANGED <<rows, gone, failed, overlapped>>
  BY DEF Unregister, Live
<1>3. OpFits(o) /\ o.step = "forget" /\ o.prefix = None /\ o.found = i
  BY DEF OpFits, Op, IdleOp
<1>4. op' \in [Caller -> Op] /\ op'[w] = o /\ \A v \in Caller \ {w} : op'[v] = op[v]
  BY <1>1, <1>3 DEF Unregister, OpFits
<1>5. /\ services' \in [Id -> Entry \cup {None}] /\ services'[i] = None
      /\ \A j \in Id \ {i} : services'[j] = services[j]
  BY <1>1 DEF Unregister
<1>6. Types' /\ Single' /\ Unique' /\ Coming' /\ Going' /\ Written' /\ Backed' /\ Flushed' /\ Gone'
  <2>1. \A v \in Caller : OpFits(op'[v])
    BY <1>1, <1>3, <1>4
  <2> QED BY <1>2, <1>3, <1>4, <1>5, <2>1, MapShrinks
<1>7. Alone'
  BY <1>2, <1>3, <1>4, AloneStays DEF RegistryInv
<1>8. Room'
  <2>1. \A v \in Caller : op'[v] = op[v] \/ op'[v].step \notin {"unmap", "unrow", "save", "insert"}
    BY <1>3, <1>4
  <2>2. \A j \in Id : services'[j] = None \/ services'[j] = services[j]
    BY <1>5
  <2>3. \A j \in Id : services'[j] # None =>
           services[j] # None /\ services'[j].prefix = services[j].prefix
    <3> TAKE j \in Id
    <3> QED BY <2>2
  <2> QED BY <1>2, <2>1, <2>3, RoomStays DEF RegistryInv
<1> QED BY <1>6, <1>7, <1>8 DEF RegistryInv

\* Callers stay or finish, and a service changes what no row holds: its status and
\* its further upstreams.
LEMMA TouchKeeps ==
  ASSUME RegistryConstants, RegistryInv, UNCHANGED <<rows, gone, failed, overlapped>>,
         op' \in [Caller -> Op], \A v \in Caller : op'[v] = op[v] \/ op'[v] = IdleOp,
         services' \in [Id -> Entry \cup {None}],
         \A i \in Id : services'[i] # services[i] =>
              /\ services[i] # None /\ services'[i].prefix = services[i].prefix
              /\ services'[i].name = services[i].name /\ services'[i].count = services[i].count
  PROVE  RegistryInv'
<1>1. OpFits(IdleOp) /\ IdleOp.step = "idle" /\ IdleOp.prefix = None
  BY DEF OpFits, Op, IdleOp
<1>2. \A v \in Caller : OpFits(op'[v])
  BY <1>1 DEF RegistryInv, Types
<1>3. \A i \in Id : services'[i] # None =>
           /\ services[i] # None /\ services'[i].prefix = services[i].prefix
           /\ services'[i].name = services[i].name /\ services'[i].count = services[i].count
  OBVIOUS
<1>4. \A v \in Caller : op'[v].step = "idle" \/ op'[v] = op[v]
  BY <1>1
<1>5. Types' /\ Single' /\ Unique' /\ Coming' /\ Going' /\ Written' /\ Backed' /\ Flushed' /\ Gone'
  BY <1>2, <1>3, <1>4, MapShrinks
<1>6. Alone'
  BY <1>1, AloneStays DEF RegistryInv
<1>7. Room'
  BY <1>3, <1>4, RoomStays DEF RegistryInv
<1> QED BY <1>5, <1>6, <1>7 DEF RegistryInv

LEMMA ExtendKeeps ==
  ASSUME RegistryConstants, RegistryInv, NEW w \in Caller, Extend(w)
  PROVE  RegistryInv'
<1>1. op \in [Caller -> Op] /\ services \in [Id -> Entry \cup {None}]
  BY DEF RegistryInv, Types
<1>2. IdleOp \in Op
  BY DEF Op, IdleOp
<1>3. op' \in [Caller -> Op] /\ \A v \in Caller : op'[v] = op[v] \/ op'[v] = IdleOp
  BY <1>1, <1>2 DEF Extend
<1>4. /\ services' \in [Id -> Entry \cup {None}]
      /\ \A i \in Id : services'[i] # services[i] =>
              /\ services[i] # None /\ services'[i].prefix = services[i].prefix
              /\ services'[i].name = services[i].name /\ services'[i].count = services[i].count
  <2>1. CASE op[w].id \in Live
    <3> DEFINE i == op[w].id
               e == [services[i] EXCEPT !.more = TRUE]
    <3>1. i \in Id /\ services[i] # None
      BY <2>1 DEF Live
    <3>2. e \in Entry /\ e.prefix = services[i].prefix /\ e.name = services[i].name /\ e.count = services[i].count
      BY <1>1, <3>1 DEF Entry
    <3>3. services' = [services EXCEPT ![i] = e]
      BY <2>1 DEF Extend
    <3> QED BY <1>1, <3>1, <3>2, <3>3
  <2>2. CASE op[w].id \notin Live
    BY <1>1, <2>2 DEF Extend
  <2> QED BY <2>1, <2>2
<1>5. UNCHANGED <<rows, gone, failed, overlapped>>
  BY DEF Extend
<1> QED BY <1>3, <1>4, <1>5, TouchKeeps

\* update_status.
LEMMA StatusKeeps ==
  ASSUME RegistryConstants, RegistryInv, NEW i, NEW r \in Status, services' = UpdateStatus(i, r),
         UNCHANGED <<rows, op, gone, failed, overlapped>>
  PROVE  RegistryInv'
<1>1. op \in [Caller -> Op] /\ services \in [Id -> Entry \cup {None}]
  BY DEF RegistryInv, Types
<1>2. /\ services' \in [Id -> Entry \cup {None}]
      /\ \A j \in Id : services'[j] # services[j] =>
              /\ services[j] # None /\ services'[j].prefix = services[j].prefix
              /\ services'[j].name = services[j].name /\ services'[j].count = services[j].count
  <2>1. CASE i \in Live
    <3> DEFINE e == [services[i] EXCEPT !.status = r]
    <3>1. i \in Id /\ services[i] # None
      BY <2>1 DEF Live
    <3>2. e \in Entry /\ e.prefix = services[i].prefix /\ e.name = services[i].name /\ e.count = services[i].count
      BY <1>1, <3>1 DEF Entry
    <3>3. services' = [services EXCEPT ![i] = e]
      BY <2>1 DEF UpdateStatus
    <3> QED BY <1>1, <3>1, <3>2, <3>3
  <2>2. CASE i \notin Live
    BY <1>1, <2>2 DEF UpdateStatus
  <2> QED BY <2>1, <2>2
<1> QED BY <1>1, <1>2, TouchKeeps

LEMMA UnrowKeeps ==
  ASSUME RegistryConstants, RegistryInv, NEW w \in Caller, Unrow(w)
  PROVE  RegistryInv'
<1> DEFINE i == op[w].found
           o == IF op[w].step = "forget" THEN IdleOp ELSE [op[w] EXCEPT !.step = "save", !.found = None]
<1>1. /\ op \in [Caller -> Op] /\ \A v \in Caller : OpFits(op[v])
      /\ services \in [Id -> Entry \cup {None}] /\ rows \in [Id -> Row \cup {None}]
      /\ failed \subseteq Id /\ gone \subseteq Id
  BY DEF RegistryInv, Types
<1>2. /\ op[w] \in Op /\ op[w].step \in {"unrow", "forget"} /\ i \in Id
      /\ op[w].step = "unrow" => op[w].prefix \in Prefix /\ op[w].name \in Name
  BY <1>1 DEF Unrow, OpFits
<1>3. UNCHANGED <<services, overlapped>> /\ services[i] = None
  BY <1>2 DEF Unrow, RegistryInv, Going
<1>4. /\ OpFits(o) /\ o.step \in {"idle", "save"} /\ o.prefix \in {op[w].prefix, None}
      /\ o.step = "save" => op[w].step = "unrow" /\ o.prefix = op[w].prefix
  <2>1. CASE op[w].step = "forget"
    BY <2>1 DEF OpFits, Op, IdleOp
  <2>2. CASE op[w].step = "unrow"
    BY <1>2, <2>2 DEF OpFits, Op
  <2> QED BY <1>2, <2>1, <2>2
<1>5. op' \in [Caller -> Op] /\ op'[w] = o /\ \A v \in Caller \ {w} : op'[v] = op[v]
  BY <1>1, <1>4 DEF Unrow, OpFits
<1> HIDE DEF o
<1>6. /\ rows' \in [Id -> Row \cup {None}] /\ rows'[i] \in {rows[i], None}
      /\ \A j \in Id \ {i} : rows'[j] = rows[j]
  BY <1>1, <1>2 DEF Unrow, RemoveService
<1>7. /\ failed' \subseteq Id /\ failed \subseteq failed' /\ gone' = gone \cup {i}
      /\ i \notin failed' => rows'[i] = None
  BY <1>1, <1>2 DEF Unrow
<1>8. Types'
  BY <1>1, <1>2, <1>3, <1>4, <1>5, <1>6, <1>7 DEF Types
<1>9. Alone'
  BY <1>3, <1>4, <1>5, AloneStays DEF RegistryInv
<1>10. Single'
  BY <1>3, SingleStays DEF RegistryInv
<1>11. Room'
  <2> SUFFICES ASSUME NEW v \in Caller, NEW j \in Id, services[j] # None,
                      services[j].prefix = op'[v].prefix, op'[v].prefix \notin overlapped
               PROVE  /\ op'[v].step \notin {"unrow", "save", "insert"}
                      /\ op'[v].step = "unmap" => op'[v].found = j
    BY <1>3 DEF Room
  <2>1. Room
    BY DEF RegistryInv
  <2>2. CASE v = w
    BY <1>4, <1>5, <2>1, <2>2 DEF Room
  <2>3. CASE v # w
    BY <1>5, <2>1, <2>3 DEF Room
  <2> QED BY <2>2, <2>3
<1>12. Unique'
  <2>1. \A j \in Id : rows'[j] # None => rows[j] # None /\ rows'[j].prefix = rows[j].prefix
    BY <1>6
  <2> QED BY <2>1, UniqueStays DEF RegistryInv
<1>13. Coming'
  <2>1. \A v \in Caller : OpFits(op[v]) /\ OpFits(op'[v])
    BY <1>1, <1>4, <1>5
  <2>2. \A v \in Caller : op'[v].step = "insert" => op[v].step = "insert" /\ op'[v].id = op[v].id
    BY <1>4, <1>5
  <2>3. \A v \in Caller : op'[v].step \in {"unmap", "unrow", "forget"} => op'[v] = op[v]
    BY <1>4, <1>5
  <2>4. \A j \in gone' : j \in gone \/ \E v \in Caller : op[v].step \in {"unrow", "forget"} /\ j = op[v].found
    BY <1>2, <1>7
  <2> QED BY <1>3, <2>1, <2>2, <2>3, <2>4, ComingStays DEF RegistryInv
<1>14. Going'
  <2>1. \A v \in Caller : op'[v].step \in {"unrow", "forget"} => op'[v] = op[v]
    BY <1>4, <1>5
  <2> QED BY <1>1, <1>3, <2>1, GoingStays DEF RegistryInv
<1>15. Written'
  <2>1. \A v \in Caller : op[v].step = "insert" => op[v].id # i /\ op[v].id \in Id
    BY <1>1, <1>2 DEF RegistryInv, Coming, OpFits
  <2>2. \A v \in Caller : op'[v].step = "insert" => op'[v] = op[v] /\ op[v].step = "insert"
    BY <1>4, <1>5
  <2> QED BY <1>3, <1>6, <1>7, <2>1, <2>2, WrittenStays DEF RegistryInv
<1>16. Backed'
  <2>1. \A j \in Id : services'[j] # None => rows'[j] = rows[j]
    BY <1>3, <1>6
  <2> QED BY <1>3, <1>7, <2>1, BackedStays DEF RegistryInv
<1>17. Flushed'
  BY <1>6, FlushedStays DEF RegistryInv
<1>18. Gone'
  <2> SUFFICES ASSUME NEW j \in Id, j \in gone', j \notin failed'
               PROVE  services[j] = None /\ rows'[j] = None
    BY <1>3 DEF Gone
  <2>1. CASE j = i
    BY <1>3, <1>7, <2>1
  <2>2. CASE j # i
    BY <1>6, <1>7, <2>2 DEF RegistryInv, Gone
  <2> QED BY <2>1, <2>2
<1> QED BY <1>8, <1>9, <1>10, <1>11, <1>12, <1>13, <1>14, <1>15, <1>16, <1>17, <1>18 DEF RegistryInv

LEMMA SaveKeeps ==
  ASSUME RegistryConstants, RegistryInv, NEW w \in Caller, Save(w)
  PROVE  RegistryInv'
<1> DEFINE p == op[w].prefix
           e == NewEntry(p, op[w].name)
<1>1. /\ op \in [Caller -> Op] /\ \A v \in Caller : OpFits(op[v])
      /\ services \in [Id -> Entry \cup {None}] /\ rows \in [Id -> Row \cup {None}]
      /\ failed \subseteq Id /\ gone \subseteq Id
  BY DEF RegistryInv, Types
<1>2. op[w] \in Op /\ op[w].step = "save" /\ p \in Prefix /\ op[w].name \in Name
  BY <1>1 DEF Save, OpFits
<1>3. UNCHANGED <<services, gone, overlapped>>
  BY DEF Save
<1>4. PICK i \in AnyOf(Fresh) :
        /\ rows' \in SaveService(e, i)
        /\ failed' = IF rows'[i] = None THEN failed \cup {i} ELSE failed
        /\ op' = [op EXCEPT ![w].step = "insert", ![w].id = i]
  BY DEF Save
<1>5. /\ i \in Id /\ services[i] = None /\ i \notin gone /\ rows[i] = None
      /\ \A v \in Caller : op[v].id # i /\ op[v].found # i
  BY DEF AnyOf, Fresh, Drawn, Live
<1> DEFINE o == [op[w] EXCEPT !.step = "insert", !.id = i]
<1>6. OpFits(o) /\ o.step = "insert" /\ o.prefix = p /\ o.name = op[w].name /\ o.id = i
  BY <1>2, <1>5 DEF OpFits, Op
<1>7. op' \in [Caller -> Op] /\ op'[w] = o /\ \A v \in Caller \ {w} : op'[v] = op[v]
  <2>1. op' = [op EXCEPT ![w] = o]
    BY <1>1, <1>2, <1>4 DEF Op
  <2> QED BY <1>1, <1>6, <2>1 DEF OpFits
<1> HIDE DEF o
<1>8. AsRow(e) \in Row /\ AsRow(e).prefix = p /\ AsRow(e).count = 0 /\ AsRow(e) # None /\ e.prefix = p
  BY <1>2 DEF RegistryConstants, AsRow, NewEntry, Row
<1>9. /\ rows'[i] \in {None, AsRow(e)}
      /\ rows'[i] # None => \A j \in Id : rows'[j] # None /\ j # i => rows'[j].prefix # p
      /\ \A j \in Id \ {i} : rows'[j] # rows[j] => rows'[j] = None /\ rows[j] # None /\ rows[j].prefix = p
      /\ rows' \in [Id -> Row \cup {None}]
  <2>1. CASE rows' = rows
    BY <1>1, <1>5, <2>1
  <2>2. CASE rows' = [j \in Id |-> IF j = i THEN AsRow(e)
                                   ELSE IF j \in Conflicting(e.prefix, i) THEN None ELSE rows[j]]
    BY <1>1, <1>5, <1>8, <2>2 DEF Conflicting
  <2> QED BY <1>4, <2>1, <2>2 DEF SaveService
<1>10. failed' \subseteq Id /\ failed \subseteq failed' /\ (i \notin failed' => rows'[i] # None)
  BY <1>1, <1>4, <1>5
<1>11. Types'
  BY <1>1, <1>3, <1>6, <1>7, <1>9, <1>10 DEF Types
<1>12. Alone'
  BY <1>3, <1>6, <1>7, AloneStays DEF RegistryInv
<1>13. Single'
  BY <1>3, SingleStays DEF RegistryInv
<1>14. Room'
  <2> SUFFICES ASSUME NEW v \in Caller, NEW j \in Id, services[j] # None,
                      services[j].prefix = op'[v].prefix, op'[v].prefix \notin overlapped
               PROVE  /\ op'[v].step \notin {"unrow", "save", "insert"}
                      /\ op'[v].step = "unmap" => op'[v].found = j
    BY <1>3 DEF Room
  <2>1. Room
    BY DEF RegistryInv
  <2>2. CASE v = w
    BY <1>2, <1>6, <1>7, <2>1, <2>2 DEF Room
  <2>3. CASE v # w
    BY <1>7, <2>1, <2>3 DEF Room
  <2> QED BY <2>2, <2>3
<1>15. Unique'
  <2> SUFFICES ASSUME NEW j \in Id, NEW k \in Id, rows'[j] # None, rows'[k] # None,
                      rows'[j].prefix = rows'[k].prefix
               PROVE  j = k
    BY DEF Unique
  <2>1. CASE j = i \/ k = i
    BY <1>8, <1>9, <2>1
  <2>2. CASE j # i /\ k # i
    BY <1>9, <2>2 DEF RegistryInv, Unique
  <2> QED BY <2>1, <2>2
<1>16. Coming'
  <2> SUFFICES ASSUME NEW v \in Caller, op'[v].step = "insert"
               PROVE  /\ services[op'[v].id] = None /\ op'[v].id \notin gone
                      /\ \A u \in Caller :
                           /\ op'[u].step \in {"unmap", "unrow", "forget"} => op'[u].found # op'[v].id
                           /\ op'[u].step = "insert" /\ op'[u].id = op'[v].id => u = v
    BY <1>3 DEF Coming
  <2>1. Coming
    BY DEF RegistryInv
  <2>2. CASE v = w
    BY <1>5, <1>6, <1>7, <2>2
  <2>3. CASE v # w
    <3>1. op'[v] = op[v] /\ op[v].id # i
      BY <1>5, <1>7, <2>3
    <3>2. \A u \in Caller : u = w \/ op'[u] = op[u]
      BY <1>7
    <3> QED BY <1>6, <1>7, <2>1, <3>1, <3>2 DEF Coming
  <2> QED BY <2>2, <2>3
<1>17. Going'
  <2>1. \A v \in Caller : op'[v].step \in {"unrow", "forget"} => op'[v] = op[v]
    BY <1>6, <1>7
  <2> QED BY <1>1, <1>3, <2>1, GoingStays DEF RegistryInv
<1>18. Written'
  <2> SUFFICES ASSUME NEW v \in Caller, op'[v].step = "insert", op'[v].id \notin failed', op'[v].prefix \notin overlapped
               PROVE  rows'[op'[v].id] = AsRow(NewEntry(op'[v].prefix, op'[v].name))
    BY <1>3 DEF Written, AsRow, NewEntry
  <2>1. CASE v = w
    BY <1>6, <1>7, <1>9, <1>10, <2>1
  <2>2. CASE v # w
    <3>1. op'[v] = op[v] /\ op[v].id # i /\ op[v].id \in Id /\ op[v].prefix \in Prefix /\ op[v].name \in Name
      BY <1>1, <1>5, <1>7, <2>2 DEF OpFits
    <3>2. rows[op[v].id] = AsRow(NewEntry(op[v].prefix, op[v].name))
      BY <1>10, <3>1 DEF RegistryInv, Written
    <3>3. op[v].prefix # p
      BY <1>2, <2>2, <3>1 DEF RegistryInv, Alone
    <3>4. rows[op[v].id].prefix = op[v].prefix
      BY <3>2 DEF AsRow, NewEntry
    <3> QED BY <1>9, <3>1, <3>2, <3>3, <3>4
  <2> QED BY <2>1, <2>2
<1>19. Backed'
  <2>1. \A j \in Id : services[j] # None =>
          j \in failed' \/ services[j].prefix \in overlapped' \/ rows'[j] = rows[j]
    <3> SUFFICES ASSUME NEW j \in Id, services[j] # None, j \notin failed', services[j].prefix \notin overlapped
                 PROVE  rows'[j] = rows[j]
      BY <1>3
    <3>1. rows[j].prefix = services[j].prefix
      BY <1>10 DEF RegistryInv, Backed
    <3>2. services[j].prefix # p
      BY <1>2 DEF RegistryInv, Room
    <3> QED BY <1>5, <1>9, <3>1, <3>2
  <2> QED BY <1>3, <1>10, <2>1, BackedStays DEF RegistryInv
<1>20. Flushed'
  <2> SUFFICES ASSUME NEW j \in Id, rows'[j] # None
               PROVE  rows'[j].count % Flush = 0
    BY DEF Flushed
  <2>1. CASE j = i
    <3>1. 0 % Flush = 0
      BY DEF RegistryConstants
    <3>2. rows'[j].count = 0
      BY <1>8, <1>9, <2>1
    <3> QED BY <3>1, <3>2
  <2>2. CASE j # i
    BY <1>9, <2>2 DEF RegistryInv, Flushed
  <2> QED BY <2>1, <2>2
<1>21. Gone'
  <2>1. \A j \in gone : rows[j] = None => rows'[j] = None
    BY <1>1, <1>5, <1>9
  <2> QED BY <1>3, <1>10, <2>1, GoneStays DEF RegistryInv
<1> QED BY <1>11, <1>12, <1>13, <1>14, <1>15, <1>16, <1>17, <1>18, <1>19, <1>20, <1>21 DEF RegistryInv

LEMMA InsertKeeps ==
  ASSUME RegistryConstants, RegistryInv, NEW w \in Caller, Insert(w)
  PROVE  RegistryInv'
<1> DEFINE p == op[w].prefix
           i == op[w].id
           e == NewEntry(p, op[w].name)
<1>1. /\ op \in [Caller -> Op] /\ \A v \in Caller : OpFits(op[v])
      /\ services \in [Id -> Entry \cup {None}] /\ rows \in [Id -> Row \cup {None}]
  BY DEF RegistryInv, Types
<1>2. op[w] \in Op /\ op[w].step = "insert" /\ p \in Prefix /\ op[w].name \in Name /\ i \in Id
  BY <1>1 DEF Insert, OpFits
<1>3. UNCHANGED <<rows, gone, failed, overlapped>>
  BY DEF Insert
<1>4. /\ services[i] = None /\ i \notin gone
      /\ \A v \in Caller : /\ op[v].step \in {"unmap", "unrow", "forget"} => op[v].found # i
                           /\ op[v].step = "insert" /\ op[v].id = i => v = w
  BY <1>2 DEF RegistryInv, Coming
<1>5. PICK o : op' = [op EXCEPT ![w] = o] /\ (o = IdleOp \/ o = [op[w] EXCEPT !.step = "extend"])
  BY DEF Insert
<1>6. OpFits(o) /\ o.step \in {"idle", "extend"} /\ o.prefix \in {p, None} /\ (o.step = "idle" => o.prefix = None)
  <2>1. CASE o = IdleOp
    BY <2>1 DEF OpFits, Op, IdleOp
  <2>2. CASE o = [op[w] EXCEPT !.step = "extend"]
    BY <1>2, <2>2 DEF OpFits, Op
  <2> QED BY <1>5, <2>1, <2>2
<1>7. op' \in [Caller -> Op] /\ op'[w] = o /\ \A v \in Caller \ {w} : op'[v] = op[v]
  BY <1>1, <1>5, <1>6 DEF OpFits
<1>8. e \in Entry /\ e.prefix = p /\ e.name = op[w].name /\ e.count = 0 /\ e # None
  <2>1. e \in Entry /\ e.prefix = p /\ e.name = op[w].name /\ e.count = 0
    BY <1>2 DEF RegistryConstants, NewEntry, Entry, Status
  <2> QED BY <2>1 DEF RegistryConstants
<1> HIDE DEF e
<1>9. /\ services' \in [Id -> Entry \cup {None}] /\ services'[i] = e
      /\ \A j \in Id \ {i} : services'[j] = services[j]
  BY <1>1, <1>2, <1>8 DEF Insert, e
<1>10. \A v \in Caller : OpFits(op'[v])
  BY <1>1, <1>6, <1>7
<1>11. Types'
  BY <1>1, <1>3, <1>7, <1>9, <1>10 DEF RegistryInv, Types
<1>12. Alone'
  BY <1>3, <1>6, <1>7, AloneStays DEF RegistryInv
<1>13. p \notin overlapped => \A j \in Id : services[j] # None => services[j].prefix # p
  BY <1>2 DEF RegistryInv, Room
<1>14. Single'
  <2> SUFFICES ASSUME NEW j \in Id, NEW k \in Id, services'[j] # None, services'[k] # None,
                      services'[j].prefix = services'[k].prefix, services'[j].prefix \notin overlapped
               PROVE  j = k
    BY <1>3 DEF Single
  <2>1. CASE j = i \/ k = i
    BY <1>8, <1>9, <1>13, <2>1
  <2>2. CASE j # i /\ k # i
    BY <1>9, <2>2 DEF RegistryInv, Single
  <2> QED BY <2>1, <2>2
<1>15. Room'
  <2> SUFFICES ASSUME NEW v \in Caller, NEW j \in Id, services'[j] # None,
                      services'[j].prefix = op'[v].prefix, op'[v].prefix \notin overlapped
               PROVE  /\ op'[v].step \notin {"unrow", "save", "insert"}
                      /\ op'[v].step = "unmap" => op'[v].found = j
    BY <1>3 DEF Room
  <2>1. Room
    BY DEF RegistryInv
  <2>2. CASE v = w
    BY <1>6, <1>7, <2>2
  <2>3. CASE v # w /\ j # i
    BY <1>7, <1>9, <2>1, <2>3 DEF Room
  <2>4. CASE v # w /\ j = i
    <3>1. op[v].prefix = p /\ p \notin overlapped
      BY <1>7, <1>8, <1>9, <2>4
    <3> QED BY <1>2, <2>4, <3>1 DEF RegistryInv, Alone
  <2> QED BY <2>2, <2>3, <2>4
<1>16. Unique'
  BY <1>3, UniqueStays DEF RegistryInv
<1>17. Coming'
  <2> SUFFICES ASSUME NEW v \in Caller, op'[v].step = "insert"
               PROVE  /\ services'[op'[v].id] = None /\ op'[v].id \notin gone
                      /\ \A u \in Caller :
                           /\ op'[u].step \in {"unmap", "unrow", "forget"} => op'[u].found # op'[v].id
                           /\ op'[u].step = "insert" /\ op'[u].id = op'[v].id => u = v
    BY <1>3 DEF Coming
  <2>1. Coming
    BY DEF RegistryInv
  <2>2. v # w /\ op'[v] = op[v] /\ op[v].id \in Id /\ op[v].id # i
    BY <1>1, <1>4, <1>6, <1>7 DEF OpFits
  <2>3. \A u \in Caller : op'[u].step \in {"idle", "extend"} \/ op'[u] = op[u]
    BY <1>6, <1>7
  <2> QED BY <1>9, <2>1, <2>2, <2>3 DEF Coming
<1>18. Going'
  <2> SUFFICES ASSUME NEW v \in Caller, op'[v].step \in {"unrow", "forget"}
               PROVE  services'[op'[v].found] = None
    BY DEF Going
  <2>1. op'[v] = op[v]
    BY <1>6, <1>7
  <2>2. services[op[v].found] = None /\ op[v].found \in Id /\ op[v].found # i
    BY <1>1, <1>4, <2>1 DEF RegistryInv, Going, OpFits
  <2> QED BY <1>9, <2>1, <2>2
<1>19. Written'
  <2>1. \A v \in Caller : op'[v].step = "insert" => op'[v] = op[v]
    BY <1>6, <1>7
  <2> QED BY <1>3, <2>1, WrittenStays DEF RegistryInv
<1>20. Backed'
  <2> SUFFICES ASSUME NEW j \in Id, services'[j] # None, j \notin failed, services'[j].prefix \notin overlapped
               PROVE  /\ rows[j] # None /\ rows[j].name = services'[j].name /\ rows[j].prefix = services'[j].prefix
                      /\ services'[j].count - rows[j].count \in 0..Flush-1
    BY <1>3 DEF Backed
  <2>1. CASE j = i
    <3>1. rows[i] = AsRow(e)
      BY <1>2, <1>8, <1>9, <2>1 DEF RegistryInv, Written, e
    <3>2. /\ AsRow(e).name = e.name /\ AsRow(e).prefix = e.prefix /\ AsRow(e).count = e.count
          /\ AsRow(e) # None
      BY <1>2, <1>8 DEF AsRow, RegistryConstants, Row
    <3>3. 0 - 0 \in 0..Flush-1
      BY DEF RegistryConstants
    <3> QED BY <1>8, <1>9, <2>1, <3>1, <3>2, <3>3
  <2>2. CASE j # i
    BY <1>9, <2>2 DEF RegistryInv, Backed
  <2> QED BY <2>1, <2>2
<1>21. Flushed'
  BY <1>3, FlushedStays DEF RegistryInv
<1>22. Gone'
  <2>1. \A j \in gone : services[j] = None => services'[j] = None
    BY <1>4, <1>9 DEF RegistryInv, Types
  <2> QED BY <1>3, <2>1, GoneStays DEF RegistryInv
<1> QED BY <1>11, <1>12, <1>14, <1>15, <1>16, <1>17, <1>18, <1>19, <1>20, <1>21, <1>22 DEF RegistryInv

\* What follows a multiple of Flush by Flush is one again.
LEMMA NextMultiple ==
  ASSUME NEW a \in Nat, NEW f \in Nat \ {0}, a % f = 0
  PROVE  (a + f) % f = 0
<1>1. PICK q \in Int : a = q * f
  OBVIOUS
<1>2. q \in Nat
  BY <1>1
<1>3. a + f = f * (q + 1)
  BY <1>1
<1>4. (f * (q + 1)) % f = 0
  BY <1>2
<1> QED BY <1>3, <1>4

LEMMA CountKeeps ==
  ASSUME RegistryConstants, RegistryInv, NEW i \in Id, Count(i)
  PROVE  RegistryInv'
<1> DEFINE n == services[i].count + 1
           e == [services[i] EXCEPT !.count = n]
<1>1. /\ op \in [Caller -> Op] /\ \A v \in Caller : OpFits(op[v])
      /\ services \in [Id -> Entry \cup {None}] /\ rows \in [Id -> Row \cup {None}]
      /\ failed \subseteq Id /\ gone \subseteq Id
  BY DEF RegistryInv, Types
<1>2. services[i] # None /\ services[i] \in Entry /\ services[i].count \in 0..MaxRequests /\ services[i].count < MaxRequests
  BY <1>1 DEF Count, Live, Entry
<1>3. n \in 0..MaxRequests
  BY <1>2 DEF RegistryConstants
<1>4. e \in Entry /\ e.prefix = services[i].prefix /\ e.name = services[i].name /\ e.count = n /\ e # None
  BY <1>2, <1>3 DEF Entry, RegistryConstants
<1>5. services' = [services EXCEPT ![i] = e] /\ UNCHANGED <<op, gone, overlapped>>
  BY DEF Count
<1>6. \/ n % Flush = 0 /\ rows' \in UpdateCount(i, n)
         /\ failed' = IF rows' = rows /\ rows[i] # None THEN failed \cup {i} ELSE failed
      \/ n % Flush # 0 /\ rows' = rows /\ failed' = failed
  BY DEF Count
<1> HIDE DEF n, e
<1>7. /\ services' \in [Id -> Entry \cup {None}] /\ services'[i] = e
      /\ \A j \in Id \ {i} : services'[j] = services[j]
  BY <1>1, <1>4, <1>5
<1>8. failed \subseteq failed' /\ failed' \subseteq Id
  BY <1>1, <1>6
<1>9. /\ rows' \in [Id -> Row \cup {None}] /\ \A j \in Id \ {i} : rows'[j] = rows[j]
      /\ \/ rows' = rows
         \/ /\ rows[i] # None /\ rows'[i] # None /\ n % Flush = 0 /\ rows'[i].count = n
            /\ rows'[i].name = rows[i].name /\ rows'[i].prefix = rows[i].prefix
  <2>1. CASE rows' = rows
    BY <1>1, <2>1
  <2>2. CASE rows' # rows
    <3> DEFINE r == [rows[i] EXCEPT !.count = n]
    <3>1. rows[i] # None /\ rows' = [rows EXCEPT ![i] = r] /\ n % Flush = 0
      BY <1>6, <2>2 DEF UpdateCount
    <3>2. r \in Row /\ r.count = n /\ r.name = rows[i].name /\ r.prefix = rows[i].prefix /\ r # None
      BY <1>1, <1>3, <3>1 DEF Row, RegistryConstants
    <3> HIDE DEF r
    <3> QED BY <1>1, <3>1, <3>2
  <2> QED BY <2>1, <2>2
<1>10. Types'
  BY <1>1, <1>5, <1>7, <1>8, <1>9 DEF Types
<1>11. Alone'
  BY <1>5, AloneStays DEF RegistryInv
<1>12. \A j \in Id : services'[j] # None => services[j] # None /\ services'[j].prefix = services[j].prefix
  BY <1>2, <1>4, <1>7
<1>13. Single'
  BY <1>5, <1>12, SingleStays DEF RegistryInv
<1>14. Room'
  BY <1>5, <1>12, RoomStays DEF RegistryInv
<1>15. Unique'
  <2>1. \A j \in Id : rows'[j] # None => rows[j] # None /\ rows'[j].prefix = rows[j].prefix
    BY <1>9
  <2> QED BY <2>1, UniqueStays DEF RegistryInv
<1>16. \A j \in Id : services[j] = None => services'[j] = None
  BY <1>2, <1>7
<1>17. Coming'
  BY <1>1, <1>5, <1>16, ComingStays DEF RegistryInv
<1>18. Going'
  BY <1>1, <1>5, <1>16, GoingStays DEF RegistryInv
<1>19. Written'
  <2>1. \A v \in Caller : op[v].step = "insert" => op[v].id \in Id /\ op[v].id # i
    BY <1>1, <1>2 DEF RegistryInv, Coming, OpFits
  <2> QED BY <1>5, <1>8, <1>9, <2>1, WrittenStays DEF RegistryInv
<1>20. Backed'
  <2> SUFFICES ASSUME NEW j \in Id, services'[j] # None, j \notin failed', services'[j].prefix \notin overlapped
               PROVE  /\ rows'[j] # None /\ rows'[j].name = services'[j].name /\ rows'[j].prefix = services'[j].prefix
                      /\ services'[j].count - rows'[j].count \in 0..Flush-1
    BY <1>5 DEF Backed
  <2>1. /\ rows[j] # None /\ rows[j].name = services[j].name /\ rows[j].prefix = services[j].prefix
        /\ services[j].count - rows[j].count \in 0..Flush-1
    BY <1>8, <1>12 DEF RegistryInv, Backed
  <2>2. CASE j # i
    BY <1>7, <1>9, <2>1, <2>2
  <2>3. CASE j = i /\ rows' # rows
    <3>1. n - n \in 0..Flush-1
      BY <1>3 DEF RegistryConstants
    <3> QED BY <1>4, <1>7, <1>9, <2>1, <2>3, <3>1
  <2>4. CASE j = i /\ rows' = rows
    <3>1. n % Flush # 0
      BY <1>6, <2>1, <2>4
    <3>2. rows[i].count \in Nat /\ rows[i].count % Flush = 0
      BY <1>1, <2>1, <2>4 DEF Row, RegistryInv, Flushed, RegistryConstants
    <3>3. (rows[i].count + Flush) % Flush = 0
      BY <3>2, NextMultiple DEF RegistryConstants
    <3>4. n # rows[i].count + Flush
      BY <3>1, <3>3
    <3>5. n - rows[i].count \in 0..Flush-1
      <4>1. services[i].count \in Nat /\ services[i].count - rows[i].count \in 0..Flush-1
        BY <1>2, <2>1, <2>4
      <4>2. Flush \in Nat \ {0}
        BY DEF RegistryConstants
      <4> QED BY <3>2, <3>4, <4>1, <4>2 DEF n
    <3> QED BY <1>4, <1>7, <2>1, <2>4, <3>5
  <2> QED BY <2>2, <2>3, <2>4
<1>21. Flushed'
  BY <1>9 DEF RegistryInv, Flushed
<1>22. Gone'
  <2>1. \A j \in Id : rows[j] = None => rows'[j] = None
    BY <1>9
  <2> QED BY <1>1, <1>5, <1>8, <1>16, <2>1, GoneStays DEF RegistryInv
<1> QED BY <1>10, <1>11, <1>13, <1>14, <1>15, <1>17, <1>18, <1>19, <1>20, <1>21, <1>22 DEF RegistryInv

\* A start reads every row, and gives each configured service whose prefix is free
\* an id of its own.
LEMMA BootAgrees ==
  ASSUME RegistryConstants,
         NEW table \in [Id -> Row \cup {None}],
         \A i, j \in Id : table[i] # None /\ table[j] # None /\ table[i].prefix = table[j].prefix => i = j,
         NEW free \in SUBSET Id, \A i \in free : table[i] = None,
         NEW draw \in Draws(table, free)
  PROVE  /\ BootServices(table, draw) \in [Id -> Entry \cup {None}]
         /\ BootRows(table, draw) \in [Id -> Row \cup {None}]
         /\ \A i \in Id : BootServices(table, draw)[i] # None =>
              /\ BootRows(table, draw)[i] # None
              /\ BootRows(table, draw)[i].name = BootServices(table, draw)[i].name
              /\ BootRows(table, draw)[i].prefix = BootServices(table, draw)[i].prefix
              /\ BootRows(table, draw)[i].count = BootServices(table, draw)[i].count
              /\ BootServices(table, draw)[i].status = "Unknown"
         /\ \A i \in Id : BootRows(table, draw)[i] = None => BootServices(table, draw)[i] = None
         /\ \A i, j \in Id : BootRows(table, draw)[i] # None /\ BootRows(table, draw)[j] # None
              /\ BootRows(table, draw)[i].prefix = BootRows(table, draw)[j].prefix => i = j
         /\ \A i \in Id : i \notin free => BootRows(table, draw)[i] = table[i]
         /\ \A i \in Id : BootRows(table, draw)[i] # None /\ BootRows(table, draw)[i] # table[i] =>
                            BootRows(table, draw)[i].count = 0
<1> DEFINE missing == Missing(table)
           S == BootServices(table, draw)
           R == BootRows(table, draw)
           drawn == {draw[p] : p \in missing}
           fc == FromConfig(draw)
<1>1. /\ draw \in [missing -> free] /\ \A p, q \in missing : draw[p] = draw[q] => p = q
  BY DEF Draws
<1>2. /\ missing \subseteq Prefix /\ \A p \in missing : ConfigServices[p] \in Name
      /\ \A p \in missing : \A i \in Id : table[i] # None => table[i].prefix # p
  BY DEF Missing, RegistryConstants
<1>3. DOMAIN fc = drawn /\ drawn \subseteq free
  BY <1>1 DEF FromConfig
<1>4. \A i \in drawn : \E p \in missing : draw[p] = i /\ fc[i] = NewEntry(p, ConfigServices[p])
  <2> TAKE i \in drawn
  <2> DEFINE q == CHOOSE p \in missing : draw[p] = i
  <2>1. q \in missing /\ draw[q] = i
    OBVIOUS
  <2>2. fc[i] = NewEntry(q, ConfigServices[q])
    BY <1>1 DEF FromConfig
  <2> QED BY <2>1, <2>2
<1> HIDE DEF missing, fc
<1>5. /\ S = [i \in Id |-> IF i \in drawn THEN fc[i] ELSE IF table[i] # None THEN Loaded(table[i]) ELSE None]
      /\ R = [i \in Id |-> IF i \in drawn THEN AsRow(fc[i]) ELSE table[i]]
  BY <1>3 DEF BootServices, BootRows, fc
<1> HIDE DEF drawn, S, R
<1>6. ASSUME NEW i \in drawn
      PROVE  /\ fc[i] \in Entry /\ fc[i] # None /\ AsRow(fc[i]) \in Row /\ AsRow(fc[i]) # None
             /\ AsRow(fc[i]).name = fc[i].name /\ AsRow(fc[i]).prefix = fc[i].prefix
             /\ AsRow(fc[i]).count = 0 /\ fc[i].count = 0 /\ fc[i].status = "Unknown"
             /\ fc[i].prefix \in missing /\ draw[fc[i].prefix] = i
  <2>1. PICK p \in missing : draw[p] = i /\ fc[i] = NewEntry(p, ConfigServices[p])
    BY <1>4
  <2>2. fc[i] \in Entry /\ fc[i].prefix = p /\ fc[i].count = 0 /\ fc[i].status = "Unknown"
    BY <1>2, <2>1 DEF NewEntry, Entry, Status, RegistryConstants
  <2>3. /\ AsRow(fc[i]) \in Row /\ AsRow(fc[i]).name = fc[i].name /\ AsRow(fc[i]).prefix = fc[i].prefix
        /\ AsRow(fc[i]).count = fc[i].count
    BY <2>2 DEF AsRow, Entry, Row
  <2> QED BY <2>1, <2>2, <2>3 DEF RegistryConstants
<1>7. ASSUME NEW i \in Id, table[i] # None
      PROVE  /\ Loaded(table[i]) \in Entry /\ Loaded(table[i]) # None
             /\ Loaded(table[i]).name = table[i].name /\ Loaded(table[i]).prefix = table[i].prefix
             /\ Loaded(table[i]).count = table[i].count /\ Loaded(table[i]).status = "Unknown"
  <2>1. /\ Loaded(table[i]) \in Entry
        /\ Loaded(table[i]).name = table[i].name /\ Loaded(table[i]).prefix = table[i].prefix
        /\ Loaded(table[i]).count = table[i].count /\ Loaded(table[i]).status = "Unknown"
    BY <1>7 DEF Loaded, Entry, Row, Status
  <2> QED BY <2>1 DEF RegistryConstants
<1>8. S \in [Id -> Entry \cup {None}] /\ R \in [Id -> Row \cup {None}]
  BY <1>5, <1>6, <1>7
<1>9. \A i \in Id : S[i] # None => /\ R[i] # None /\ R[i].name = S[i].name /\ R[i].prefix = S[i].prefix
                                   /\ R[i].count = S[i].count /\ S[i].status = "Unknown"
  <2> TAKE i \in Id
  <2>1. CASE i \in drawn
    BY <1>5, <1>6, <2>1
  <2>2. CASE i \notin drawn
    BY <1>5, <1>7, <2>2
  <2> QED BY <2>1, <2>2
<1>10. \A i \in Id : R[i] = None => S[i] = None
  BY <1>5, <1>6
<1>11. \A i, j \in Id : R[i] # None /\ R[j] # None /\ R[i].prefix = R[j].prefix => i = j
  <2> SUFFICES ASSUME NEW i \in Id, NEW j \in Id, R[i] # None, R[j] # None, R[i].prefix = R[j].prefix
               PROVE  i = j
    OBVIOUS
  <2>1. CASE i \in drawn /\ j \in drawn
    BY <1>5, <1>6, <2>1
  <2>2. CASE i \in drawn /\ j \notin drawn
    BY <1>2, <1>5, <1>6, <2>2
  <2>3. CASE i \notin drawn /\ j \in drawn
    BY <1>2, <1>5, <1>6, <2>3
  <2>4. CASE i \notin drawn /\ j \notin drawn
    BY <1>5, <2>4
  <2> QED BY <2>1, <2>2, <2>3, <2>4
<1>12. \A i \in Id : i \notin free => R[i] = table[i]
  BY <1>3, <1>5
<1>13. \A i \in Id : R[i] # None /\ R[i] # table[i] => R[i].count = 0
  BY <1>5, <1>6
<1> QED BY <1>8, <1>9, <1>10, <1>11, <1>12, <1>13 DEF S, R

\* A start leaves no caller at work and every service with its row.
LEMMA StartIsClean ==
  ASSUME RegistryConstants,
         op' = [w \in Caller |-> IdleOp], gone' \subseteq Id, failed' \subseteq Id,
         services' \in [Id -> Entry \cup {None}], rows' \in [Id -> Row \cup {None}],
         \A i \in Id : services'[i] # None =>
           /\ rows'[i] # None /\ rows'[i].name = services'[i].name /\ rows'[i].prefix = services'[i].prefix
           /\ rows'[i].count = services'[i].count,
         \A i \in Id : rows'[i] = None => services'[i] = None,
         Unique', Flushed',
         \A i \in gone' : i \notin failed' => rows'[i] = None
  PROVE  RegistryInv'
<1>1. OpFits(IdleOp) /\ IdleOp \in Op /\ IdleOp.step = "idle" /\ IdleOp.prefix = None
  BY DEF OpFits, Op, IdleOp
<1>2. op' \in [Caller -> Op] /\ \A w \in Caller : op'[w] = IdleOp
  BY <1>1
<1>3. Types'
  BY <1>1, <1>2 DEF Types
<1>4. Alone'
  BY <1>1, <1>2 DEF Alone, RegistryConstants
<1>5. Single'
  BY DEF Single, Unique
<1>6. Room'
  BY <1>1, <1>2 DEF Room
<1>7. Coming' /\ Going' /\ Written'
  BY <1>1, <1>2 DEF Coming, Going, Written
<1>8. Backed'
  <2> SUFFICES ASSUME NEW i \in Id, services'[i] # None
               PROVE  /\ rows'[i] # None /\ rows'[i].name = services'[i].name /\ rows'[i].prefix = services'[i].prefix
                      /\ services'[i].count - rows'[i].count \in 0..Flush-1
    BY DEF Backed
  <2>1. rows'[i].count = services'[i].count /\ services'[i].count \in Int
    BY DEF Entry, RegistryConstants
  <2>2. services'[i].count - rows'[i].count = 0
    BY <2>1
  <2>3. 0 \in 0..Flush-1
    BY DEF RegistryConstants
  <2> QED BY <2>2, <2>3
<1>9. Gone'
  BY DEF Gone
<1> QED BY <1>3, <1>4, <1>5, <1>6, <1>7, <1>8, <1>9 DEF RegistryInv

LEMMA RestartKeeps ==
  ASSUME RegistryConstants, RegistryInv, Restart
  PROVE  RegistryInv'
<1>1. /\ rows \in [Id -> Row \cup {None}] /\ failed \subseteq Id /\ gone \subseteq Id
      /\ \A i, j \in Id : rows[i] # None /\ rows[j] # None /\ rows[i].prefix = rows[j].prefix => i = j
  BY DEF RegistryInv, Types, Unique
<1>2. /\ Fresh \in SUBSET Id /\ \A i \in Fresh : rows[i] = None /\ i \notin gone
  BY DEF Fresh, Drawn
<1>3. PICK draw \in Draws(rows, Fresh) : services' = BootServices(rows, draw) /\ rows' = BootRows(rows, draw)
  BY DEF Restart, AnyOf
<1>4. /\ services' \in [Id -> Entry \cup {None}] /\ rows' \in [Id -> Row \cup {None}]
      /\ \A i \in Id : services'[i] # None =>
           /\ rows'[i] # None /\ rows'[i].name = services'[i].name /\ rows'[i].prefix = services'[i].prefix
           /\ rows'[i].count = services'[i].count
      /\ \A i \in Id : rows'[i] = None => services'[i] = None
      /\ \A i, j \in Id : rows'[i] # None /\ rows'[j] # None /\ rows'[i].prefix = rows'[j].prefix => i = j
      /\ \A i \in Id : i \notin Fresh => rows'[i] = rows[i]
      /\ \A i \in Id : rows'[i] # None /\ rows'[i] # rows[i] => rows'[i].count = 0
  BY <1>1, <1>2, <1>3, BootAgrees
<1>5. Unique'
  BY <1>4 DEF Unique
<1>6. Flushed'
  <2> SUFFICES ASSUME NEW i \in Id, rows'[i] # None
               PROVE  rows'[i].count % Flush = 0
    BY DEF Flushed
  <2>1. 0 % Flush = 0
    BY DEF RegistryConstants
  <2>2. rows'[i] = rows[i] \/ rows'[i].count = 0
    BY <1>4
  <2>3. rows'[i] = rows[i] => rows[i].count % Flush = 0
    BY DEF RegistryInv, Flushed
  <2> QED BY <2>1, <2>2, <2>3
<1>7. /\ op' = [w \in Caller |-> IdleOp] /\ gone' = gone /\ failed' = {i \in failed : rows[i] # None}
  BY DEF Restart
<1>8. \A i \in gone' : i \notin failed' => rows'[i] = None
  <2> SUFFICES ASSUME NEW i \in gone, i \notin failed'
               PROVE  rows'[i] = None
    BY <1>7
  <2>1. rows[i] = None
    BY <1>1, <1>7 DEF RegistryInv, Gone
  <2> QED BY <1>1, <1>2, <1>4, <2>1
<1>9. failed' \subseteq Id /\ gone' \subseteq Id
  BY <1>1, <1>7
<1> QED BY <1>4, <1>5, <1>6, <1>7, <1>8, <1>9, StartIsClean

LEMMA RegistryInitInv ==
  ASSUME RegistryConstants, RegistryInit
  PROVE  RegistryInv
<1> DEFINE none == [i \in Id |-> None]
<1>1. PICK draw \in Draws(none, Id) : services = BootServices(none, draw) /\ rows = BootRows(none, draw)
  BY DEF RegistryInit, AnyOf
<1>2. /\ none \in [Id -> Row \cup {None}] /\ \A i \in Id : none[i] = None
  OBVIOUS
<1> HIDE DEF none
<1>3. /\ services \in [Id -> Entry \cup {None}] /\ rows \in [Id -> Row \cup {None}]
      /\ \A i \in Id : services[i] # None =>
           /\ rows[i] # None /\ rows[i].name = services[i].name /\ rows[i].prefix = services[i].prefix
           /\ rows[i].count = services[i].count
      /\ \A i, j \in Id : rows[i] # None /\ rows[j] # None /\ rows[i].prefix = rows[j].prefix => i = j
      /\ \A i \in Id : rows[i] # None /\ rows[i] # none[i] => rows[i].count = 0
  BY <1>1, <1>2, BootAgrees
<1>4. /\ op = [w \in Caller |-> IdleOp] /\ gone = {} /\ failed = {} /\ overlapped = {}
  BY DEF RegistryInit
<1>5. OpFits(IdleOp) /\ IdleOp \in Op /\ IdleOp.step = "idle" /\ IdleOp.prefix = None
  BY DEF OpFits, Op, IdleOp
<1>6. op \in [Caller -> Op] /\ \A w \in Caller : op[w] = IdleOp
  BY <1>4, <1>5
<1>7. Types
  BY <1>3, <1>4, <1>5, <1>6 DEF Types
<1>8. Alone
  BY <1>5, <1>6 DEF Alone, RegistryConstants
<1>9. Single
  BY <1>3 DEF Single
<1>10. Room
  BY <1>5, <1>6 DEF Room
<1>11. Unique
  BY <1>3 DEF Unique
<1>12. Coming /\ Going /\ Written
  BY <1>5, <1>6 DEF Coming, Going, Written
<1>13. Backed
  <2> SUFFICES ASSUME NEW i \in Id, services[i] # None
               PROVE  /\ rows[i] # None /\ rows[i].name = services[i].name /\ rows[i].prefix = services[i].prefix
                      /\ services[i].count - rows[i].count \in 0..Flush-1
    BY DEF Backed
  <2>1. rows[i].count = services[i].count /\ services[i].count \in Int
    BY <1>3 DEF Entry, RegistryConstants
  <2>2. services[i].count - rows[i].count = 0
    BY <2>1
  <2>3. 0 \in 0..Flush-1
    BY DEF RegistryConstants
  <2> QED BY <1>3, <2>2, <2>3
<1>14. Flushed
  <2> SUFFICES ASSUME NEW i \in Id, rows[i] # None
               PROVE  rows[i].count % Flush = 0
    BY DEF Flushed
  <2>1. rows[i].count = 0
    BY <1>2, <1>3
  <2>2. 0 % Flush = 0
    BY DEF RegistryConstants
  <2> QED BY <2>1, <2>2
<1>15. Gone
  BY <1>4 DEF Gone
<1> QED BY <1>7, <1>8, <1>9, <1>10, <1>11, <1>12, <1>13, <1>14, <1>15 DEF RegistryInv

LEMMA RegistryStepInv ==
  ASSUME RegistryConstants, RegistryInv, [RegistryNext]_registryVars
  PROVE  RegistryInv'
<1>1. ASSUME NEW w \in Caller, Register(w)
      PROVE  RegistryInv'
  BY <1>1, FindKeeps, UnmapKeeps, UnrowKeeps, SaveKeeps, InsertKeeps, ExtendKeeps DEF Register
<1>2. ASSUME NEW w \in Caller, NEW p \in Prefix, NEW n \in Name, Begin(w, p, n) \/ Discover(w, p, n)
      PROVE  RegistryInv'
  BY <1>2, BeginKeeps DEF Discover
<1>3. ASSUME NEW i \in Id, Log(i)
      PROVE  RegistryInv'
  <2>1. op' = op /\ services' = services /\ UNCHANGED <<rows, gone, failed, overlapped>>
    BY <1>3 DEF Log
  <2>2. op \in [Caller -> Op] /\ services \in [Id -> Entry \cup {None}]
    BY DEF RegistryInv, Types
  <2> QED BY <2>1, <2>2, TouchKeeps
<1>4. CASE UNCHANGED registryVars
  <2>1. op' = op /\ services' = services /\ UNCHANGED <<rows, gone, failed, overlapped>>
    BY <1>4 DEF registryVars
  <2>2. op \in [Caller -> Op] /\ services \in [Id -> Entry \cup {None}]
    BY DEF RegistryInv, Types
  <2> QED BY <2>1, <2>2, TouchKeeps
<1> QED BY <1>1, <1>2, <1>3, <1>4, UnregisterKeeps, CountKeeps, RestartKeeps DEF RegistryNext

LEMMA RegistryInvMeans ==
  ASSUME RegistryConstants, RegistryInv
  PROVE  OnePerPrefix /\ Durable /\ GoneForGood
<1>1. OnePerPrefix
  <2> SUFFICES ASSUME NEW p \in Prefix \ overlapped
               PROVE  Cardinality(FindByPrefix(p)) <= 1
    BY DEF OnePerPrefix
  <2>1. CASE FindByPrefix(p) = {}
    <3>1. Cardinality({}) = 0
      BY FS_EmptySet
    <3> QED BY <2>1, <3>1
  <2>2. CASE FindByPrefix(p) # {}
    <3>1. PICK i \in FindByPrefix(p) : TRUE
      BY <2>2
    <3>2. FindByPrefix(p) = {i}
      BY <3>1 DEF RegistryInv, Single, FindByPrefix, Live
    <3>3. Cardinality({i}) = 1
      BY FS_Singleton
    <3> QED BY <3>2, <3>3
  <2> QED BY <2>1, <2>2
<1>2. Durable
  BY DEF RegistryInv, Backed, Durable, Live
<1>3. GoneForGood
  BY DEF RegistryInv, Types, Gone, GoneForGood
<1> QED BY <1>1, <1>2, <1>3

\* For any number of services, callers, requests and restarts, with failing
\* statements: a prefix names one service unless two registrations of it overlapped
\* (registry/mod.rs, register) ...
THEOREM PrefixIsUnique ==
  ASSUME RegistryConstants
  PROVE  RegistrySpec => []OnePerPrefix
<1> QED BY RegistryInitInv, RegistryStepInv, RegistryInvMeans, PTL DEF RegistrySpec

\* ... what a restart finds of a service whose statements succeeded is what was
\* answered, but for the requests since the last multiple of Flush
\* (registry/mod.rs, increment_request_count; registry/storage.rs, load_all) ...
THEOREM RowsBackServices ==
  ASSUME RegistryConstants
  PROVE  RegistrySpec => []Durable
<1> QED BY RegistryInitInv, RegistryStepInv, RegistryInvMeans, PTL DEF RegistrySpec

\* ... and a service that was unregistered or replaced never comes back, unless its
\* delete failed (registry/mod.rs, unregister; registry/storage.rs, remove_service).
THEOREM RemovedServicesStayAway ==
  ASSUME RegistryConstants
  PROVE  RegistrySpec => []GoneForGood
<1> QED BY RegistryInitInv, RegistryStepInv, RegistryInvMeans, PTL DEF RegistrySpec

-----------------------------------------------------------------------------
(* The health checker.                                                       *)

\* The names an administrator opens an incident for are services' names.
HealthConstants == RegistryConstants /\ Reports \subseteq SUBSET Name

\* What the steps do to the open incidents of a name.
LEMMA ResolveCloses ==
  ASSUME incidents \in Seq(Incident), Resolve
  PROVE  /\ incidents' \in Seq(Incident)
         /\ \A m : Open(m)' = Open(m) \ Open(check.at.name) /\ Own(m)' \subseteq Own(m)
         /\ DOMAIN incidents' = DOMAIN incidents
         /\ \A k \in DOMAIN incidents : incidents'[k].of = incidents[k].of
<1> DEFINE closed == Open(check.at.name)
<1>1. /\ incidents' = [k \in DOMAIN incidents |->
           IF k \in closed THEN [incidents[k] EXCEPT !.open = FALSE] ELSE incidents[k]]
      /\ DOMAIN incidents = 1..Len(incidents) /\ Len(incidents) \in Nat
      /\ \A k \in DOMAIN incidents : incidents[k] \in Incident
  BY DEF Resolve
<1> HIDE DEF closed
<1>2. ASSUME NEW k \in DOMAIN incidents
      PROVE  /\ incidents'[k] \in Incident /\ incidents'[k].of = incidents[k].of
             /\ k \in closed => incidents'[k].open = FALSE /\ (incidents'[k].own <=> incidents[k].own)
             /\ k \notin closed => incidents'[k] = incidents[k]
  <2>1. CASE k \in closed
    <3>1. incidents'[k] = [incidents[k] EXCEPT !.open = FALSE] /\ incidents[k] \in Incident
      BY <1>1, <2>1
    <3> QED BY <2>1, <3>1 DEF Incident
  <2>2. CASE k \notin closed
    BY <1>1, <2>2
  <2> QED BY <2>1, <2>2
<1>3. DOMAIN incidents' = DOMAIN incidents
  BY <1>1
<1>4. incidents' \in Seq(Incident)
  <2>1. incidents' \in [1..Len(incidents) -> Incident]
    BY <1>1, <1>2
  <2> QED BY <1>1, <2>1
<1>5. ASSUME NEW m
      PROVE  Open(m)' = Open(m) \ closed /\ Own(m)' \subseteq Own(m)
  BY <1>2, <1>3, Zenon DEF Open, Own
<1> QED BY <1>2, <1>3, <1>4, <1>5 DEF closed

LEMMA AppendOpens ==
  ASSUME incidents \in Seq(Incident), NEW S \in SUBSET Name, NEW b \in BOOLEAN,
         incidents' = Append(incidents, [of |-> S, open |-> TRUE, own |-> b])
  PROVE  /\ incidents' \in Seq(Incident) /\ Len(incidents) + 1 \notin DOMAIN incidents
         /\ \A m : /\ Open(m)' = Open(m) \cup (IF m \in S THEN {Len(incidents) + 1} ELSE {})
                   /\ Own(m)' = Own(m) \cup (IF m \in S /\ b THEN {Len(incidents) + 1} ELSE {})
         /\ \A k \in DOMAIN incidents' :
              incidents'[k].of # S => k \in DOMAIN incidents /\ incidents'[k].of = incidents[k].of
<1> DEFINE r == [of |-> S, open |-> TRUE, own |-> b]
           l == Len(incidents) + 1
<1>1. r \in Incident /\ r.of = S /\ r.open = TRUE /\ r.own = b
  BY DEF Incident
<1> HIDE DEF r
<1>2. /\ incidents' \in Seq(Incident) /\ DOMAIN incidents' = DOMAIN incidents \cup {l} /\ l \notin DOMAIN incidents
      /\ incidents'[l] = r /\ \A k \in DOMAIN incidents : incidents'[k] = incidents[k]
  BY <1>1 DEF r
<1> HIDE DEF l
<1>3. \A m : /\ Open(m)' = Open(m) \cup (IF m \in S THEN {l} ELSE {})
             /\ Own(m)' = Own(m) \cup (IF m \in S /\ b THEN {l} ELSE {})
  <2> TAKE m
  <2>1. \A k \in DOMAIN incidents : k # l /\ (incidents'[k].open <=> incidents[k].open)
                                    /\ (incidents'[k].own <=> incidents[k].own)
                                    /\ incidents'[k].of = incidents[k].of
    BY <1>2
  <2>2. incidents'[l].of = S /\ incidents'[l].open = TRUE /\ (incidents'[l].own <=> b)
    BY <1>1, <1>2
  <2> QED BY <1>2, <2>1, <2>2, Zenon DEF Open, Own
<1>4. \A k \in DOMAIN incidents' :
        incidents'[k].of # S => k \in DOMAIN incidents /\ incidents'[k].of = incidents[k].of
  BY <1>1, <1>2
<1> QED BY <1>2, <1>3, <1>4 DEF l

LEMMA EditTouches ==
  ASSUME incidents \in Seq(Incident), NEW k \in DOMAIN incidents, NEW o \in BOOLEAN, AdminEdit(k, o)
  PROVE  /\ incidents' \in Seq(Incident) /\ DOMAIN incidents' = DOMAIN incidents
         /\ \A m : /\ m \notin incidents[k].of => Open(m)' = Open(m)
                   /\ Own(m)' \subseteq Own(m)
         /\ \A j \in DOMAIN incidents : incidents'[j].of = incidents[j].of
<1> DEFINE r == [incidents[k] EXCEPT !.open = o, !.own = FALSE]
<1>1. incidents[k] \in Incident /\ DOMAIN incidents = 1..Len(incidents) /\ Len(incidents) \in Nat
  OBVIOUS
<1>2. r \in Incident /\ r.of = incidents[k].of /\ r.own = FALSE
  BY <1>1 DEF Incident
<1>3. incidents' = [incidents EXCEPT ![k] = r]
  BY <1>1 DEF AdminEdit, Incident
<1> HIDE DEF r
<1>4. /\ incidents' \in Seq(Incident) /\ DOMAIN incidents' = DOMAIN incidents /\ incidents'[k] = r
      /\ \A j \in DOMAIN incidents \ {k} : incidents'[j] = incidents[j]
  BY <1>1, <1>2, <1>3
<1>5. ASSUME NEW m
      PROVE  /\ m \notin incidents[k].of => Open(m)' = Open(m)
             /\ Own(m)' \subseteq Own(m)
  <2>1. \A j \in DOMAIN incidents : j = k \/ incidents'[j] = incidents[j]
    BY <1>4
  <2>2. incidents'[k].of = incidents[k].of /\ incidents'[k].own = FALSE
    BY <1>2, <1>4
  <2> QED BY <1>4, <2>1, <2>2, Zenon DEF Open, Own
<1> QED BY <1>2, <1>4, <1>5

LEMMA SameIncidents ==
  ASSUME incidents' = incidents
  PROVE  \A m : Open(m)' = Open(m) /\ Own(m)' = Own(m)
BY Zenon DEF Open, Own

\* A step of the checker that leaves the services and the incidents alone.
LEMMA CheckerMoves ==
  ASSUME HealthInv, HealthTypes', UNCHANGED <<services, incidents, touched>>,
         check'.step = "create" => Own(check'.at.name) = {}
  PROVE  OneOwn' /\ Apart'
<1>1. \A m : Open(m)' = Open(m) /\ Own(m)' = Own(m)
  BY SameIncidents
<1>2. OneOwn'
  BY <1>1 DEF HealthInv, OneOwn
<1>3. Apart'
  BY DEF HealthInv, Apart, Shared
<1> QED BY <1>2, <1>3

LEMMA RoundKeeps ==
  ASSUME HealthConstants, RegistryInv, HealthInv, Round
  PROVE  HealthInv'
<1>1. /\ services \in [Id -> Entry \cup {None}] /\ check \in Check /\ incidents \in Seq(Incident)
      /\ check.step = "rest" /\ UNCHANGED <<services, op, gone, incidents, touched>>
  BY DEF RegistryInv, Types, HealthInv, HealthTypes, Round, registryVars
<1>2. Snapshot \subseteq Snap
  BY <1>1 DEF Snapshot, Snap, Live, Entry
<1>3. check' \in Check /\ check'.step = "next" /\ check'.todo = Snapshot
  BY <1>2 DEF Round, Resting, Check
<1>4. HealthTypes'
  BY <1>1, <1>3 DEF HealthTypes
<1>5. OneOwn' /\ Apart'
  BY <1>1, <1>3, <1>4, CheckerMoves
<1>6. ASSUME NEW s \in Snapshot
      PROVE  s.id \in Id /\ services[s.id] # None /\ s.name = services[s.id].name /\ s.status = services[s.id].status
             /\ s = [id |-> s.id, name |-> s.name, status |-> s.status]
  BY DEF Snapshot, Live
<1>7. Departed'
  BY <1>1, <1>3, <1>6 DEF Departed
<1>8. Shared(services) \subseteq touched
  BY DEF HealthInv, Apart
<1>9. ASSUME NEW i \in Id, NEW j \in Id, services[i] # None, services[j] # None,
             services[i].name = services[j].name, services[i].name \notin touched
      PROVE  i = j
  BY <1>1, <1>8, <1>9 DEF Shared, Entry
<1>10. Current'
  <2> SUFFICES ASSUME NEW s \in Snapshot, s.name \notin touched
               PROVE  /\ \A t \in Snapshot : t.name = s.name => t = s
                      /\ \A i \in Id : services[i] # None /\ services[i].name = s.name =>
                           IF i = s.id THEN services[i].status = s.status ELSE services[i].status = "Unknown"
    BY <1>1, <1>3 DEF Current
  <2>1. ASSUME NEW t \in Snapshot, t.name = s.name
        PROVE  t = s
    <3>1. t.id = s.id
      BY <1>6, <1>9, <2>1
    <3> QED BY <1>6, <2>1, <3>1
  <2>2. ASSUME NEW i \in Id, services[i] # None, services[i].name = s.name
        PROVE  i = s.id /\ services[i].status = s.status
    <3>1. i = s.id
      BY <1>6, <1>9, <2>2
    <3> QED BY <1>6, <3>1
  <2> QED BY <2>1, <2>2
<1>11. Agreed'
  <2>1. \A m : Open(m)' = Open(m)
    BY <1>1, SameIncidents
  <2>2. \A i \in Id : services[i] # None /\ services[i].name \notin touched => Agree(i)
    BY <1>1 DEF HealthInv, Agreed, InHand
  <2> QED BY <1>1, <2>1, <2>2 DEF Agreed, Agree
<1>12. Ready'
  BY <1>3 DEF Ready
<1> QED BY <1>4, <1>5, <1>7, <1>10, <1>11, <1>12 DEF HealthInv

\* A step of the checker between two awaits, with the same service in its hands.
LEMMA HandKeeps ==
  ASSUME HealthConstants, RegistryInv, HealthInv, UNCHANGED <<services, op, gone, incidents, touched>>,
         check' \in Check, check'.todo = check.todo, check'.at \in check.todo, check'.found \in Result,
         check'.step \in {"resolve", "look", "create", "write"},
         check'.step = "resolve" => check'.found = "Up",
         check'.step \in {"look", "create"} => check'.found = "Down",
         check.step = "next" \/ check'.at = check.at,
         check.step # "rest" /\ (check'.step = "create" => Open(check'.at.name) = {}),
         Ready'
  PROVE  HealthInv'
<1>1. HealthTypes'
  BY DEF HealthInv, HealthTypes
<1>2. Own(check'.at.name) \subseteq Open(check'.at.name)
  BY Zenon DEF Own
<1>3. OneOwn' /\ Apart'
  BY <1>1, <1>2, CheckerMoves
<1>4. Departed'
  BY DEF HealthInv, Departed
<1>5. Current'
  BY DEF HealthInv, Current
<1>6. Agreed'
  <2> SUFFICES ASSUME NEW i \in Id, services[i] # None, services[i].name \notin touched, ~InHand(i)'
               PROVE  Agree(i)'
    BY DEF Agreed
  <2>1. \A m : Open(m)' = Open(m)
    BY SameIncidents
  <2>2. ~InHand(i)
    BY DEF InHand, HealthInv, HealthTypes
  <2>3. Agree(i)
    BY <2>2 DEF HealthInv, Agreed
  <2> QED BY <2>1, <2>3 DEF Agree
<1> QED BY <1>1, <1>3, <1>4, <1>5, <1>6 DEF HealthInv

LEMMA ProbeKeeps ==
  ASSUME HealthConstants, RegistryInv, HealthInv, Probe
  PROVE  HealthInv'
<1>1. /\ check \in Check /\ check.step = "next" /\ UNCHANGED <<services, op, gone, incidents, touched>>
  BY DEF HealthInv, HealthTypes, Probe, registryVars
<1>2. PICK s \in check.todo, r \in Result :
        check' = [check EXCEPT !.at = s, !.found = r,
                    !.step = IF s.status = r THEN "write" ELSE IF r = "Up" THEN "resolve" ELSE "look"]
  BY DEF Probe
<1>3. s \in Snap
  BY <1>1 DEF Check
<1>4. /\ check' \in Check /\ check'.todo = check.todo /\ check'.at = s /\ check'.found = r
      /\ check'.step = IF s.status = r THEN "write" ELSE IF r = "Up" THEN "resolve" ELSE "look"
  BY <1>1, <1>2, <1>3 DEF Check
<1>5. Ready'
  <2> SUFFICES ASSUME s.status = r, services[s.id] # None, s.name \notin touched
               PROVE  /\ r = "Down" => Open(s.name)' # {}
                      /\ r = "Up" => Open(s.name)' = {}
    BY <1>1, <1>4 DEF Ready
  <2>1. services[s.id].name = s.name /\ s.id \in Id
    BY <1>3 DEF HealthInv, Departed, Snap
  <2>2. services[s.id].status = r
    BY <2>1 DEF HealthInv, Current
  <2>3. Agree(s.id)
    BY <1>1, <2>1 DEF HealthInv, Agreed, InHand
  <2>4. Open(s.name)' = Open(s.name)
    BY <1>1, SameIncidents
  <2> QED BY <2>1, <2>2, <2>3, <2>4 DEF Agree
<1>6. r = "Up" \/ r = "Down"
  BY DEF Result
<1> QED BY <1>1, <1>4, <1>5, <1>6, HandKeeps

LEMMA LookKeeps ==
  ASSUME HealthConstants, RegistryInv, HealthInv, Look
  PROVE  HealthInv'
<1>1. /\ check \in Check /\ check.step = "look" /\ check.found = "Down" /\ check.at \in check.todo
      /\ UNCHANGED <<services, op, gone, incidents, touched>> /\ "Down" \in Result
  BY DEF HealthInv, HealthTypes, Look, registryVars, Result
<1>2. /\ check' \in Check /\ check'.todo = check.todo /\ check'.at = check.at /\ check'.found = "Down"
      /\ check'.step = IF Open(check.at.name) = {} THEN "create" ELSE "write"
  BY <1>1 DEF Look, Check
<1>3. Ready'
  BY <1>1, <1>2, SameIncidents DEF Ready
<1> QED BY <1>1, <1>2, <1>3, HandKeeps

\* The step that opened or closed incidents of the service in hand is done with it.
LEMMA IncidentKeeps ==
  ASSUME HealthConstants, RegistryInv, HealthInv, UNCHANGED <<services, op, gone, touched>>,
         check.step \in {"resolve", "create"}, check' = [check EXCEPT !.step = "write"],
         incidents' \in Seq(Incident), OneOwn', Apart',
         \A m : m \notin touched /\ m # check.at.name => Open(m)' = Open(m),
         check.found = "Down" => Open(check.at.name)' # {},
         check.found = "Up" => Open(check.at.name)' = {}
  PROVE  HealthInv'
<1>1. check \in Check /\ check.at \in check.todo /\ check.found \in Result
  BY DEF HealthInv, HealthTypes
<1>2. /\ check' \in Check /\ check'.step = "write" /\ check'.todo = check.todo /\ check'.at = check.at
      /\ check'.found = check.found
  BY <1>1 DEF Check
<1>3. HealthTypes'
  BY <1>1, <1>2 DEF HealthTypes
<1>4. Departed'
  BY <1>2 DEF HealthInv, Departed
<1>5. Current'
  BY <1>2 DEF HealthInv, Current
<1>6. Agreed'
  <2> SUFFICES ASSUME NEW i \in Id, services[i] # None, services[i].name \notin touched, ~InHand(i)'
               PROVE  Agree(i)'
    BY DEF Agreed
  <2>1. i # check.at.id
    BY <1>2 DEF InHand
  <2>2. CASE services[i].name = check.at.name
    <3>1. services[i].status = "Unknown"
      BY <1>1, <2>1, <2>2 DEF HealthInv, Current
    <3> QED BY <3>1 DEF Agree
  <2>3. CASE services[i].name # check.at.name
    <3>1. Open(services[i].name)' = Open(services[i].name)
      BY <2>3
    <3>2. Agree(i)
      BY <2>1 DEF HealthInv, Agreed, InHand
    <3> QED BY <3>1, <3>2 DEF Agree
  <2> QED BY <2>2, <2>3
<1>7. Ready'
  BY <1>2 DEF Ready
<1> QED BY <1>3, <1>4, <1>5, <1>6, <1>7 DEF HealthInv

LEMMA ResolveKeeps ==
  ASSUME HealthConstants, RegistryInv, HealthInv, Resolve
  PROVE  HealthInv'
<1>1. /\ incidents \in Seq(Incident) /\ check \in Check /\ check.step = "resolve" /\ check.found = "Up"
      /\ UNCHANGED <<services, op, gone, touched>> /\ check' = [check EXCEPT !.step = "write"]
  BY DEF HealthInv, HealthTypes, Resolve, registryVars
<1>2. /\ incidents' \in Seq(Incident)
      /\ \A m : Open(m)' = Open(m) \ Open(check.at.name) /\ Own(m)' \subseteq Own(m)
      /\ DOMAIN incidents' = DOMAIN incidents
      /\ \A k \in DOMAIN incidents : incidents'[k].of = incidents[k].of
  BY <1>1, ResolveCloses
<1>3. check'.step = "write" /\ check'.at = check.at
  BY <1>1 DEF Check
<1>4. OneOwn'
  <2>1. \A n \in Name : \A k, l \in Own(n) : k = l
    BY DEF HealthInv, OneOwn
  <2>2. \A n \in Name : \A k, l \in Own(n)' : k = l
    BY <1>2, <2>1
  <2> QED BY <1>3, <2>2 DEF OneOwn
<1>5. Shared(services)' = Shared(services)
  BY <1>1 DEF Shared
<1>6. Apart'
  BY <1>1, <1>2, <1>5 DEF HealthInv, Apart
<1>7. ASSUME NEW m, m \notin touched, m # check.at.name
      PROVE  Open(m)' = Open(m)
  <2>1. ASSUME NEW k \in Open(m), k \in Open(check.at.name)
        PROVE  FALSE
    <3>1. k \in DOMAIN incidents /\ m \in incidents[k].of /\ check.at.name \in incidents[k].of
      BY <2>1, Zenon DEF Open
    <3> QED BY <1>7, <3>1 DEF HealthInv, Apart
  <2> QED BY <1>2, <2>1
<1>8. Open(check.at.name)' = {}
  <2>1. PICK n : n = check.at.name
    OBVIOUS
  <2>2. Open(n)' = {}
    BY <1>2, <2>1
  <2> QED BY <1>3, <2>1, <2>2
<1>9. check.found # "Down"
  BY <1>1
<1> QED BY <1>1, <1>2, <1>4, <1>6, <1>7, <1>8, <1>9, IncidentKeeps

LEMMA CreateKeeps ==
  ASSUME HealthConstants, RegistryInv, HealthInv, Create
  PROVE  HealthInv'
<1>0. PICK n : n = check.at.name
  OBVIOUS
<1> DEFINE l == Len(incidents) + 1
<1>1. /\ incidents \in Seq(Incident) /\ check \in Check /\ check.step = "create" /\ check.found = "Down"
      /\ check.at \in check.todo
      /\ UNCHANGED <<services, op, gone, touched>> /\ check' = [check EXCEPT !.step = "write"]
      /\ incidents' = Append(incidents, [of |-> {n}, open |-> TRUE, own |-> TRUE])
  BY <1>0 DEF HealthInv, HealthTypes, Create, registryVars
<1>2. n \in Name
  BY <1>0, <1>1 DEF Check, Snap
<1> HIDE DEF l
<1>3. /\ incidents' \in Seq(Incident)
      /\ \A m : m # n => Open(m)' = Open(m) /\ Own(m)' = Own(m)
      /\ Open(n)' = Open(n) \cup {l} /\ Own(n)' = Own(n) \cup {l}
      /\ \A k \in DOMAIN incidents' :
           incidents'[k].of # {n} => k \in DOMAIN incidents /\ incidents'[k].of = incidents[k].of
  <2>1. {n} \in SUBSET Name /\ TRUE \in BOOLEAN
    BY <1>2
  <2>2. /\ incidents' \in Seq(Incident)
        /\ \A m : /\ Open(m)' = Open(m) \cup (IF m \in {n} THEN {l} ELSE {})
                  /\ Own(m)' = Own(m) \cup (IF m \in {n} /\ TRUE THEN {l} ELSE {})
        /\ \A k \in DOMAIN incidents' :
             incidents'[k].of # {n} => k \in DOMAIN incidents /\ incidents'[k].of = incidents[k].of
    BY <1>1, <2>1, AppendOpens DEF l
  <2>3. ASSUME NEW m, m # n
        PROVE  Open(m)' = Open(m) /\ Own(m)' = Own(m)
    <3>1. /\ Open(m)' = Open(m) \cup (IF m \in {n} THEN {l} ELSE {})
          /\ Own(m)' = Own(m) \cup (IF m \in {n} /\ TRUE THEN {l} ELSE {})
      BY <2>2
    <3> QED BY <2>3, <3>1
  <2>4. Open(n)' = Open(n) \cup {l} /\ Own(n)' = Own(n) \cup {l}
    <3>1. /\ Open(n)' = Open(n) \cup (IF n \in {n} THEN {l} ELSE {})
          /\ Own(n)' = Own(n) \cup (IF n \in {n} /\ TRUE THEN {l} ELSE {})
      BY <2>2
    <3> QED BY <3>1
  <2> QED BY <2>2, <2>3, <2>4
<1>4. check'.step = "write" /\ check'.at = check.at
  BY <1>1 DEF Check
<1>5. OneOwn'
  <2>1. Own(n) = {} /\ \A m \in Name : \A j, k \in Own(m) : j = k
    BY <1>0, <1>1 DEF HealthInv, OneOwn
  <2>2. \A m \in Name : \A j, k \in Own(m)' : j = k
    BY <1>3, <2>1
  <2> QED BY <1>4, <2>2 DEF OneOwn
<1>6. Shared(services)' = Shared(services)
  BY <1>1 DEF Shared
<1>7. Apart'
  BY <1>1, <1>2, <1>3, <1>6 DEF HealthInv, Apart
<1>8. \A m : m # n => Open(m)' = Open(m)
  BY <1>3
<1>9. Open(check.at.name)' # {}
  <2>1. Open(n)' # {}
    BY <1>3
  <2> QED BY <1>0, <1>4, <2>1
<1>10. check.found # "Up"
  BY <1>1
<1> QED BY <1>0, <1>1, <1>3, <1>5, <1>7, <1>8, <1>9, <1>10, IncidentKeeps

\* update_status writes the status of a service that is still registered.
LEMMA StatusWrites ==
  ASSUME RegistryConstants, Types, NEW i \in Id, NEW r \in Status, services' = UpdateStatus(i, r)
  PROVE  /\ services' \in [Id -> Entry \cup {None}] /\ \A j \in Id \ {i} : services'[j] = services[j]
         /\ services[i] = None => services'[i] = None
         /\ services[i] # None =>
              services'[i] # None /\ services'[i].status = r /\ services'[i].name = services[i].name
<1>1. services \in [Id -> Entry \cup {None}]
  BY DEF Types
<1>2. CASE services[i] = None
  BY <1>1, <1>2 DEF UpdateStatus, Live
<1>3. CASE services[i] # None
  <2> DEFINE e == [services[i] EXCEPT !.status = r]
  <2>1. e \in Entry /\ e.status = r /\ e.name = services[i].name
    BY <1>1, <1>3 DEF Entry
  <2>2. services' = [services EXCEPT ![i] = e] /\ e # None
    BY <1>3, <2>1 DEF UpdateStatus, Live, RegistryConstants
  <2> HIDE DEF e
  <2> QED BY <1>1, <1>3, <2>1, <2>2
<1> QED BY <1>2, <1>3

LEMMA WriteKeeps ==
  ASSUME HealthConstants, RegistryInv, HealthInv, Write
  PROVE  HealthInv'
<1> DEFINE i == check.at.id
           r == check.found
           left == check.todo \ {check.at}
<1>1. /\ services \in [Id -> Entry \cup {None}] /\ incidents \in Seq(Incident) /\ check \in Check
      /\ check.step = "write" /\ check.at \in check.todo /\ r \in Result
      /\ UNCHANGED <<op, gone, touched, incidents>> /\ services' = UpdateStatus(i, r)
  BY DEF RegistryInv, Types, HealthInv, HealthTypes, Write
<1>2. check.at \in Snap /\ i \in Id /\ check.todo \subseteq Snap
  BY <1>1 DEF Check, Snap
<1>3. /\ check' \in Check /\ check'.todo = left /\ check'.step = IF left = {} THEN "rest" ELSE "next"
  BY <1>1, <1>2 DEF Write, Check, Resting
<1>4. /\ services' \in [Id -> Entry \cup {None}] /\ \A j \in Id \ {i} : services'[j] = services[j]
      /\ services[i] = None => services'[i] = None
      /\ services[i] # None =>
           services'[i] # None /\ services'[i].status = r /\ services'[i].name = services[i].name
  BY <1>1, <1>2, StatusWrites DEF HealthConstants, RegistryInv, Result, Status
<1>5. HealthTypes'
  BY <1>1, <1>3 DEF HealthTypes
<1>6. \A m : Open(m)' = Open(m) /\ Own(m)' = Own(m)
  BY <1>1, SameIncidents
<1>7. OneOwn'
  BY <1>3, <1>6 DEF HealthInv, OneOwn
<1>8. Apart'
  <2>1. Shared(services') \subseteq Shared(services)
    BY <1>4 DEF Shared
  <2> QED BY <1>1, <2>1 DEF HealthInv, Apart
<1>9. Departed'
  <2> SUFFICES ASSUME NEW s \in left
               PROVE  \/ services'[s.id] # None /\ services'[s.id].name = s.name
                      \/ services'[s.id] = None /\ s.id \in gone
                      \/ services'[s.id] = None
                         /\ \E v \in Caller : op[v].step \in {"unrow", "forget"} /\ op[v].found = s.id
    BY <1>1, <1>3 DEF Departed
  <2>1. s.id \in Id
    BY <1>2 DEF Snap
  <2> QED BY <1>4, <2>1 DEF HealthInv, Departed
<1>10. services[i] # None => services[i].name = check.at.name
  BY <1>1 DEF HealthInv, Departed
<1>11. Current'
  <2> SUFFICES ASSUME NEW s \in left, s.name \notin touched
               PROVE  /\ \A t \in left : t.name = s.name => t = s
                      /\ \A j \in Id : services'[j] # None /\ services'[j].name = s.name =>
                           IF j = s.id THEN services'[j].status = s.status ELSE services'[j].status = "Unknown"
    BY <1>1, <1>3 DEF Current
  <2>1. /\ \A t \in check.todo : t.name = s.name => t = s
        /\ \A j \in Id : services[j] # None /\ services[j].name = s.name =>
             IF j = s.id THEN services[j].status = s.status ELSE services[j].status = "Unknown"
    BY DEF HealthInv, Current
  <2>2. check.at.name # s.name
    BY <1>1, <2>1
  <2> QED BY <1>2, <1>4, <1>10, <2>1, <2>2
<1>12. Agreed'
  <2> SUFFICES ASSUME NEW j \in Id, services'[j] # None, services'[j].name \notin touched
               PROVE  Agree(j)'
    BY <1>1 DEF Agreed
  <2>1. CASE j = i
    <3>1. services[i] # None /\ services'[i].status = r /\ services'[i].name = check.at.name
      BY <1>2, <1>4, <1>10, <2>1
    <3>2. /\ r = "Down" => Open(check.at.name) # {}
          /\ r = "Up" => Open(check.at.name) = {}
      BY <1>1, <2>1, <3>1 DEF HealthInv, Ready
    <3> QED BY <1>6, <2>1, <3>1, <3>2 DEF Agree
  <2>2. CASE j # i
    <3>1. services'[j] = services[j]
      BY <1>4, <2>2
    <3>2. Agree(j)
      BY <2>2, <3>1 DEF HealthInv, Agreed, InHand
    <3> QED BY <1>6, <3>1, <3>2 DEF Agree
  <2> QED BY <2>1, <2>2
<1>13. Ready'
  BY <1>3 DEF Ready
<1> QED BY <1>5, <1>7, <1>8, <1>9, <1>11, <1>12, <1>13 DEF HealthInv

\* A step of somebody else: services come unprobed, keep their names, and change
\* status only under a name that is touched, as incidents do.
LEMMA OthersKeep ==
  ASSUME HealthConstants, HealthInv, check' = check, touched \subseteq touched',
         incidents' \in Seq(Incident), OneOwn', Apart', Departed',
         \A m : m \notin touched' => Open(m)' = Open(m),
         \A j \in Id : services'[j] # None /\ services[j] # None =>
           /\ services'[j].name = services[j].name
           /\ services'[j].name \notin touched' => services'[j].status = services[j].status,
         \A j \in Id : services'[j] # None /\ services[j] = None =>
           services'[j].status = "Unknown" /\ \A s \in check.todo : s.id # j
  PROVE  HealthInv'
<1>1. HealthTypes'
  BY DEF HealthInv, HealthTypes
<1>2. Current'
  <2> SUFFICES ASSUME NEW s \in check.todo, s.name \notin touched'
               PROVE  /\ \A t \in check.todo : t.name = s.name => t = s
                      /\ \A i \in Id : services'[i] # None /\ services'[i].name = s.name =>
                           IF i = s.id THEN services'[i].status = s.status ELSE services'[i].status = "Unknown"
    BY DEF Current
  <2>1. /\ \A t \in check.todo : t.name = s.name => t = s
        /\ \A i \in Id : services[i] # None /\ services[i].name = s.name =>
             IF i = s.id THEN services[i].status = s.status ELSE services[i].status = "Unknown"
    BY DEF HealthInv, Current
  <2> QED BY <2>1
<1>3. Agreed'
  <2> SUFFICES ASSUME NEW i \in Id, services'[i] # None, services'[i].name \notin touched', ~InHand(i)
               PROVE  Agree(i)'
    BY DEF Agreed, InHand
  <2>1. CASE services[i] = None
    BY <2>1 DEF Agree
  <2>2. CASE services[i] # None
    <3>1. services'[i].name = services[i].name /\ services'[i].status = services[i].status
      BY <2>2
    <3>2. Agree(i)
      BY <2>2, <3>1 DEF HealthInv, Agreed
    <3>3. PICK n : n = services[i].name
      OBVIOUS
    <3>4. Open(n)' = Open(n)
      BY <3>1, <3>3
    <3> QED BY <3>1, <3>2, <3>3, <3>4 DEF Agree
  <2> QED BY <2>1, <2>2
<1>4. Ready'
  <2> SUFFICES ASSUME check.step = "write", services'[check.at.id] # None, check.at.name \notin touched'
               PROVE  /\ check.found = "Down" => Open(check.at.name)' # {}
                      /\ check.found = "Up" => Open(check.at.name)' = {}
    BY DEF Ready
  <2>1. check.at \in check.todo /\ check.at.id \in Id
    BY DEF HealthInv, HealthTypes, Check, Snap
  <2>2. services[check.at.id] # None
    BY <2>1
  <2>3. PICK n : n = check.at.name
    OBVIOUS
  <2>4. Open(n)' = Open(n)
    BY <2>3
  <2>5. /\ check.found = "Down" => Open(n) # {}
        /\ check.found = "Up" => Open(n) = {}
    BY <2>2, <2>3 DEF HealthInv, Ready
  <2> QED BY <2>3, <2>4, <2>5
<1> QED BY <1>1, <1>2, <1>3, <1>4 DEF HealthInv

LEMMA AdminCheckKeeps ==
  ASSUME HealthConstants, RegistryInv, HealthInv, NEW i \in Id, NEW r \in Result, AdminCheck(i, r)
  PROVE  HealthInv'
<1>1. /\ services[i] # None /\ services' = UpdateStatus(i, r) /\ touched' = touched \cup {services[i].name}
      /\ UNCHANGED <<op, gone, check, incidents>>
  BY DEF AdminCheck, Live
<1>2. /\ \A j \in Id \ {i} : services'[j] = services[j]
      /\ services'[i] # None /\ services'[i].name = services[i].name
  BY <1>1, StatusWrites DEF HealthConstants, RegistryInv, Result, Status
<1>3. \A m : Open(m)' = Open(m) /\ Own(m)' = Own(m)
  BY <1>1, SameIncidents
<1>4. OneOwn'
  BY <1>1, <1>3 DEF HealthInv, OneOwn
<1>5. Apart'
  <2>1. Shared(services') \subseteq Shared(services)
    BY <1>1, <1>2 DEF Shared
  <2> QED BY <1>1, <2>1 DEF HealthInv, Apart
<1>6. \A j \in Id : /\ services'[j] # None => services[j] # None
                    /\ services[j] # None => services'[j] # None /\ services'[j].name = services[j].name
  BY <1>1, <1>2
<1>7. Departed'
  <2>1. \A s \in check.todo : s.id \in Id
    BY DEF HealthInv, HealthTypes, Check, Snap
  <2> QED BY <1>1, <1>6, <2>1 DEF HealthInv, Departed
<1>8. incidents' \in Seq(Incident)
  BY <1>1 DEF HealthInv, HealthTypes
<1> QED BY <1>1, <1>2, <1>3, <1>4, <1>5, <1>6, <1>7, <1>8, OthersKeep

LEMMA AdminOpenKeeps ==
  ASSUME HealthConstants, RegistryInv, HealthInv, NEW names \in Reports, AdminOpen(names)
  PROVE  HealthInv'
<1>1. /\ incidents \in Seq(Incident) /\ names \in SUBSET Name /\ FALSE \in BOOLEAN
      /\ UNCHANGED <<services, op, gone, check>> /\ touched' = touched \cup names
      /\ incidents' = Append(incidents, [of |-> names, open |-> TRUE, own |-> FALSE])
  BY DEF HealthInv, HealthTypes, HealthConstants, AdminOpen, registryVars
<1>2. /\ incidents' \in Seq(Incident)
      /\ \A m : /\ Open(m)' = Open(m) \cup (IF m \in names THEN {Len(incidents) + 1} ELSE {})
                /\ Own(m)' = Own(m) \cup (IF m \in names /\ FALSE THEN {Len(incidents) + 1} ELSE {})
      /\ \A k \in DOMAIN incidents' :
           incidents'[k].of # names => k \in DOMAIN incidents /\ incidents'[k].of = incidents[k].of
  BY <1>1, AppendOpens
<1>3. ASSUME NEW m
      PROVE  Own(m)' = Own(m) /\ (m \notin touched' => Open(m)' = Open(m))
  <2>1. /\ Open(m)' = Open(m) \cup (IF m \in names THEN {Len(incidents) + 1} ELSE {})
        /\ Own(m)' = Own(m) \cup (IF m \in names /\ FALSE THEN {Len(incidents) + 1} ELSE {})
    BY <1>2
  <2> QED BY <1>1, <2>1
<1>4. OneOwn'
  BY <1>1, <1>3 DEF HealthInv, OneOwn
<1>5. Shared(services)' = Shared(services)
  BY <1>1 DEF Shared
<1>6. Apart'
  <2>1. Shared(services) \subseteq touched'
    BY <1>1 DEF HealthInv, Apart
  <2> SUFFICES ASSUME NEW k \in DOMAIN incidents'
               PROVE  incidents'[k].of \subseteq touched' \/ \E n \in Name : incidents'[k].of = {n}
    BY <1>5, <2>1 DEF Apart
  <2>2. CASE incidents'[k].of = names
    BY <1>1, <2>2
  <2>3. CASE incidents'[k].of # names
    <3>1. k \in DOMAIN incidents /\ incidents'[k].of = incidents[k].of
      BY <1>2, <2>3
    <3> QED BY <1>1, <3>1 DEF HealthInv, Apart
  <2> QED BY <2>2, <2>3
<1>7. Departed'
  BY <1>1 DEF HealthInv, Departed
<1> QED BY <1>1, <1>2, <1>3, <1>4, <1>6, <1>7, OthersKeep

LEMMA AdminEditKeeps ==
  ASSUME HealthConstants, RegistryInv, HealthInv,
         NEW k \in DOMAIN incidents, NEW o \in BOOLEAN, AdminEdit(k, o)
  PROVE  HealthInv'
<1>1. /\ incidents \in Seq(Incident)
      /\ UNCHANGED <<services, op, gone, check>> /\ touched' = touched \cup incidents[k].of
  BY DEF HealthInv, HealthTypes, AdminEdit, registryVars
<1>2. /\ incidents' \in Seq(Incident) /\ DOMAIN incidents' = DOMAIN incidents
      /\ \A m : /\ m \notin incidents[k].of => Open(m)' = Open(m)
                /\ Own(m)' \subseteq Own(m)
      /\ \A j \in DOMAIN incidents : incidents'[j].of = incidents[j].of
  BY <1>1, EditTouches
<1>3. OneOwn'
  <2>1. /\ \A n \in Name : \A i, l \in Own(n) : i = l
        /\ check.step = "create" => Own(check.at.name) = {}
    BY DEF HealthInv, OneOwn
  <2>2. \A n \in Name : \A i, l \in Own(n)' : i = l
    BY <1>2, <2>1
  <2>3. check.step = "create" => Own(check.at.name)' = {}
    <3>1. PICK n : n = check.at.name
      OBVIOUS
    <3>2. Own(n)' \subseteq Own(n)
      BY <1>2
    <3> QED BY <1>1, <2>1, <3>1, <3>2
  <2> QED BY <1>1, <2>2, <2>3 DEF OneOwn
<1>4. Shared(services)' = Shared(services)
  BY <1>1 DEF Shared
<1>5. Apart'
  BY <1>1, <1>2, <1>4 DEF HealthInv, Apart
<1>6. Departed'
  BY <1>1 DEF HealthInv, Departed
<1>7. \A m : m \notin touched' => Open(m)' = Open(m)
  BY <1>1, <1>2
<1> QED BY <1>1, <1>2, <1>3, <1>5, <1>6, <1>7, OthersKeep

\* The registry's steps change no status; an id that comes is in no snapshot.
LEMMA RegistryStepKeeps ==
  ASSUME HealthConstants, RegistryInv, HealthInv, RegistryStep
  PROVE  HealthInv'
<1>1. UNCHANGED <<check, incidents>> /\ touched' = touched \cup Shared(services')
  BY DEF RegistryStep
<1>2. /\ op \in [Caller -> Op] /\ \A v \in Caller : OpFits(op[v])
      /\ services \in [Id -> Entry \cup {None}] /\ \A s \in check.todo : s.id \in Id
  BY DEF RegistryInv, Types, HealthInv, HealthTypes, Check, Snap
<1>3. \A m : Open(m)' = Open(m) /\ Own(m)' = Own(m)
  BY <1>1, SameIncidents
<1>4. OneOwn'
  BY <1>1, <1>3 DEF HealthInv, OneOwn
<1>5. Apart'
  <2>1. Shared(services)' = Shared(services')
    BY DEF Shared
  <2> QED BY <1>1, <2>1 DEF HealthInv, Apart
<1>6. incidents' \in Seq(Incident)
  BY <1>1 DEF HealthInv, HealthTypes
<1> DEFINE Out(s) == \/ services'[s.id] # None /\ services'[s.id].name = s.name
                     \/ services'[s.id] = None /\ s.id \in gone'
                     \/ services'[s.id] = None
                        /\ \E v \in Caller : op'[v].step \in {"unrow", "forget"} /\ op'[v].found = s.id
           Same(j) == services'[j] # None /\ services[j] # None =>
                        services'[j].name = services[j].name /\ services'[j].status = services[j].status
           New(j) == services'[j] # None /\ services[j] = None =>
                       services'[j].status = "Unknown" /\ \A s \in check.todo : s.id # j
<1>7. ASSUME \A s \in check.todo : Out(s), \A j \in Id : Same(j) /\ New(j)
      PROVE  HealthInv'
  <2>1. Departed'
    BY <1>1, <1>7 DEF Departed
  <2> HIDE DEF Out
  <2> QED BY <1>1, <1>3, <1>4, <1>5, <1>6, <1>7, <2>1, OthersKeep
<1>8. ASSUME NEW s \in check.todo
      PROVE  /\ s.id \in Id
             /\ \/ services[s.id] # None /\ services[s.id].name = s.name
                \/ services[s.id] = None /\ s.id \in gone
                \/ services[s.id] = None
                   /\ \E v \in Caller : op[v].step \in {"unrow", "forget"} /\ op[v].found = s.id
  BY <1>2 DEF HealthInv, Departed
\* A caller that was not about to delete moves, and the map stays.
<1>9. ASSUME NEW w \in Caller, op[w].step \notin {"unrow", "forget"},
             \A v \in Caller \ {w} : op'[v] = op[v], gone' = gone,
             \A j \in Id : services'[j] = services[j]
               \/ /\ services[j] # None /\ services'[j] # None /\ services'[j].name = services[j].name
                  /\ services'[j].status = services[j].status
      PROVE  HealthInv'
  <2>1. \A j \in Id : Same(j) /\ New(j)
    BY <1>9
  <2>2. ASSUME NEW s \in check.todo
        PROVE  Out(s)
    BY <1>8, <1>9
  <2> HIDE DEF Same, New, Out
  <2> QED BY <1>7, <2>1, <2>2
<1>10. ASSUME NEW w \in Caller, NEW p \in Prefix, NEW n \in Name, Begin(w, p, n) \/ Discover(w, p, n)
       PROVE  HealthInv'
  <2>1. op[w].step = "idle" /\ gone' = gone /\ services' = services /\ \A v \in Caller \ {w} : op'[v] = op[v]
    BY <1>2, <1>10 DEF Begin, Discover, IdleOp
  <2> QED BY <1>9, <2>1
<1>11. ASSUME NEW w \in Caller, Find(w) \/ Save(w)
       PROVE  HealthInv'
  <2>1. /\ op[w].step \in {"find", "save"} /\ gone' = gone /\ services' = services
        /\ \A v \in Caller \ {w} : op'[v] = op[v]
    BY <1>2, <1>11 DEF Find, Save
  <2> QED BY <1>9, <2>1
<1>12. ASSUME NEW w \in Caller, Extend(w)
       PROVE  HealthInv'
  <2>1. op[w].step = "extend" /\ gone' = gone /\ \A v \in Caller \ {w} : op'[v] = op[v]
    BY <1>2, <1>12 DEF Extend
  <2>2. \A j \in Id : services'[j] = services[j]
          \/ /\ services[j] # None /\ services'[j] # None /\ services'[j].name = services[j].name
             /\ services'[j].status = services[j].status
    <3>1. CASE op[w].id \in Live
      <4> DEFINE i == op[w].id
                 e == [services[i] EXCEPT !.more = TRUE]
      <4>1. i \in Id /\ services[i] # None
        BY <3>1 DEF Live
      <4>2. e \in Entry /\ e.name = services[i].name /\ e.status = services[i].status
        BY <1>2, <4>1 DEF Entry
      <4>3. services' = [services EXCEPT ![i] = e] /\ e # None
        BY <1>12, <3>1, <4>2 DEF Extend, HealthConstants, RegistryConstants
      <4> HIDE DEF e
      <4> QED BY <1>2, <4>1, <4>2, <4>3
    <3>2. CASE op[w].id \notin Live
      BY <1>12, <3>2 DEF Extend
    <3> QED BY <3>1, <3>2
  <2> QED BY <1>9, <2>1, <2>2
\* What is taken out of the map goes into a caller's hands.
<1>13. ASSUME NEW w \in Caller, NEW i \in Id, op[w].step \notin {"unrow", "forget"},
              services' = [services EXCEPT ![i] = None], gone' = gone,
              \A v \in Caller \ {w} : op'[v] = op[v],
              op'[w].step \in {"unrow", "forget"}, op'[w].found = i
       PROVE  HealthInv'
  <2>1. services'[i] = None /\ \A j \in Id \ {i} : services'[j] = services[j]
    BY <1>2, <1>13
  <2>2. \A j \in Id : Same(j) /\ New(j)
    BY <2>1
  <2>3. ASSUME NEW s \in check.todo
        PROVE  Out(s)
    <3>1. CASE s.id = i
      BY <1>13, <2>1, <3>1
    <3>2. CASE s.id # i
      BY <1>8, <1>13, <2>1, <3>2
    <3> QED BY <3>1, <3>2
  <2> HIDE DEF Same, New, Out
  <2> QED BY <1>7, <2>2, <2>3
<1>14. ASSUME NEW w \in Caller, Unmap(w)
       PROVE  HealthInv'
  <2> DEFINE o == [op[w] EXCEPT !.step = "unrow"]
  <2>1. op[w] \in Op /\ op[w].step = "unmap" /\ op[w].found \in Id
    BY <1>2, <1>14 DEF Unmap, OpFits
  <2>2. o.step = "unrow" /\ o.found = op[w].found
    BY <2>1 DEF Op
  <2>3. op'[w] = o /\ \A v \in Caller \ {w} : op'[v] = op[v]
    BY <1>2, <1>14 DEF Unmap
  <2>4. services' = [services EXCEPT ![op[w].found] = None] /\ gone' = gone
    BY <1>14 DEF Unmap
  <2> HIDE DEF o
  <2> QED BY <1>13, <2>1, <2>2, <2>3, <2>4
<1>15. ASSUME NEW w \in Caller, NEW i \in Id, Unregister(w, i)
       PROVE  HealthInv'
  <2> DEFINE o == [IdleOp EXCEPT !.step = "forget", !.found = i]
  <2>1. o.step = "forget" /\ o.found = i
    BY DEF IdleOp
  <2>2. op[w].step = "idle" /\ op'[w] = o /\ \A v \in Caller \ {w} : op'[v] = op[v]
    BY <1>2, <1>15 DEF Unregister, IdleOp
  <2>3. services' = [services EXCEPT ![i] = None] /\ gone' = gone
    BY <1>15 DEF Unregister
  <2> HIDE DEF o
  <2> QED BY <1>13, <2>1, <2>2, <2>3
<1>16. ASSUME NEW w \in Caller, Unrow(w)
       PROVE  HealthInv'
  <2>1. /\ op[w].step \in {"unrow", "forget"} /\ op[w].found \in Id /\ services' = services
        /\ gone' = gone \cup {op[w].found} /\ \A v \in Caller \ {w} : op'[v] = op[v]
    BY <1>2, <1>16 DEF Unrow, OpFits
  <2>2. \A j \in Id : Same(j) /\ New(j)
    BY <2>1
  <2>3. ASSUME NEW s \in check.todo
        PROVE  Out(s)
    <3>1. CASE s.id = op[w].found
      BY <1>8, <2>1, <3>1
    <3>2. CASE s.id # op[w].found
      BY <1>8, <2>1, <3>2
    <3> QED BY <3>1, <3>2
  <2> HIDE DEF Same, New, Out
  <2> QED BY <1>7, <2>2, <2>3
<1>17. ASSUME NEW w \in Caller, Insert(w)
       PROVE  HealthInv'
  <2> DEFINE i == op[w].id
             e == NewEntry(op[w].prefix, op[w].name)
  <2>1. op[w].step = "insert" /\ i \in Id /\ services' = [services EXCEPT ![i] = e] /\ gone' = gone
    BY <1>2, <1>17 DEF Insert, OpFits
  <2>2. \A v \in Caller \ {w} : op'[v] = op[v]
    BY <1>2, <1>17 DEF Insert
  <2>3. e.status = "Unknown"
    BY DEF NewEntry
  <2> HIDE DEF e
  <2>4. services'[i] = e /\ \A j \in Id \ {i} : services'[j] = services[j]
    BY <1>2, <2>1
  <2>5. /\ services[i] = None /\ i \notin gone
        /\ \A v \in Caller : op[v].step \in {"unrow", "forget"} => op[v].found # i
    BY <2>1 DEF RegistryInv, Coming
  <2>6. \A s \in check.todo : s.id # i
    BY <1>8, <2>5
  <2>7. \A j \in Id : Same(j) /\ New(j)
    BY <2>3, <2>4, <2>5, <2>6
  <2>8. ASSUME NEW s \in check.todo
        PROVE  Out(s)
    BY <1>8, <2>1, <2>2, <2>4, <2>6
  <2> HIDE DEF Same, New, Out
  <2> QED BY <1>7, <2>7, <2>8
<1> HIDE DEF Out, Same, New
<1> QED BY <1>10, <1>11, <1>12, <1>14, <1>15, <1>16, <1>17 DEF RegistryStep, Register

LEMMA HealthRestartKeeps ==
  ASSUME HealthConstants, RegistryInv, HealthRestart
  PROVE  HealthInv'
<1>1. /\ rows \in [Id -> Row \cup {None}]
      /\ \A i, j \in Id : rows[i] # None /\ rows[j] # None /\ rows[i].prefix = rows[j].prefix => i = j
  BY DEF RegistryInv, Types, Unique
<1>2. /\ Fresh \in SUBSET Id /\ \A i \in Fresh : rows[i] = None
  BY DEF Fresh, Drawn
<1>3. PICK draw \in Draws(rows, Fresh) : services' = BootServices(rows, draw)
  BY DEF HealthRestart, Restart, AnyOf
<1>4. \A i \in Id : services'[i] # None => services'[i].status = "Unknown"
  BY <1>1, <1>2, <1>3, BootAgrees DEF HealthConstants
<1>5. check' = Resting /\ incidents' = <<>> /\ touched' = Shared(services')
  BY DEF HealthRestart
<1>6. check' \in Check /\ check'.step = "rest" /\ check'.todo = {}
  BY <1>5 DEF Resting, Check
<1>7. HealthTypes'
  BY <1>5, <1>6 DEF HealthTypes
<1>8. \A m : Open(m)' = {} /\ Own(m)' = {}
  BY <1>5 DEF Open, Own
<1>9. OneOwn'
  BY <1>6, <1>8 DEF OneOwn
<1>10. Apart'
  BY <1>5 DEF Apart, Shared
<1>11. Departed' /\ Current' /\ Ready'
  BY <1>6 DEF Departed, Current, Ready
<1>12. Agreed'
  BY <1>4 DEF Agreed, Agree
<1> QED BY <1>7, <1>9, <1>10, <1>11, <1>12 DEF HealthInv

LEMMA HealthInitInv ==
  ASSUME HealthConstants, RegistryInit, HealthInit
  PROVE  HealthInv
<1> DEFINE none == [i \in Id |-> None]
<1>1. PICK draw \in Draws(none, Id) : services = BootServices(none, draw)
  BY DEF RegistryInit, AnyOf
<1>2. /\ none \in [Id -> Row \cup {None}] /\ \A i \in Id : none[i] = None
  OBVIOUS
<1> HIDE DEF none
<1>3. \A i \in Id : services[i] # None => services[i].status = "Unknown"
  BY <1>1, <1>2, BootAgrees DEF HealthConstants
<1>4. check = Resting /\ incidents = <<>> /\ touched = Shared(services)
  BY DEF HealthInit
<1>5. check \in Check /\ check.step = "rest" /\ check.todo = {}
  BY <1>4 DEF Resting, Check
<1>6. HealthTypes
  BY <1>4, <1>5 DEF HealthTypes
<1>7. \A m : Open(m) = {} /\ Own(m) = {}
  BY <1>4 DEF Open, Own
<1>8. OneOwn
  BY <1>5, <1>7 DEF OneOwn
<1>9. Apart
  BY <1>4 DEF Apart
<1>10. Departed /\ Current /\ Ready
  BY <1>5 DEF Departed, Current, Ready
<1>11. Agreed
  BY <1>3 DEF Agreed, Agree
<1> QED BY <1>6, <1>8, <1>9, <1>10, <1>11 DEF HealthInv

\* The registry's invariant under the steps of the checker and the administrators.
LEMMA RegistryBesideHealth ==
  ASSUME HealthConstants, RegistryInv, HealthInv, [HealthNext]_<<registryVars, healthVars>>
  PROVE  RegistryInv'
<1>1. RegistryConstants
  BY DEF HealthConstants
<1>2. ASSUME UNCHANGED registryVars
      PROVE  RegistryInv'
  BY <1>1, <1>2, RegistryStepInv
<1>3. CASE Write
  <2>1. check.found \in Status
    BY <1>3 DEF HealthInv, HealthTypes, Write, Result, Status
  <2>2. services' = UpdateStatus(check.at.id, check.found) /\ UNCHANGED <<rows, op, gone, failed, overlapped>>
    BY <1>3 DEF Write
  <2> QED BY <1>1, <2>1, <2>2, StatusKeeps
<1>4. ASSUME NEW i \in Id, NEW r \in Result, AdminCheck(i, r)
      PROVE  RegistryInv'
  <2>1. r \in Status /\ services' = UpdateStatus(i, r) /\ UNCHANGED <<rows, op, gone, failed, overlapped>>
    BY <1>4 DEF AdminCheck, Result, Status
  <2> QED BY <1>1, <2>1, StatusKeeps
<1>5. CASE RegistryStep \/ HealthRestart
  <2>1. RegistryNext
    BY <1>5 DEF RegistryStep, HealthRestart, RegistryNext
  <2> QED BY <1>1, <2>1, RegistryStepInv
<1>6. CASE Round \/ Probe \/ Resolve \/ Look \/ Create \/ UNCHANGED <<registryVars, healthVars>>
  <2>1. UNCHANGED registryVars
    BY <1>6 DEF Round, Probe, Resolve, Look, Create
  <2> QED BY <1>2, <2>1
<1>7. ASSUME NEW names \in Reports, AdminOpen(names)
      PROVE  RegistryInv'
  BY <1>2, <1>7 DEF AdminOpen
<1>8. ASSUME NEW k \in DOMAIN incidents, NEW o \in BOOLEAN, AdminEdit(k, o)
      PROVE  RegistryInv'
  BY <1>2, <1>8 DEF AdminEdit
<1> QED BY <1>3, <1>4, <1>5, <1>6, <1>7, <1>8 DEF HealthNext

LEMMA HealthStepInv ==
  ASSUME HealthConstants, RegistryInv, HealthInv, [HealthNext]_<<registryVars, healthVars>>
  PROVE  HealthInv'
<1>1. CASE UNCHANGED <<registryVars, healthVars>>
  <2>1. UNCHANGED <<services, op, gone, check, incidents, touched>>
    BY <1>1 DEF registryVars, healthVars
  <2>2. \A m : Open(m)' = Open(m) /\ Own(m)' = Own(m)
    BY <2>1, SameIncidents
  <2>3. OneOwn' /\ Apart'
    BY <2>1, <2>2 DEF HealthInv, OneOwn, Apart, Shared
  <2>4. Departed' /\ incidents' \in Seq(Incident)
    BY <2>1 DEF HealthInv, Departed, HealthTypes
  <2> QED BY <2>1, <2>2, <2>3, <2>4, OthersKeep
<1> QED BY <1>1, RoundKeeps, ProbeKeeps, ResolveKeeps, LookKeeps, CreateKeeps, WriteKeeps,
           AdminCheckKeeps, AdminOpenKeeps, AdminEditKeeps, RegistryStepKeeps, HealthRestartKeeps
        DEF HealthNext

LEMMA HealthInvMeans ==
  ASSUME HealthConstants, HealthInv
  PROVE  OneIncidentPerFailure /\ IncidentsFollowStatus
<1>1. OneIncidentPerFailure
  <2> SUFFICES ASSUME NEW n \in Name
               PROVE  Cardinality({k \in Open(n) : incidents[k].own}) <= 1
    BY DEF OneIncidentPerFailure
  <2>1. {k \in Open(n) : incidents[k].own} = Own(n)
    BY Zenon DEF Own
  <2>2. \A k, l \in Own(n) : k = l
    BY DEF HealthInv, OneOwn
  <2>3. CASE Own(n) = {}
    <3>1. Cardinality({}) = 0
      BY FS_EmptySet
    <3>2. Cardinality({k \in Open(n) : incidents[k].own}) = 0
      BY <2>1, <2>3, <3>1, Zenon
    <3> QED BY <3>2
  <2>4. CASE Own(n) # {}
    <3>1. PICK k \in Own(n) : TRUE
      BY <2>4
    <3>2. Own(n) = {k}
      BY <2>2, <3>1
    <3>3. Cardinality({k}) = 1
      BY FS_Singleton
    <3> QED BY <2>1, <3>2, <3>3
  <2> QED BY <2>3, <2>4
<1>2. IncidentsFollowStatus
  BY DEF HealthInv, Agreed, InHand, Agree, IncidentsFollowStatus, Live
<1> QED BY <1>1, <1>2

\* However registrations, rounds and administrators interleave, the checker never
\* has two of its incidents open for one service (health/mod.rs:122) ...
THEOREM FailuresAreReportedOnce ==
  ASSUME HealthConstants
  PROVE  HealthSpec => []OneIncidentPerFailure
<1>1. RegistryInit /\ HealthInit => RegistryInv /\ HealthInv
  BY RegistryInitInv, HealthInitInv DEF HealthConstants
<1>2. RegistryInv /\ HealthInv /\ [HealthNext]_<<registryVars, healthVars>> => (RegistryInv /\ HealthInv)'
  BY RegistryBesideHealth, HealthStepInv
<1> QED BY <1>1, <1>2, HealthInvMeans, PTL DEF HealthSpec

\* ... and between two services of a round statuses and incidents agree for every
\* name that no other hand touched (health/mod.rs, incidents.rs).
THEOREM StatusAndIncidentsAgree ==
  ASSUME HealthConstants
  PROVE  HealthSpec => []IncidentsFollowStatus
<1>1. RegistryInit /\ HealthInit => RegistryInv /\ HealthInv
  BY RegistryInitInv, HealthInitInv DEF HealthConstants
<1>2. RegistryInv /\ HealthInv /\ [HealthNext]_<<registryVars, healthVars>> => (RegistryInv /\ HealthInv)'
  BY RegistryBesideHealth, HealthStepInv
<1> QED BY <1>1, <1>2, HealthInvMeans, PTL DEF HealthSpec

-----------------------------------------------------------------------------
(* The type invariants, and the bounds they name.                            *)
WatchSizes == MaxRestarts \in Nat /\ MaxIncidents \in Nat /\ \A names \in Reports : names \subseteq Name

RegistryBounds == logged \subseteq Id /\ reboots \in 0..MaxRestarts /\ overlapped \subseteq Prefix

\* A boot starts from empty bounds ...
LEMMA RegistryBoundsInit ==
  ASSUME WatchSizes, RegistryInit
  PROVE  RegistryBounds
BY DEF WatchSizes, RegistryInit, RegistryBounds

\* ... and every step keeps them.
LEMMA RegistryBoundsStep ==
  ASSUME WatchSizes, RegistryBounds, [RegistryNext]_registryVars
  PROVE  RegistryBounds'
<1>1. ASSUME NEW w \in Caller, NEW p \in Prefix, NEW n \in Name, Begin(w, p, n) \/ Discover(w, p, n)
      PROVE  RegistryBounds'
  BY <1>1 DEF Discover, Begin, RegistryBounds
<1>2. ASSUME NEW w \in Caller, Register(w)
      PROVE  RegistryBounds'
  BY <1>2 DEF Register, Find, Unmap, Unrow, Save, Insert, Extend, RegistryBounds
<1>3. ASSUME NEW w \in Caller, NEW i \in Id, Unregister(w, i)
      PROVE  RegistryBounds'
  BY <1>3 DEF Unregister, RegistryBounds
<1>4. ASSUME NEW i \in Id, Count(i) \/ Log(i)
      PROVE  RegistryBounds'
  BY <1>4 DEF Count, Log, RegistryBounds
<1>5. CASE Restart
  BY <1>5 DEF Restart, RegistryBounds, WatchSizes
<1>6. CASE UNCHANGED registryVars
  BY <1>6 DEF registryVars, RegistryBounds
<1> QED BY <1>1, <1>2, <1>3, <1>4, <1>5, <1>6 DEF RegistryNext

\* With the invariant they are the type invariant of the registry.
LEMMA RegistryTypes ==
  ASSUME RegistryInv, RegistryBounds
  PROVE  RegistryTypeOK
BY DEF RegistryInv, Types, RegistryBounds, RegistryTypeOK

HealthBounds == RegistryBounds /\ touched \subseteq Name /\ Len(incidents) <= MaxIncidents

LEMMA HealthBoundsInit ==
  ASSUME WatchSizes, RegistryInit, HealthInit
  PROVE  HealthBounds
<1>1. Shared(services) \subseteq Name
  BY DEF Shared
<1> QED BY <1>1, RegistryBoundsInit DEF WatchSizes, HealthInit, HealthBounds

\* A step of the checker, of an administrator or of the registry keeps them too.
LEMMA HealthBoundsStep ==
  ASSUME WatchSizes, Types, HealthTypes, HealthBounds, [HealthNext]_<<registryVars, healthVars>>
  PROVE  HealthBounds'
<1> USE DEF HealthBounds
<1>0. /\ UNCHANGED <<logged, reboots, overlapped>> => RegistryBounds'
      /\ Shared(services') \subseteq Name
      /\ \A i \in Id : services[i] # None => services[i].name \in Name
      /\ \A k \in DOMAIN incidents : incidents[k].of \subseteq Name
      /\ incidents \in Seq(Incident)
  <2>1. UNCHANGED <<logged, reboots, overlapped>> => RegistryBounds'
    BY DEF RegistryBounds
  <2>2. Shared(services') \subseteq Name
    BY DEF Shared
  <2>3. \A i \in Id : services[i] # None => services[i].name \in Name
    BY DEF Types, Entry
  <2>4. \A k \in DOMAIN incidents : incidents[k].of \subseteq Name
    <3>1. \A k \in DOMAIN incidents : incidents[k] \in Incident
      BY DEF HealthTypes
    <3> QED BY <3>1 DEF Incident
  <2> QED BY <2>1, <2>2, <2>3, <2>4 DEF HealthTypes
<1>1. CASE Round \/ Probe \/ Look
  BY <1>0, <1>1 DEF Round, Probe, Look, registryVars
<1>2. CASE Resolve
  BY <1>0, <1>2 DEF Resolve, registryVars
<1>3. CASE Create
  BY <1>0, <1>3 DEF Create, registryVars, WatchSizes
<1>4. CASE Write
  BY <1>0, <1>4 DEF Write
<1>5. ASSUME NEW i \in Id, NEW r \in Result, AdminCheck(i, r)
      PROVE  HealthBounds'
  BY <1>0, <1>5 DEF AdminCheck, Live
<1>6. ASSUME NEW names \in Reports, AdminOpen(names)
      PROVE  HealthBounds'
  BY <1>0, <1>6 DEF AdminOpen, registryVars, WatchSizes
<1>7. ASSUME NEW k \in DOMAIN incidents, NEW open \in BOOLEAN, AdminEdit(k, open)
      PROVE  HealthBounds'
  BY <1>0, <1>7 DEF AdminEdit, registryVars
<1>8. CASE RegistryStep
  <2>1. [RegistryNext]_registryVars
    BY <1>8 DEF RegistryStep, RegistryNext
  <2> QED BY <1>0, <1>8, <2>1, RegistryBoundsStep DEF RegistryStep
<1>9. CASE HealthRestart
  <2>1. [RegistryNext]_registryVars
    BY <1>9 DEF HealthRestart, RegistryNext
  <2> QED BY <1>0, <1>9, <2>1, RegistryBoundsStep DEF HealthRestart, WatchSizes
<1>10. CASE UNCHANGED <<registryVars, healthVars>>
  BY <1>0, <1>10 DEF registryVars, healthVars
<1> QED BY <1>1, <1>2, <1>3, <1>4, <1>5, <1>6, <1>7, <1>8, <1>9, <1>10 DEF HealthNext

LEMMA HealthTypesHold ==
  ASSUME RegistryInv, HealthInv, HealthBounds
  PROVE  HealthTypeOK
BY RegistryTypes DEF HealthInv, HealthTypes, HealthBounds, HealthTypeOK

\* The registry with its types, ...
LEMMA RegistryKept ==
  ASSUME RegistryConstants, WatchSizes
  PROVE  /\ RegistryInit => RegistryInv /\ RegistryBounds
         /\ RegistryInv /\ RegistryBounds /\ [RegistryNext]_registryVars => (RegistryInv /\ RegistryBounds)'
         /\ RegistryInv /\ RegistryBounds => RegistryTypeOK /\ OnePerPrefix /\ Durable /\ GoneForGood
BY RegistryInitInv, RegistryStepInv, RegistryInvMeans, RegistryBoundsInit, RegistryBoundsStep, RegistryTypes

\* ... and the checker over it.
LEMMA HealthKept ==
  ASSUME HealthConstants, WatchSizes
  PROVE  /\ RegistryInit /\ HealthInit => RegistryInv /\ HealthInv /\ HealthBounds
         /\ RegistryInv /\ HealthInv /\ HealthBounds /\ [HealthNext]_<<registryVars, healthVars>> =>
              (RegistryInv /\ HealthInv /\ HealthBounds)'
         /\ RegistryInv /\ HealthInv /\ HealthBounds =>
              HealthTypeOK /\ OneIncidentPerFailure /\ IncidentsFollowStatus
<1>1. RegistryConstants
  BY DEF HealthConstants
<1>2. RegistryInit /\ HealthInit => RegistryInv /\ HealthInv /\ HealthBounds
  BY <1>1, RegistryInitInv, HealthInitInv, HealthBoundsInit
<1>3. RegistryInv /\ HealthInv /\ HealthBounds /\ [HealthNext]_<<registryVars, healthVars>> =>
        (RegistryInv /\ HealthInv /\ HealthBounds)'
  <2>1. RegistryInv /\ HealthInv => Types /\ HealthTypes
    BY DEF RegistryInv, HealthInv
  <2> QED BY <2>1, RegistryBesideHealth, HealthStepInv, HealthBoundsStep
<1>4. RegistryInv /\ HealthInv /\ HealthBounds => HealthTypeOK /\ OneIncidentPerFailure /\ IncidentsFollowStatus
  BY HealthTypesHold, HealthInvMeans
<1> QED BY <1>2, <1>3, <1>4

=============================================================================
