------------------------------ MODULE Registry ------------------------------
(* The service registry of one gateway (src/registry/mod.rs) over its SQLite *)
(* tables services and request_logs (src/registry/storage.rs), with the      *)
(* callers that register: administrators, Consul, DNS and Docker discovery.  *)
(*                                                                           *)
(* `services` is a DashMap and each statement takes the connection's mutex   *)
(* by itself, so a registration is a sequence of steps: op[w] is what caller *)
(* w remembers between two of them.  A service is named by its prefix and    *)
(* stands for the rest of its request by `name`.  request_logs references    *)
(* services with foreign_keys=ON: a row that a logged request names can be   *)
(* neither deleted nor replaced, and the code only logs that failure.        *)
EXTENDS Integers, FiniteSets

CONSTANTS
  Id,              \* service ids; a uuid is drawn once
  Prefix,          \* normalized prefixes
  Name,            \* what a request asks to be registered under a prefix
  Caller,          \* threads and tasks that register and unregister
  ConfigServices,  \* prefix -> name of the configuration file's services
  Flush,           \* requests between two writes of request_count (100)
  MaxRequests,     \* bound on the requests of a service
  MaxRestarts,     \* bound on process restarts
  Extras,          \* TRUE if discovery may find several instances of a service
  StorageFaults,   \* TRUE if any statement may fail
  None

Status == {"Unknown", "Up", "Down"}
Row == [name: Name, prefix: Prefix, count: 0..MaxRequests]
Entry == [name: Name, prefix: Prefix, count: 0..MaxRequests,
          status: Status, more: BOOLEAN]   \* more: upstreams beyond the first

VARIABLES
  services,   \* the map: Id -> Entry or None
  rows,       \* table services: Id -> Row or None
  logged,     \* ids that request_logs names
  op,         \* op[w]: the call caller w is in
  reboots,    \* restarts so far
  gone,       \* ids that a call removed and answered (history)
  failed,     \* ids a statement failed on (history)
  overlapped  \* prefixes two registrations worked on at once (history)

registryVars == <<services, rows, logged, op, reboots, gone, failed, overlapped>>

IdleOp == [step |-> "idle", prefix |-> None, name |-> None, found |-> None, id |-> None]
Op == [step: {"idle", "find", "unmap", "unrow", "forget", "save", "insert", "extend"},
       prefix: Prefix \cup {None}, name: Name \cup {None},
       found: Id \cup {None}, id: Id \cup {None}]

Live == {i \in Id : services[i] # None}
Drawn == Live \cup gone \cup {i \in Id : rows[i] # None}
         \cup UNION {{op[w].id, op[w].found} : w \in Caller}
\* A uuid is drawn once, and one that nobody has is as good as another.
AnyOf(S) == IF S = {} THEN {} ELSE {CHOOSE x \in S : TRUE}
Fresh == Id \ Drawn

\* find_by_prefix: whichever entry the iteration meets first.
FindByPrefix(p) == {i \in Live : services[i].prefix = p}

NewEntry(p, n) == [name |-> n, prefix |-> p, count |-> 0, status |-> "Unknown", more |-> FALSE]
AsRow(e) == [name |-> e.name, prefix |-> e.prefix, count |-> e.count]
Loaded_FromZero(r) == [NewEntry(r.prefix, r.name) EXCEPT !.count = 0]   \* mutant

Loaded(r) == [name |-> r.name, prefix |-> r.prefix, count |-> r.count,
              status |-> "Unknown", more |-> FALSE]

\* The statements.  Each yields the table it may leave behind.
RemoveService(i) ==
  IF i \in logged THEN {rows}
  ELSE {[rows EXCEPT ![i] = None]} \cup (IF StorageFaults THEN {rows} ELSE {})

\* INSERT OR REPLACE: the row of another id with the same prefix gives way.
Conflicting(p, i) == {j \in Id \ {i} : rows[j] # None /\ rows[j].prefix = p}
SaveService(e, i) ==
  IF Conflicting(e.prefix, i) \cap logged # {} THEN {rows}
  ELSE {[j \in Id |-> IF j = i THEN AsRow(e)
                      ELSE IF j \in Conflicting(e.prefix, i) THEN None ELSE rows[j]]}
       \cup (IF StorageFaults THEN {rows} ELSE {})

UpdateCount(i, n) ==
  {IF rows[i] = None THEN rows ELSE [rows EXCEPT ![i].count = n]}
  \cup (IF StorageFaults THEN {rows} ELSE {})

-----------------------------------------------------------------------------
(* with_storage and load_from_config: every row comes back, and a configured *)
(* service whose prefix is still free is registered under a fresh id.        *)
Missing(table) == {p \in DOMAIN ConfigServices :
                     \A i \in Id : table[i] = None \/ table[i].prefix # p}
Draws(table, free) == {draw \in [Missing(table) -> free] :
                         \A p, q \in Missing(table) : draw[p] = draw[q] => p = q}
FromConfig(draw) == [i \in {draw[p] : p \in DOMAIN draw} |->
                       LET p == CHOOSE p \in DOMAIN draw : draw[p] = i IN
                       NewEntry(p, ConfigServices[p])]
BootServices(table, draw) ==
  [i \in Id |-> IF i \in DOMAIN FromConfig(draw) THEN FromConfig(draw)[i]
               ELSE IF table[i] # None THEN Loaded(table[i]) ELSE None]
BootRows(table, draw) ==
  [i \in Id |-> IF i \in DOMAIN FromConfig(draw) THEN AsRow(FromConfig(draw)[i]) ELSE table[i]]

RegistryInit ==
  /\ \E draw \in AnyOf(Draws([i \in Id |-> None], Id)) :
       /\ services = BootServices([i \in Id |-> None], draw)
       /\ rows = BootRows([i \in Id |-> None], draw)
  /\ logged = {} /\ op = [w \in Caller |-> IdleOp] /\ reboots = 0
  /\ gone = {} /\ failed = {} /\ overlapped = {}

Working(p) == {w \in Caller : op[w].prefix = p}

\* register and register_advanced: start, from a request that names p and n.
Begin(w, p, n) ==
  /\ op[w] = IdleOp
  /\ op' = [op EXCEPT ![w] = [IdleOp EXCEPT !.step = "find", !.prefix = p, !.name = n]]
  /\ overlapped' = IF Working(p) # {} THEN overlapped \cup {p} ELSE overlapped
  /\ UNCHANGED <<services, rows, logged, reboots, gone, failed>>

\* Discovery registers only a prefix it finds free; nothing holds it free.
Discover(w, p, n) == FindByPrefix(p) = {} /\ Begin(w, p, n)

Find(w) ==
  /\ op[w].step = "find"
  /\ LET found == FindByPrefix(op[w].prefix) IN
     IF found = {} THEN op' = [op EXCEPT ![w].step = "save"]
     ELSE \E i \in found : op' = [op EXCEPT ![w].step = "unmap", ![w].found = i]
  /\ UNCHANGED <<services, rows, logged, reboots, gone, failed, overlapped>>

Unmap_Skipped(w) ==   \* mutant
  /\ op[w].step = "unmap"
  /\ op' = [op EXCEPT ![w].step = "unrow"]
  /\ UNCHANGED <<services, rows, logged, reboots, gone, failed, overlapped>>

Unmap(w) ==
  /\ op[w].step = "unmap"
  /\ services' = [services EXCEPT ![op[w].found] = None]
  /\ op' = [op EXCEPT ![w].step = "unrow"]
  /\ UNCHANGED <<rows, logged, reboots, gone, failed, overlapped>>

Unrow_Skipped(w) ==   \* mutant
  /\ op[w].step \in {"unrow", "forget"}
  /\ gone' = gone \cup {op[w].found}
  /\ op' = [op EXCEPT ![w] = IF @.step = "forget" THEN IdleOp
                             ELSE [@ EXCEPT !.step = "save", !.found = None]]
  /\ UNCHANGED <<services, rows, logged, reboots, failed, overlapped>>

\* remove_service; a failure is a warning in the log.
Unrow(w) ==
  /\ op[w].step \in {"unrow", "forget"}
  /\ LET i == op[w].found IN
     /\ rows' \in RemoveService(i)
     /\ failed' = IF rows'[i] # None THEN failed \cup {i} ELSE failed
     /\ gone' = gone \cup {i}
  /\ op' = [op EXCEPT ![w] = IF @.step = "forget" THEN IdleOp
                             ELSE [@ EXCEPT !.step = "save", !.found = None]]
  /\ UNCHANGED <<services, logged, reboots, overlapped>>

Save(w) ==
  /\ op[w].step = "save"
  /\ \E i \in AnyOf(Fresh) :
       /\ rows' \in SaveService(NewEntry(op[w].prefix, op[w].name), i)
       /\ failed' = IF rows'[i] = None THEN failed \cup {i} ELSE failed
       /\ op' = [op EXCEPT ![w].step = "insert", ![w].id = i]
  /\ UNCHANGED <<services, logged, reboots, gone, overlapped>>

Insert(w) ==
  /\ op[w].step = "insert"
  /\ services' = [services EXCEPT ![op[w].id] = NewEntry(op[w].prefix, op[w].name)]
  /\ \E next \in {IdleOp} \cup (IF Extras THEN {[op[w] EXCEPT !.step = "extend"]} ELSE {}) :
       op' = [op EXCEPT ![w] = next]
  /\ UNCHANGED <<rows, logged, reboots, gone, failed, overlapped>>

\* set_upstreams: of the id just registered, if it is still there; no row.
Extend(w) ==
  /\ op[w].step = "extend"
  /\ services' = IF op[w].id \in Live THEN [services EXCEPT ![op[w].id].more = TRUE] ELSE services
  /\ op' = [op EXCEPT ![w] = IdleOp]
  /\ UNCHANGED <<rows, logged, reboots, gone, failed, overlapped>>

Unregister(w, i) ==
  /\ op[w] = IdleOp /\ i \in Live
  /\ services' = [services EXCEPT ![i] = None]
  /\ op' = [op EXCEPT ![w] = [IdleOp EXCEPT !.step = "forget", !.found = i]]
  /\ UNCHANGED <<rows, logged, reboots, gone, failed, overlapped>>

\* increment_request_count, under the entry's guard.
Count(i) ==
  /\ i \in Live /\ services[i].count < MaxRequests
  /\ LET n == services[i].count + 1 IN
     /\ services' = [services EXCEPT ![i].count = n]
     /\ IF n % Flush = 0
        THEN /\ rows' \in UpdateCount(i, n)
             /\ failed' = IF rows' = rows /\ rows[i] # None THEN failed \cup {i} ELSE failed
        ELSE UNCHANGED <<rows, failed>>
  /\ UNCHANGED <<logged, op, reboots, gone, overlapped>>

\* RequestLogger: log_request after the answer, of an id looked up before it.
\* An id without a row violates the foreign key and is not logged.
Log(i) ==
  /\ rows[i] # None /\ i \notin logged
  /\ \A w \in Caller : ~(op[w].step = "insert" /\ op[w].id = i)
  /\ logged' = logged \cup {i}
  /\ UNCHANGED <<services, rows, op, reboots, gone, failed, overlapped>>

Restart ==
  /\ reboots < MaxRestarts
  /\ reboots' = reboots + 1
  /\ op' = [w \in Caller |-> IdleOp]
  /\ \E draw \in AnyOf(Draws(rows, Fresh)) :
       services' = BootServices(rows, draw) /\ rows' = BootRows(rows, draw)
  /\ failed' = {i \in failed : rows[i] # None}
  /\ overlapped' = {}
  /\ UNCHANGED <<logged, gone>>

Register(w) == Find(w) \/ Unmap(w) \/ Unrow(w) \/ Save(w) \/ Insert(w) \/ Extend(w)

RegistryNext ==
  \/ \E w \in Caller : \/ \E p \in Prefix, n \in Name : Begin(w, p, n) \/ Discover(w, p, n)
                       \/ Register(w)
                       \/ \E i \in Id : Unregister(w, i)
  \/ \E i \in Id : Count(i) \/ Log(i)
  \/ Restart

RegistrySpec == RegistryInit /\ [][RegistryNext]_registryVars

-----------------------------------------------------------------------------
RegistryTypeOK ==
  /\ services \in [Id -> Entry \cup {None}] /\ rows \in [Id -> Row \cup {None}]
  /\ logged \subseteq Id /\ op \in [Caller -> Op] /\ reboots \in 0..MaxRestarts
  /\ gone \subseteq Id /\ failed \subseteq Id /\ overlapped \subseteq Prefix

\* A prefix names one service, unless two registrations of it overlapped since
\* the last restart: register finds the old entry and inserts the new one with
\* no lock in between (registry/mod.rs:101).
OnePerPrefix == \A p \in Prefix \ overlapped : Cardinality(FindByPrefix(p)) <= 1

\* A restart costs a service at most Flush - 1 counted requests: an entry whose
\* statements succeeded is backed by a row of its own, even while another
\* service replaces or leaves its neighbours.
Durable ==
  \A i \in Live \ failed : services[i].prefix \notin overlapped =>
    /\ rows[i] # None /\ rows[i].name = services[i].name
    /\ services[i].count - rows[i].count \in 0..Flush-1

\* A service that was unregistered or replaced never comes back, not even at a
\* restart in the middle of other registrations, unless its delete failed.
GoneForGood == \A i \in gone \ failed : services[i] = None /\ rows[i] = None

\* "DELETE /xira/services/{id}: remove the service" (README.md:289): an answered
\* removal is final.
UnregisterSticks == gone \cap Live = {}

=============================================================================
