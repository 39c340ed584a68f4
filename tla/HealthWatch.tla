---------------------------- MODULE HealthWatch ----------------------------
(* The health checker (src/health/mod.rs) over the registry, the incidents   *)
(* it opens and resolves (src/observability/incidents.rs), the administrator's*)
(* own check of a service (src/admin/handlers.rs) and their edits of         *)
(* incidents (v2_handlers.rs).                                               *)
(*                                                                           *)
(* The checker works through a snapshot of list_all(): it compares what a    *)
(* probe found with the status of the snapshot, and awaits between looking   *)
(* an incident up, opening it and writing the status.  Incidents are keyed   *)
(* by a service's name, the registry by its id.  Alerts, the status page and *)
(* the SLA counters only receive what a probe found and feed nothing back.   *)
EXTENDS Registry, Sequences

CONSTANTS
  Reports,        \* the sets of names administrators open incidents for
  MaxIncidents    \* bound on the incidents of one process

VARIABLES
  check,      \* the checker: its step, the snapshot left to do, the service at hand
  incidents,  \* IncidentManager.incidents, a Vec
  touched     \* names whose status or incidents another hand changed (history)

healthVars == <<check, incidents, touched>>

Result == {"Up", "Down"}
\* own: opened by the checker and not edited since
Incident == [of: SUBSET Name, open: BOOLEAN, own: BOOLEAN]
Snap == [id: Id, name: Name, status: Status]
Snapshot == {[id |-> i, name |-> services[i].name, status |-> services[i].status] : i \in Live}

Resting == [step |-> "rest", todo |-> {}, at |-> None, found |-> None]
Check == [step: {"rest", "next", "resolve", "look", "create", "write"},
          todo: SUBSET Snap, at: Snap \cup {None}, found: Result \cup {None}]

Open(n) == {k \in DOMAIN incidents : incidents[k].open /\ n \in incidents[k].of}

\* Two live services of one name share incidents.
Shared(table) == {n \in Name : \E i, j \in Id : /\ i # j
                                   /\ table[i] # None /\ table[i].name = n
                                   /\ table[j] # None /\ table[j].name = n}

HealthInit ==
  /\ check = Resting /\ incidents = <<>> /\ touched = Shared(services)

-----------------------------------------------------------------------------
(* One round of start_health_checker.                                        *)
Round ==
  /\ check.step = "rest" /\ Live # {}
  /\ check' = [Resting EXCEPT !.step = "next", !.todo = Snapshot]
  /\ UNCHANGED <<registryVars, incidents, touched>>

\* Up to three requests; what follows depends on the status that the snapshot
\* holds, not on the registry's.
Probe ==
  /\ check.step = "next"
  /\ \E s \in check.todo, r \in Result :
       check' = [check EXCEPT !.at = s, !.found = r,
                   !.step = IF s.status = r THEN "write"
                            ELSE IF r = "Up" THEN "resolve" ELSE "look"]
  /\ UNCHANGED <<registryVars, incidents, touched>>

Resolve_Skipped ==   \* mutant
  /\ check.step = "resolve"
  /\ check' = [check EXCEPT !.step = "write"]
  /\ UNCHANGED <<registryVars, incidents, touched>>

\* resolve_for_service: every open incident that names the service.
Resolve ==
  /\ check.step = "resolve"
  /\ incidents' = [k \in DOMAIN incidents |->
       IF k \in Open(check.at.name) THEN [incidents[k] EXCEPT !.open = FALSE] ELSE incidents[k]]
  /\ check' = [check EXCEPT !.step = "write"]
  /\ UNCHANGED <<registryVars, touched>>

Look_Skipped ==   \* mutant
  /\ check.step = "look"
  /\ check' = [check EXCEPT !.step = "create"]
  /\ UNCHANGED <<registryVars, incidents, touched>>

\* find_active_for_service, then create under another lock.
Look ==
  /\ check.step = "look"
  /\ check' = [check EXCEPT !.step = IF Open(check.at.name) = {} THEN "create" ELSE "write"]
  /\ UNCHANGED <<registryVars, incidents, touched>>

Create ==
  /\ check.step = "create" /\ Len(incidents) < MaxIncidents
  /\ incidents' = Append(incidents, [of |-> {check.at.name}, open |-> TRUE, own |-> TRUE])
  /\ check' = [check EXCEPT !.step = "write"]
  /\ UNCHANGED <<registryVars, touched>>

\* update_status of the id, if it is still registered; then the next service.
UpdateStatus(i, r) == IF i \in Live THEN [services EXCEPT ![i].status = r] ELSE services

Write ==
  /\ check.step = "write"
  /\ services' = UpdateStatus(check.at.id, check.found)
  /\ check' = LET left == check.todo \ {check.at} IN
              IF left = {} THEN Resting ELSE [Resting EXCEPT !.step = "next", !.todo = left]
  /\ UNCHANGED <<rows, logged, op, reboots, gone, failed, overlapped, incidents, touched>>

-----------------------------------------------------------------------------
(* Administrators.                                                           *)
\* check_service_health writes what its own request found, and nothing else.
AdminCheck(i, r) ==
  /\ i \in Live
  /\ services' = UpdateStatus(i, r)
  /\ touched' = touched \cup {services[i].name}
  /\ UNCHANGED <<rows, logged, op, reboots, gone, failed, overlapped, check, incidents>>

\* create_incident for any names.
AdminOpen(names) ==
  /\ Len(incidents) < MaxIncidents
  /\ incidents' = Append(incidents, [of |-> names, open |-> TRUE, own |-> FALSE])
  /\ touched' = touched \cup names
  /\ UNCHANGED <<registryVars, check>>

\* update_incident: any status, also of an incident that was resolved.
AdminEdit(k, open) ==
  /\ k \in DOMAIN incidents
  /\ incidents' = [incidents EXCEPT ![k].open = open, ![k].own = FALSE]
  /\ touched' = touched \cup incidents[k].of
  /\ UNCHANGED <<registryVars, check>>

\* The registry's own steps.
RegistryStep ==
  /\ \/ \E w \in Caller : \/ \E p \in Prefix, n \in Name : Begin(w, p, n) \/ Discover(w, p, n)
                          \/ Register(w) \/ \E i \in Id : Unregister(w, i)
  /\ touched' = touched \cup Shared(services')
  /\ UNCHANGED <<check, incidents>>

\* A restart of the process forgets the incidents and every status.
HealthRestart ==
  /\ Restart
  /\ check' = Resting /\ incidents' = <<>> /\ touched' = Shared(services')

HealthNext ==
  \/ Round \/ Probe \/ Resolve \/ Look \/ Create \/ Write
  \/ \E i \in Id, r \in Result : AdminCheck(i, r)
  \/ \E names \in Reports : AdminOpen(names)
  \/ \E k \in DOMAIN incidents, open \in BOOLEAN : AdminEdit(k, open)
  \/ RegistryStep \/ HealthRestart

HealthSpec == RegistryInit /\ HealthInit /\ [][HealthNext]_<<registryVars, healthVars>>

-----------------------------------------------------------------------------
HealthTypeOK ==
  /\ RegistryTypeOK /\ check \in Check /\ touched \subseteq Name
  /\ incidents \in Seq(Incident) /\ Len(incidents) <= MaxIncidents

\* One failure opens one incident: as long as no administrator reopens one, the
\* checker never has two of its incidents open for a service, although it looks
\* for one and opens it under different locks (health/mod.rs:122).
OneIncidentPerFailure ==
  \A n \in Name : Cardinality({k \in Open(n) : incidents[k].own}) <= 1

\* Between two services of a round, a service is Down if and only if an incident
\* is open for it, and Up only if none is, through replacements, removals and
\* restarts, for every name that no administrator and no second service touched.
IncidentsFollowStatus ==
  check.step \in {"rest", "next"} =>
    \A i \in Live : services[i].name \notin touched =>
      /\ services[i].status = "Down" => Open(services[i].name) # {}
      /\ services[i].status = "Up" => Open(services[i].name) = {}

=============================================================================
