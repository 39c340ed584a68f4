------------------------------ MODULE WafRules ------------------------------
(* The custom rules of the web application firewall (src/middleware/waf.rs)  *)
(* on several gateway nodes that share a bus: rules are added and removed by *)
(* administrators, replayed from the bus, and replaced when the node's       *)
(* configuration changes (spawn_config_sync, src/bootstrap/state.rs).        *)
(*                                                                           *)
(* custom_patterns is behind a write lock, next_rule_id is an atomic beside  *)
(* it: an operation takes steps wherever it reads one outside the other.     *)
EXTENDS Bus

CONSTANTS
  Writers,      \* nodes whose administrators change rules
  Worker,       \* admin requests a node handles at a time
  Subscriber,   \* the bus subscriber's thread
  Sync,         \* the config sync task
  Pattern,      \* regular expressions
  Invalid,      \* those that do not compile
  Configs,      \* Configs[n]: values of waf.custom_block_patterns on node n
  MaxId,        \* bound on the ids drawn on a node
  MaxReloads,   \* MaxReloads[n]: changes of the configuration n sees
  Restartable,  \* nodes that may restart
  MaxRestarts,
  Removes,      \* TRUE if administrators remove rules
  None

ASSUME WafRulesAssumption ==
  /\ Writers \subseteq Node /\ Restartable \subseteq Node
  /\ Subscriber \notin Worker /\ Sync \notin Worker /\ Subscriber # Sync
  /\ Invalid \subseteq Pattern /\ None \notin Pattern
  /\ Configs \in [Node -> SUBSET Seq(Pattern)]
  /\ \A n \in Node : \A c \in Configs[n] : Len(c) <= MaxId
  /\ {MaxId, MaxRestarts} \subseteq Nat /\ MaxReloads \in [Node -> Nat]
  /\ {Lossy, Removes} \subseteq BOOLEAN

Thread == Worker \cup {Subscriber, Sync}

VARIABLES
  rules,      \* rules[n]: custom_patterns of n, a bag: their order is not told apart
  next,       \* next[n]: next_rule_id of n
  holder,     \* holder[n]: the thread inside custom_patterns.write() on n, or None
  task,       \* task[n][t]: what thread t of n is doing
  reloads,    \* reloads[n]: configuration changes n has seen since it started
  restarts    \* restarts so far

vars == <<rules, next, holder, task, reloads, restarts, outbox, chan>>

Id == 1..MaxId
Rule == [id: Id, pattern: Pattern]
Event == [kind: {"added"}, id: Id, pattern: Pattern] \cup [kind: {"removed"}, id: Id]

Idle == [pc |-> "idle"]

IdsOf(v) == {r.id : r \in BagToSet(v)}
Free(n) == holder[n] = None
At(n, t, pc) == task[n][t].pc = pc
Goto(n, t, new) == task' = [task EXCEPT ![n][t] = new]
RuleOf(k) == [id |-> k.id, pattern |-> k.pattern]

\* What loading a configuration makes of it, from id `first` on: the patterns that
\* do not compile draw no id.
Valid(c) == {i \in DOMAIN c : c[i] \notin Invalid}
Before(c, i) == {j \in Valid(c) : j < i}
Loaded(c, first) ==
  SetToBag({[id |-> first + Cardinality(Before(c, i)), pattern |-> c[i]] : i \in Valid(c)})

\* Before it serves, a node loads its configuration.
StartedWith(c) == [rules |-> Loaded(c, 1), next |-> 1 + Cardinality(Valid(c))]

Init ==
  /\ \E c \in [Node -> UNION {Configs[n] : n \in Node}] :
       /\ \A n \in Node : c[n] \in Configs[n]
       /\ rules = [n \in Node |-> StartedWith(c[n]).rules]
       /\ next = [n \in Node |-> StartedWith(c[n]).next]
  /\ holder = [n \in Node |-> None]
  /\ task = [n \in Node |-> [t \in Thread |-> Idle]]
  /\ reloads = [n \in Node |-> 0]
  /\ restarts = 0
  /\ BusInit
-----------------------------------------------------------------------------
(* add_custom_pattern, and apply_add_pattern_with_id shared with the bus.    *)

\* An administrator's add draws an id; a pattern that does not compile is
\* refused after that, and the id is never used.
AddTake(n, w, p) ==
  /\ n \in Writers /\ next[n] <= MaxId
  /\ At(n, w, "idle")
  /\ next' = [next EXCEPT ![n] = @ + 1]
  /\ IF p \in Invalid
     THEN UNCHANGED task
     ELSE Goto(n, w, [pc |-> "apply", id |-> next[n], pattern |-> p])
  /\ UNCHANGED <<rules, holder, reloads, restarts, outbox, chan>>

\* What the thread does when its call returns: only an administrator's add is announced.
Return(n, t, k) ==
  /\ Goto(n, t, Idle)
  /\ IF t \in Worker
     THEN Announce(n, [kind |-> "added", id |-> k.id, pattern |-> k.pattern])
     ELSE UNCHANGED outbox

Present_Unchecked(n, id) == FALSE
\* The id is already among the rules.
Present(n, id) == id \in IdsOf(rules[n])

ApplySkip(n, t) ==
  /\ At(n, t, "apply") /\ Free(n)
  /\ Present(n, task[n][t].id)
  /\ Return(n, t, task[n][t])
  /\ UNCHANGED <<rules, next, holder, reloads, restarts, chan>>

\* The rule is pushed and next_rule_id loaded under the write lock.
ApplyPush(n, t) ==
  LET k == task[n][t] IN
  /\ At(n, t, "apply") /\ Free(n)
  /\ ~ Present(n, k.id)
  /\ rules' = [rules EXCEPT ![n] = @ (+) SetToBag({RuleOf(k)})]
  /\ IF k.id >= next[n]
     THEN /\ holder' = [holder EXCEPT ![n] = t]
          /\ Goto(n, t, [k EXCEPT !.pc = "bump"])
          /\ UNCHANGED outbox
     ELSE /\ Return(n, t, k)
          /\ UNCHANGED holder
  /\ UNCHANGED <<next, reloads, restarts, chan>>

After(id) == id + 1

\* The store does not look at what next_rule_id has become since the load.
Bump(n, t) ==
  LET k == task[n][t] IN
  /\ At(n, t, "bump")
  /\ next' = [next EXCEPT ![n] = After(k.id)]
  /\ holder' = [holder EXCEPT ![n] = None]
  /\ Return(n, t, k)
  /\ UNCHANGED <<rules, reloads, restarts, chan>>

-----------------------------------------------------------------------------
(* Removal, the bus, the configuration, restarts.                            *)

Without(v, id) == [r \in {s \in BagToSet(v) : s.id # id} |-> v[r]]

\* remove_custom_pattern: announced only if there was something to remove.
Remove(n, w, id) ==
  /\ Removes /\ n \in Writers
  /\ At(n, w, "idle") /\ Free(n)
  /\ id \in IdsOf(rules[n])
  /\ rules' = [rules EXCEPT ![n] = Without(@, id)]
  /\ Announce(n, [kind |-> "removed", id |-> id])
  /\ UNCHANGED <<next, holder, task, reloads, restarts, chan>>

Send(n) ==
  /\ Publish(n)
  /\ UNCHANGED <<rules, next, holder, task, reloads, restarts>>

\* Waf::handle in n's subscriber.
HandleAdded_LocalId(n) ==
  /\ At(n, Subscriber, "idle") /\ next[n] < MaxId
  /\ Dispatch(n) /\ NextEvent(n).kind = "added"
  /\ next' = [next EXCEPT ![n] = @ + 1]
  /\ Goto(n, Subscriber, [pc |-> "apply", id |-> next[n], pattern |-> NextEvent(n).pattern])
  /\ UNCHANGED <<rules, holder, reloads, restarts, outbox>>

HandleAdded(n) ==
  /\ At(n, Subscriber, "idle")
  /\ Dispatch(n) /\ NextEvent(n).kind = "added"
  /\ Goto(n, Subscriber, [pc |-> "apply", id |-> NextEvent(n).id,
                          pattern |-> NextEvent(n).pattern])
  /\ UNCHANGED <<rules, next, holder, reloads, restarts, outbox>>

HandleRemoved(n) ==
  /\ At(n, Subscriber, "idle") /\ Free(n)
  /\ Dispatch(n) /\ NextEvent(n).kind = "removed"
  /\ rules' = [rules EXCEPT ![n] = Without(@, NextEvent(n).id)]
  /\ UNCHANGED <<next, holder, task, reloads, restarts, outbox>>

\* load_custom_patterns_from_strings: every valid pattern draws an id of its
\* own before the lock is taken; then the new rules replace all the old ones.
ReloadStart(n, c) ==
  /\ At(n, Sync, "idle") /\ reloads[n] < MaxReloads[n]
  /\ reloads' = [reloads EXCEPT ![n] = @ + 1]
  /\ Goto(n, Sync, [pc |-> "reload", todo |-> c, compiled |-> EmptyBag])
  /\ UNCHANGED <<rules, next, holder, restarts, outbox, chan>>

\* A pattern that does not compile is left out.
ReloadSkip(n) ==
  LET k == task[n][Sync] IN
  /\ At(n, Sync, "reload") /\ k.todo # <<>> /\ Head(k.todo) \in Invalid
  /\ Goto(n, Sync, [k EXCEPT !.todo = Tail(@)])
  /\ UNCHANGED <<rules, next, holder, reloads, restarts, outbox, chan>>

\* next_rule_id after fetch_add(1).
Drawn(n) == next[n] + 1

ReloadTake(n) ==
  LET k == task[n][Sync] IN
  /\ At(n, Sync, "reload") /\ k.todo # <<>> /\ Head(k.todo) \notin Invalid
  /\ next[n] <= MaxId
  /\ next' = [next EXCEPT ![n] = Drawn(n)]
  /\ Goto(n, Sync, [k EXCEPT !.todo = Tail(@),
                             !.compiled = @ (+) SetToBag({[id |-> next[n], pattern |-> Head(k.todo)]})])
  /\ UNCHANGED <<rules, holder, reloads, restarts, outbox, chan>>

ReloadReplace(n) ==
  LET k == task[n][Sync] IN
  /\ At(n, Sync, "reload") /\ k.todo = <<>> /\ Free(n)
  /\ rules' = [rules EXCEPT ![n] = k.compiled]
  /\ Goto(n, Sync, Idle)
  /\ UNCHANGED <<next, holder, reloads, restarts, outbox, chan>>

\* Nothing of the custom rules is persisted.
Restart(n) ==
  /\ n \in Restartable /\ restarts < MaxRestarts
  /\ restarts' = restarts + 1
  /\ \E c \in Configs[n] :
       /\ rules' = [rules EXCEPT ![n] = StartedWith(c).rules]
       /\ next' = [next EXCEPT ![n] = StartedWith(c).next]
  /\ holder' = [holder EXCEPT ![n] = None]
  /\ task' = [task EXCEPT ![n] = [t \in Thread |-> Idle]]
  /\ reloads' = [reloads EXCEPT ![n] = 0]
  /\ BusRestart(n)

Next ==
  \E n \in Node :
    \/ \E w \in Worker : \/ \E p \in Pattern : AddTake(n, w, p)
                         \/ \E id \in Id : Remove(n, w, id)
    \/ \E t \in Worker \cup {Subscriber} : ApplySkip(n, t) \/ ApplyPush(n, t) \/ Bump(n, t)
    \/ Send(n)
    \/ HandleAdded(n)
    \/ HandleRemoved(n)
    \/ \E c \in Configs[n] : ReloadStart(n, c)
    \/ ReloadSkip(n)
    \/ ReloadTake(n)
    \/ ReloadReplace(n)
    \/ Restart(n)

Spec == Init /\ [][Next]_vars

\* Spawned tasks and threads inside a call keep running; administrators,
\* reloads and restarts need not happen.
Fairness ==
  \A n \in Node :
    /\ WF_vars(Send(n))
    /\ WF_vars(HandleAdded(n)) /\ WF_vars(HandleRemoved(n))
    /\ \A t \in Worker \cup {Subscriber} :
         WF_vars(ApplySkip(n, t)) /\ WF_vars(ApplyPush(n, t)) /\ WF_vars(Bump(n, t))

FairSpec == Spec /\ Fairness
-----------------------------------------------------------------------------
(* Properties.                                                               *)

TypeOK ==
  /\ \A n \in Node : BagToSet(rules[n]) \subseteq Rule
  /\ next \in [Node -> 1..(MaxId + 1)]
  /\ holder \in [Node -> Worker \cup {Subscriber, None}]
  /\ \A n \in Node, t \in Thread :
       \/ task[n][t] = Idle
       \/ task[n][t].pc \in {"apply", "bump"} /\ RuleOf(task[n][t]) \in Rule
       \/ task[n][t].pc = "reload" /\ BagToSet(task[n][t].compiled) \subseteq Rule
  /\ \A n \in Node : BagToSet(outbox[n]) \cup {chan[n][i] : i \in DOMAIN chan[n]} \subseteq Event
  /\ \A n \in Node : reloads[n] \in 0..MaxReloads[n]
  /\ restarts \in 0..MaxRestarts

\* No two rules of a node share an id, whatever interleaves between an id being
\* drawn and its rule being installed: removal by id removes one rule
\* (apply_add_pattern_with_id, load_custom_patterns_from_strings).
UniqueIds ==
  \A n \in Node : \A r, s \in BagToSet(rules[n]) : r.id = s.id => r = s /\ rules[n][r] = 1

\* The id an administrator's add has drawn is still free when its rule comes to
\* be installed, so the rule the administrator was told about is there
\* (the bump of next_rule_id in apply_add_pattern_with_id).
AddIsInstalled ==
  \A n \in Node, w \in Worker : At(n, w, "apply") => task[n][w].id \notin IdsOf(rules[n])

\* An id means the same rule on every node, so that WafRuleRemoved { id } removes
\* everywhere the rule its administrator removed (add_custom_pattern).
Coherent ==
  \A m, n \in Node : \A r \in BagToSet(rules[m]), s \in BagToSet(rules[n]) : r.id = s.id => r.pattern = s.pattern

\* A rule that is installed on one node reaches every other one.
Propagates ==
  \A m \in Node : \A n \in Node \ {m}, r \in Rule :
    r \in BagToSet(rules[m]) ~> r \in BagToSet(rules[n])
=============================================================================
