----------------------------- MODULE MCProgress -----------------------------
(* What must eventually happen, in three components that share no state: the  *)
(* circuit breaker of a service whose upstreams heal, a rule on its way to    *)
(* another node, and the cron daemon.  A behaviour is one of the component    *)
(* that `part` names; the others stay in an initial state.                    *)
EXTENDS Integers, Sequences, FiniteSets, TLC

CONSTANTS None

VARIABLES
  part,
  brk, cfg, req, conns, turn, healthy, good, stale,                \* CircuitBreaker
  rules, next, holder, task, reloads, restarts, outbox, chan,      \* WafRules
  jobs, cronRows, inFlight, running, handles, saving, adding, removing, crashes, removed, raced

Breaker == INSTANCE CircuitBreaker WITH
  Request <- 1..3, Upstreams <- 1, Strategy <- "round-robin",
  Configs <- {[threshold |-> 2, reset |-> 1, probes |-> 3]},
  U32Max <- 3, Horizon <- 1, CacheHits <- FALSE, MaxLeaked <- 0

\* Administrators add on one of two nodes; the bus loses nothing.
NoPatterns == [n \in {"a", "b"} |-> {<<>>}]
NoChange == [n \in {"a", "b"} |-> 0]
Waf == INSTANCE WafRules WITH
  Node <- {"a", "b"}, Lossy <- FALSE, Writers <- {"a"}, Worker <- {"v", "w"}, Subscriber <- "bus",
  Sync <- "sync", Pattern <- {"r", "s"}, Invalid <- {}, Configs <- NoPatterns,
  MaxId <- 2, MaxReloads <- NoChange, Restartable <- {}, MaxRestarts <- 0, Removes <- FALSE

EverySecond == <<1, 2>>
Scheduler == INSTANCE Cron WITH
  Job <- {1, 2}, Every <- EverySecond, MaxCrashes <- 1, NoJob <- None

breakerVars == <<brk, cfg, req, conns, turn, healthy, good, stale>>
wafVars == <<rules, next, holder, task, reloads, restarts, outbox, chan>>
cronVars == <<jobs, cronRows, inFlight, running, handles, saving, adding, removing, crashes,
              removed, raced>>
everything == <<part, breakerVars, wafVars, cronVars>>

Init ==
  /\ part \in {"breaker", "waf", "cron"}
  /\ Breaker!Init /\ Waf!Init /\ Scheduler!CronInit

Next ==
  \/ part = "breaker" /\ Breaker!Next /\ UNCHANGED <<part, wafVars, cronVars>>
  \/ part = "waf" /\ Waf!Next /\ UNCHANGED <<part, breakerVars, cronVars>>
  \/ part = "cron" /\ Scheduler!CronNext /\ UNCHANGED <<part, breakerVars, wafVars>>

\* The fairness of the three components' modules, each of the part that runs.
BreakerFairness ==
  /\ WF_breakerVars(part = "breaker" /\ Breaker!Tick)
  /\ WF_breakerVars(part = "breaker" /\ Breaker!Heal)
  /\ WF_breakerVars(part = "breaker" /\ \E r \in 1..3 : Breaker!Arrive(r))
  /\ \A r \in 1..3 : /\ WF_breakerVars(part = "breaker" /\ Breaker!Forward(r))
                     /\ WF_breakerVars(part = "breaker" /\ Breaker!Finish(r))

WafFairness ==
  \A n \in {"a", "b"} :
    /\ WF_wafVars(part = "waf" /\ Waf!Send(n))
    /\ WF_wafVars(part = "waf" /\ Waf!HandleAdded(n))
    /\ \A t \in {"v", "w", "bus"} :
         /\ WF_wafVars(part = "waf" /\ Waf!ApplySkip(n, t))
         /\ WF_wafVars(part = "waf" /\ Waf!ApplyPush(n, t))
         /\ WF_wafVars(part = "waf" /\ Waf!Bump(n, t))

CronFairness ==
  /\ WF_cronVars(part = "cron" /\ Scheduler!Second)
  /\ WF_cronVars(part = "cron" /\ Scheduler!TakeDue)
  /\ WF_cronVars(part = "cron" /\ Scheduler!Collect)
  /\ WF_cronVars(part = "cron" /\ Scheduler!Persist)
  /\ \A j \in {1, 2} : /\ WF_cronVars(part = "cron" /\ Scheduler!Push(j))
                      /\ WF_cronVars(part = "cron" /\ Scheduler!Retain(j))
                      /\ WF_cronVars(part = "cron" /\ Scheduler!Finish(j))

Spec == Init /\ [][Next]_everything /\ BreakerFairness /\ WafFairness /\ CronFairness

-----------------------------------------------------------------------------
\* Once its upstreams have recovered a service is served again for good
\* (gateway/circuit_breaker.rs).
Recovers == part = "breaker" => Breaker!Recovers

\* A rule installed on the writing node reaches the other one
\* (middleware/waf.rs, bus/redis_bus.rs).
Propagates == part = "waf" => Waf!Propagates

\* However long other jobs take, a job that stays is run again and again
\* (automation/cron.rs, tick).
EveryJobRuns == part = "cron" => Scheduler!EveryJobRuns

=============================================================================
