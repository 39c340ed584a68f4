---------------------------- MODULE Backpressure ----------------------------
(* The request queue (src/gateway/request_queue.rs): a semaphore in front of *)
(* max_concurrent requests and a depth counter under a lock of its own.      *)
(* Counter and semaphore change in separate steps, a permit gives its place  *)
(* back before the task that decrements the counter runs, and a request that *)
(* is dropped while it waits, for its permit or for the lock that counts its *)
(* refusal, runs no code at all.                                             *)
EXTENDS Integers, FiniteSets

CONSTANTS
  Client,
  MaxConcurrent,
  MaxAbandoned,   \* bound on the requests dropped while they wait
  MaxLeaving      \* bound on the tasks of dropped permits

VARIABLES
  enabled,    \* fixed when the queue is made
  depth,      \* QueueStats.current_depth
  place,      \* where each client is
  permits,    \* permits given out
  leaving,    \* tasks of dropped permits that have still to run
  abandoned   \* requests dropped while they waited (history)

queueVars == <<enabled, depth, place, permits, leaving, abandoned>>

In(p) == {c \in Client : place[c] = p}
Full == 2 * MaxConcurrent

QueueInit ==
  /\ enabled \in BOOLEAN /\ depth = 0 /\ place = [c \in Client |-> "out"]
  /\ permits = 0 /\ leaving = 0 /\ abandoned = 0

\* acquire, under the lock: a place in the queue, or a refusal.
Enqueue(c) ==
  /\ place[c] = "out"
  /\ \/ ~enabled /\ place' = [place EXCEPT ![c] = "waiting"] /\ UNCHANGED depth
     \/ /\ enabled /\ depth + 1 <= Full
        /\ place' = [place EXCEPT ![c] = "waiting"] /\ depth' = depth + 1
     \/ /\ enabled /\ depth + 1 > Full
        /\ UNCHANGED <<place, depth>>
  /\ UNCHANGED <<enabled, permits, leaving, abandoned>>

GetPermit(c) ==
  /\ place[c] = "waiting" /\ permits < MaxConcurrent
  /\ place' = [place EXCEPT ![c] = "holding"] /\ permits' = permits + 1
  /\ UNCHANGED <<enabled, depth, leaving, abandoned>>

\* After 30 seconds; only an enabled queue waits with a timeout.
TimeOut(c) ==
  /\ enabled /\ place[c] = "waiting"
  /\ place' = [place EXCEPT ![c] = "refused"]
  /\ UNCHANGED <<enabled, depth, permits, leaving, abandoned>>

CountRefusal_Forgotten(c) ==   \* mutant
  /\ place[c] = "refused" /\ place' = [place EXCEPT ![c] = "out"]
  /\ UNCHANGED <<enabled, depth, permits, leaving, abandoned>>

CountRefusal(c) ==
  /\ place[c] = "refused"
  /\ place' = [place EXCEPT ![c] = "out"] /\ depth' = depth - 1
  /\ UNCHANGED <<enabled, permits, leaving, abandoned>>

\* The handler is dropped with its client, at the semaphore or at the second
\* lock of the queue.
Abandon(c) ==
  /\ place[c] \in {"waiting", "refused"} /\ abandoned < MaxAbandoned
  /\ place' = [place EXCEPT ![c] = "out"] /\ abandoned' = abandoned + 1
  /\ UNCHANGED <<enabled, depth, permits, leaving>>

\* QueuePermit is dropped: a task is spawned, the semaphore is released.
DropPermit(c) ==
  /\ place[c] = "holding" /\ leaving < MaxLeaving
  /\ place' = [place EXCEPT ![c] = "out"] /\ permits' = permits - 1
  /\ leaving' = leaving + 1
  /\ UNCHANGED <<enabled, depth, abandoned>>

Leave ==
  /\ leaving > 0 /\ leaving' = leaving - 1
  /\ depth' = IF depth > 0 THEN depth - 1 ELSE 0     \* saturating_sub
  /\ UNCHANGED <<enabled, place, permits, abandoned>>

QueueNext ==
  \/ \E c \in Client : Enqueue(c) \/ GetPermit(c) \/ TimeOut(c) \/ CountRefusal(c)
                       \/ Abandon(c) \/ DropPermit(c)
  \/ Leave

QueueSpec == QueueInit /\ [][QueueNext]_queueVars

-----------------------------------------------------------------------------
QueueTypeOK ==
  /\ enabled \in BOOLEAN /\ depth \in 0..Full /\ permits \in 0..MaxConcurrent
  /\ place \in [Client -> {"out", "waiting", "holding", "refused"}]
  /\ leaving \in 0..MaxLeaving /\ abandoned \in 0..MaxAbandoned

\* The depth that decides about refusals counts every request in the queue and
\* every permit whose task has still to run, and nothing else but the requests
\* that were dropped while they waited, for a permit or, after the timeout, for
\* the lock: those count for ever.
DepthIsExplained ==
  enabled => depth = Cardinality(In("waiting") \cup In("holding") \cup In("refused"))
                     + leaving + abandoned

=============================================================================
