------------------------------ MODULE DataFeed ------------------------------
(* The data pipeline (src/datapipeline/pipeline.rs): check_changes takes a   *)
(* snapshot of the watchers, lets a task of its own fetch each endpoint and  *)
(* tell its webhook, and merges what the tasks bring back under the lock;    *)
(* record_event fills a buffer that is flushed, under its lock, when full.   *)
EXTENDS Integers, FiniteSets

CONSTANTS
  Checker,      \* callers of check_changes
  Sink,         \* TRUE when a sink_url is configured
  BufferSize,
  MaxVersions,  \* bound on the versions of the watched document
  MaxEvents,    \* bound on the events recorded
  Idle

VARIABLES
  version,      \* the version of the document an endpoint returns, from 1
  watcher,      \* its watcher: the version last seen (0: none) and change_count
  check,        \* check[c]: the snapshot of c and how far its task is
  fetched,      \* the version fetched last, 0: none (history)
  told,         \* POSTs to the webhook (history)
  overlapped,   \* two checks were under way at once (history)
  buffer,       \* analytics_buffer, and the batch on its way to the sink
  events        \* events recorded, delivered and lost (history)

feedVars == <<version, watcher, check, fetched, told, overlapped, buffer, events>>

FeedInit ==
  /\ version = 1 /\ watcher = [seen |-> 0, changes |-> 0]
  /\ check = [c \in Checker |-> Idle] /\ fetched = 0 /\ told = 0
  /\ overlapped = FALSE
  /\ buffer = [kept |-> 0, batch |-> 0]
  /\ events = [recorded |-> 0, delivered |-> 0, lost |-> 0]

Edit ==
  /\ version < MaxVersions /\ version' = version + 1
  /\ UNCHANGED <<watcher, check, fetched, told, overlapped, buffer, events>>

Snapshot(c) ==
  /\ check[c] = Idle
  /\ check' = [check EXCEPT ![c] = [step |-> "fetch", last |-> watcher.seen, found |-> 0]]
  /\ overlapped' = (overlapped \/ \E b \in Checker : check[b] # Idle)
  /\ UNCHANGED <<version, watcher, fetched, told, buffer, events>>

Changed(k) == k.last # 0 /\ k.found # k.last

\* The GET; one that fails leaves nothing to merge.
Fetch(c) ==
  /\ check[c] # Idle /\ check[c].step = "fetch"
  /\ \/ LET k == [check[c] EXCEPT !.found = version] IN
        /\ check' = [check EXCEPT ![c] = [k EXCEPT !.step = IF Changed(k) THEN "tell" ELSE "merge"]]
        /\ fetched' = version
     \/ check' = [check EXCEPT ![c] = Idle] /\ UNCHANGED fetched
  /\ UNCHANGED <<version, watcher, told, overlapped, buffer, events>>

\* The POST, whatever comes of it.
Tell(c) ==
  /\ check[c] # Idle /\ check[c].step = "tell"
  /\ told' = told + 1 /\ check' = [check EXCEPT ![c].step = "merge"]
  /\ UNCHANGED <<version, watcher, fetched, overlapped, buffer, events>>

Merge(c) ==
  /\ check[c] # Idle /\ check[c].step = "merge"
  /\ watcher' = [seen |-> check[c].found,
                 changes |-> watcher.changes + IF Changed(check[c]) THEN 1 ELSE 0]
  /\ check' = [check EXCEPT ![c] = Idle]
  /\ UNCHANGED <<version, fetched, told, overlapped, buffer, events>>

\* record_event; with a batch on its way the lock is taken.
RecordEvent ==
  /\ buffer.batch = 0 /\ events.recorded < MaxEvents
  /\ LET n == buffer.kept + 1 IN
     IF n < BufferSize
     THEN buffer' = [buffer EXCEPT !.kept = n] /\ events' = [events EXCEPT !.recorded = @ + 1]
     ELSE /\ buffer' = [kept |-> 0, batch |-> IF Sink THEN n ELSE 0]
          /\ events' = [events EXCEPT !.recorded = @ + 1, !.lost = IF Sink THEN @ ELSE @ + n]
  /\ UNCHANGED <<version, watcher, check, fetched, told, overlapped>>

\* The sink answers or fails; nothing is sent again.
FlushBuffer(ok) ==
  /\ buffer.batch > 0
  /\ events' = IF ok THEN [events EXCEPT !.delivered = @ + buffer.batch]
               ELSE [events EXCEPT !.lost = @ + buffer.batch]
  /\ buffer' = [buffer EXCEPT !.batch = 0]
  /\ UNCHANGED <<version, watcher, check, fetched, told, overlapped>>

FeedNext ==
  \/ Edit \/ RecordEvent \/ \E ok \in BOOLEAN : FlushBuffer(ok)
  \/ \E c \in Checker : Snapshot(c) \/ Fetch(c) \/ Tell(c) \/ Merge(c)

FeedSpec == FeedInit /\ [][FeedNext]_feedVars

-----------------------------------------------------------------------------
FeedTypeOK ==
  /\ version \in 1..MaxVersions /\ watcher.seen \in 0..MaxVersions
  /\ \A c \in Checker : check[c] # Idle => check[c].step \in {"fetch", "tell", "merge"}
  /\ buffer \in [kept: 0..BufferSize, batch: 0..BufferSize]

\* change_count is the number of times the webhook was told, but for checks
\* between the two; while checks do not overlap the watcher remembers what was
\* fetched last and its webhook is told at most once per edit (an overlap tells
\* twice, and a late merge brings an old version back, pipeline.rs:137); and
\* every event is kept, on its way, delivered or given up.
FeedHolds ==
  /\ told = watcher.changes
            + Cardinality({c \in Checker : check[c] # Idle /\ check[c].step = "merge"
                                             /\ Changed(check[c])})
  /\ ~overlapped => told < version /\ watcher.seen <= version
                    /\ (watcher.changes > 0 => watcher.changes < watcher.seen)
                    /\ ((\A c \in Checker : check[c] = Idle) => watcher.seen = fetched)
  /\ events.recorded = buffer.kept + buffer.batch + events.delivered + events.lost
  /\ buffer.kept < BufferSize

=============================================================================
