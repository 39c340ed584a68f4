----------------------------- MODULE AuditTrail -----------------------------
(* The audit log (src/middleware/audit_log.rs) and its sinks                 *)
(* (src/middleware/audit_sink.rs): log hands a copy of the entry to a        *)
(* bounded channel without waiting, then inserts it into the append-only     *)
(* table; one task takes entries from the channel and writes each to every   *)
(* sink in turn.  Any write may fail, and the process may die.               *)
EXTENDS Integers, Sequences, FiniteSets, SequencesExt

CONSTANTS
  Entry,       \* audit entries, one per request
  Worker,      \* threads that log
  Sinks,       \* the configured sinks, in their order: a sequence
  Buffer,      \* buffer_size
  NoEntry

VARIABLES
  channel,     \* entries sent and not received
  hand,        \* the entry the task writes and the sink it is at, or NoEntry
  table,       \* audit_log, in the order of its rows
  out,         \* out[s]: what sink s has got
  worker,      \* worker[w]: the entry w has dispatched and not inserted, or NoEntry
  sent,        \* entries the channel took, in order (history)
  refused,     \* DB_PERSIST_ERRORS "audit_sink_buffer_full"
  errors,      \* DB_PERSIST_ERRORS of the table and of every sink
  lost      \* entries lost with the process: from the channel, from the table (history)

trailVars == <<channel, hand, table, out, worker, sent, refused, errors, lost>>

SinkNo == DOMAIN Sinks
Places == SinkNo \cup {0}               \* 0: the table

TrailInit ==
  /\ channel = <<>> /\ hand = NoEntry /\ table = <<>> /\ out = [s \in SinkNo |-> <<>>]
  /\ worker = [w \in Worker |-> NoEntry] /\ sent = <<>> /\ refused = 0
  /\ errors = [p \in Places |-> 0] /\ lost = [channel |-> {}, table |-> {}]

Seen == ToSet(table) \cup ToSet(sent) \cup {worker[w] : w \in Worker} \cup lost.table

\* dispatch: try_send; a full channel keeps what it holds.  Without sinks the
\* receiver is gone and nothing is counted.
Dispatch(w, e) ==
  /\ worker[w] = NoEntry /\ e \notin Seen
  /\ worker' = [worker EXCEPT ![w] = e]
  /\ IF Sinks = <<>> THEN UNCHANGED <<channel, sent, refused>>
     ELSE IF Len(channel) < Buffer
     THEN channel' = Append(channel, e) /\ sent' = Append(sent, e) /\ UNCHANGED refused
     ELSE refused' = refused + 1 /\ UNCHANGED <<channel, sent>>
  /\ UNCHANGED <<hand, table, out, errors, lost>>

\* INSERT INTO audit_log; triggers forbid UPDATE and DELETE.
InsertRow(w) ==
  /\ worker[w] # NoEntry
  /\ \/ table' = Append(table, worker[w]) /\ UNCHANGED <<errors, lost>>
     \/ /\ errors' = [errors EXCEPT ![0] = @ + 1]
        /\ lost' = [lost EXCEPT !.table = @ \cup {worker[w]}]
        /\ UNCHANGED table
  /\ worker' = [worker EXCEPT ![w] = NoEntry]
  /\ UNCHANGED <<channel, hand, out, sent, refused>>

Receive ==
  /\ hand = NoEntry /\ channel # <<>>
  /\ hand' = [entry |-> Head(channel), at |-> 1] /\ channel' = Tail(channel)
  /\ UNCHANGED <<table, out, worker, sent, refused, errors, lost>>

WriteSink_Silent ==   \* mutant
  /\ hand # NoEntry
  /\ out' \in {out, [out EXCEPT ![hand.at] = Append(@, hand.entry)]}
  /\ hand' = IF hand.at = Len(Sinks) THEN NoEntry ELSE [hand EXCEPT !.at = @ + 1]
  /\ UNCHANGED <<channel, table, worker, sent, refused, errors, lost>>

\* One sink after the other; a failed write is counted and not repeated.
WriteSink ==
  /\ hand # NoEntry
  /\ \/ out' = [out EXCEPT ![hand.at] = Append(@, hand.entry)] /\ UNCHANGED errors
     \/ errors' = [errors EXCEPT ![hand.at] = @ + 1] /\ UNCHANGED out
  /\ hand' = IF hand.at = Len(Sinks) THEN NoEntry ELSE [hand EXCEPT !.at = @ + 1]
  /\ UNCHANGED <<channel, table, worker, sent, refused, lost>>

\* The process dies: the channel and the task go with it.
TrailCrash ==
  /\ lost' = [channel |-> lost.channel \cup ToSet(channel)
                             \cup (IF hand = NoEntry THEN {} ELSE {hand.entry}),
                 table |-> lost.table \cup ({worker[w] : w \in Worker} \ {NoEntry})]
  /\ lost' # lost
  /\ channel' = <<>> /\ hand' = NoEntry /\ worker' = [w \in Worker |-> NoEntry]
  /\ UNCHANGED <<table, out, sent, refused, errors>>

TrailNext ==
  \/ \E w \in Worker : InsertRow(w) \/ \E e \in Entry : Dispatch(w, e)
  \/ Receive \/ WriteSink \/ TrailCrash

TrailSpec == TrailInit /\ [][TrailNext]_trailVars

-----------------------------------------------------------------------------
TrailTypeOK ==
  /\ channel \in Seq(Entry) /\ table \in Seq(Entry) /\ sent \in Seq(Entry)
  /\ hand \in [entry: Entry, at: SinkNo] \cup {NoEntry}
  /\ out \in [SinkNo -> Seq(Entry)] /\ worker \in [Worker -> Entry \cup {NoEntry}]
  /\ refused \in 0..Cardinality(Entry) /\ errors \in [Places -> 0..Cardinality(Entry)]

\* What sink s still waits for.
Coming(s) == Len(channel) + (IF hand # NoEntry /\ hand.at <= s THEN 1 ELSE 0)

\* No copy of an entry is lost without a count: the channel took it or counted
\* it, and what it took is in a sink, on its way to it, counted as a failed write
\* or was lost with the process; no sink gets one twice or out of order.
LossIsCounted ==
  /\ Sinks # <<>> => Len(sent) + refused = Cardinality(Seen \ {NoEntry})
  /\ \A s \in SinkNo :
       /\ Len(out[s]) + errors[s] + Coming(s) <= Len(sent)
       /\ Len(sent) <= Len(out[s]) + errors[s] + Coming(s) + Cardinality(lost.channel)
       /\ \A i, j \in DOMAIN out[s] : i < j =>
            \E k, l \in DOMAIN sent : k < l /\ sent[k] = out[s][i] /\ sent[l] = out[s][j]

=============================================================================
