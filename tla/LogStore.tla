------------------------------ MODULE LogStore ------------------------------
(* The log aggregator (src/observability/log_aggregator.rs): a vector of     *)
(* logs behind one lock, a keyword index in a concurrent map, and an id      *)
(* counter.  ingest draws an id, pushes it on the list of each keyword,      *)
(* appends the log and, when there are too many, drops the older half and    *)
(* then takes the dropped ids off the index, one list at a time and without  *)
(* the lock.  A log's keywords are the set it is ingested with: splitting,   *)
(* lower-casing and the caps on words stand behind it.                       *)
EXTENDS Integers, Sequences, FiniteSets, SequencesExt

CONSTANTS
  Word,
  Source,       \* callers of ingest
  MaxEntries,   \* max_entries
  MaxLogs,      \* bound on the ids drawn
  Nil

VARIABLES
  nextId, index,   \* index: Word -> ids; a word without ids has no entry
  logs,            \* ids and keywords of the kept logs, in the order of the vector
  ingest,          \* ingest[s]: what the call of s still has to do
  met              \* two calls of ingest were under way at once (history)

logVars == <<nextId, index, logs, ingest, met>>

Ingesting == [step: {"index", "push", "retain", "remove"}, id: 0..MaxLogs - 1, words: SUBSET Word,
       left: SUBSET Word, empty: SUBSET Word, cutoff: 0..MaxLogs]

LogInit ==
  /\ nextId = 0 /\ index = [k \in Word |-> {}] /\ logs = <<>>
  /\ ingest = [s \in Source |-> Nil] /\ met = FALSE

Draw(s, words) ==
  /\ ingest[s] = Nil /\ nextId < MaxLogs
  /\ nextId' = nextId + 1
  /\ ingest' = [ingest EXCEPT ![s] = [step |-> "index", id |-> nextId, words |-> words,
                                      left |-> words, empty |-> {}, cutoff |-> 0]]
  /\ met' = (met \/ \E t \in Source : ingest[t] # Nil)
  /\ UNCHANGED <<index, logs>>

IndexWord(s) ==
  /\ ingest[s] # Nil /\ ingest[s].step = "index"
  /\ IF ingest[s].left = {}
     THEN ingest' = [ingest EXCEPT ![s].step = "push"] /\ UNCHANGED index
     ELSE \E k \in ingest[s].left :
            /\ index' = [index EXCEPT ![k] = @ \cup {ingest[s].id}]
            /\ ingest' = [ingest EXCEPT ![s].left = @ \ {k}]
  /\ UNCHANGED <<nextId, logs, met>>

\* Under the lock: append, and drop the older half of a vector that is too long.
\* The cutoff is the id after that of the last log dropped.
Half(n) == n \div 2
AppendLog(s) ==
  /\ ingest[s] # Nil /\ ingest[s].step = "push"
  /\ LET all == Append(logs, [id |-> ingest[s].id, words |-> ingest[s].words]) IN
     IF Len(all) <= MaxEntries
     THEN logs' = all /\ ingest' = [ingest EXCEPT ![s] = Nil]
     ELSE LET n == Half(Len(all)) IN
          /\ logs' = SubSeq(all, n + 1, Len(all))
          /\ ingest' = [ingest EXCEPT ![s].step = "retain", ![s].cutoff = all[n].id + 1,
                                      ![s].left = Word]
  /\ UNCHANGED <<nextId, index, met>>

\* iter_mut and retain, then the words found empty are removed whatever they
\* hold by then.
RetainIds(s) ==
  /\ ingest[s] # Nil /\ ingest[s].step = "retain"
  /\ IF ingest[s].left = {}
     THEN ingest' = [ingest EXCEPT ![s].step = "remove"] /\ UNCHANGED index
     ELSE \E k \in ingest[s].left :
            LET kept == {i \in index[k] : i >= ingest[s].cutoff} IN
            /\ index' = [index EXCEPT ![k] = kept]
            /\ ingest' = [ingest EXCEPT ![s].left = @ \ {k},
                            ![s].empty = IF kept = {} THEN @ \cup {k} ELSE @]
  /\ UNCHANGED <<nextId, logs, met>>

RemoveWord(s) ==
  /\ ingest[s] # Nil /\ ingest[s].step = "remove"
  /\ IF ingest[s].empty = {}
     THEN ingest' = [ingest EXCEPT ![s] = Nil] /\ UNCHANGED index
     ELSE \E k \in ingest[s].empty :
            /\ index' = [index EXCEPT ![k] = {}]
            /\ ingest' = [ingest EXCEPT ![s].empty = @ \ {k}]
  /\ UNCHANGED <<nextId, logs, met>>

LogNext ==
  \E s \in Source : \/ \E words \in SUBSET Word : Draw(s, words)
                    \/ IndexWord(s) \/ AppendLog(s) \/ RetainIds(s) \/ RemoveWord(s)

LogSpec == LogInit /\ [][LogNext]_logVars

-----------------------------------------------------------------------------
LogTypeOK ==
  /\ nextId \in 0..MaxLogs /\ index \in [Word -> SUBSET (0..MaxLogs - 1)]
  /\ ingest \in [Source -> Ingesting \cup {Nil}] /\ met \in BOOLEAN
  /\ Len(logs) <= MaxEntries

Quiet == \A s \in Source : ingest[s] = Nil
Kept(k) == {l.id : l \in {l \in ToSet(logs) : k \in l.words}}

\* Between two calls the index names exactly the kept logs, unless two calls have
\* overlapped: then an id may be pushed behind a later one, and an eviction's
\* cutoff or its list of empty words is out of date when it is used
\* (log_aggregator.rs:132).  What is kept is kept once, and the newest is.
IndexFollowsLogs ==
  /\ Quiet /\ ~met => \A k \in Word : index[k] = Kept(k)
  /\ \A i, j \in DOMAIN logs : logs[i].id = logs[j].id => i = j
  /\ Quiet /\ ~met /\ nextId > 0 => Last(logs).id = nextId - 1

=============================================================================
