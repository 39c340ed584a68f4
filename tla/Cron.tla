-------------------------------- MODULE Cron --------------------------------
(* The cron scheduler (src/automation/cron.rs): a vector of jobs behind a    *)
(* lock, its SQLite table cron_jobs, the daemon that calls tick once a       *)
(* second, and the administrators' add_job and remove_job.                   *)
(*                                                                           *)
(* Times are kept relative to now: a job is the number of ticks of the clock *)
(* to its next_run, zero when it is due.  tick takes the due jobs under the  *)
(* lock, runs them outside it, and awaits them in their order; a result is   *)
(* applied under the lock and persisted after it is dropped.                 *)
EXTENDS Integers, Sequences, FiniteSets

CONSTANTS
  Job,          \* job ids; a uuid is drawn once
  Every,        \* Every[j]: interval_secs of j
  MaxCrashes,   \* bound on process restarts
  NoJob

VARIABLES
  jobs,       \* Job -> time to next_run, or NoJob
  cronRows,   \* table cron_jobs: Job -> time to next_run, or NoJob
  inFlight,   \* the overlap guard
  running,    \* jobs whose request is out
  handles,    \* the handles tick has still to await, in order
  saving,     \* the copy tick persists after dropping the lock, or NoJob
  adding,     \* jobs persisted by add_job and not yet pushed
  removing,   \* jobs whose row remove_job deleted and which it still retains
  crashes,
  removed,    \* jobs whose removal was answered (history)
  raced       \* jobs removed while tick was writing their result (history)

cronVars == <<jobs, cronRows, inFlight, running, handles, saving, adding, removing,
              crashes, removed, raced>>

Longest == CHOOSE n \in {Every[j] : j \in Job} : \A j \in Job : Every[j] <= n
Wait == 0..Longest
Present == {j \in Job : jobs[j] # NoJob}
Stored == {j \in Job : cronRows[j] # NoJob}
Used == Present \cup Stored \cup removed \cup adding \cup removing \cup running

CronInit ==
  /\ jobs = [j \in Job |-> NoJob] /\ cronRows = [j \in Job |-> NoJob]
  /\ inFlight = {} /\ running = {} /\ handles = <<>> /\ saving = NoJob
  /\ adding = {} /\ removing = {} /\ crashes = 0 /\ removed = {} /\ raced = {}

Less(w) == IF w = NoJob \/ w = 0 THEN w ELSE w - 1
Second ==
  /\ jobs' = [j \in Job |-> Less(jobs[j])]
  /\ cronRows' = [j \in Job |-> Less(cronRows[j])]
  /\ saving' = IF saving = NoJob THEN NoJob ELSE [saving EXCEPT !.wait = Less(@)]
  /\ UNCHANGED <<inFlight, running, handles, adding, removing, crashes, removed, raced>>

-----------------------------------------------------------------------------
(* add_job persists, then pushes.                                            *)
AddJob(j) ==
  /\ j \notin Used
  /\ cronRows' = [cronRows EXCEPT ![j] = Every[j]]
  /\ adding' = adding \cup {j}
  /\ UNCHANGED <<jobs, inFlight, running, handles, saving, removing, crashes, removed, raced>>

Push(j) ==
  /\ j \in adding
  /\ jobs' = [jobs EXCEPT ![j] = cronRows[j]]
  /\ adding' = adding \ {j}
  /\ UNCHANGED <<cronRows, inFlight, running, handles, saving, removing, crashes, removed, raced>>

(* remove_job deletes the row, then takes the lock and retains the others.   *)
DeleteJob(j) ==
  /\ j \in Present \ removing
  /\ cronRows' = [cronRows EXCEPT ![j] = NoJob]
  /\ removing' = removing \cup {j}
  /\ raced' = IF saving # NoJob /\ saving.job = j THEN raced \cup {j} ELSE raced
  /\ UNCHANGED <<jobs, inFlight, running, handles, saving, adding, crashes, removed>>

Retain(j) ==
  /\ j \in removing
  /\ jobs' = [jobs EXCEPT ![j] = NoJob]
  /\ inFlight' = inFlight \ {j}
  /\ removing' = removing \ {j} /\ removed' = removed \cup {j}
  /\ UNCHANGED <<cronRows, running, handles, saving, adding, crashes, raced>>

-----------------------------------------------------------------------------
(* tick.                                                                     *)
Due == {j \in Present : jobs[j] = 0 /\ j \notin inFlight}
Orders(S) == {q \in [1..Cardinality(S) -> S] : \A i, k \in DOMAIN q : q[i] = q[k] => i = k}

Resting == handles = <<>> /\ saving = NoJob

TakeDue ==
  /\ Resting /\ Due # {}
  /\ jobs' = [j \in Job |-> IF j \in Due THEN Every[j] ELSE jobs[j]]
  /\ inFlight' = inFlight \cup Due /\ running' = running \cup Due
  /\ handles' \in Orders(Due)
  /\ UNCHANGED <<cronRows, saving, adding, removing, crashes, removed, raced>>

Finish_KeepsGuard(j) ==   \* mutant
  /\ j \in running /\ running' = running \ {j}
  /\ UNCHANGED <<jobs, cronRows, inFlight, handles, saving, adding, removing, crashes, removed, raced>>

\* The request is answered, refused or times out after 30 seconds.
Finish(j) ==
  /\ j \in running
  /\ running' = running \ {j} /\ inFlight' = inFlight \ {j}
  /\ UNCHANGED <<jobs, cronRows, handles, saving, adding, removing, crashes, removed, raced>>

Collect_Unchecked ==   \* mutant
  /\ handles # <<>> /\ saving = NoJob /\ Head(handles) \notin running
  /\ saving' = [job |-> Head(handles), wait |-> Every[Head(handles)]]
  /\ handles' = Tail(handles)
  /\ UNCHANGED <<jobs, cronRows, inFlight, running, adding, removing, crashes, removed, raced>>

Collect ==
  /\ handles # <<>> /\ saving = NoJob /\ Head(handles) \notin running
  /\ LET j == Head(handles) IN
     /\ saving' = IF j \in Present THEN [job |-> j, wait |-> jobs[j]] ELSE NoJob
     /\ raced' = IF j \in Present \cap removing THEN raced \cup {j} ELSE raced
  /\ handles' = Tail(handles)
  /\ UNCHANGED <<jobs, cronRows, inFlight, running, adding, removing, crashes, removed>>

\* persist_job: INSERT OR REPLACE, whether or not the row still exists.
Persist ==
  /\ saving # NoJob
  /\ cronRows' = [cronRows EXCEPT ![saving.job] = saving.wait]
  /\ saving' = NoJob
  /\ UNCHANGED <<jobs, inFlight, running, handles, adding, removing, crashes, removed, raced>>

\* The process dies; with_storage loads the rows.
CronCrash ==
  /\ crashes < MaxCrashes
  /\ crashes' = crashes + 1
  /\ jobs' = cronRows
  /\ inFlight' = {} /\ running' = {} /\ handles' = <<>> /\ saving' = NoJob
  /\ adding' = {} /\ removing' = {}
  /\ UNCHANGED <<cronRows, removed, raced>>

CronNext ==
  \/ Second \/ TakeDue \/ Collect \/ Persist \/ CronCrash
  \/ \E j \in Job : AddJob(j) \/ Push(j) \/ DeleteJob(j) \/ Retain(j) \/ Finish(j)

\* The daemon's loop runs, every request ends, a call under way goes on.
CronFairness ==
  /\ WF_cronVars(Second) /\ WF_cronVars(TakeDue)
  /\ WF_cronVars(Collect) /\ WF_cronVars(Persist)
  /\ \A j \in Job : WF_cronVars(Push(j)) /\ WF_cronVars(Retain(j)) /\ WF_cronVars(Finish(j))

CronSpec == CronInit /\ [][CronNext]_cronVars /\ CronFairness

-----------------------------------------------------------------------------
CronTypeOK ==
  /\ jobs \in [Job -> Wait \cup {NoJob}] /\ cronRows \in [Job -> Wait \cup {NoJob}]
  /\ inFlight \subseteq Job /\ running \subseteq Job /\ handles \in Seq(Job)
  /\ saving \in [job: Job, wait: Wait] \cup {NoJob}
  /\ adding \subseteq Job /\ removing \subseteq Job /\ crashes \in 0..MaxCrashes
  /\ removed \subseteq Job /\ raced \subseteq Job

\* A removed job stays removed, also across restarts, unless its removal fell
\* between the result of a run and the write of that result (cron.rs:321).
RemovedIsFinal ==
  \A j \in removed \ raced : jobs[j] = NoJob /\ cronRows[j] = NoJob

\* A restart may run a job once more than the schedule says and never later:
\* next_run is advanced in memory first and reaches the row when the run is over.
RestartNeverDelays ==
  \A j \in Present \cap Stored : cronRows[j] <= jobs[j]

\* However long other jobs take, a job that stays is run again and again.
EveryJobRuns == \A j \in Job : (jobs[j] # NoJob) ~> (j \in running \/ jobs[j] = NoJob)

=============================================================================
