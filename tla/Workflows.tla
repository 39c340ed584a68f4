----------------------------- MODULE Workflows -----------------------------
(* The workflow engine (src/automation/workflows.rs): a workflow is a list   *)
(* of HTTP steps; execute runs them one after the other on a copy and writes *)
(* what happened to the workflow under a short lock after each answer.       *)
(* Nothing keeps two callers from executing one workflow.                    *)
EXTENDS Integers, Sequences

CONSTANTS
  Plan,      \* the on_failure action of every step: a sequence over OnFailure
  Retries,   \* the count of Retry(max)
  Runner,    \* callers of execute
  MaxRuns    \* bound on the calls of execute

OnFailure == {"Stop", "Skip", "Retry"}
StepNo == 1..Len(Plan)

VARIABLES
  status,   \* the workflow's status
  steps,    \* the status of each step
  error,    \* whether `error` is set
  run,      \* run[r]: where caller r is in execute
  calls,    \* executions started so far
  shared    \* two executions were under way at once (history)

flowVars == <<status, steps, error, run, calls, shared>>

NotRunning == [at |-> 0, left |-> 0, skipped |-> FALSE]

FlowInit ==
  /\ status = "Pending" /\ steps = [i \in StepNo |-> "Pending"] /\ error = FALSE
  /\ run = [r \in Runner |-> NotRunning] /\ calls = 0 /\ shared = FALSE

Executing == {r \in Runner : run[r] # NotRunning}

Execute(r) ==
  /\ run[r] = NotRunning /\ calls < MaxRuns
  /\ calls' = calls + 1
  /\ status' = "Running"
  /\ run' = [run EXCEPT ![r].at = 1]
  /\ shared' = (shared \/ Executing # {})
  /\ UNCHANGED <<steps, error>>

\* The run of r is over: it writes `outcome` and, if it failed, the error.
EndAs(r, outcome) ==
  /\ status' = outcome
  /\ error' = IF outcome = "Failed" THEN TRUE ELSE error
  /\ run' = [run EXCEPT ![r] = NotRunning]

StepTo(r, i, result, skipped) ==
  /\ steps' = [steps EXCEPT ![i] = result]
  /\ run' = [run EXCEPT ![r] = [at |-> i + 1, left |-> 0, skipped |-> skipped]]
  /\ UNCHANGED <<status, error>>

StepOf(r) == run[r].at
Sending(r) == StepOf(r) \in StepNo /\ run[r].left = 0

\* A 2xx answer.
Success(r) ==
  /\ Sending(r)
  /\ StepTo(r, StepOf(r), "Success", run[r].skipped)
  /\ UNCHANGED <<calls, shared>>

\* Any other answer, or none: `answered` tells them apart for Retry, which only
\* an answer is given; an error ends the run as Stop does.
Failure(r, answered) ==
  /\ Sending(r)
  /\ CASE Plan[StepOf(r)] = "Skip" -> StepTo(r, StepOf(r), "Skipped", TRUE)
       [] Plan[StepOf(r)] = "Retry" /\ answered ->
            /\ steps' = [steps EXCEPT ![StepOf(r)] = "Failed"]
            /\ run' = [run EXCEPT ![r].left = Retries]
            /\ UNCHANGED <<status, error>>
       [] OTHER -> steps' = [steps EXCEPT ![StepOf(r)] = "Failed"] /\ EndAs(r, "Failed")
  /\ UNCHANGED <<calls, shared>>

\* The attempts of Retry run without touching the workflow until they are over.
Retry(r) ==
  /\ run[r].left > 0
  /\ \/ StepTo(r, StepOf(r), "Success", run[r].skipped)
     \/ /\ run[r].left > 1
        /\ run' = [run EXCEPT ![r].left = @ - 1]
        /\ UNCHANGED <<status, steps, error>>
     \/ /\ run[r].left = 1
        /\ steps' = [steps EXCEPT ![StepOf(r)] = "Failed"]
        /\ EndAs(r, "Failed")
  /\ UNCHANGED <<calls, shared>>

Conclude_IgnoresSkipped(r) ==   \* mutant
  /\ StepOf(r) = Len(Plan) + 1 /\ EndAs(r, "Completed")
  /\ UNCHANGED <<steps, calls, shared>>

\* After the last step: Failed if a step was skipped, Completed otherwise.
Conclude(r) ==
  /\ StepOf(r) = Len(Plan) + 1
  /\ EndAs(r, IF run[r].skipped THEN "Failed" ELSE "Completed")
  /\ UNCHANGED <<steps, calls, shared>>

FlowNext ==
  \E r \in Runner :
    Execute(r) \/ Success(r) \/ (\E b \in BOOLEAN : Failure(r, b)) \/ Retry(r) \/ Conclude(r)

FlowSpec == FlowInit /\ [][FlowNext]_flowVars

-----------------------------------------------------------------------------
FlowTypeOK ==
  /\ status \in {"Pending", "Running", "Completed", "Failed"}
  /\ steps \in [StepNo -> {"Pending", "Success", "Failed", "Skipped"}]
  /\ error \in BOOLEAN /\ shared \in BOOLEAN /\ calls \in 0..MaxRuns
  /\ run \in [Runner -> [at: 0..Len(Plan) + 1, left: 0..Retries, skipped: BOOLEAN]]

\* No silent failure: as long as executions of a workflow do not overlap, it is
\* Completed only if every step succeeded in that run, and Failed only with an
\* error and a step that did not, whatever an earlier run left behind.
OutcomeMatchesSteps ==
  ~shared /\ Executing = {} =>
    /\ status = "Completed" => \A i \in StepNo : steps[i] = "Success"
    /\ status = "Failed" => error /\ \E i \in StepNo : steps[i] \in {"Failed", "Skipped"}

=============================================================================
