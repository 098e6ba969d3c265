------------------------------ MODULE StepGate ------------------------------
(***************************************************************************)
(* What approval-bound execution promises a user, with no files, locks or  *)
(* processes in it: each step of a plan waits until the user grants it,    *)
(* earlier steps come first, an execution uses its grant up, and a step    *)
(* that is not known to be repeatable acts on the world at most once.      *)
(* TaskRunner implements this specification (TaskRunnerImpl).              *)
(***************************************************************************)
EXTENDS Naturals

CONSTANTS
    NumSteps,     \* steps of the plan
    LocalSteps    \* steps that may be repeated

ASSUME GateAssumption == NumSteps \in Nat /\ LocalSteps \subseteq 1..NumSteps

Steps == 1..NumSteps

VARIABLES
    stage,    \* where each step is
    effects,  \* how often the world may have seen each step executed
    acted     \* whether the present execution of a step is among them

gateVars == <<stage, effects, acted>>

Stages == {"waiting", "granted", "executing", "done", "failed"}

GateTypeOK ==
    /\ stage \in [Steps -> Stages]
    /\ effects \in [Steps -> Nat]
    /\ acted \in [Steps -> BOOLEAN]

Init ==
    /\ stage = [s \in Steps |-> "waiting"]
    /\ effects = [s \in Steps |-> 0]
    /\ acted = [s \in Steps |-> FALSE]

Move(s, from, to) == stage[s] = from /\ stage' = [stage EXCEPT ![s] = to]

(* The user approves the next step. *)
Grant(s) ==
    /\ \A t \in 1..(s - 1) : stage[t] = "done"
    /\ Move(s, "waiting", "granted")
    /\ UNCHANGED <<effects, acted>>

(* What was approved is no longer what would run. *)
Withdraw(s) ==
    /\ Move(s, "granted", "waiting")
    /\ UNCHANGED <<effects, acted>>

Execute(s) ==
    /\ Move(s, "granted", "executing")
    /\ UNCHANGED <<effects, acted>>

Act(s) ==
    /\ stage[s] = "executing"
    /\ ~acted[s]
    /\ acted' = [acted EXCEPT ![s] = TRUE]
    /\ effects' = [effects EXCEPT ![s] = @ + 1]
    /\ UNCHANGED stage

(* An interrupted execution is given up; the step needs a new grant. *)
Retract(s) ==
    /\ acted[s] => s \in LocalSteps
    /\ Move(s, "executing", "waiting")
    /\ acted' = [acted EXCEPT ![s] = FALSE]
    /\ UNCHANGED effects

Finish(s) ==
    /\ acted[s]
    /\ Move(s, "executing", "done")
    /\ UNCHANGED <<effects, acted>>

Fail(s) ==
    /\ Move(s, "executing", "failed")
    /\ UNCHANGED <<effects, acted>>

Next == \E s \in Steps :
    Grant(s) \/ Withdraw(s) \/ Execute(s) \/ Act(s) \/ Retract(s) \/ Finish(s) \/ Fail(s)

Spec == Init /\ [][Next]_gateVars

(* At most one execution of a step that may not be repeated: recover        *)
(* retries only what is safe to repeat, over any number of interruptions.   *)
AtMostOnce == \A s \in Steps \ LocalSteps : effects[s] <= 1

(* Nothing acts out of order: a step has acted only if every earlier step   *)
(* is done, and stays so however often it is withdrawn and granted again.   *)
InOrder == \A s \in Steps : effects[s] # 0 => \A t \in 1..(s - 1) : stage[t] = "done"
=============================================================================
