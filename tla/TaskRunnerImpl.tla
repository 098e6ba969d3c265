--------------------------- MODULE TaskRunnerImpl ---------------------------
(* TaskRunner implements StepGate: a step's stage is read off plan.json     *)
(* alone, its effects are the attempts whose tool was entered for it.       *)
EXTENDS TaskRunner, FiniteSets

StageOf(st) ==
    CASE st \in {"planned", "rejected"} -> "waiting"
      [] st = "approved" -> "granted"
      [] st \in {"running", "recovery_required"} -> "executing"
      [] st = "completed" -> "done"
      [] st = "failed" -> "failed"

Gate == INSTANCE StepGate WITH
    stage <- [s \in Steps |-> StageOf(plan[s].status)],
    effects <- [s \in Steps |-> Cardinality({a \in invoked : attempts[a].step = s})],
    acted <- [s \in Steps |-> plan[s].attempt \in invoked]

(* Every step of the commands, whatever the interleaving and wherever they  *)
(* crash, is a step of the gate or changes nothing a user was promised.     *)
ImplementsStepGate == Gate!Spec

(* What a command that has started does next without the lock. *)
Proceed(p) ==
    \/ Preview(p) \/ PreviewRefused(p) \/ Confirm(p) \/ Decline(p)
    \/ ApproveStep(p) \/ ApproveRefused(p) \/ Busy(p)
    \/ ResumeReport(p) \/ ResumeInterrupted(p) \/ ResumeInvalidate(p)
    \/ ResumeApproved(p) \/ ResumeRefused(p)

InTool(p) == At(p, "tool")

(* The program: a command goes on, with the lock to its next write and      *)
(* without it to its end.  No tool is assumed to return.  The user: a       *)
(* prompt is answered or closed, and as long as a step is interrupted the   *)
(* user keeps trying the recover actions.  No approval, resume or retry is  *)
(* assumed to be ever issued.                                               *)
Fairness ==
    /\ \A p \in Processes : WF_vars(~InTool(p) /\ Advance(p)) /\ WF_vars(Proceed(p))
    /\ \A s \in Steps :
        /\ SF_vars(\E p \in Processes : RecoverFinalize(p, s) /\ plan[s].status # "completed")
        /\ SF_vars(\E p \in Processes : RecoverFail(p, s))

FairSpec == Spec /\ Fairness

(* The one dead end: an artifact of a committed attempt was changed or      *)
(* removed by somebody else before the step was recorded as completed.      *)
(* recover refuses to finalize it, and to retry or fail a committed one.    *)
Spoilt(a) == attempts[a].status \in Durable /\ ~Exposable(a)

(* Work with a durable commit marker is not lost: the step of a committed   *)
(* attempt is eventually recorded as completed, without running again,      *)
(* unless its artifacts were tampered with.                                 *)
CommittedWorkIsRecorded ==
    \A a \in Attempts : attempts[a].status = "committed" ~>
        \/ Spoilt(a)
        \/ \E s \in Steps : plan[s].status = "completed" /\ plan[s].attempt = a

InterruptedStep(s) == plan[s].status \in {"running", "recovery_required"}

(* No other interruption is a dead end: unless a tool still runs, recover   *)
(* can always take a running or interrupted step out of that state,         *)
(* wherever the crash fell, also when an earlier recover died between its   *)
(* writes or the commit was refused because an artifact had changed.        *)
InterruptionIsResolved ==
    \A s \in Steps : InterruptedStep(s) ~>
        ~InterruptedStep(s) \/ Spoilt(plan[s].attempt) \/ \E p \in Processes : InTool(p)
=============================================================================
