----------------------------- MODULE TaskRunner -----------------------------
(***************************************************************************)
(* The commands that change a task: "agent approve", "agent resume" and    *)
(* "agent recover" (research_assistant/runner.py and cli.py), each run by  *)
(* an operating-system process, over the workspace of WorkspaceStore.      *)
(*                                                                         *)
(* A process keeps its local state in job[p].  Under the task lock it      *)
(* loads the plan once (job[p].plan) and every save_plan writes that copy  *)
(* back whole; the record a command changes in memory is only observable   *)
(* when it is saved, so SavePlan applies the change (Revised).  Between    *)
(* any two durable writes the process may die, which releases the lock     *)
(* and nothing else.                                                       *)
(***************************************************************************)
EXTENDS WorkspaceStore

CONSTANTS
    Processes,    \* processes running commands on this task
    NoProcess,    \* nobody holds the task lock
    NoEnvironment, \* a command has not looked at the environment
    MaxCrashes,   \* bound on commands that die while they hold the lock
    MaxChanges,   \* bound on changes made from outside (files, environment)
    MaxFaults     \* bound on both together

ASSUME RunnerAssumption ==
    /\ NoProcess \notin Processes
    /\ MaxCrashes \in Nat
    /\ MaxChanges \in Nat
    /\ MaxFaults \in Nat
    /\ NoEnvironment \notin Environments

VARIABLES
    lock,         \* holder of .task.lock
    job,          \* local state of the command each process runs
    environment,  \* the execution environment as it is now
    crashes,      \* commands that died so far
    changes,      \* outside changes so far
    consented,    \* history: fingerprints a user has seen and said yes to
    invoked       \* history: attempts whose tool.run was entered

runnerVars == <<lock, job, environment, crashes, changes, consented, invoked>>
vars == <<storeVars, runnerVars>>

(* Where a command can be: first without the lock, then holding it. *)
Unlocked == {"idle", "preview", "confirm", "approve", "resume"}
Locked == {"begin", "save_plan", "save_task", "audit", "start", "invoke", "tool",
           "register", "finish", "commit", "expose", "reexpose", "mark"}

(* What the command is about to do to the step it works on. *)
Flows == {"none", "approve", "invalidate", "run", "complete", "fail", "retry", "interrupt"}

Jobs == [pc : Unlocked \cup Locked, flow : Flows, step : Steps, env : Environments \cup {NoEnvironment},
         fp : NoneOrFingerprint, attempt : Attempts \cup {NoAttempt}, plan : Plans]

Idle == [pc |-> "idle", flow |-> "none", step |-> 1, env |-> NoEnvironment,
         fp |-> NoFingerprint, attempt |-> NoAttempt, plan |-> InitialPlan]

(* Entering a locked section: what the command keeps from before is given  *)
(* in fp and env, the plan is loaded now.                                  *)
Loaded(l, f, s, e, fp, a) ==
    [pc |-> l, flow |-> f, step |-> s, env |-> e, fp |-> fp, attempt |-> a, plan |-> plan]

TypeOK ==
    /\ StoreTypeOK
    /\ lock \in Processes \cup {NoProcess}
    /\ job \in [Processes -> Jobs]
    /\ environment \in Environments
    /\ crashes \in Nat
    /\ changes \in Nat
    /\ consented \in SUBSET Fingerprints
    /\ invoked \in SUBSET Attempts

Init ==
    /\ StoreInit
    /\ lock = NoProcess
    /\ job = [p \in Processes |-> Idle]
    /\ environment \in Environments
    /\ crashes = 0
    /\ changes = 0
    /\ consented = {}
    /\ invoked = {}

-----------------------------------------------------------------------------
(* Helpers *)

Outside == <<environment, crashes, changes>>
History == <<consented, invoked>>

At(p, l) == job[p].pc = l
Goto(p, l) == job' = [job EXCEPT ![p].pc = l]

(* Mutant: the lock is taken without testing who has it. *)
AcquireTaken(p) == lock' = p

(* The lock is flock(LOCK_EX | LOCK_NB) with no waiting. *)
Acquire(p) == lock = NoProcess /\ lock' = p

(* Leaving "with workspace.lock()", by return or by exception. *)
Release(p) ==
    /\ lock' = NoProcess
    /\ job' = [job EXCEPT ![p] = Idle]

(* A command that ends (or is refused) without the lock. *)
EndUnlocked(p) ==
    /\ job' = [job EXCEPT ![p] = Idle]
    /\ UNCHANGED lock

(* The fingerprint build_approval_fingerprint computes now in process p. *)
CurrentFingerprint(p) == Manifest(job[p].step, job[p].env)

(* The checks preview_approval and approve_step share. *)
MayBeApproved(s) ==
    /\ IsNextUnfinished(plan, s)
    /\ plan[s].status = "planned"
    /\ ManifestReadable

-----------------------------------------------------------------------------
(* agent approve *)

(* Mutant: the approval leaves the environment out. *)
StartApproveBlind(p, s) ==
    /\ At(p, "idle")
    /\ job' = [job EXCEPT ![p] = [Idle EXCEPT !.pc = "preview", !.step = s]]
    /\ UNCHANGED <<storeVars, lock, Outside, History>>

(* _command_approve computes the environment before anything is locked. *)
StartApprove(p, s) ==
    /\ At(p, "idle")
    /\ job' = [job EXCEPT ![p] = [Idle EXCEPT !.pc = "preview", !.step = s,
                                              !.env = environment]]
    /\ UNCHANGED <<storeVars, lock, Outside, History>>

(* preview_approval takes and releases the lock and writes nothing. *)
Preview(p) ==
    /\ At(p, "preview")
    /\ lock = NoProcess
    /\ MayBeApproved(job[p].step)
    /\ job' = [job EXCEPT ![p].pc = "confirm", ![p].fp = CurrentFingerprint(p)]
    /\ UNCHANGED <<storeVars, lock, Outside, History>>

PreviewRefused(p) ==
    /\ At(p, "preview")
    /\ lock = NoProcess
    /\ ~MayBeApproved(job[p].step)
    /\ EndUnlocked(p)
    /\ UNCHANGED <<storeVars, Outside, History>>

(* The user answers yes to the summary shown (or passed --yes)... *)
Confirm(p) ==
    /\ At(p, "confirm")
    /\ consented' = consented \cup {job[p].fp}
    /\ Goto(p, "approve")
    /\ UNCHANGED <<storeVars, lock, Outside, invoked>>

(* ... or anything else, or the process ends while it waits. *)
Decline(p) ==
    /\ At(p, "confirm")
    /\ EndUnlocked(p)
    /\ UNCHANGED <<storeVars, Outside, History>>

(* Mutant: expected_fingerprint is not compared. *)
AsReviewedNever(p) == TRUE

(* approve_step's test of expected_fingerprint. *)
AsReviewed(p) == CurrentFingerprint(p) = job[p].fp

ApproveStep(p) ==
    /\ At(p, "approve")
    /\ Acquire(p)
    /\ MayBeApproved(job[p].step)
    /\ AsReviewed(p)
    /\ job' = [job EXCEPT ![p] = Loaded("save_plan", "approve", job[p].step, NoEnvironment,
                                        CurrentFingerprint(p), NoAttempt)]
    /\ UNCHANGED <<storeVars, Outside, History>>

ApproveRefused(p) ==
    /\ At(p, "approve")
    /\ lock = NoProcess
    /\ ~(MayBeApproved(job[p].step) /\ AsReviewed(p))
    /\ EndUnlocked(p)
    /\ UNCHANGED <<storeVars, Outside, History>>

(* TaskBusyError: the lock is held and the command gives up at once. *)
Busy(p) ==
    /\ job[p].pc \in {"preview", "approve", "resume"}
    /\ lock # NoProcess
    /\ EndUnlocked(p)
    /\ UNCHANGED <<storeVars, Outside, History>>

-----------------------------------------------------------------------------
(* agent resume *)

(* _resume_command computes the environment before TaskRunner.resume locks. *)
StartResume(p) ==
    /\ At(p, "idle")
    /\ job' = [job EXCEPT ![p] = [Idle EXCEPT !.pc = "resume", !.env = environment]]
    /\ UNCHANGED <<storeVars, lock, Outside, History>>

(* The branches of resume that only record a task status: one write.  A    *)
(* rejected step can come only from an edited plan.                        *)
ReportedStatus(st) ==
    CASE st \in {"planned", "rejected"} -> "waiting_approval"
      [] st = "failed" -> "failed"
      [] st = "recovery_required" -> "recovery_required"

ResumeReport(p) ==
    /\ At(p, "resume")
    /\ lock = NoProcess
    /\ \/ AllCompleted(plan) /\ SaveTaskFile("completed")
       \/ \E s \in Steps :
            /\ IsNextUnfinished(plan, s)
            /\ plan[s].status \in {"planned", "rejected", "failed", "recovery_required"}
            /\ SaveTaskFile(ReportedStatus(plan[s].status))
    /\ EndUnlocked(p)
    /\ UNCHANGED <<Outside, History>>

(* A step found running was interrupted. *)
ResumeInterrupted(p) ==
    /\ At(p, "resume")
    /\ Acquire(p)
    /\ \E s \in Steps :
        /\ IsNextUnfinished(plan, s)
        /\ plan[s].status = "running"
        /\ job' = [job EXCEPT ![p] = Loaded("save_plan", "interrupt", s, NoEnvironment,
                                            NoFingerprint, NoAttempt)]
    /\ UNCHANGED <<storeVars, Outside, History>>

(* resume's comparison of the approved content with the content now. *)
StillAsApproved(s, e) == plan[s].fp = Manifest(s, e)

(* An approved step whose content changed goes back to planned... *)
ResumeInvalidate(p) ==
    /\ At(p, "resume")
    /\ Acquire(p)
    /\ ManifestReadable
    /\ \E s \in Steps :
        /\ IsNextUnfinished(plan, s)
        /\ plan[s].status = "approved"
        /\ ~StillAsApproved(s, job[p].env)
        /\ job' = [job EXCEPT ![p] = Loaded("save_plan", "invalidate", s, NoEnvironment,
                                            plan[s].fp, NoAttempt)]
    /\ UNCHANGED <<storeVars, Outside, History>>

(* ... and one that did not may run. *)
ResumeApproved(p) ==
    /\ At(p, "resume")
    /\ Acquire(p)
    /\ ManifestReadable
    /\ \E a \in Attempts : attempts[a].status = "absent"   \* bound: MaxAttempts
    /\ \E s \in Steps :
        /\ IsNextUnfinished(plan, s)
        /\ plan[s].status = "approved"
        /\ StillAsApproved(s, job[p].env)
        /\ job' = [job EXCEPT ![p] = Loaded("begin", "run", s, job[p].env,
                                            plan[s].fp, NoAttempt)]
    /\ UNCHANGED <<storeVars, Outside, History>>

(* resume raises before it writes: the manifest cannot be computed, or     *)
(* validate_call rejects the arguments of an approved step.                *)
ResumeRefused(p) ==
    /\ At(p, "resume")
    /\ lock = NoProcess
    /\ \E s \in Steps : IsNextUnfinished(plan, s) /\ plan[s].status = "approved"
    /\ EndUnlocked(p)
    /\ UNCHANGED <<storeVars, Outside, History>>

BeginAttempt(p) ==
    /\ At(p, "begin")
    /\ \E a \in Attempts :
        /\ BeginAttemptFile(a, job[p].step, job[p].fp)
        /\ job' = [job EXCEPT ![p].pc = "save_plan", ![p].attempt = a]
    /\ UNCHANGED <<lock, Outside, History>>

StartAttempt(p) ==
    /\ At(p, "start")
    /\ StartAttemptFile(job[p].attempt)
    /\ Goto(p, "invoke")
    /\ UNCHANGED <<lock, Outside, History>>

(* Entering tool.run: from here on the outside world may have seen it. *)
InvokeTool(p) ==
    /\ At(p, "invoke")
    /\ invoked' = invoked \cup {job[p].attempt}
    /\ Goto(p, "tool")
    /\ UNCHANGED <<storeVars, lock, Outside, consented>>

ToolWrite(p) ==
    /\ At(p, "tool")
    /\ \E n \in 1..MaxOutputs : WriteArtifactFile(job[p].attempt, n)
    /\ Goto(p, "register")
    /\ UNCHANGED <<lock, Outside, History>>

ToolRegister(p) ==
    /\ At(p, "register")
    /\ \E n \in 1..MaxOutputs :
        LET i == <<job[p].attempt, n>> IN
        /\ disk[i] # "absent" /\ i \notin registry
        /\ RegisterArtifact(i)
    /\ Goto(p, "tool")
    /\ UNCHANGED <<lock, Outside, History>>

ToolReturn(p) ==
    /\ At(p, "tool")
    /\ job' = [job EXCEPT ![p].pc = "commit", ![p].flow = "complete"]
    /\ UNCHANGED <<storeVars, lock, Outside, History>>

(* "except Exception": the tool refused, failed or timed out. *)
ToolRaise(p) ==
    /\ At(p, "tool")
    /\ job' = [job EXCEPT ![p].pc = "finish", ![p].flow = "fail"]
    /\ UNCHANGED <<storeVars, lock, Outside, History>>

Commit(p) ==
    /\ At(p, "commit")
    /\ Committable(job[p].attempt)
    /\ CommitMarker(job[p].attempt)
    /\ Goto(p, "expose")
    /\ UNCHANGED <<lock, Outside, History>>

(* commit_attempt raises outside the try block: the step stays running. *)
CommitRefused(p) ==
    /\ At(p, "commit")
    /\ ~Committable(job[p].attempt)
    /\ Release(p)
    /\ UNCHANGED <<storeVars, Outside, History>>

-----------------------------------------------------------------------------
(* Writes that resume and recover share *)

(* commit_attempt and mark_attempt_finalized both expose the artifacts. *)
Expose(p) ==
    /\ job[p].pc \in {"expose", "reexpose"}
    /\ Exposable(job[p].attempt)
    /\ ExposeArtifacts(job[p].attempt)
    /\ Goto(p, IF At(p, "expose") THEN "reexpose" ELSE "mark")
    /\ UNCHANGED <<lock, Outside, History>>

ExposeRefused(p) ==
    /\ job[p].pc \in {"expose", "reexpose"}
    /\ ~Exposable(job[p].attempt)
    /\ Release(p)
    /\ UNCHANGED <<storeVars, Outside, History>>

(* A step that was already completed needs no new plan. *)
MarkFinalized(p) ==
    /\ At(p, "mark")
    /\ MarkFinalizedFile(job[p].attempt)
    /\ Goto(p, IF job[p].plan[job[p].step].status = "completed"
               THEN "save_task" ELSE "save_plan")
    /\ UNCHANGED <<lock, Outside, History>>

FinishAttempt(p) ==
    /\ At(p, "finish")
    /\ FinishAttemptFile(job[p].attempt,
                         IF job[p].flow = "retry" THEN "abandoned" ELSE "failed")
    /\ Goto(p, "save_plan")
    /\ UNCHANGED <<lock, Outside, History>>

(* The step record as the command changed it in memory. *)
Revised(p) ==
    LET r == job[p].plan[job[p].step] IN
    CASE job[p].flow = "approve" -> [r EXCEPT !.status = "approved", !.fp = job[p].fp]
      [] job[p].flow = "invalidate" -> [r EXCEPT !.status = "planned", !.fp = NoFingerprint]
      [] job[p].flow = "run" -> [r EXCEPT !.status = "running", !.attempt = job[p].attempt]
      [] job[p].flow = "complete" ->
            [r EXCEPT !.status = "completed", !.artifacts = attempts[job[p].attempt].artifacts]
      [] job[p].flow = "fail" -> [r EXCEPT !.status = "failed"]
      [] job[p].flow = "retry" ->
            [r EXCEPT !.status = "planned", !.fp = NoFingerprint, !.attempt = NoAttempt]
      [] job[p].flow = "interrupt" -> [r EXCEPT !.status = "recovery_required"]

SavePlan(p) ==
    LET revisedPlan == [job[p].plan EXCEPT ![job[p].step] = Revised(p)] IN
    /\ At(p, "save_plan")
    /\ SavePlanFile(revisedPlan)
    /\ job' = [job EXCEPT ![p].pc = "save_task", ![p].plan = revisedPlan]
    /\ UNCHANGED <<lock, Outside, History>>

TaskStatusFor(p) ==
    CASE job[p].flow \in {"approve", "invalidate", "retry"} -> "waiting_approval"
      [] job[p].flow = "run" -> "running"
      [] job[p].flow = "complete" -> StatusAfterCompletion(job[p].plan)
      [] job[p].flow = "fail" -> "failed"
      [] job[p].flow = "interrupt" -> "recovery_required"

SaveTask(p) ==
    /\ At(p, "save_task")
    /\ SaveTaskFile(TaskStatusFor(p))
    /\ \/ job[p].flow = "run" /\ Goto(p, "start") /\ UNCHANGED lock
       \/ job[p].flow \in {"approve", "invalidate"} /\ Goto(p, "audit") /\ UNCHANGED lock
       \/ job[p].flow \in {"complete", "fail", "retry", "interrupt"} /\ Release(p)
    /\ UNCHANGED <<Outside, History>>

Audit(p) ==
    /\ At(p, "audit")
    /\ AppendApproval(IF job[p].flow = "approve" THEN "approved" ELSE "approval_invalidated",
                      job[p].fp)
    /\ Release(p)
    /\ UNCHANGED <<Outside, History>>

-----------------------------------------------------------------------------
(* agent recover <step> finalize | retry | fail *)

RecoverFrom(p, s, l, f) ==
    /\ At(p, "idle")
    /\ Acquire(p)
    /\ job' = [job EXCEPT ![p] = Loaded(l, f, s, NoEnvironment, NoFingerprint,
                                        plan[s].attempt)]
    /\ UNCHANGED <<storeVars, Outside, History>>

(* The attempt record must be there and belong to this approval. *)
AttemptMatches(s) ==
    /\ plan[s].attempt # NoAttempt
    /\ attempts[plan[s].attempt].step = s
    /\ attempts[plan[s].attempt].fp = plan[s].fp

Interrupted(s) ==
    /\ IsNextUnfinished(plan, s)
    /\ plan[s].status \in {"running", "recovery_required"}
    /\ AttemptMatches(s)

(* Mutant: only an attempt that is already finalized may be finalized. *)
RecoverFinalizeOnlyFinal(p, s) ==
    /\ Interrupted(s)
    /\ attempts[plan[s].attempt].status = "finalized"
    /\ RecoverFrom(p, s, "expose", "complete")

(* For a completed step the code compares the artifact list after it has   *)
(* exposed the same artifacts again; the model compares it before.         *)
RecoverFinalize(p, s) ==
    /\ \/ Interrupted(s)
       \/ plan[s].status = "completed" /\ AttemptMatches(s)
          /\ plan[s].artifacts = attempts[plan[s].attempt].artifacts
    /\ attempts[plan[s].attempt].status \in Durable
    /\ RecoverFrom(p, s, "expose", "complete")

(* Mutant: whatever was interrupted may be retried. *)
RetrySafeAlways(s) == attempts[plan[s].attempt].status \in {"prepared", "running"}

(* The recorded strategy decides: a remote, model or unknown tool that may *)
(* have run is never repeated.                                             *)
RetrySafe(s) ==
    \/ attempts[plan[s].attempt].status = "prepared"
    \/ attempts[plan[s].attempt].status = "running" /\ s \in LocalSteps

(* Mutant: a retry that neither tests nor closes the old attempt. *)
RecoverRetryUnchecked(p, s) ==
    /\ Interrupted(s)
    /\ RecoverFrom(p, s, "save_plan", "retry")

RecoverRetry(p, s) ==
    /\ Interrupted(s)
    /\ RetrySafe(s)
    /\ RecoverFrom(p, s, "finish", "retry")

(* Mutant: only an open attempt may be marked failed. *)
RecoverFailOpen(p, s) ==
    /\ Interrupted(s)
    /\ attempts[plan[s].attempt].status \in {"prepared", "running"}
    /\ RecoverFrom(p, s, "finish", "fail")

RecoverFail(p, s) ==
    /\ Interrupted(s)
    /\ attempts[plan[s].attempt].status \notin Durable
    /\ RecoverFrom(p, s, "finish", "fail")

-----------------------------------------------------------------------------
(* Crashes and the outside *)

(* A kill, KeyboardInterrupt, cancellation or failed write while the lock  *)
(* is held: the operating system drops the lock, the files stay.           *)
Crash(p) ==
    /\ job[p].pc \in Locked
    /\ crashes < MaxCrashes /\ crashes + changes < MaxFaults
    /\ crashes' = crashes + 1
    /\ Release(p)
    /\ UNCHANGED <<storeVars, environment, changes, History>>

(* Settings, a plugin or the code itself change. *)
ChangeEnvironment ==
    /\ changes < MaxChanges /\ crashes + changes < MaxFaults
    /\ changes' = changes + 1
    /\ environment' \in Environments \ {environment}
    /\ UNCHANGED <<storeVars, lock, job, crashes, History>>

Damage ==
    /\ changes < MaxChanges /\ crashes + changes < MaxFaults
    /\ changes' = changes + 1
    /\ \/ ChangeInputs
       \/ \E i \in ArtifactIds, how \in {"changed", "missing"} : DamageArtifact(i, how)
    /\ UNCHANGED <<lock, job, environment, crashes, History>>

-----------------------------------------------------------------------------
Approving(p) ==
    \/ \E s \in Steps : StartApprove(p, s)
    \/ Preview(p) \/ PreviewRefused(p) \/ Confirm(p) \/ Decline(p)
    \/ ApproveStep(p) \/ ApproveRefused(p) \/ Busy(p)

Resuming(p) ==
    \/ StartResume(p)
    \/ ResumeReport(p) \/ ResumeInterrupted(p) \/ ResumeInvalidate(p)
    \/ ResumeApproved(p) \/ ResumeRefused(p)

Recovering(p) ==
    \E s \in Steps : RecoverFinalize(p, s) \/ RecoverRetry(p, s) \/ RecoverFail(p, s)

(* What a command does once it holds the lock. *)
Advance(p) ==
    \/ BeginAttempt(p) \/ StartAttempt(p) \/ InvokeTool(p)
    \/ ToolWrite(p) \/ ToolRegister(p) \/ ToolReturn(p) \/ ToolRaise(p)
    \/ Commit(p) \/ CommitRefused(p) \/ Expose(p) \/ ExposeRefused(p)
    \/ MarkFinalized(p) \/ FinishAttempt(p)
    \/ SavePlan(p) \/ SaveTask(p) \/ Audit(p)

Next ==
    \/ \E p \in Processes :
        Approving(p) \/ Resuming(p) \/ Recovering(p) \/ Advance(p) \/ Crash(p)
    \/ ChangeEnvironment
    \/ Damage

Spec == Init /\ [][Next]_vars
-----------------------------------------------------------------------------
(* Properties *)

(* The task lock: at most one process is inside "with workspace.lock()",   *)
(* and the plan it will write back is the plan on disk, so no save_plan    *)
(* ever undoes what another command did.                                   *)
LoadedPlanIsCurrent ==
    \A p \in Processes : job[p].pc \in Locked => lock = p /\ job[p].plan = plan

(* "No unapproved step was executed": every tool that was ever entered ran *)
(* for the step and over the manifest that a user had been shown and said  *)
(* yes to, in a process with the approved environment.  Previews, edits of *)
(* settings and artifacts, crashes and retries may come in any order.      *)
OnlyConsentedExecution ==
    /\ \A a \in invoked :
        attempts[a].fp \in consented /\ attempts[a].fp.step = attempts[a].step
    /\ \A p \in Processes : job[p].pc \in {"invoke", "tool", "register"} =>
        attempts[job[p].attempt].fp.env = job[p].env

(* A remote, model or unknown tool is entered at most once for a step,     *)
(* however often the task is interrupted, retried and resumed.             *)
RemoteAtMostOnce ==
    \A a, b \in invoked :
        attempts[a].step = attempts[b].step /\ attempts[a].step \notin LocalSteps => a = b

(* Once the commit marker of an attempt is on disk its step still points   *)
(* at it and is interrupted or completed: committed work is never replaced *)
(* by another attempt, and a step has at most one committed attempt.       *)
CommittedWorkIsKept ==
    \A a \in Attempts : attempts[a].status \in Durable =>
        /\ plan[attempts[a].step].attempt = a
        /\ plan[attempts[a].step].status \in {"running", "recovery_required", "completed"}

(* What a status says is backed, wherever a crash falls between the five   *)
(* files of a commit: a completed step by a finalized attempt of its own   *)
(* approval with all artifacts it lists visible; an interrupted one by a   *)
(* record that belongs to it, so that recover does not have to refuse;     *)
(* task.json never says completed while plan.json has unfinished steps.    *)
(* The durable marker precedes visibility: a committed flag in             *)
(* artifacts.json never belongs to a failed, abandoned or open attempt.    *)
StatusIsBacked ==
    /\ \A s \in Steps : plan[s].status \in {"running", "recovery_required"} =>
        AttemptMatches(s) /\ attempts[plan[s].attempt].status # "absent"
    /\ \A s \in Steps : plan[s].status = "completed" =>
        /\ AttemptMatches(s)
        /\ attempts[plan[s].attempt].status = "finalized"
        /\ plan[s].artifacts = attempts[plan[s].attempt].artifacts
        /\ plan[s].artifacts \subseteq Visible
    /\ taskStatus = "completed" => \A s \in Steps : plan[s].status = "completed"
    /\ \A i \in exposed : i \in registry /\ attempts[i[1]].status \in Durable

(* An approval in force covers exactly the outputs of the earlier steps,   *)
(* all of them completed: nobody approves a step over partial input.       *)
ApprovalCoversInputs ==
    \A s \in Steps : plan[s].fp # NoFingerprint =>
        /\ \A t \in 1..(s - 1) : plan[t].status = "completed"
        /\ {v[1] : v \in plan[s].fp.visible} = UNION {plan[t].artifacts : t \in 1..(s - 1)}

(* A visible artifact stays visible, and a commit marker is never taken    *)
(* back or given another manifest.                                         *)
CommitIsFinal ==
    [][/\ Visible \subseteq Visible'
       /\ \A a \in Attempts : attempts[a].status \in Durable =>
            /\ attempts'[a].status \in Durable
            /\ attempts'[a].artifacts = attempts[a].artifacts]_vars

(* approvals.jsonl as the docs describe it: an audit record of every step  *)
(* approval.  An execution without one has lost its approval.              *)
EveryExecutionAudited ==
    \A a \in invoked : [action |-> "approved", fp |-> attempts[a].fp] \in approvals
=============================================================================
