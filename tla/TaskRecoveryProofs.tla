------------------------- MODULE TaskRecoveryProofs -------------------------
(* What survives interruptions: proofs that committed work is kept, that    *)
(* what is called completed is backed by its files, that recover always     *)
(* finds its record and that a remote tool acts at most once; and, at the   *)
(* end, that TaskRunner implements StepGate, for every number of steps,     *)
(* attempts, processes, crashes and outside changes.                        *)
EXTENDS TaskRunnerProofs, TaskRunnerImpl, FiniteSetTheorems

Open == {"running", "recovery_required"}

(* The record of step s is an opened attempt of the approval in the plan.   *)
Backed(s) == AttemptMatches(s) /\ Opened(plan[s].attempt)

(* Of plan.json: a step has an attempt exactly from its first save as       *)
(* running on, and nothing but planned steps lies after an unfinished one.  *)
StepsInOrder == \A s \in Steps :
    /\ plan[s].status \in {"planned", "approved"} => plan[s].attempt = NoAttempt
    /\ plan[s].status \notin {"planned", "approved"} => Backed(s)
    /\ plan[s].status # "planned" => \A t \in 1..(s - 1) : plan[t].status = "completed"

(* Of artifacts.json: a committed flag is the trace of a durable marker     *)
(* that lists the artifact. *)
ExposedIsListed == \A i \in exposed :
    /\ i \in registry
    /\ attempts[i[1]].status \in Durable
    /\ i \in attempts[i[1]].artifacts

CompletedHasFiles == \A s \in Steps : plan[s].status = "completed" =>
    /\ attempts[plan[s].attempt].status = "finalized"
    /\ plan[s].artifacts = attempts[plan[s].attempt].artifacts
    /\ plan[s].artifacts \subseteq exposed

TaskFileAgrees == taskStatus = "completed" => AllCompleted(plan)

(* A tool was entered only past the prepared record, the attempt of a step  *)
(* that must not be repeated is never let go of, and only an attempt whose  *)
(* tool was entered is ever committed.                                      *)
EnteredIsKept ==
    /\ \A a \in invoked :
        /\ attempts[a].status # "prepared"
        /\ attempts[a].step \notin LocalSteps => plan[attempts[a].step].attempt = a
    /\ \A a \in Attempts : attempts[a].status \in Durable => a \in invoked

(* What an approval shows the user is what the earlier steps produced.      *)
Covers(fp, s) == {v[1] : v \in fp.visible} = UNION {plan[t].artifacts : t \in 1..(s - 1)}

StoreInv ==
    /\ StepsInOrder
    /\ ExposedIsListed
    /\ CompletedHasFiles
    /\ TaskFileAgrees
    /\ EnteredIsKept
    /\ CommittedWorkIsKept
    /\ ApprovalCoversInputs

(* What a command may rely on at each write it still has to make.           *)
Doing(p, l, f) == job[p].pc = l /\ job[p].flow = f

Unrepeated(a, s) == a \in invoked => s \in LocalSteps

Work(p) ==
    LET s == job[p].step
        a == job[p].attempt
        st == plan[s].status
        ast == attempts[a].status
    IN
    /\ job[p].pc \in {"save_plan", "begin", "start", "invoke", "tool", "register", "finish",
                      "commit"} => IsNextUnfinished(plan, s)
    /\ Doing(p, "save_plan", "approve") => st = "planned" /\ Covers(job[p].fp, s)
    /\ Doing(p, "save_plan", "invalidate") => st = "approved"
    /\ Doing(p, "save_plan", "interrupt") => st = "running"
    /\ At(p, "begin") => st = "approved" /\ job[p].fp = plan[s].fp
    /\ Doing(p, "save_plan", "run") =>
        /\ st = "approved" /\ ast = "prepared" /\ a \notin invoked
        /\ attempts[a].step = s /\ attempts[a].fp = plan[s].fp
    /\ At(p, "start") \/ Doing(p, "save_task", "run") =>
        st = "running" /\ plan[s].attempt = a /\ ast = "prepared" /\ a \notin invoked
    /\ Doing(p, "save_task", "run") => IsNextUnfinished(plan, s)
    /\ At(p, "invoke") => st = "running" /\ plan[s].attempt = a /\ ast = "running" /\ a \notin invoked
    /\ job[p].pc \in {"tool", "register", "commit"} =>
        st = "running" /\ plan[s].attempt = a /\ ast = "running" /\ a \in invoked
    /\ At(p, "finish") => st \in Open /\ plan[s].attempt = a /\ ast \notin Durable
    /\ Doing(p, "finish", "retry") => Unrepeated(a, s)
    /\ Doing(p, "save_plan", "fail") => st \in Open /\ plan[s].attempt = a /\ ast = "failed"
    /\ Doing(p, "save_plan", "retry") =>
        st \in Open /\ plan[s].attempt = a /\ ast = "abandoned" /\ Unrepeated(a, s)
    /\ job[p].pc \in {"expose", "reexpose", "mark"} =>
        /\ plan[s].attempt = a /\ ast \in Durable
        /\ st = "completed" \/ (st \in Open /\ IsNextUnfinished(plan, s))
    /\ At(p, "mark") => attempts[a].artifacts \subseteq exposed
    /\ Doing(p, "save_plan", "complete") =>
        /\ st \in Open /\ plan[s].attempt = a /\ ast = "finalized"
        /\ attempts[a].artifacts \subseteq exposed

RecoveryInv == StoreInv /\ \A p \in Processes : Work(p)

-----------------------------------------------------------------------------
(* What other commands, and steps that write nothing, leave as it was. *)

LEMMA UnlockedWork ==
    ASSUME NEW p \in Processes, job'[p].pc \in Unlocked
    PROVE  Work(p)'
BY DEF Work, Unlocked, Doing, At

LEMMA IdleUnlocked ==
    ASSUME TypeInv, NEW p \in Processes, job' = [job EXCEPT ![p] = Idle]
    PROVE  job'[p].pc \in Unlocked
BY DEF TypeInv, TypeOK, Idle, Unlocked

LEMMA StartedUnlocked ==
    ASSUME NEW l \in Unlocked, NEW s, NEW e
    PROVE  /\ [Idle EXCEPT !.pc = l, !.step = s, !.env = e].pc \in Unlocked
           /\ [Idle EXCEPT !.pc = l, !.env = e].pc \in Unlocked
BY DEF Idle

LEMMA SameWork ==
    ASSUME NEW p \in Processes, job'[p] = job[p], Work(p),
           UNCHANGED <<plan, attempts, exposed, invoked>>
    PROVE  Work(p)'
<1>1. \A s : IsNextUnfinished(plan, s)' = IsNextUnfinished(plan, s)
  BY DEF IsNextUnfinished
<1>2. \A fp, s : Covers(fp, s)' = Covers(fp, s)
  BY DEF Covers
<1>3. \A a, s : Unrepeated(a, s)' = Unrepeated(a, s)
  BY DEF Unrepeated
<1>4. \A l, f : Doing(p, l, f)' = Doing(p, l, f) /\ At(p, l)' = At(p, l)
  BY DEF Doing, At
<1> QED BY <1>1, <1>2, <1>3, <1>4 DEF Work

LEMMA OthersWork ==
    ASSUME TypeInv, LoadedPlanIsCurrent, RecoveryInv, NEW p \in Processes, OthersWait(p), Work(p)',
           \/ lock \in {p, NoProcess}
           \/ UNCHANGED <<plan, attempts, exposed, invoked>>
    PROVE  \A q \in Processes : Work(q)'
<1> SUFFICES ASSUME NEW q \in Processes, q # p PROVE Work(q)'
  OBVIOUS
<1>1. job'[q] = job[q] /\ job[q] \in Jobs
  BY DEF OthersWait, TypeInv, TypeOK
<1>2. CASE job[q].pc \in Unlocked
  BY <1>1, <1>2, UnlockedWork
<1>3. CASE job[q].pc \in Locked
  <2>1. lock = q
    BY <1>3 DEF LoadedPlanIsCurrent
  <2>2. UNCHANGED <<plan, attempts, exposed, invoked>>
    BY <2>1, RunnerAssumption
  <2>3. Work(q)
    BY DEF RecoveryInv
  <2> QED BY <1>1, <2>2, <2>3, SameWork
<1> QED BY <1>1, <1>2, <1>3 DEF Jobs

LEMMA QuietStore ==
    ASSUME StoreInv, UNCHANGED <<plan, attempts, registry, exposed, invoked>>, TaskFileAgrees'
    PROVE  StoreInv'
BY DEF StoreInv, StepsInOrder, Backed, AttemptMatches, Opened, ExposedIsListed, CompletedHasFiles,
   EnteredIsKept, CommittedWorkIsKept, ApprovalCoversInputs

(* Registering an artifact, entering a tool. *)
LEMMA RegistryGrows ==
    ASSUME StoreInv, UNCHANGED <<plan, taskStatus, attempts, exposed>>, registry \subseteq registry',
           EnteredIsKept'
    PROVE  StoreInv'
<1>1. StepsInOrder' /\ CommittedWorkIsKept'
  BY DEF StoreInv, StepsInOrder, Backed, AttemptMatches, Opened, CommittedWorkIsKept
<1>2. ExposedIsListed' /\ CompletedHasFiles'
  BY DEF StoreInv, ExposedIsListed, CompletedHasFiles
<1>3. TaskFileAgrees' /\ ApprovalCoversInputs'
  BY DEF StoreInv, TaskFileAgrees, AllCompleted, ApprovalCoversInputs
<1> QED BY <1>1, <1>2, <1>3 DEF StoreInv

LEMMA QuietRecovery ==
    ASSUME TypeInv, LoadedPlanIsCurrent, RecoveryInv, NEW p \in Processes, OthersWait(p), Work(p)',
           UNCHANGED <<plan, attempts, registry, exposed, invoked>>, TaskFileAgrees'
    PROVE  RecoveryInv'
BY QuietStore, OthersWork DEF RecoveryInv

(* A command that ends, or goes on without the lock. *)
LEMMA OutRecovery ==
    ASSUME TypeInv, LoadedPlanIsCurrent, RecoveryInv, NEW p \in Processes, OthersWait(p),
           job'[p].pc \in Unlocked, UNCHANGED <<plan, attempts, registry, exposed, invoked>>,
           TaskFileAgrees'
    PROVE  RecoveryInv'
BY UnlockedWork, QuietRecovery

-----------------------------------------------------------------------------
(* Entering the task lock *)

(* The artifacts a manifest lists when a step may be approved are those of  *)
(* the steps before it.                                                     *)
LEMMA ManifestCovers ==
    ASSUME TypeInv, ConsentInv, StoreInv, NEW s \in Steps, NEW e, IsNextUnfinished(plan, s),
           plan[s].status = "planned"
    PROVE  Covers(Manifest(s, e), s)
<1>1. {v[1] : v \in Manifest(s, e).visible} = Visible
  <2>1. Manifest(s, e).visible = {<<i, disk[i]>> : i \in Visible}
    BY DEF Manifest
  <2>2. \A i \in Visible : <<i, disk[i]>>[1] = i
    OBVIOUS
  <2>3. \A i \in Visible : <<i, disk[i]>> \in Manifest(s, e).visible
    BY <2>1
  <2>4. \A v \in Manifest(s, e).visible : \E i \in Visible : v = <<i, disk[i]>>
    BY <2>1
  <2>5. ASSUME NEW x \in {v[1] : v \in Manifest(s, e).visible} PROVE x \in Visible
    BY <2>2, <2>4
  <2>6. ASSUME NEW i \in Visible PROVE i \in {v[1] : v \in Manifest(s, e).visible}
    BY <2>2, <2>3
  <2> QED BY <2>5, <2>6
<1>2. ASSUME NEW i \in Visible PROVE \E t \in 1..(s - 1) : i \in plan[t].artifacts
  <2> DEFINE t == attempts[i[1]].step
  <2>1. i \in exposed /\ i[1] \in Attempts /\ Opened(i[1]) /\ attempts[i[1]].status \in Durable
    BY DEF Visible, TypeInv, TypeOK, StoreTypeOK, ArtifactIds, Opened, Durable
  <2>2. t \in Steps
    BY <2>1 DEF ConsentInv, AttemptsGranted, Granted, Opened, TypeInv, TypeOK, StoreTypeOK, Fingerprints
  <2>3. plan[t].attempt = i[1] /\ plan[t].status \in {"running", "recovery_required", "completed"}
    BY <2>1 DEF StoreInv, CommittedWorkIsKept
  <2>4. t # s /\ ~(s < t)
    BY <2>2, <2>3 DEF StoreInv, StepsInOrder, Steps
  <2>5. t \in 1..(s - 1)
    BY <2>2, <2>4, StoreAssumption DEF Steps
  <2>6. plan[t].status = "completed"
    BY <2>5 DEF IsNextUnfinished
  <2>7. plan[t].artifacts = attempts[i[1]].artifacts
    BY <2>2, <2>3, <2>6 DEF StoreInv, CompletedHasFiles
  <2> QED BY <2>1, <2>5, <2>7 DEF StoreInv, ExposedIsListed
<1>3. ASSUME NEW t \in 1..(s - 1), NEW i \in plan[t].artifacts PROVE i \in Visible
  <2>1. t \in Steps /\ plan[t].status = "completed"
    BY StoreAssumption DEF Steps, IsNextUnfinished
  <2> QED BY <2>1 DEF StoreInv, CompletedHasFiles, ExposedIsListed, Visible
<1> QED BY <1>1, <1>2, <1>3 DEF Covers

LEMMA ApproveRecovery ==
    ASSUME TypeInv, LoadedPlanIsCurrent, ConsentInv, RecoveryInv, NEW p \in Processes, ApproveStep(p)
    PROVE  RecoveryInv'
<1>0. job \in [Processes -> Jobs] /\ job[p].step \in Steps
  BY DEF TypeInv, TypeOK, Jobs
<1>1. OthersWait(p)
  BY UnlockedIsLockStep DEF LockStep, Approving
<1>2. IsNextUnfinished(plan, job[p].step) /\ plan[job[p].step].status = "planned"
  BY DEF ApproveStep, MayBeApproved
<1>3. Covers(CurrentFingerprint(p), job[p].step)
  BY <1>0, <1>2, ManifestCovers DEF CurrentFingerprint, RecoveryInv
<1>4. /\ job' = [job EXCEPT ![p] = Loaded("save_plan", "approve", job[p].step, NoEnvironment,
                                          CurrentFingerprint(p), NoAttempt)]
      /\ UNCHANGED storeVars /\ UNCHANGED invoked
  BY DEF ApproveStep, History
<1>5. /\ job'[p].pc = "save_plan" /\ job'[p].flow = "approve" /\ job'[p].step = job[p].step
      /\ job'[p].fp = CurrentFingerprint(p)
  BY <1>0, <1>4 DEF Loaded
<1>6. Work(p)'
  BY <1>2, <1>3, <1>4, <1>5 DEF Work, Doing, At, IsNextUnfinished, Covers, storeVars
<1> QED BY <1>1, <1>4, <1>6, QuietRecovery DEF storeVars, RecoveryInv, StoreInv, TaskFileAgrees, AllCompleted

LEMMA ApprovingRecovery ==
    ASSUME TypeInv, LoadedPlanIsCurrent, ConsentInv, RecoveryInv, NEW p \in Processes, Approving(p)
    PROVE  RecoveryInv'
<1>0. job \in [Processes -> Jobs]
  BY DEF TypeInv, TypeOK
<1>1. OthersWait(p)
  BY UnlockedIsLockStep DEF LockStep
<1>2. ASSUME ~ApproveStep(p) PROVE RecoveryInv'
  <2>1. ASSUME \E s \in Steps : StartApprove(p, s) PROVE job'[p].pc \in Unlocked
    BY <1>0, <2>1, StartedUnlocked DEF StartApprove, Unlocked
  <2>2. ASSUME Preview(p) \/ Confirm(p) PROVE job'[p].pc \in Unlocked
    BY <1>0, <2>2 DEF Preview, Confirm, Goto, Unlocked, Jobs
  <2>3. ASSUME PreviewRefused(p) \/ Decline(p) \/ ApproveRefused(p) \/ Busy(p)
        PROVE  job'[p].pc \in Unlocked
    BY <2>3, IdleUnlocked DEF PreviewRefused, Decline, ApproveRefused, Busy, EndUnlocked
  <2>4. job'[p].pc \in Unlocked
    BY <1>2, <2>1, <2>2, <2>3 DEF Approving
  <2>5. UNCHANGED storeVars /\ UNCHANGED invoked
    BY <1>2 DEF Approving, StartApprove, Preview, PreviewRefused, Confirm, Decline,
       ApproveRefused, Busy, History
  <2> QED BY <1>1, <2>4, <2>5, OutRecovery
      DEF storeVars, RecoveryInv, StoreInv, TaskFileAgrees, AllCompleted
<1> QED BY <1>2, ApproveRecovery

LEMMA ResumingRecovery ==
    ASSUME TypeInv, LoadedPlanIsCurrent, RecoveryInv, NEW p \in Processes, Resuming(p)
    PROVE  RecoveryInv'
<1>0. job \in [Processes -> Jobs]
  BY DEF TypeInv, TypeOK
<1>1. OthersWait(p)
  BY UnlockedIsLockStep DEF LockStep
<1>2. ASSUME UNCHANGED storeVars PROVE TaskFileAgrees'
  BY <1>2 DEF storeVars, RecoveryInv, StoreInv, TaskFileAgrees, AllCompleted
<1>3. ASSUME StartResume(p) \/ ResumeRefused(p) PROVE RecoveryInv'
  <2>1. job'[p].pc \in Unlocked
    BY <1>0, <1>3, IdleUnlocked, StartedUnlocked DEF StartResume, ResumeRefused, EndUnlocked, Unlocked
  <2> QED BY <1>1, <1>2, <1>3, <2>1, OutRecovery DEF StartResume, ResumeRefused, storeVars, History
<1>4. ASSUME ResumeReport(p) PROVE RecoveryInv'
  <2>1. job'[p].pc \in Unlocked
    BY <1>4, IdleUnlocked DEF ResumeReport, EndUnlocked
  <2>2. TaskFileAgrees'
    BY <1>4 DEF ResumeReport, SaveTaskFile, ReportedStatus, TaskFileAgrees, AllCompleted
  <2>3. UNCHANGED <<plan, attempts, registry, exposed, invoked>>
    BY <1>4 DEF ResumeReport, SaveTaskFile, History
  <2> QED BY <1>1, <2>1, <2>2, <2>3, OutRecovery
<1>5. ASSUME ResumeInterrupted(p) PROVE RecoveryInv'
  <2>1. PICK s \in Steps :
          /\ IsNextUnfinished(plan, s) /\ plan[s].status = "running"
          /\ job' = [job EXCEPT ![p] = Loaded("save_plan", "interrupt", s, NoEnvironment,
                                              NoFingerprint, NoAttempt)]
    BY <1>5 DEF ResumeInterrupted
  <2>2. UNCHANGED storeVars /\ UNCHANGED invoked
    BY <1>5 DEF ResumeInterrupted, History
  <2>3. job'[p].pc = "save_plan" /\ job'[p].flow = "interrupt" /\ job'[p].step = s
    BY <1>0, <2>1 DEF Loaded
  <2>4. Work(p)'
    BY <2>1, <2>2, <2>3 DEF Work, Doing, At, IsNextUnfinished, storeVars
  <2> QED BY <1>1, <1>2, <2>2, <2>4, QuietRecovery DEF storeVars
<1>6. ASSUME ResumeInvalidate(p) PROVE RecoveryInv'
  <2>1. PICK s \in Steps :
          /\ IsNextUnfinished(plan, s) /\ plan[s].status = "approved"
          /\ job' = [job EXCEPT ![p] = Loaded("save_plan", "invalidate", s, NoEnvironment,
                                              plan[s].fp, NoAttempt)]
    BY <1>6 DEF ResumeInvalidate
  <2>2. UNCHANGED storeVars /\ UNCHANGED invoked
    BY <1>6 DEF ResumeInvalidate, History
  <2>3. job'[p].pc = "save_plan" /\ job'[p].flow = "invalidate" /\ job'[p].step = s
    BY <1>0, <2>1 DEF Loaded
  <2>4. Work(p)'
    BY <2>1, <2>2, <2>3 DEF Work, Doing, At, IsNextUnfinished, storeVars
  <2> QED BY <1>1, <1>2, <2>2, <2>4, QuietRecovery DEF storeVars
<1>7. ASSUME ResumeApproved(p) PROVE RecoveryInv'
  <2>1. PICK s \in Steps :
          /\ IsNextUnfinished(plan, s) /\ plan[s].status = "approved"
          /\ job' = [job EXCEPT ![p] = Loaded("begin", "run", s, job[p].env,
                                              plan[s].fp, NoAttempt)]
    BY <1>7 DEF ResumeApproved
  <2>2. UNCHANGED storeVars /\ UNCHANGED invoked
    BY <1>7 DEF ResumeApproved, History
  <2>3. /\ job'[p].pc = "begin" /\ job'[p].flow = "run" /\ job'[p].step = s
        /\ job'[p].fp = plan[s].fp
    BY <1>0, <2>1 DEF Loaded
  <2>4. Work(p)'
    BY <2>1, <2>2, <2>3 DEF Work, Doing, At, IsNextUnfinished, storeVars
  <2> QED BY <1>1, <1>2, <2>2, <2>4, QuietRecovery DEF storeVars
<1> QED BY <1>3, <1>4, <1>5, <1>6, <1>7 DEF Resuming

LEMMA RecoveringRecovery ==
    ASSUME TypeInv, LoadedPlanIsCurrent, ConsentInv, RecoveryInv, NEW p \in Processes, Recovering(p)
    PROVE  RecoveryInv'
<1>0. job \in [Processes -> Jobs] /\ StoreInv
  BY DEF TypeInv, TypeOK, RecoveryInv
<1>1. OthersWait(p)
  BY UnlockedIsLockStep DEF LockStep
<1>2. PICK s \in Steps : RecoverFinalize(p, s) \/ RecoverRetry(p, s) \/ RecoverFail(p, s)
  BY DEF Recovering
<1>3. UNCHANGED storeVars /\ UNCHANGED invoked
  BY <1>2 DEF RecoverFinalize, RecoverRetry, RecoverFail, RecoverFrom, History
<1>4. ASSUME RecoverFinalize(p, s) PROVE Work(p)'
  <2>1. /\ job'[p].pc = "expose" /\ job'[p].flow = "complete" /\ job'[p].step = s
        /\ job'[p].attempt = plan[s].attempt
    BY <1>0, <1>4 DEF RecoverFinalize, RecoverFrom, Loaded
  <2>2. /\ attempts[plan[s].attempt].status \in Durable
        /\ \/ plan[s].status = "completed"
           \/ plan[s].status \in Open /\ IsNextUnfinished(plan, s)
    BY <1>4 DEF RecoverFinalize, Interrupted, Open
  <2> QED BY <1>3, <2>1, <2>2 DEF Work, Doing, At, IsNextUnfinished, storeVars
<1>5. ASSUME RecoverRetry(p, s) PROVE Work(p)'
  <2>1. /\ job'[p].pc = "finish" /\ job'[p].flow = "retry" /\ job'[p].step = s
        /\ job'[p].attempt = plan[s].attempt
    BY <1>0, <1>5 DEF RecoverRetry, RecoverFrom, Loaded
  <2>2. plan[s].status \in Open /\ IsNextUnfinished(plan, s)
    BY <1>5 DEF RecoverRetry, Interrupted, Open
  <2>3. attempts[plan[s].attempt].status \notin Durable /\ Unrepeated(plan[s].attempt, s)
    BY <1>0, <1>5 DEF RecoverRetry, RetrySafe, Durable, Unrepeated, StoreInv, EnteredIsKept
  <2> QED BY <1>3, <2>1, <2>2, <2>3
      DEF Work, Doing, At, IsNextUnfinished, Unrepeated, storeVars
<1>6. ASSUME RecoverFail(p, s) PROVE Work(p)'
  <2>1. /\ job'[p].pc = "finish" /\ job'[p].flow = "fail" /\ job'[p].step = s
        /\ job'[p].attempt = plan[s].attempt
    BY <1>0, <1>6 DEF RecoverFail, RecoverFrom, Loaded
  <2>2. /\ plan[s].status \in Open /\ IsNextUnfinished(plan, s)
        /\ attempts[plan[s].attempt].status \notin Durable
    BY <1>6 DEF RecoverFail, Interrupted, Open
  <2> QED BY <1>3, <2>1, <2>2 DEF Work, Doing, At, IsNextUnfinished, storeVars
<1>7. TaskFileAgrees'
  BY <1>0, <1>3 DEF storeVars, StoreInv, TaskFileAgrees, AllCompleted
<1> QED BY <1>1, <1>2, <1>3, <1>4, <1>5, <1>6, <1>7, QuietRecovery DEF storeVars

-----------------------------------------------------------------------------
(* Moving an attempt record on *)

(* What a new version of an attempt record must respect.                    *)
MayBecome(a, rec) ==
    /\ rec.status # "absent"
    /\ Opened(a) => rec.step = attempts[a].step /\ rec.fp = attempts[a].fp
    /\ attempts[a].status \in Durable =>
        rec.status = "finalized" /\ rec.artifacts = attempts[a].artifacts
    /\ rec.status \in Durable =>
        /\ a \in invoked
        /\ plan[rec.step].attempt = a
        /\ plan[rec.step].status \in {"running", "recovery_required", "completed"}
    /\ a \in invoked => rec.status # "prepared"

LEMMA AttemptKeepsStore ==
    ASSUME TypeInv, ConsentInv, StoreInv, NEW a \in Attempts, NEW rec \in AttemptRecords,
           MayBecome(a, rec), WriteAttempt(a, rec), UNCHANGED invoked
    PROVE  StoreInv'
<1>0. /\ attempts' = [attempts EXCEPT ![a] = rec] /\ attempts \in [Attempts -> AttemptRecords]
      /\ UNCHANGED <<plan, taskStatus, registry, exposed, invoked>>
  BY DEF WriteAttempt, TypeInv, TypeOK, StoreTypeOK
<1>1. StepsInOrder'
  <2>1. ASSUME NEW s \in Steps, Backed(s) PROVE Backed(s)'
    <3>1. plan[s].attempt \in Attempts
      BY <2>1 DEF Backed, AttemptMatches, TypeInv, TypeOK, StoreTypeOK, Plans, StepRecords
    <3> QED BY <1>0, <2>1, <3>1 DEF Backed, AttemptMatches, Opened, MayBecome
  <2> QED BY <1>0, <2>1 DEF StoreInv, StepsInOrder
<1>2. ExposedIsListed'
  <2>1. \A i \in exposed : i[1] \in Attempts
    BY DEF TypeInv, TypeOK, StoreTypeOK, ArtifactIds
  <2> QED BY <1>0, <2>1 DEF StoreInv, ExposedIsListed, MayBecome, Durable
<1>3. CompletedHasFiles'
  <2> SUFFICES ASSUME NEW s \in Steps, plan[s].status = "completed"
               PROVE  /\ attempts'[plan[s].attempt].status = "finalized"
                      /\ plan[s].artifacts = attempts'[plan[s].attempt].artifacts
                      /\ plan[s].artifacts \subseteq exposed
    BY <1>0 DEF CompletedHasFiles
  <2>1. plan[s].attempt \in Attempts
    BY DEF StoreInv, StepsInOrder, Backed, AttemptMatches, TypeInv, TypeOK, StoreTypeOK, Plans,
       StepRecords
  <2> QED BY <1>0, <2>1 DEF StoreInv, CompletedHasFiles, MayBecome, Durable
<1>4. TaskFileAgrees'
  BY <1>0 DEF StoreInv, TaskFileAgrees, AllCompleted
<1>5. EnteredIsKept'
  <2>1. invoked \subseteq Attempts /\ \A b \in invoked : Opened(b)
    BY DEF TypeInv, TypeOK, ConsentInv
  <2> QED BY <1>0, <2>1 DEF StoreInv, EnteredIsKept, MayBecome
<1>6. CommittedWorkIsKept'
  BY <1>0 DEF StoreInv, CommittedWorkIsKept, MayBecome
<1>7. ApprovalCoversInputs'
  BY <1>0 DEF StoreInv, ApprovalCoversInputs
<1> QED BY <1>1, <1>2, <1>3, <1>4, <1>5, <1>6, <1>7 DEF StoreInv

(* The command that moves it holds the lock, so nobody else is disturbed.   *)
LEMMA AttemptRecovery ==
    ASSUME TypeInv, LoadedPlanIsCurrent, ConsentInv, RecoveryInv, NEW p \in Processes,
           OthersWait(p), job[p].pc \in Locked, NEW a \in Attempts, NEW rec \in AttemptRecords,
           MayBecome(a, rec), WriteAttempt(a, rec), UNCHANGED invoked, Work(p)'
    PROVE  RecoveryInv'
<1>1. lock = p
  BY DEF LoadedPlanIsCurrent
<1> QED BY <1>1, AttemptKeepsStore, OthersWork DEF RecoveryInv

LEMMA ToolRecovery ==
    ASSUME TypeInv, LoadedPlanIsCurrent, ConsentInv, RecoveryInv, NEW p \in Processes, Advance(p),
           \/ BeginAttempt(p) \/ StartAttempt(p) \/ InvokeTool(p) \/ ToolWrite(p)
           \/ ToolRegister(p) \/ ToolReturn(p) \/ ToolRaise(p)
    PROVE  RecoveryInv'
<1>0. /\ job \in [Processes -> Jobs] /\ job[p] \in Jobs /\ Ready(job[p]) /\ StoreTypeOK /\ StoreInv
      /\ Work(p)
  BY DEF TypeInv, TypeOK, JobsReady, RecoveryInv
<1>1. OthersWait(p)
  BY LockedIsLockStep DEF LockStep
<1> DEFINE s == job[p].step
           b == job[p].attempt
<1>2. ASSUME BeginAttempt(p) PROVE RecoveryInv'
  <2>1. PICK a \in Attempts :
          /\ BeginAttemptFile(a, s, job[p].fp)
          /\ job' = [job EXCEPT ![p].pc = "save_plan", ![p].attempt = a]
    BY <1>2 DEF BeginAttempt
  <2> DEFINE rec == [status |-> "prepared", step |-> s, fp |-> job[p].fp, artifacts |-> {}]
  <2>2. ~Opened(a) /\ WriteAttempt(a, rec) /\ UNCHANGED invoked
    BY <1>2, <2>1 DEF BeginAttempt, BeginAttemptFile, Opened, History
  <2>3. rec \in AttemptRecords
    BY <1>0 DEF Jobs, AttemptRecords, AttemptStatuses
  <2>4. a \notin invoked
    BY <2>2 DEF ConsentInv
  <2>5. MayBecome(a, rec)
    BY <2>2, <2>4 DEF MayBecome, Opened, Durable
  <2>6. /\ job'[p].pc = "save_plan" /\ job'[p].flow = "run" /\ job'[p].step = s
        /\ job'[p].attempt = a
    BY <1>0, <1>2, <2>1 DEF Jobs, BeginAttempt, At, Ready
  <2>7. /\ IsNextUnfinished(plan, s) /\ plan[s].status = "approved" /\ job[p].fp = plan[s].fp
    BY <1>0, <1>2 DEF BeginAttempt, At, Work
  <2>8. attempts'[a] = rec /\ plan' = plan
    BY <1>0, <2>2 DEF WriteAttempt, StoreTypeOK
  <2>9. Work(p)'
    BY <2>2, <2>4, <2>6, <2>7, <2>8 DEF Work, Doing, At, IsNextUnfinished
  <2> QED BY <1>1, <1>2, <2>2, <2>3, <2>5, <2>9, AttemptRecovery DEF BeginAttempt, At, Locked
<1>3. ASSUME StartAttempt(p) PROVE RecoveryInv'
  <2> DEFINE rec == [attempts[b] EXCEPT !.status = "running"]
  <2>1. /\ IsNextUnfinished(plan, s) /\ plan[s].status = "running" /\ plan[s].attempt = b
        /\ attempts[b].status = "prepared" /\ b \notin invoked /\ b \in Attempts
    BY <1>0, <1>3 DEF StartAttempt, At, Work, Ready, Working
  <2>2. WriteAttempt(b, rec) /\ UNCHANGED invoked
    BY <1>3 DEF StartAttempt, StartAttemptFile, History
  <2>3. rec \in AttemptRecords
    BY <1>0, <2>1, AttemptRecordType DEF AttemptStatuses
  <2>4. MayBecome(b, rec)
    BY <1>0, <2>1 DEF MayBecome, Durable, StoreTypeOK, AttemptRecords
  <2>5. job'[p].pc = "invoke" /\ job'[p].step = s /\ job'[p].attempt = b
    BY <1>0, <1>3 DEF StartAttempt, Goto, Jobs
  <2>6. attempts'[b].status = "running" /\ plan' = plan
    BY <1>0, <2>1, <2>2 DEF WriteAttempt, StoreTypeOK, AttemptRecords
  <2>7. Work(p)'
    BY <2>1, <2>2, <2>5, <2>6 DEF Work, Doing, At, IsNextUnfinished
  <2> QED BY <1>1, <1>3, <2>1, <2>2, <2>3, <2>4, <2>7, AttemptRecovery DEF StartAttempt, At, Locked
<1>4. ASSUME InvokeTool(p) PROVE RecoveryInv'
  <2>1. /\ IsNextUnfinished(plan, s) /\ plan[s].status = "running" /\ plan[s].attempt = b
        /\ attempts[b].status = "running" /\ b \in Attempts /\ lock = p /\ s \in Steps
    BY <1>0, <1>4 DEF InvokeTool, At, Work, Ready, Working, Jobs, LoadedPlanIsCurrent, Locked
  <2>2. UNCHANGED storeVars /\ invoked' = invoked \cup {b}
    BY <1>4 DEF InvokeTool
  <2>3. job'[p].pc = "tool" /\ job'[p].step = s /\ job'[p].attempt = b
    BY <1>0, <1>4 DEF InvokeTool, Goto, Jobs
  <2>4. Work(p)'
    BY <2>1, <2>2, <2>3 DEF Work, Doing, At, IsNextUnfinished, storeVars
  <2>5. attempts[b].step = s
    BY <1>0, <2>1 DEF StoreInv, StepsInOrder, Backed, AttemptMatches
  <2>6. EnteredIsKept'
    BY <1>0, <2>1, <2>2, <2>5 DEF StoreInv, EnteredIsKept, storeVars
  <2>7. StoreInv'
    BY <1>0, <2>2, <2>6, RegistryGrows DEF storeVars
  <2> QED BY <1>1, <2>1, <2>4, <2>7, OthersWork DEF RecoveryInv
<1>5. ASSUME ToolWrite(p) \/ ToolReturn(p) \/ ToolRaise(p) PROVE RecoveryInv'
  <2>1. /\ IsNextUnfinished(plan, s) /\ plan[s].status = "running" /\ plan[s].attempt = b
        /\ attempts[b].status = "running" /\ b \in invoked
    BY <1>0, <1>5 DEF ToolWrite, ToolReturn, ToolRaise, At, Work
  <2>2. UNCHANGED <<plan, taskStatus, attempts, registry, exposed, invoked>>
    BY <1>5 DEF ToolWrite, WriteArtifactFile, ToolReturn, ToolRaise, storeVars, History
  <2>3. /\ job'[p].step = s /\ job'[p].attempt = b
        /\ \/ job'[p].pc = "register"
           \/ job'[p].pc = "commit"
           \/ job'[p].pc = "finish" /\ job'[p].flow = "fail"
    BY <1>0, <1>5 DEF ToolWrite, ToolReturn, ToolRaise, Goto, Jobs
  <2>4. Work(p)'
    BY <2>1, <2>2, <2>3 DEF Work, Doing, At, IsNextUnfinished, Open, Durable
  <2> QED BY <1>0, <1>1, <2>2, <2>4, QuietRecovery DEF StoreInv, TaskFileAgrees, AllCompleted
<1>6. ASSUME ToolRegister(p) PROVE RecoveryInv'
  <2>1. /\ IsNextUnfinished(plan, s) /\ plan[s].status = "running" /\ plan[s].attempt = b
        /\ attempts[b].status = "running" /\ b \in invoked /\ lock = p
    BY <1>0, <1>6 DEF ToolRegister, At, Work, LoadedPlanIsCurrent, Locked
  <2>2. /\ UNCHANGED <<plan, taskStatus, attempts, exposed, invoked>>
        /\ registry \subseteq registry'
    BY <1>6 DEF ToolRegister, RegisterArtifact, History
  <2>3. job'[p].step = s /\ job'[p].attempt = b /\ job'[p].pc = "tool"
    BY <1>0, <1>6 DEF ToolRegister, Goto, Jobs
  <2>4. Work(p)'
    BY <2>1, <2>2, <2>3 DEF Work, Doing, At, IsNextUnfinished
  <2>5. EnteredIsKept'
    BY <1>0, <2>2 DEF StoreInv, EnteredIsKept
  <2>6. StoreInv'
    BY <1>0, <2>2, <2>5, RegistryGrows
  <2> QED BY <1>1, <2>1, <2>4, <2>6, OthersWork DEF RecoveryInv
<1> QED BY <1>2, <1>3, <1>4, <1>5, <1>6

(* Committing and closing an attempt. *)
LEMMA CommitRecovery ==
    ASSUME TypeInv, LoadedPlanIsCurrent, ConsentInv, RecoveryInv, NEW p \in Processes, Advance(p),
           \/ Commit(p) \/ Expose(p) \/ MarkFinalized(p) \/ FinishAttempt(p)
    PROVE  RecoveryInv'
<1>0. /\ job \in [Processes -> Jobs] /\ job[p] \in Jobs /\ Ready(job[p]) /\ StoreTypeOK /\ StoreInv
      /\ Work(p)
  BY DEF TypeInv, TypeOK, JobsReady, RecoveryInv
<1>1. OthersWait(p)
  BY LockedIsLockStep DEF LockStep
<1> DEFINE s == job[p].step
           b == job[p].attempt
<1>2. /\ job[p].pc \in Working /\ job[p].pc \in Locked /\ b \in Attempts /\ s \in Steps
      /\ attempts[b] \in AttemptRecords /\ lock = p
  BY <1>0 DEF Commit, Expose, MarkFinalized, FinishAttempt, At, Working, Locked, Ready, Jobs,
     StoreTypeOK, LoadedPlanIsCurrent
<1>3. plan[s].status \in {"running", "recovery_required", "completed"} /\ plan[s].attempt = b
      => attempts[b].step = s /\ attempts[b].fp = plan[s].fp
  BY <1>0, <1>2 DEF StoreInv, StepsInOrder, Backed, AttemptMatches
<1>4. ASSUME Commit(p) PROVE RecoveryInv'
  <2> DEFINE rec == [attempts[b] EXCEPT !.status = "committed", !.artifacts = OutputsOf(b)]
  <2>1. /\ IsNextUnfinished(plan, s) /\ plan[s].status = "running" /\ plan[s].attempt = b
        /\ attempts[b].status = "running" /\ b \in invoked
    BY <1>0, <1>4 DEF Commit, At, Work
  <2>2. WriteAttempt(b, rec) /\ UNCHANGED invoked
    BY <1>4 DEF Commit, CommitMarker, History
  <2>3. rec \in AttemptRecords
    BY <1>0, <1>2, AttemptRecordType DEF AttemptStatuses
  <2>4. rec.status = "committed" /\ rec.step = s /\ rec.fp = attempts[b].fp
    BY <1>2, <1>3, <2>1 DEF AttemptRecords
  <2>5. MayBecome(b, rec)
    BY <1>3, <2>1, <2>4 DEF MayBecome, Durable
  <2>6. job'[p].pc = "expose" /\ job'[p].step = s /\ job'[p].attempt = b
    BY <1>0, <1>4 DEF Commit, Goto, Jobs
  <2>7. attempts'[b].status = "committed" /\ plan' = plan
    BY <1>0, <1>2, <2>2, <2>4 DEF WriteAttempt, StoreTypeOK
  <2>8. Work(p)'
    BY <2>1, <2>2, <2>6, <2>7 DEF Work, Doing, At, IsNextUnfinished, Open, Durable
  <2> QED BY <1>1, <1>2, <2>2, <2>3, <2>5, <2>8, AttemptRecovery
<1>5. ASSUME Expose(p) PROVE RecoveryInv'
  <2>1. /\ plan[s].attempt = b /\ attempts[b].status \in Durable
        /\ plan[s].status = "completed" \/ (plan[s].status \in Open /\ IsNextUnfinished(plan, s))
    BY <1>0, <1>5 DEF Expose, Work
  <2>2. /\ UNCHANGED <<plan, taskStatus, attempts, registry, invoked>>
        /\ exposed' = exposed \cup attempts[b].artifacts /\ Exposable(b)
    BY <1>5 DEF Expose, ExposeArtifacts, History
  <2>3. job'[p].step = s /\ job'[p].attempt = b /\ job'[p].pc \in {"reexpose", "mark"}
    BY <1>0, <1>5 DEF Expose, Goto, Jobs
  <2>4. Work(p)'
    BY <2>1, <2>2, <2>3 DEF Work, Doing, At, IsNextUnfinished
  <2>5. ExposedIsListed' /\ CompletedHasFiles'
    BY <1>0, <2>2 DEF StoreInv, ExposedIsListed, CompletedHasFiles, Exposable
  <2>6. StepsInOrder' /\ CommittedWorkIsKept'
    BY <1>0, <2>2 DEF StoreInv, StepsInOrder, Backed, AttemptMatches, Opened, CommittedWorkIsKept
  <2>7. TaskFileAgrees' /\ ApprovalCoversInputs' /\ EnteredIsKept'
    BY <1>0, <2>2 DEF StoreInv, TaskFileAgrees, AllCompleted, ApprovalCoversInputs, EnteredIsKept
  <2> QED BY <1>1, <1>2, <2>4, <2>5, <2>6, <2>7, OthersWork DEF RecoveryInv, StoreInv
<1>6. ASSUME MarkFinalized(p) PROVE RecoveryInv'
  <2> DEFINE rec == [attempts[b] EXCEPT !.status = "finalized"]
  <2>1. /\ plan[s].attempt = b /\ attempts[b].status \in Durable /\ b \in invoked
        /\ plan[s].status = "completed" \/ (plan[s].status \in Open /\ IsNextUnfinished(plan, s))
        /\ attempts[b].artifacts \subseteq exposed
    BY <1>0, <1>2, <1>6 DEF MarkFinalized, At, Work, StoreInv, EnteredIsKept
  <2>2. WriteAttempt(b, rec) /\ UNCHANGED invoked
    BY <1>6 DEF MarkFinalized, MarkFinalizedFile, History
  <2>3. rec \in AttemptRecords
    BY <1>0, <1>2, AttemptRecordType DEF AttemptStatuses
  <2>4. /\ rec.status = "finalized" /\ rec.step = s /\ rec.fp = attempts[b].fp
        /\ rec.artifacts = attempts[b].artifacts
    BY <1>2, <1>3, <2>1 DEF AttemptRecords, Open
  <2>5. MayBecome(b, rec)
    BY <1>3, <2>1, <2>4 DEF MayBecome, Open
  <2>6. /\ job'[p].step = s /\ job'[p].attempt = b /\ job'[p].flow = "complete"
        /\ IF plan[s].status = "completed" THEN job'[p].pc = "save_task"
                                           ELSE job'[p].pc = "save_plan"
    BY <1>0, <1>2, <1>6 DEF MarkFinalized, Goto, Jobs, Ready, At, LoadedPlanIsCurrent
  <2>7. /\ attempts'[b] = rec /\ plan' = plan /\ exposed' = exposed
    BY <1>0, <1>2, <2>2 DEF WriteAttempt, StoreTypeOK
  <2>8. Work(p)'
    BY <2>1, <2>2, <2>4, <2>6, <2>7 DEF Work, Doing, At, IsNextUnfinished, Open
  <2> QED BY <1>1, <1>2, <2>2, <2>3, <2>5, <2>8, AttemptRecovery
<1>7. ASSUME FinishAttempt(p) PROVE RecoveryInv'
  <2> DEFINE st == IF job[p].flow = "retry" THEN "abandoned" ELSE "failed"
             rec == [attempts[b] EXCEPT !.status = st]
  <2>1. /\ IsNextUnfinished(plan, s) /\ plan[s].status \in Open /\ plan[s].attempt = b
        /\ attempts[b].status \notin Durable /\ job[p].flow \in {"fail", "retry"}
        /\ job[p].flow = "retry" => Unrepeated(b, s)
    BY <1>0, <1>7 DEF FinishAttempt, At, Doing, Work, Ready
  <2>2. WriteAttempt(b, rec) /\ UNCHANGED invoked
    BY <1>7 DEF FinishAttempt, FinishAttemptFile, History
  <2>3. rec \in AttemptRecords
    BY <1>0, <1>2, AttemptRecordType DEF AttemptStatuses
  <2>4. rec.status = st /\ rec.step = attempts[b].step /\ rec.fp = attempts[b].fp
    BY <1>2 DEF AttemptRecords
  <2>5. MayBecome(b, rec)
    BY <2>1, <2>4 DEF MayBecome, Durable
  <2>6. /\ job'[p].pc = "save_plan" /\ job'[p].step = s /\ job'[p].attempt = b
        /\ job'[p].flow = job[p].flow
    BY <1>0, <1>7 DEF FinishAttempt, Goto, Jobs
  <2>7. attempts'[b].status = st /\ plan' = plan
    BY <1>0, <1>2, <2>2, <2>4 DEF WriteAttempt, StoreTypeOK
  <2>8. Work(p)'
    BY <2>1, <2>2, <2>6, <2>7 DEF Work, Doing, At, IsNextUnfinished, Unrepeated
  <2> QED BY <1>1, <1>2, <2>2, <2>3, <2>5, <2>8, AttemptRecovery
<1> QED BY <1>4, <1>5, <1>6, <1>7

-----------------------------------------------------------------------------
(* Saving plan.json *)

(* What a new version of the record of step s must respect.                 *)
MayBeSaved(s, r) ==
    /\ IsNextUnfinished(plan, s)
    /\ r.status \in {"planned", "approved"} => r.attempt = NoAttempt
    /\ r.status \notin {"planned", "approved"} =>
        /\ r.attempt # NoAttempt /\ Opened(r.attempt)
        /\ attempts[r.attempt].step = s /\ attempts[r.attempt].fp = r.fp
    /\ r.status = "completed" =>
        /\ attempts[r.attempt].status = "finalized"
        /\ r.artifacts = attempts[r.attempt].artifacts /\ r.artifacts \subseteq exposed
    /\ \A a \in Attempts : attempts[a].step = s /\ attempts[a].status \in Durable =>
        r.attempt = a /\ r.status \in {"running", "recovery_required", "completed"}
    /\ s \notin LocalSteps => \A a \in invoked : attempts[a].step = s => r.attempt = a
    /\ r.fp # NoFingerprint => Covers(r.fp, s)

LEMMA PlanKeepsStore ==
    ASSUME TypeInv, ConsentInv, StoreInv, NEW s \in Steps, NEW r \in StepRecords, MayBeSaved(s, r),
           SavePlanFile([plan EXCEPT ![s] = r]), UNCHANGED invoked
    PROVE  StoreInv'
<1>0. /\ plan' = [plan EXCEPT ![s] = r] /\ plan \in [Steps -> StepRecords]
      /\ UNCHANGED <<taskStatus, attempts, registry, exposed, invoked>>
  BY DEF SavePlanFile, TypeInv, TypeOK, StoreTypeOK, Plans
<1>1. plan'[s] = r /\ \A t \in Steps \ {s} : plan'[t] = plan[t]
  BY <1>0
<1>2. plan[s].status # "completed" /\ \A t \in 1..(s - 1) : plan[t].status = "completed"
  BY DEF MayBeSaved, IsNextUnfinished
<1>3. \A t \in Steps : s \in 1..(t - 1) => plan[t].status = "planned" /\ plan[t].fp = NoFingerprint
  BY <1>2 DEF StoreInv, StepsInOrder, ApprovalCoversInputs
<1>4. \A t \in Steps : \A u \in 1..(t - 1) : u \in Steps /\ (t = s => u # s)
  BY StoreAssumption DEF Steps
<1>5. StepsInOrder'
  <2> SUFFICES ASSUME NEW t \in Steps
               PROVE  /\ plan'[t].status \in {"planned", "approved"} => plan'[t].attempt = NoAttempt
                      /\ plan'[t].status \notin {"planned", "approved"} => Backed(t)'
                      /\ plan'[t].status # "planned" =>
                            \A u \in 1..(t - 1) : plan'[u].status = "completed"
    BY DEF StepsInOrder
  <2>1. CASE t = s
    BY <1>0, <1>1, <1>2, <1>4, <2>1 DEF MayBeSaved, Backed, AttemptMatches, Opened
  <2>2. CASE t # s
    BY <1>0, <1>1, <1>3, <1>4, <2>2 DEF StoreInv, StepsInOrder, Backed, AttemptMatches, Opened
  <2> QED BY <2>1, <2>2
<1>6. ExposedIsListed'
  BY <1>0 DEF StoreInv, ExposedIsListed
<1>7. CompletedHasFiles'
  BY <1>0, <1>1 DEF StoreInv, CompletedHasFiles, MayBeSaved
<1>8. TaskFileAgrees'
  BY <1>0, <1>2 DEF StoreInv, TaskFileAgrees, AllCompleted
<1>9. EnteredIsKept'
  <2> SUFFICES ASSUME NEW a \in invoked, attempts[a].step \notin LocalSteps
               PROVE  plan'[attempts[a].step].attempt = a
    BY <1>0 DEF StoreInv, EnteredIsKept
  <2>1. attempts[a].step \in Steps
    BY DEF TypeInv, TypeOK, StoreTypeOK, ConsentInv, AttemptsGranted, Granted, Opened, Fingerprints
  <2> QED BY <1>1, <2>1 DEF StoreInv, EnteredIsKept, MayBeSaved
<1>10. CommittedWorkIsKept'
  <2> SUFFICES ASSUME NEW a \in Attempts, attempts[a].status \in Durable
               PROVE  /\ plan'[attempts[a].step].attempt = a
                      /\ plan'[attempts[a].step].status
                            \in {"running", "recovery_required", "completed"}
    BY <1>0 DEF CommittedWorkIsKept
  <2>1. attempts[a].step \in Steps
    BY DEF TypeInv, TypeOK, StoreTypeOK, ConsentInv, AttemptsGranted, Granted, Opened, Fingerprints,
       Durable
  <2> QED BY <1>1, <2>1 DEF StoreInv, CommittedWorkIsKept, MayBeSaved
<1>11. ApprovalCoversInputs'
  <2> SUFFICES ASSUME NEW t \in Steps, plan'[t].fp # NoFingerprint
               PROVE  /\ \A u \in 1..(t - 1) : plan'[u].status = "completed"
                      /\ {v[1] : v \in plan'[t].fp.visible}
                            = UNION {plan'[u].artifacts : u \in 1..(t - 1)}
    BY DEF ApprovalCoversInputs
  <2>1. \A u \in 1..(t - 1) : plan'[u] = plan[u]
    BY <1>1, <1>3, <1>4
  <2>2. UNION {plan'[u].artifacts : u \in 1..(t - 1)} = UNION {plan[u].artifacts : u \in 1..(t - 1)}
    BY <2>1
  <2>3. CASE t = s
    BY <1>1, <1>2, <2>1, <2>2, <2>3 DEF MayBeSaved, Covers
  <2>4. CASE t # s
    BY <1>1, <2>1, <2>2, <2>4 DEF StoreInv, ApprovalCoversInputs
  <2> QED BY <2>3, <2>4
<1> QED BY <1>5, <1>6, <1>7, <1>8, <1>9, <1>10, <1>11 DEF StoreInv

(* Each of the seven ways a command revises the record of its step.         *)
LEMMA RevisedMayBeSaved ==
    ASSUME TypeInv, LoadedPlanIsCurrent, ConsentInv, RecoveryInv, NEW p \in Processes, SavePlan(p)
    PROVE  MayBeSaved(job[p].step, Revised(p))
<1> DEFINE s == job[p].step
           b == job[p].attempt
           r == Revised(p)
<1>0. /\ job[p] \in Jobs /\ Ready(job[p]) /\ StoreTypeOK /\ StoreInv /\ Work(p)
      /\ job[p].pc = "save_plan" /\ job[p].plan = plan /\ s \in Steps
      /\ plan[s] \in StepRecords /\ IsNextUnfinished(plan, s)
  BY DEF TypeInv, TypeOK, StoreTypeOK, Plans, JobsReady, RecoveryInv, SavePlan, At, Jobs,
     LoadedPlanIsCurrent, Locked, Work
<1>1. plan[s].status \in Open \/ plan[s].status \in {"planned", "approved"}
      => (plan[s].fp # NoFingerprint => Covers(plan[s].fp, s))
  BY <1>0 DEF StoreInv, ApprovalCoversInputs, Covers
<1>2. plan[s].status \in Open => Backed(s)
  BY <1>0 DEF StoreInv, StepsInOrder, Open
<1>3. \A a \in Attempts : attempts[a].step = s /\ attempts[a].status \in Durable =>
        plan[s].attempt = a /\ plan[s].status \in Open \cup {"completed"}
  BY <1>0 DEF StoreInv, CommittedWorkIsKept, Open
<1>4. s \notin LocalSteps => \A a \in invoked : attempts[a].step = s => plan[s].attempt = a
  BY <1>0 DEF StoreInv, EnteredIsKept
<1>5. plan[s].status \in {"planned", "approved"} =>
        plan[s].attempt = NoAttempt /\ NoAttempt \notin Attempts
  BY <1>0 DEF StoreInv, StepsInOrder, NoAttempt, Attempts
<1>6. invoked \subseteq Attempts
  BY DEF TypeInv, TypeOK
<1>7. ASSUME job[p].flow \in {"approve", "invalidate"} PROVE MayBeSaved(s, r)
  <2>1. /\ plan[s].status \in {"planned", "approved"} /\ r.status \in {"planned", "approved"}
        /\ r.attempt = NoAttempt
        /\ r.fp # NoFingerprint => job[p].flow = "approve" /\ r.fp = job[p].fp
    BY <1>0, <1>5, <1>7 DEF Work, Doing, Revised, StepRecords
  <2>2. r.fp # NoFingerprint => Covers(r.fp, s)
    BY <1>0, <2>1 DEF Work, Doing
  <2> QED BY <1>0, <1>3, <1>4, <1>5, <1>6, <2>1, <2>2 DEF MayBeSaved, Open
<1>8. ASSUME job[p].flow = "run" PROVE MayBeSaved(s, r)
  <2>1. /\ plan[s].status = "approved" /\ attempts[b].status = "prepared" /\ b \in Attempts
        /\ attempts[b].step = s /\ attempts[b].fp = plan[s].fp
    BY <1>0, <1>8 DEF Work, Doing, Ready, Writing
  <2>2. r.status = "running" /\ r.attempt = b /\ r.fp = plan[s].fp
    BY <1>0, <1>8 DEF Revised, StepRecords
  <2> QED BY <1>0, <1>1, <1>3, <1>4, <1>5, <1>6, <2>1, <2>2 DEF MayBeSaved, Open, Opened
<1>9. ASSUME job[p].flow \in {"fail", "interrupt"} PROVE MayBeSaved(s, r)
  <2>1. /\ plan[s].status \in Open
        /\ job[p].flow = "fail" => plan[s].attempt = b /\ attempts[b].status = "failed"
    BY <1>0, <1>9 DEF Work, Doing, Open
  <2>2. /\ r.attempt = plan[s].attempt /\ r.fp = plan[s].fp
        /\ r.status = IF job[p].flow = "fail" THEN "failed" ELSE "recovery_required"
    BY <1>0, <1>9 DEF Revised, StepRecords
  <2> QED BY <1>0, <1>1, <1>2, <1>3, <1>4, <2>1, <2>2
      DEF MayBeSaved, Backed, AttemptMatches, Durable
<1>10. ASSUME job[p].flow = "retry" PROVE MayBeSaved(s, r)
  <2>1. /\ plan[s].status \in Open /\ plan[s].attempt = b /\ attempts[b].status = "abandoned"
        /\ Unrepeated(b, s)
    BY <1>0, <1>10 DEF Work, Doing
  <2>2. r.attempt = NoAttempt /\ r.fp = NoFingerprint /\ r.status = "planned"
    BY <1>0, <1>10 DEF Revised, StepRecords
  <2>3. \A a \in Attempts : ~(attempts[a].step = s /\ attempts[a].status \in Durable)
    BY <1>3, <2>1 DEF Durable
  <2>4. s \notin LocalSteps => \A a \in invoked : attempts[a].step # s
    BY <1>4, <2>1 DEF Unrepeated
  <2> QED BY <1>0, <2>2, <2>3, <2>4 DEF MayBeSaved
<1>11. ASSUME job[p].flow = "complete" PROVE MayBeSaved(s, r)
  <2>1. /\ plan[s].status \in Open /\ plan[s].attempt = b /\ attempts[b].status = "finalized"
        /\ attempts[b].artifacts \subseteq exposed
    BY <1>0, <1>11 DEF Work, Doing
  <2>2. /\ r.attempt = b /\ r.fp = plan[s].fp /\ r.status = "completed"
        /\ r.artifacts = attempts[b].artifacts
    BY <1>0, <1>11, <2>1 DEF Revised, StepRecords
  <2> QED BY <1>0, <1>1, <1>2, <1>3, <1>4, <2>1, <2>2 DEF MayBeSaved, Backed, AttemptMatches
<1> QED BY <1>0, <1>7, <1>8, <1>9, <1>10, <1>11 DEF Ready, Writing, Jobs, Flows

LEMMA SavePlanRecovery ==
    ASSUME TypeInv, LoadedPlanIsCurrent, ConsentInv, RecoveryInv, NEW p \in Processes, SavePlan(p)
    PROVE  RecoveryInv'
<1> DEFINE s == job[p].step
           b == job[p].attempt
           r == Revised(p)
<1>0. /\ job \in [Processes -> Jobs] /\ job[p] \in Jobs /\ Ready(job[p]) /\ StoreTypeOK /\ StoreInv
      /\ Work(p) /\ job[p].pc = "save_plan" /\ job[p].plan = plan /\ s \in Steps /\ lock = p
  BY DEF TypeInv, TypeOK, JobsReady, RecoveryInv, SavePlan, At, Jobs, LoadedPlanIsCurrent, Locked
<1>1. OthersWait(p)
  BY LockedIsLockStep DEF LockStep, Advance
<1>2. r \in StepRecords
  BY RevisedType
<1>3. SavePlanFile([plan EXCEPT ![s] = r]) /\ UNCHANGED invoked
  BY <1>0 DEF SavePlan, History
<1>4. StoreInv'
  BY <1>0, <1>2, <1>3, RevisedMayBeSaved, PlanKeepsStore
<1>5. /\ job'[p].pc = "save_task" /\ job'[p].flow = job[p].flow /\ job'[p].step = s
      /\ job'[p].attempt = b
  BY <1>0 DEF SavePlan, Jobs
<1>6. plan' = [plan EXCEPT ![s] = r] /\ UNCHANGED attempts /\ plan \in [Steps -> StepRecords]
  BY <1>0, <1>3 DEF SavePlanFile, StoreTypeOK, Plans
<1>7. ASSUME job[p].flow = "run"
      PROVE  /\ plan'[s].status = "running" /\ plan'[s].attempt = b
             /\ attempts[b].status = "prepared" /\ b \notin invoked
             /\ \A t \in 1..(s - 1) : plan'[t].status = "completed"
  <2>1. /\ attempts[b].status = "prepared" /\ b \notin invoked
        /\ \A t \in 1..(s - 1) : plan[t].status = "completed"
    BY <1>0, <1>7 DEF Work, Doing, IsNextUnfinished
  <2>2. r.status = "running" /\ r.attempt = b
    BY <1>0, <1>6, <1>7 DEF Revised, StepRecords
  <2>3. \A t \in 1..(s - 1) : t \in Steps /\ t # s
    BY <1>0, StoreAssumption DEF Steps
  <2> QED BY <1>0, <1>6, <2>1, <2>2, <2>3
<1>8. Work(p)'
  <2>1. CASE job[p].flow = "run"
    BY <1>3, <1>5, <1>6, <1>7, <2>1 DEF Work, Doing, At, IsNextUnfinished
  <2>2. CASE job[p].flow # "run"
    BY <1>5, <2>2 DEF Work, Doing, At
  <2> QED BY <2>1, <2>2
<1> QED BY <1>0, <1>1, <1>4, <1>8, OthersWork DEF RecoveryInv

LEMMA SaveTaskRecovery ==
    ASSUME TypeInv, LoadedPlanIsCurrent, RecoveryInv, NEW p \in Processes, SaveTask(p)
    PROVE  RecoveryInv'
<1> DEFINE s == job[p].step
           b == job[p].attempt
<1>0. /\ job \in [Processes -> Jobs] /\ job[p] \in Jobs /\ StoreInv
      /\ Work(p) /\ job[p].pc = "save_task" /\ job[p].plan = plan
  BY DEF TypeInv, TypeOK, RecoveryInv, SaveTask, At, LoadedPlanIsCurrent, Locked
<1>1. OthersWait(p)
  BY LockedIsLockStep DEF LockStep, Advance
<1>2. UNCHANGED <<plan, attempts, registry, exposed, invoked>> /\ taskStatus' = TaskStatusFor(p)
  BY DEF SaveTask, SaveTaskFile, History
<1>3. TaskFileAgrees'
  <2> SUFFICES ASSUME TaskStatusFor(p) = "completed" PROVE AllCompleted(plan)
    BY <1>2 DEF TaskFileAgrees, AllCompleted
  <2>1. job[p].flow = "complete"
    BY DEF SaveTask, TaskStatusFor
  <2> QED BY <1>0, <2>1 DEF TaskStatusFor, StatusAfterCompletion
<1>4. CASE Release(p)
  <2>1. job'[p].pc \in Unlocked
    BY <1>4, IdleUnlocked DEF Release
  <2> QED BY <1>1, <1>2, <1>3, <2>1, OutRecovery
<1>5. CASE job[p].flow = "run" /\ Goto(p, "start")
  <2>1. job'[p].pc = "start" /\ job'[p].step = s /\ job'[p].attempt = b
    BY <1>0, <1>5 DEF Goto, Jobs
  <2>2. /\ IsNextUnfinished(plan, s) /\ plan[s].status = "running" /\ plan[s].attempt = b
        /\ attempts[b].status = "prepared" /\ b \notin invoked
    BY <1>0, <1>5 DEF Work, Doing
  <2>3. Work(p)'
    BY <1>2, <2>1, <2>2 DEF Work, Doing, At, IsNextUnfinished
  <2> QED BY <1>1, <1>2, <1>3, <2>3, QuietRecovery
<1>6. CASE job[p].flow \in {"approve", "invalidate"} /\ Goto(p, "audit")
  <2>1. job'[p].pc = "audit"
    BY <1>0, <1>6 DEF Goto, Jobs
  <2>2. Work(p)'
    BY <2>1 DEF Work, Doing, At
  <2> QED BY <1>1, <1>2, <1>3, <2>2, QuietRecovery
<1> QED BY <1>4, <1>5, <1>6 DEF SaveTask

LEMMA ReleaseRecovery ==
    ASSUME TypeInv, LoadedPlanIsCurrent, RecoveryInv, NEW p \in Processes,
           \/ Advance(p) /\ (CommitRefused(p) \/ ExposeRefused(p) \/ Audit(p))
           \/ Crash(p)
    PROVE  RecoveryInv'
<1>1. OthersWait(p)
  BY LockedIsLockStep DEF LockStep
<1>2. job'[p].pc \in Unlocked
  BY IdleUnlocked DEF CommitRefused, ExposeRefused, Audit, Crash, Release
<1>3. UNCHANGED <<plan, taskStatus, attempts, registry, exposed, invoked>>
  BY DEF CommitRefused, ExposeRefused, Audit, AppendApproval, Crash, storeVars, History
<1>4. TaskFileAgrees'
  BY <1>3 DEF RecoveryInv, StoreInv, TaskFileAgrees, AllCompleted
<1> QED BY <1>1, <1>2, <1>3, <1>4, OutRecovery

LEMMA RecoveryStep ==
    TypeInv /\ LoadedPlanIsCurrent /\ ConsentInv /\ RecoveryInv /\ [Next]_vars => RecoveryInv'
<1> SUFFICES ASSUME TypeInv, LoadedPlanIsCurrent, ConsentInv, RecoveryInv, [Next]_vars
             PROVE  RecoveryInv'
  OBVIOUS
<1>1. ASSUME NEW p \in Processes, Advance(p) PROVE RecoveryInv'
  BY <1>1, ToolRecovery, CommitRecovery, SavePlanRecovery, SaveTaskRecovery, ReleaseRecovery
  DEF Advance
<1>2. ASSUME NEW p \in Processes, Crash(p) PROVE RecoveryInv'
  BY <1>2, ReleaseRecovery
<1>3. CASE ChangeEnvironment \/ Damage \/ UNCHANGED vars
  <2>1. UNCHANGED <<job, plan, taskStatus, attempts, registry, exposed, invoked>>
    BY <1>3 DEF ChangeEnvironment, Damage, ChangeInputs, DamageArtifact, vars, storeVars,
       runnerVars, History
  <2>2. StoreInv'
    BY <2>1, QuietStore DEF RecoveryInv, StoreInv, TaskFileAgrees, AllCompleted
  <2>3. \A p \in Processes : Work(p)'
    BY <2>1, SameWork DEF RecoveryInv
  <2> QED BY <2>2, <2>3 DEF RecoveryInv
<1> QED BY <1>1, <1>2, <1>3, ApprovingRecovery, ResumingRecovery, RecoveringRecovery DEF Next

LEMMA RecoveryInitial == Init => RecoveryInv
<1> SUFFICES ASSUME Init PROVE RecoveryInv
  OBVIOUS
<1>1. StoreInv
  BY DEF Init, StoreInit, InitialPlan, AbsentAttempt, StoreInv, StepsInOrder, ExposedIsListed,
     CompletedHasFiles, TaskFileAgrees, EnteredIsKept, CommittedWorkIsKept, ApprovalCoversInputs,
     Durable
<1>2. \A p \in Processes : Work(p)
  BY DEF Init, Idle, Work, Doing, At
<1> QED BY <1>1, <1>2 DEF RecoveryInv

(* Wherever a command died, the files of the task are such that the next    *)
(* command, and every write it has still to make, finds what it relies on.  *)
THEOREM RecoveryCorrect == Spec => []RecoveryInv
BY RecoveryInitial, RecoveryStep, ConsentCorrect, LoadedPlanCorrect, Typed, PTL DEF Spec

-----------------------------------------------------------------------------
(* Committed work is never replaced by another attempt: once the marker is  *)
(* on disk the step points at that attempt and is interrupted or completed, *)
(* whatever crashes and other commands come between.                        *)
THEOREM CommittedWorkCorrect == Spec => []CommittedWorkIsKept
<1>1. RecoveryInv => CommittedWorkIsKept
  BY DEF RecoveryInv, StoreInv
<1> QED BY <1>1, RecoveryCorrect, PTL

(* An approval in force covers exactly the outputs of the earlier steps,    *)
(* all of them completed, for any number of steps and outputs.              *)
THEOREM ApprovalCovered == Spec => []ApprovalCoversInputs
<1>1. RecoveryInv => ApprovalCoversInputs
  BY DEF RecoveryInv, StoreInv
<1> QED BY <1>1, RecoveryCorrect, PTL

(* A completed step is backed by a finalized attempt of its approval whose  *)
(* artifacts are all visible, an interrupted one by a record recover finds, *)
(* task.json never runs ahead of plan.json, and no committed flag belongs   *)
(* to an attempt without a durable marker.                                  *)
THEOREM StatusBacked == Spec => []StatusIsBacked
<1>1. RecoveryInv => StatusIsBacked
  <2> SUFFICES ASSUME RecoveryInv PROVE StatusIsBacked
    OBVIOUS
  <2>1. ASSUME NEW s \in Steps, plan[s].status = "completed"
        PROVE  /\ AttemptMatches(s)
               /\ attempts[plan[s].attempt].status = "finalized"
               /\ plan[s].artifacts = attempts[plan[s].attempt].artifacts
               /\ plan[s].artifacts \subseteq Visible
    BY <2>1 DEF RecoveryInv, StoreInv, StepsInOrder, Backed, CompletedHasFiles, ExposedIsListed,
       Visible
  <2>2. ASSUME NEW s \in Steps, plan[s].status \in {"running", "recovery_required"}
        PROVE  AttemptMatches(s) /\ attempts[plan[s].attempt].status # "absent"
    BY <2>2 DEF RecoveryInv, StoreInv, StepsInOrder, Backed, Opened
  <2> QED BY <2>1, <2>2 DEF RecoveryInv, StoreInv, TaskFileAgrees, AllCompleted, ExposedIsListed,
      StatusIsBacked
<1> QED BY <1>1, RecoveryCorrect, PTL

(* A remote, model or unknown tool is entered at most once for a step,      *)
(* over any number of interruptions, retries and processes.                 *)
THEOREM RemoteOnce == Spec => []RemoteAtMostOnce
<1>1. RecoveryInv => RemoteAtMostOnce
  BY DEF RecoveryInv, StoreInv, EnteredIsKept, RemoteAtMostOnce
<1> QED BY <1>1, RecoveryCorrect, PTL

-----------------------------------------------------------------------------
(* What a step may do to the attempt records and the visible artifacts.     *)
MarkersStay ==
    /\ Visible \subseteq Visible'
    /\ \A a \in Attempts : attempts[a].status \in Durable =>
        /\ attempts'[a].status \in Durable
        /\ attempts'[a].artifacts = attempts[a].artifacts

LEMMA MarkersStayIf ==
    ASSUME TypeInv, registry \subseteq registry', exposed \subseteq exposed',
           \/ UNCHANGED attempts
           \/ \E a \in Attempts, rec \in AttemptRecords :
                /\ attempts' = [attempts EXCEPT ![a] = rec]
                /\ attempts[a].status \in Durable =>
                    rec.status \in Durable /\ rec.artifacts = attempts[a].artifacts
    PROVE  MarkersStay
<1>1. \A a \in Attempts : attempts[a].status \in Durable =>
        attempts'[a].status \in Durable /\ attempts'[a].artifacts = attempts[a].artifacts
  BY DEF TypeInv, TypeOK, StoreTypeOK
<1>2. Visible \subseteq Visible'
  BY <1>1 DEF Visible, TypeInv, TypeOK, StoreTypeOK, ArtifactIds
<1> QED BY <1>1, <1>2 DEF MarkersStay

LEMMA AdvanceKeepsMarkers ==
    ASSUME TypeInv, RecoveryInv, NEW p \in Processes, Advance(p)
    PROVE  MarkersStay
<1> DEFINE b == job[p].attempt
<1>0. Work(p) /\ Ready(job[p]) /\ job[p] \in Jobs /\ StoreTypeOK
  BY DEF TypeInv, TypeOK, JobsReady, RecoveryInv
<1>1. ASSUME BeginAttempt(p) PROVE MarkersStay
  <2>1. PICK a \in Attempts : BeginAttemptFile(a, job[p].step, job[p].fp)
    BY <1>1 DEF BeginAttempt
  <2> DEFINE rec == [status |-> "prepared", step |-> job[p].step, fp |-> job[p].fp,
                     artifacts |-> {}]
  <2>2. rec \in AttemptRecords
    BY <1>0 DEF Jobs, AttemptRecords, AttemptStatuses
  <2>3. /\ attempts' = [attempts EXCEPT ![a] = rec] /\ attempts[a].status \notin Durable
        /\ UNCHANGED <<registry, exposed>>
    BY <2>1 DEF BeginAttemptFile, WriteAttempt, Durable
  <2> QED BY <2>2, <2>3, MarkersStayIf
<1>2. ASSUME StartAttempt(p) \/ Commit(p) \/ FinishAttempt(p) PROVE MarkersStay
  <2>1. b \in Attempts /\ attempts[b].status \notin Durable
    BY <1>0, <1>2 DEF StartAttempt, StartAttemptFile, Commit, Committable, FinishAttempt, At, Ready,
       Working, Work, Durable
  <2>2. \E rec \in AttemptRecords : WriteAttempt(b, rec)
    BY <1>0, <1>2, <2>1, AttemptRecordType DEF StartAttempt, StartAttemptFile, Commit, CommitMarker,
       FinishAttempt, FinishAttemptFile, AttemptStatuses
  <2> QED BY <2>1, <2>2, MarkersStayIf DEF WriteAttempt
<1>3. ASSUME MarkFinalized(p) PROVE MarkersStay
  <2> DEFINE rec == [attempts[b] EXCEPT !.status = "finalized"]
  <2>1. b \in Attempts /\ WriteAttempt(b, rec)
    BY <1>0, <1>3 DEF MarkFinalized, MarkFinalizedFile, At, Ready, Working
  <2>2. rec \in AttemptRecords /\ rec.status = "finalized" /\ rec.artifacts = attempts[b].artifacts
    BY <1>0, <2>1 DEF StoreTypeOK, AttemptRecords, AttemptStatuses
  <2> QED BY <2>1, <2>2, MarkersStayIf DEF WriteAttempt, Durable
<1>4. ASSUME ~BeginAttempt(p), ~StartAttempt(p), ~Commit(p), ~FinishAttempt(p), ~MarkFinalized(p)
      PROVE  MarkersStay
  <2>1. UNCHANGED attempts /\ registry \subseteq registry' /\ exposed \subseteq exposed'
    BY <1>4 DEF Advance, InvokeTool, ToolWrite, WriteArtifactFile, ToolRegister, RegisterArtifact,
       ToolReturn, ToolRaise, CommitRefused, Expose, ExposeArtifacts, ExposeRefused, SavePlan,
       SavePlanFile, SaveTask, SaveTaskFile, Audit, AppendApproval, storeVars
  <2> QED BY <2>1, MarkersStayIf
<1> QED BY <1>1, <1>2, <1>3, <1>4

(* A visible artifact stays visible, and a commit marker is never taken     *)
(* back or given another manifest, by any step of any command or crash.     *)
THEOREM CommitFinal == Spec => CommitIsFinal
<1>1. TypeInv /\ RecoveryInv /\ [Next]_vars => [MarkersStay]_vars
  <2> SUFFICES ASSUME TypeInv, RecoveryInv, [Next]_vars PROVE MarkersStay
    OBVIOUS
  <2>1. ASSUME NEW p \in Processes, Approving(p) \/ Resuming(p) \/ Recovering(p) \/ Crash(p)
        PROVE  MarkersStay
    <3>1. UNCHANGED <<attempts, registry, exposed>>
      BY <2>1 DEF Approving, StartApprove, Preview, PreviewRefused, Confirm, Decline, ApproveStep,
         ApproveRefused, Busy, Resuming, StartResume, ResumeReport, SaveTaskFile,
         ResumeInterrupted, ResumeInvalidate, ResumeApproved, ResumeRefused, Recovering,
         RecoverFinalize, RecoverRetry, RecoverFail, RecoverFrom, Crash, storeVars
    <3> QED BY <3>1, MarkersStayIf
  <2>2. CASE ChangeEnvironment \/ Damage \/ UNCHANGED vars
    <3>1. UNCHANGED <<attempts, registry, exposed>>
      BY <2>2 DEF ChangeEnvironment, Damage, ChangeInputs, DamageArtifact, vars, storeVars
    <3> QED BY <3>1, MarkersStayIf
  <2> QED BY <2>1, <2>2, AdvanceKeepsMarkers DEF Next
<1>2. Spec => [][MarkersStay]_vars
  BY <1>1, RecoveryCorrect, Typed, PTL DEF Spec
<1> QED BY <1>2 DEF CommitIsFinal, MarkersStay

-----------------------------------------------------------------------------
(* The refinement TaskRunnerImpl states, and what follows for the commands  *)
(* from the theorems about the gate.                                        *)

(* The three variables of the gate, as TaskRunnerImpl reads them off the    *)
(* workspace.                                                               *)
StageNow == [s \in Steps |-> StageOf(plan[s].status)]
EffectsNow == [s \in Steps |-> Cardinality({a \in invoked : attempts[a].step = s})]
ActedNow == [s \in Steps |-> plan[s].attempt \in invoked]

LEMMA GateIdle ==
    ASSUME StageNow' = StageNow, EffectsNow' = EffectsNow, ActedNow' = ActedNow
    PROVE  UNCHANGED Gate!gateVars
BY DEF StageNow, EffectsNow, ActedNow, Gate!gateVars

LEMMA GateInitial == Init => Gate!Init
<1> SUFFICES ASSUME Init PROVE Gate!Init
  OBVIOUS
<1>1. \A s \in Steps : StageOf(plan[s].status) = "waiting"
  BY DEF Init, StoreInit, InitialPlan, StageOf
<1>2. \A s \in Steps : Cardinality({a \in invoked : attempts[a].step = s}) = 0
  BY FS_EmptySet DEF Init
<1>3. \A s \in Steps : (plan[s].attempt \in invoked) = FALSE
  BY DEF Init
<1> QED BY <1>1, <1>2, <1>3 DEF Gate!Init, Gate!Steps, Steps

(* A step that leaves plan.json and the set of entered attempts alone is    *)
(* invisible to the gate: no record of an entered attempt changes its step. *)
LEMMA GateStutters ==
    ASSUME UNCHANGED <<plan, invoked>>, \A a \in invoked : attempts'[a].step = attempts[a].step
    PROVE  UNCHANGED Gate!gateVars
<1>1. \A s \in Steps : {a \in invoked' : attempts'[a].step = s} = {a \in invoked : attempts[a].step = s}
  OBVIOUS
<1> QED BY <1>1, GateIdle DEF StageNow, EffectsNow, ActedNow

(* The quiet steps of a command: everything but entering a tool and saving  *)
(* the plan.                                                                *)
LEMMA QuietStep ==
    ASSUME TypeInv, ConsentInv, NEW p \in Processes,
           \/ Approving(p) \/ Resuming(p) \/ Recovering(p) \/ Crash(p)
           \/ Advance(p) /\ ~InvokeTool(p) /\ ~SavePlan(p)
    PROVE  UNCHANGED Gate!gateVars
<1>0. /\ attempts \in [Attempts -> AttemptRecords] /\ invoked \subseteq Attempts
      /\ \A a \in invoked : attempts[a].status # "absent"
  BY DEF TypeInv, TypeOK, StoreTypeOK, ConsentInv, Opened
<1>1. UNCHANGED <<plan, invoked>>
  BY DEF Approving, StartApprove, Preview, PreviewRefused, Confirm, Decline, ApproveStep,
     ApproveRefused, Busy, Resuming, StartResume, ResumeReport, SaveTaskFile, ResumeInterrupted,
     ResumeInvalidate, ResumeApproved, ResumeRefused, Recovering, RecoverFinalize, RecoverRetry,
     RecoverFail, RecoverFrom, Crash, Advance, BeginAttempt, BeginAttemptFile, WriteAttempt,
     StartAttempt, StartAttemptFile, ToolWrite, WriteArtifactFile, ToolRegister, RegisterArtifact,
     ToolReturn, ToolRaise, Commit, CommitMarker, CommitRefused, Expose, ExposeArtifacts,
     ExposeRefused, MarkFinalized, MarkFinalizedFile, FinishAttempt, FinishAttemptFile, SaveTask,
     Audit, AppendApproval, storeVars, History
<1>2. ASSUME BeginAttempt(p) PROVE \A a \in invoked : attempts'[a].step = attempts[a].step
  BY <1>0, <1>2 DEF BeginAttempt, BeginAttemptFile, WriteAttempt
<1>3. ASSUME StartAttempt(p) \/ Commit(p) \/ MarkFinalized(p) \/ FinishAttempt(p)
      PROVE  \A a \in invoked : attempts'[a].step = attempts[a].step
  <2> DEFINE b == job[p].attempt
  <2>1. \E st, arts : WriteAttempt(b, [attempts[b] EXCEPT !.status = st])
                    \/ WriteAttempt(b, [attempts[b] EXCEPT !.status = st, !.artifacts = arts])
    BY <1>3 DEF StartAttempt, StartAttemptFile, Commit, CommitMarker, MarkFinalized,
       MarkFinalizedFile, FinishAttempt, FinishAttemptFile
  <2>2. PICK rec : attempts' = [attempts EXCEPT ![b] = rec]
                   /\ (b \in Attempts => rec.step = attempts[b].step)
    BY <1>0, <2>1, ZenonT(40) DEF WriteAttempt, AttemptRecords
  <2> QED BY <1>0, <2>2
<1>4. ASSUME ~(BeginAttempt(p) \/ StartAttempt(p) \/ Commit(p) \/ MarkFinalized(p) \/ FinishAttempt(p))
      PROVE  UNCHANGED attempts
  BY <1>4 DEF Approving, StartApprove, Preview, PreviewRefused, Confirm, Decline, ApproveStep,
     ApproveRefused, Busy, Resuming, StartResume, ResumeReport, SaveTaskFile, ResumeInterrupted,
     ResumeInvalidate, ResumeApproved, ResumeRefused, Recovering, RecoverFinalize, RecoverRetry,
     RecoverFail, RecoverFrom, Crash, Advance, ToolWrite, WriteArtifactFile, ToolRegister,
     RegisterArtifact, ToolReturn, ToolRaise, CommitRefused, Expose, ExposeArtifacts,
     ExposeRefused, SaveTask, Audit, AppendApproval, storeVars
<1> QED BY <1>1, <1>2, <1>3, <1>4, GateStutters

-----------------------------------------------------------------------------
(* Entering a tool is the one step the outside world can see.               *)
LEMMA InvokeActs ==
    ASSUME TypeInv, ConsentInv, RecoveryInv, NEW p \in Processes, InvokeTool(p)
    PROVE  Gate!Next
<1>s. PICK s \in Steps : s = job[p].step
  BY DEF TypeInv, TypeOK, Jobs
<1> DEFINE b == job[p].attempt
           Of(t) == {a \in invoked : attempts[a].step = t}
<1>0. /\ s \in Steps /\ b \in Attempts /\ b \notin invoked /\ plan[s].status = "running"
      /\ plan[s].attempt = b /\ StoreInv
      /\ invoked \subseteq Attempts
  BY <1>s DEF TypeInv, TypeOK, JobsReady, Ready, Working, RecoveryInv, Work, InvokeTool, At, Jobs
<1>1. UNCHANGED <<plan, attempts>> /\ invoked' = invoked \cup {b}
  BY DEF InvokeTool, storeVars
<1>2. attempts[b].step = s
  BY <1>0 DEF StoreInv, StepsInOrder, Backed, AttemptMatches
<1>3. {a \in invoked' : attempts'[a].step = s} = Of(s) \cup {b} /\ b \notin Of(s)
  BY <1>0, <1>1, <1>2
<1>4. \A t \in Steps \ {s} : {a \in invoked' : attempts'[a].step = t} = Of(t)
  BY <1>0, <1>1, <1>2
<1>5. Cardinality(Of(s) \cup {b}) = Cardinality(Of(s)) + 1
  <2>1. IsFiniteSet(Attempts)
    BY StoreAssumption, FS_Interval DEF Attempts
  <2>2. IsFiniteSet(Of(s))
    BY <1>0, <2>1, FS_Subset
  <2> QED BY <1>3, <2>2, FS_AddElement
<1>6. EffectsNow' = [EffectsNow EXCEPT ![s] = @ + 1]
  <2>1. \A t \in Steps \ {s} : EffectsNow'[t] = EffectsNow[t]
    BY <1>4 DEF EffectsNow
  <2>2. EffectsNow'[s] = EffectsNow[s] + 1
    BY <1>0, <1>3, <1>5 DEF EffectsNow
  <2> QED BY <1>0, <2>1, <2>2 DEF EffectsNow
<1>7. ActedNow' = [ActedNow EXCEPT ![s] = TRUE]
  <2>1. ASSUME NEW t \in Steps \ {s} PROVE (plan'[t].attempt \in invoked') = (plan[t].attempt \in invoked)
    <3>1. plan[t].attempt # b
      <4> SUFFICES ASSUME plan[t].attempt = b PROVE FALSE
        OBVIOUS
      <4>1. plan[t].status \notin {"planned", "approved"}
        BY <1>0 DEF StoreInv, StepsInOrder, NoAttempt, Attempts
      <4> QED BY <1>0, <1>2, <4>1 DEF StoreInv, StepsInOrder, Backed, AttemptMatches
    <3> QED BY <1>1, <3>1
  <2> QED BY <1>0, <1>1, <2>1 DEF ActedNow
<1>8. StageNow' = StageNow
  BY <1>1 DEF StageNow
<1>9. StageOf(plan[s].status) = "executing"
  BY <1>0 DEF StageOf
<1>10. Gate!Act(s)
  BY <1>0, <1>6, <1>7, <1>8, <1>9 DEF Gate!Act, StageNow, EffectsNow, ActedNow
<1> QED BY <1>10 DEF Gate!Next, Gate!Steps, Steps

(* Every other visible step is a save of plan.json.                         *)
LEMMA SavePlanMoves ==
    ASSUME TypeInv, LoadedPlanIsCurrent, ConsentInv, RecoveryInv, NEW p \in Processes, SavePlan(p)
    PROVE  Gate!Next \/ UNCHANGED Gate!gateVars
<1>s. PICK s \in Steps : s = job[p].step
  BY DEF TypeInv, TypeOK, Jobs
<1> DEFINE b == job[p].attempt
           r == Revised(p)
<1>0. /\ job[p] \in Jobs /\ Ready(job[p]) /\ StoreInv /\ Work(p) /\ job[p].pc = "save_plan"
      /\ job[p].plan = plan /\ s \in Steps /\ plan \in [Steps -> StepRecords] /\ r \in StepRecords
      /\ IsNextUnfinished(plan, s) /\ invoked \subseteq Attempts
  BY <1>s, RevisedType DEF TypeInv, TypeOK, StoreTypeOK, Plans, JobsReady, RecoveryInv, SavePlan, At,
     Jobs, LoadedPlanIsCurrent, Locked, Work
<1>1. plan' = [plan EXCEPT ![s] = r] /\ UNCHANGED <<attempts, invoked>>
  BY <1>s, <1>0 DEF SavePlan, SavePlanFile, History
<1>2. StageNow' = [StageNow EXCEPT ![s] = StageOf(r.status)]
  BY <1>0, <1>1 DEF StageNow
<1>3. ActedNow' = [ActedNow EXCEPT ![s] = (r.attempt \in invoked)]
  BY <1>0, <1>1 DEF ActedNow
<1>4. EffectsNow' = EffectsNow
  BY <1>1 DEF EffectsNow
<1>5. (r.attempt \in invoked) = (plan[s].attempt \in invoked) => ActedNow' = ActedNow
  BY <1>0, <1>3 DEF ActedNow
<1>6. StageNow[s] = StageOf(plan[s].status) /\ ActedNow[s] = (plan[s].attempt \in invoked)
  BY <1>0 DEF StageNow, ActedNow
<1>7. \A t \in 1..(s - 1) : t \in Steps /\ StageNow[t] = "done"
  BY <1>0, StoreAssumption DEF IsNextUnfinished, StageNow, StageOf, Steps
<1>8. NoAttempt \notin invoked
  BY <1>0 DEF NoAttempt, Attempts
<1>9. ASSUME job[p].flow = "approve" PROVE Gate!Grant(s)
  <2>1. plan[s].status = "planned" /\ r.status = "approved" /\ r.attempt = plan[s].attempt
    BY <1>s, <1>0, <1>9 DEF Work, Doing, Revised, StepRecords
  <2>2. StageNow[s] = "waiting" /\ StageNow' = [StageNow EXCEPT ![s] = "granted"]
    BY <1>2, <1>6, <2>1 DEF StageOf
  <2> QED BY <1>4, <1>5, <1>7, <2>1, <2>2
      DEF Gate!Grant, Gate!Move, StageNow, EffectsNow, ActedNow
<1>10. ASSUME job[p].flow = "invalidate" PROVE Gate!Withdraw(s)
  <2>1. plan[s].status = "approved" /\ r.status = "planned" /\ r.attempt = plan[s].attempt
    BY <1>s, <1>0, <1>10 DEF Work, Doing, Revised, StepRecords
  <2>2. StageNow[s] = "granted" /\ StageNow' = [StageNow EXCEPT ![s] = "waiting"]
    BY <1>2, <1>6, <2>1 DEF StageOf
  <2> QED BY <1>4, <1>5, <2>1, <2>2
      DEF Gate!Withdraw, Gate!Move, StageNow, EffectsNow, ActedNow
<1>11. ASSUME job[p].flow = "run" PROVE Gate!Execute(s)
  <2>1. /\ plan[s].status = "approved" /\ r.status = "running" /\ r.attempt = b
        /\ b \notin invoked /\ plan[s].attempt = NoAttempt
    BY <1>s, <1>0, <1>11 DEF Work, Doing, Revised, StepRecords, StoreInv, StepsInOrder
  <2>2. StageNow[s] = "granted" /\ StageNow' = [StageNow EXCEPT ![s] = "executing"]
    BY <1>2, <1>6, <2>1 DEF StageOf
  <2> QED BY <1>4, <1>5, <1>8, <2>1, <2>2
      DEF Gate!Execute, Gate!Move, StageNow, EffectsNow, ActedNow
<1>12. ASSUME job[p].flow = "complete" PROVE Gate!Finish(s)
  <2>1. /\ plan[s].status \in Open /\ r.status = "completed" /\ r.attempt = plan[s].attempt
        /\ plan[s].attempt = b /\ attempts[b].status = "finalized" /\ b \in Attempts
    BY <1>s, <1>0, <1>12 DEF Work, Doing, Revised, StepRecords, Ready, Writing
  <2>2. plan[s].attempt \in invoked
    BY <1>0, <2>1 DEF StoreInv, EnteredIsKept, Durable
  <2>3. StageNow[s] = "executing" /\ StageNow' = [StageNow EXCEPT ![s] = "done"]
    BY <1>2, <1>6, <2>1 DEF StageOf, Open
  <2> QED BY <1>4, <1>5, <1>6, <2>1, <2>2, <2>3
      DEF Gate!Finish, Gate!Move, StageNow, EffectsNow, ActedNow
<1>13. ASSUME job[p].flow = "fail" PROVE Gate!Fail(s)
  <2>1. plan[s].status \in Open /\ r.status = "failed" /\ r.attempt = plan[s].attempt
    BY <1>s, <1>0, <1>13 DEF Work, Doing, Revised, StepRecords
  <2>2. StageNow[s] = "executing" /\ StageNow' = [StageNow EXCEPT ![s] = "failed"]
    BY <1>2, <1>6, <2>1 DEF StageOf, Open
  <2> QED BY <1>4, <1>5, <2>1, <2>2
      DEF Gate!Fail, Gate!Move, StageNow, EffectsNow, ActedNow
<1>14. ASSUME job[p].flow = "retry" PROVE Gate!Retract(s)
  <2>1. /\ plan[s].status \in Open /\ r.status = "planned" /\ r.attempt = NoAttempt
        /\ plan[s].attempt = b /\ Unrepeated(b, s)
    BY <1>s, <1>0, <1>14 DEF Work, Doing, Revised, StepRecords
  <2>2. StageNow[s] = "executing" /\ StageNow' = [StageNow EXCEPT ![s] = "waiting"]
    BY <1>2, <1>6, <2>1 DEF StageOf, Open
  <2>3. ActedNow[s] => s \in LocalSteps
    BY <1>6, <2>1 DEF Unrepeated
  <2>4. ActedNow' = [ActedNow EXCEPT ![s] = FALSE]
    <3>1. (r.attempt \in invoked) = FALSE
      BY <1>8, <2>1
    <3> QED BY <1>3, <3>1
  <2> QED BY <1>4, <2>2, <2>3, <2>4
      DEF Gate!Retract, Gate!Move, StageNow, EffectsNow, ActedNow
<1>15. ASSUME job[p].flow = "interrupt" PROVE UNCHANGED Gate!gateVars
  <2>1. plan[s].status = "running" /\ r.status = "recovery_required" /\ r.attempt = plan[s].attempt
    BY <1>s, <1>0, <1>15 DEF Work, Doing, Revised, StepRecords
  <2>2. StageOf(r.status) = StageOf(plan[s].status)
    BY <2>1 DEF StageOf
  <2>3. StageNow' = StageNow
    BY <1>0, <1>2, <2>2 DEF StageNow
  <2> QED BY <1>4, <1>5, <2>1, <2>3, GateIdle
<1>16. job[p].flow \in Flows \ {"none"}
  BY <1>0 DEF Ready, Writing, Jobs
<1>17. \/ Gate!Grant(s) \/ Gate!Withdraw(s) \/ Gate!Execute(s) \/ Gate!Retract(s)
       \/ Gate!Finish(s) \/ Gate!Fail(s) \/ UNCHANGED Gate!gateVars
  BY <1>9, <1>10, <1>11, <1>12, <1>13, <1>14, <1>15, <1>16 DEF Flows
<1> QED BY <1>17 DEF Gate!Next, Gate!Steps, Steps

LEMMA GateStep ==
    TypeInv /\ LoadedPlanIsCurrent /\ ConsentInv /\ RecoveryInv /\ [Next]_vars
    => [Gate!Next]_(Gate!gateVars)
<1> SUFFICES ASSUME TypeInv, LoadedPlanIsCurrent, ConsentInv, RecoveryInv, [Next]_vars
             PROVE  Gate!Next \/ UNCHANGED Gate!gateVars
  OBVIOUS
<1>1. CASE ChangeEnvironment \/ Damage \/ UNCHANGED vars
  <2>1. UNCHANGED <<plan, attempts, invoked>>
    BY <1>1 DEF ChangeEnvironment, Damage, ChangeInputs, DamageArtifact, vars, storeVars,
       runnerVars, History
  <2> QED BY <2>1, GateStutters
<1> QED BY <1>1, QuietStep, InvokeActs, SavePlanMoves DEF Next

(* Every behaviour of the commands is a behaviour of the gate: whatever the *)
(* interleaving of processes and wherever they crash, a step of them is a   *)
(* step the gate allows or changes nothing a user was promised.             *)
THEOREM GateImplemented == Spec => ImplementsStepGate
<1>1. Spec => [](TypeInv /\ LoadedPlanIsCurrent /\ ConsentInv /\ RecoveryInv)
  BY Typed, LoadedPlanCorrect, ConsentCorrect, RecoveryCorrect, PTL
<1> QED BY <1>1, GateInitial, GateStep, PTL DEF Spec, ImplementsStepGate, Gate!Spec

-----------------------------------------------------------------------------
(* What the gate promises, read back for the commands. *)
Promise == INSTANCE StepGateProofs WITH
    stage <- StageNow, effects <- EffectsNow, acted <- ActedNow

LEMMA SameGate == ImplementsStepGate => Promise!Spec
<1>1. Gate!Init => Promise!Init
  BY DEF Gate!Init, Promise!Init, StageNow, EffectsNow, ActedNow, Gate!Steps, Promise!Steps
<1>2. [Gate!Next]_(Gate!gateVars) => [Promise!Next]_(Promise!gateVars)
  BY DEF Gate!Next, Promise!Next, Gate!gateVars, Promise!gateVars, StageNow, EffectsNow, ActedNow,
     Gate!Steps, Promise!Steps, Gate!Grant, Gate!Withdraw, Gate!Execute, Gate!Act, Gate!Retract,
     Gate!Finish, Gate!Fail, Promise!Grant, Promise!Withdraw, Promise!Execute, Promise!Act,
     Promise!Retract, Promise!Finish, Promise!Fail, Gate!Move, Promise!Move
<1> QED BY <1>1, <1>2, PTL DEF ImplementsStepGate, Gate!Spec, Promise!Spec

(* No tool has acted for a step while an earlier step of the plan is short  *)
(* of completed in plan.json: whatever crashes, resumes and recoveries      *)
(* there were, the effects of a task follow the order of its plan.          *)
THEOREM EffectsFollowThePlan == Spec => []Promise!InOrder
<1>1. NumSteps \in Nat /\ LocalSteps \subseteq 1..NumSteps
  BY StoreAssumption
<1>2. Promise!Spec => []Promise!InOrder
  BY <1>1, Promise!InOrderCorrect
<1> QED BY <1>2, SameGate, GateImplemented, PTL
=============================================================================
