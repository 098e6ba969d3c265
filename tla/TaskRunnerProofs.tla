-------------------------- MODULE TaskRunnerProofs --------------------------
(* Proofs about TaskRunner for every number of steps, processes, attempts,  *)
(* crashes and outside changes.                                             *)
EXTENDS TaskRunner, TLAPS

(* What a command knows at each place it can be: the invariant that makes   *)
(* its next write well typed. *)
Writing == {"save_plan", "save_task", "audit"}
Working == {"start", "invoke", "tool", "register", "finish", "commit", "expose",
            "reexpose", "mark"}

Ready(j) ==
    /\ j.pc \in {"preview", "confirm", "approve", "resume", "begin"} => j.env \in Environments
    /\ j.pc \in {"confirm", "approve"} => j.fp \in Fingerprints
    /\ j.pc \in {"begin", "start", "invoke", "tool", "register"} => j.flow = "run"
    /\ j.pc \in {"commit", "expose", "reexpose", "mark"} => j.flow = "complete"
    /\ j.pc = "finish" => j.flow \in {"fail", "retry"}
    /\ j.pc \in Writing => j.flow # "none"
    /\ j.pc = "audit" => j.flow \in {"approve", "invalidate"}
    /\ j.pc \in Working => j.attempt \in Attempts
    /\ j.pc \in Writing /\ j.flow \in {"run", "complete"} => j.attempt \in Attempts

JobsReady == \A p \in Processes : Ready(job[p])

TypeInv == TypeOK /\ JobsReady

-----------------------------------------------------------------------------
LEMMA JobStep ==
    ASSUME NEW p \in Processes, NEW j \in Jobs, Ready(j),
           job \in [Processes -> Jobs], JobsReady, job' = [job EXCEPT ![p] = j]
    PROVE  job' \in [Processes -> Jobs] /\ JobsReady'
BY DEF JobsReady

LEMMA IdleReady == Idle \in Jobs /\ Ready(Idle)
BY StoreAssumption DEF Idle, Jobs, Ready, Unlocked, Locked, Flows, InitialPlan, Plans, StepRecords,
   NoneOrFingerprint, StepStatuses, Steps, Writing, Working

LEMMA GotoStep ==
    ASSUME NEW p \in Processes, NEW l \in Unlocked \cup Locked, Goto(p, l),
           Ready([job[p] EXCEPT !.pc = l]),
           job \in [Processes -> Jobs], JobsReady
    PROVE  job' \in [Processes -> Jobs] /\ JobsReady'
<1>1. [job[p] EXCEPT !.pc = l] \in Jobs
  BY DEF Jobs
<1>2. job' = [job EXCEPT ![p] = [job[p] EXCEPT !.pc = l]]
  BY DEF Goto
<1> QED BY <1>1, <1>2, JobStep

LEMMA WriteAttemptType ==
    ASSUME StoreTypeOK, NEW a \in Attempts, NEW rec \in AttemptRecords, WriteAttempt(a, rec)
    PROVE  StoreTypeOK'
BY DEF StoreTypeOK, WriteAttempt

LEMMA ManifestType ==
    ASSUME StoreTypeOK, NEW s \in Steps, NEW e \in Environments
    PROVE  Manifest(s, e) \in Fingerprints
BY DEF StoreTypeOK, Manifest, Fingerprints, Visible, ArtifactIds

LEMMA StoreStutter ==
    ASSUME StoreTypeOK, UNCHANGED storeVars
    PROVE  StoreTypeOK'
BY DEF StoreTypeOK, storeVars

LEMMA IdleStep ==
    ASSUME NEW p \in Processes, job \in [Processes -> Jobs], JobsReady,
           job' = [job EXCEPT ![p] = Idle]
    PROVE  job' \in [Processes -> Jobs] /\ JobsReady'
BY IdleReady, JobStep

(* What a command takes along when it enters the lock. *)
LEMMA LoadedReady ==
    ASSUME StoreTypeOK, NEW l \in Locked, NEW f \in Flows, NEW s \in Steps,
           NEW e \in Environments \cup {NoEnvironment},
           NEW fp \in NoneOrFingerprint, NEW a \in Attempts \cup {NoAttempt}
    PROVE  Loaded(l, f, s, e, fp, a) \in Jobs
BY DEF StoreTypeOK, Loaded, Jobs

LEMMA ApprovingType ==
    ASSUME TypeInv, NEW p \in Processes, Approving(p)
    PROVE  TypeInv'
<1> USE DEF TypeInv, TypeOK
<1>1. ASSUME NEW s \in Steps, StartApprove(p, s) PROVE TypeInv'
  <2> DEFINE j == [Idle EXCEPT !.pc = "preview", !.step = s, !.env = environment]
  <2>1. j \in Jobs /\ Ready(j)
    BY <1>1, IdleReady DEF Ready, Jobs, Writing, Working, Unlocked
  <2> QED BY <1>1, <2>1, JobStep, StoreStutter DEF StartApprove, Outside, History
<1>2. ASSUME Preview(p) PROVE TypeInv'
  <2> DEFINE j == [job[p] EXCEPT !.pc = "confirm", !.fp = CurrentFingerprint(p)]
  <2>1. job[p] \in Jobs /\ job[p].pc = "preview" /\ job[p].env \in Environments
    BY <1>2 DEF Preview, At, JobsReady, Ready
  <2>2. CurrentFingerprint(p) \in Fingerprints
    BY <2>1, ManifestType DEF CurrentFingerprint, Jobs
  <2>3. j \in Jobs /\ Ready(j)
    BY <2>1, <2>2 DEF Ready, Jobs, Writing, Working, Unlocked, NoneOrFingerprint
  <2> QED BY <1>2, <2>3, JobStep, StoreStutter DEF Preview, Outside, History
<1>3. ASSUME Confirm(p) PROVE TypeInv'
  <2>1. job[p] \in Jobs /\ job[p].fp \in Fingerprints /\ job[p].env \in Environments
    BY <1>3 DEF Confirm, At, JobsReady, Ready
  <2>2. Ready([job[p] EXCEPT !.pc = "approve"])
    BY <2>1 DEF Ready, Jobs, Writing, Working
  <2>3. job' \in [Processes -> Jobs] /\ JobsReady'
    BY <1>3, <2>2, GotoStep DEF Confirm, Unlocked
  <2> QED BY <1>3, <2>1, <2>3, StoreStutter DEF Confirm, Outside
<1>4. ASSUME PreviewRefused(p) \/ Decline(p) \/ ApproveRefused(p) \/ Busy(p) PROVE TypeInv'
  BY <1>4, IdleStep, StoreStutter
  DEF PreviewRefused, Decline, ApproveRefused, Busy, EndUnlocked, Outside, History
<1>5. ASSUME ApproveStep(p) PROVE TypeInv'
  <2> DEFINE j == Loaded("save_plan", "approve", job[p].step, NoEnvironment,
                         CurrentFingerprint(p), NoAttempt)
  <2>1. job[p] \in Jobs /\ job[p].pc = "approve" /\ job[p].env \in Environments
    BY <1>5 DEF ApproveStep, At, JobsReady, Ready
  <2>2. CurrentFingerprint(p) \in Fingerprints
    BY <2>1, ManifestType DEF CurrentFingerprint, Jobs
  <2>3. "save_plan" \in Locked /\ "approve" \in Flows
    BY DEF Locked, Flows
  <2>4. job[p].step \in Steps /\ CurrentFingerprint(p) \in NoneOrFingerprint
    BY <2>1, <2>2 DEF Jobs, NoneOrFingerprint
  <2>5. j \in Jobs
    BY <2>3, <2>4, LoadedReady
  <2>6. Ready(j)
    BY DEF Ready, Loaded, Writing, Working
  <2> QED BY <1>5, <2>5, <2>6, JobStep, StoreStutter DEF ApproveStep, Acquire, Outside, History
<1> QED BY <1>1, <1>2, <1>3, <1>4, <1>5 DEF Approving

LEMMA ResumingType ==
    ASSUME TypeInv, NEW p \in Processes, Resuming(p)
    PROVE  TypeInv'
<1> USE DEF TypeInv, TypeOK
<1>1. ASSUME StartResume(p) PROVE TypeInv'
  <2> DEFINE j == [Idle EXCEPT !.pc = "resume", !.env = environment]
  <2>1. j \in Jobs /\ Ready(j)
    BY IdleReady DEF Ready, Jobs, Writing, Working, Unlocked
  <2> QED BY <1>1, <2>1, JobStep, StoreStutter DEF StartResume, Outside, History
<1>2. ASSUME ResumeReport(p) PROVE TypeInv'
  <2>1. PICK st \in TaskStatuses : SaveTaskFile(st)
    BY <1>2 DEF ResumeReport, ReportedStatus, TaskStatuses
  <2>2. StoreTypeOK'
    BY <2>1 DEF SaveTaskFile, StoreTypeOK
  <2> QED BY <1>2, <2>2, IdleStep DEF ResumeReport, EndUnlocked, Outside, History
<1>3. ASSUME ResumeInterrupted(p) PROVE TypeInv'
  <2> DEFINE j(s) == Loaded("save_plan", "interrupt", s, NoEnvironment, NoFingerprint, NoAttempt)
  <2>1. PICK s \in Steps : job' = [job EXCEPT ![p] = j(s)]
    BY <1>3 DEF ResumeInterrupted
  <2>2. "save_plan" \in Locked /\ "interrupt" \in Flows
    BY DEF Locked, Flows
  <2>3. j(s) \in Jobs
    BY <2>2, LoadedReady DEF NoneOrFingerprint
  <2>4. Ready(j(s))
    BY DEF Ready, Loaded, Writing, Working
  <2> QED BY <1>3, <2>1, <2>3, <2>4, JobStep, StoreStutter
      DEF ResumeInterrupted, Acquire, Outside, History
<1>4. ASSUME ResumeInvalidate(p) PROVE TypeInv'
  <2> DEFINE j(s) == Loaded("save_plan", "invalidate", s, NoEnvironment, plan[s].fp, NoAttempt)
  <2>1. PICK s \in Steps : job' = [job EXCEPT ![p] = j(s)]
    BY <1>4 DEF ResumeInvalidate
  <2>2. "save_plan" \in Locked /\ "invalidate" \in Flows
    BY DEF Locked, Flows
  <2>3. plan[s].fp \in NoneOrFingerprint
    BY DEF StoreTypeOK, Plans, StepRecords
  <2>4. j(s) \in Jobs
    BY <2>2, <2>3, LoadedReady
  <2>5. Ready(j(s))
    BY DEF Ready, Loaded, Writing, Working
  <2> QED BY <1>4, <2>1, <2>4, <2>5, JobStep, StoreStutter
      DEF ResumeInvalidate, Acquire, Outside, History
<1>5. ASSUME ResumeApproved(p) PROVE TypeInv'
  <2> DEFINE j(s) == Loaded("begin", "run", s, job[p].env, plan[s].fp, NoAttempt)
  <2>1. PICK s \in Steps : job' = [job EXCEPT ![p] = j(s)]
    BY <1>5 DEF ResumeApproved
  <2>2. "begin" \in Locked /\ "run" \in Flows
    BY DEF Locked, Flows
  <2>3. plan[s].fp \in NoneOrFingerprint /\ job[p].env \in Environments
    BY <1>5 DEF StoreTypeOK, Plans, StepRecords, ResumeApproved, At, JobsReady, Ready
  <2>4. j(s) \in Jobs
    BY <2>2, <2>3, LoadedReady
  <2>5. Ready(j(s))
    BY <2>3 DEF Ready, Loaded, Writing, Working
  <2> QED BY <1>5, <2>1, <2>4, <2>5, JobStep, StoreStutter
      DEF ResumeApproved, Acquire, Outside, History
<1>6. ASSUME ResumeRefused(p) PROVE TypeInv'
  BY <1>6, IdleStep, StoreStutter DEF ResumeRefused, EndUnlocked, Outside, History
<1> QED BY <1>1, <1>2, <1>3, <1>4, <1>5, <1>6 DEF Resuming

LEMMA RecoveringType ==
    ASSUME TypeInv, NEW p \in Processes, Recovering(p)
    PROVE  TypeInv'
<1> USE DEF TypeInv, TypeOK
<1>1. PICK s \in Steps : RecoverFinalize(p, s) \/ RecoverRetry(p, s) \/ RecoverFail(p, s)
  BY DEF Recovering
<1>2. plan[s].attempt \in Attempts
  BY <1>1 DEF RecoverFinalize, RecoverRetry, RecoverFail, Interrupted, AttemptMatches,
              StoreTypeOK, Plans, StepRecords
<1>3. \E l \in {"expose", "finish"}, f \in {"complete", "retry", "fail"} :
        /\ l = "expose" => f = "complete"
        /\ l = "finish" => f \in {"retry", "fail"}
        /\ RecoverFrom(p, s, l, f)
  BY <1>1 DEF RecoverFinalize, RecoverRetry, RecoverFail
<1>4. PICK l \in {"expose", "finish"}, f \in {"complete", "retry", "fail"} :
        /\ l = "expose" => f = "complete"
        /\ l = "finish" => f \in {"retry", "fail"}
        /\ RecoverFrom(p, s, l, f)
  BY <1>3
<1> DEFINE j == Loaded(l, f, s, NoEnvironment, NoFingerprint, plan[s].attempt)
<1>5. l \in Locked /\ f \in Flows
  BY DEF Locked, Flows
<1>6. j \in Jobs
  BY <1>2, <1>5, LoadedReady DEF NoneOrFingerprint
<1>7. Ready(j)
  BY <1>2, <1>4 DEF Ready, Loaded, Writing, Working
<1> QED BY <1>4, <1>6, <1>7, JobStep, StoreStutter DEF RecoverFrom, Acquire, Outside, History

LEMMA OutsideType ==
    ASSUME TypeInv, ChangeEnvironment \/ Damage
    PROVE  TypeInv'
<1> USE DEF TypeInv, TypeOK
<1>1. CASE ChangeEnvironment
  BY <1>1, StoreStutter DEF ChangeEnvironment, JobsReady, History
<1>2. CASE Damage
  <2>1. StoreTypeOK'
    BY <1>2 DEF Damage, ChangeInputs, DamageArtifact, StoreTypeOK, FileStates
  <2> QED BY <1>2, <2>1 DEF Damage, JobsReady, History
<1> QED BY <1>1, <1>2

LEMMA CrashType ==
    ASSUME TypeInv, NEW p \in Processes, Crash(p)
    PROVE  TypeInv'
<1> USE DEF TypeInv, TypeOK
<1>1. job' \in [Processes -> Jobs] /\ JobsReady'
  BY IdleStep DEF Crash, Release
<1>2. StoreTypeOK'
  BY StoreStutter DEF Crash
<1> QED BY <1>1, <1>2 DEF Crash, Release, History

(* The writes a command makes under the lock. *)
LEMMA AttemptRecordType ==
    ASSUME StoreTypeOK, NEW a \in Attempts, NEW st \in AttemptStatuses
    PROVE  /\ attempts[a] \in AttemptRecords
           /\ [attempts[a] EXCEPT !.status = st] \in AttemptRecords
           /\ [attempts[a] EXCEPT !.status = st, !.artifacts = OutputsOf(a)] \in AttemptRecords
BY DEF StoreTypeOK, AttemptRecords, OutputsOf

LEMMA ToolType ==
    ASSUME TypeInv, NEW p \in Processes,
           \/ BeginAttempt(p) \/ StartAttempt(p) \/ InvokeTool(p) \/ ToolWrite(p)
           \/ ToolRegister(p) \/ ToolReturn(p) \/ ToolRaise(p)
    PROVE  TypeInv'
<1> USE DEF TypeInv, TypeOK
<1>0. job[p] \in Jobs /\ Ready(job[p])
  BY DEF JobsReady
<1>1. ASSUME BeginAttempt(p) PROVE TypeInv'
  <2>1. PICK a \in Attempts :
          /\ BeginAttemptFile(a, job[p].step, job[p].fp)
          /\ job' = [job EXCEPT ![p].pc = "save_plan", ![p].attempt = a]
    BY <1>1 DEF BeginAttempt
  <2> DEFINE j == [job[p] EXCEPT !.pc = "save_plan", !.attempt = a]
             rec == [status |-> "prepared", step |-> job[p].step, fp |-> job[p].fp,
                     artifacts |-> {}]
  <2>2. j \in Jobs /\ Ready(j)
    BY <1>0, <1>1 DEF Ready, Jobs, Writing, Working, Locked, BeginAttempt, At
  <2>3. job' = [job EXCEPT ![p] = j]
    BY <2>1
  <2>4. rec \in AttemptRecords
    BY <1>0 DEF Jobs, AttemptRecords, AttemptStatuses
  <2>5. StoreTypeOK'
    BY <2>1, <2>4, WriteAttemptType DEF BeginAttemptFile
  <2> QED BY <1>1, <2>2, <2>3, <2>5, JobStep DEF BeginAttempt, Outside, History
<1>2. ASSUME StartAttempt(p) PROVE TypeInv'
  <2>1. job[p].attempt \in Attempts
    BY <1>0, <1>2 DEF StartAttempt, At, Ready, Working
  <2>2. StoreTypeOK'
    BY <1>2, <2>1, AttemptRecordType, WriteAttemptType
    DEF StartAttempt, StartAttemptFile, AttemptStatuses
  <2>3. Ready([job[p] EXCEPT !.pc = "invoke"])
    BY <1>0, <1>2 DEF StartAttempt, At, Ready, Jobs, Writing, Working
  <2>4. job' \in [Processes -> Jobs] /\ JobsReady'
    BY <1>2, <2>3, GotoStep DEF StartAttempt, Locked
  <2> QED BY <1>2, <2>2, <2>4 DEF StartAttempt, Outside, History
<1>3. ASSUME InvokeTool(p) PROVE TypeInv'
  <2>1. job[p].attempt \in Attempts
    BY <1>0, <1>3 DEF InvokeTool, At, Ready, Working
  <2>2. Ready([job[p] EXCEPT !.pc = "tool"])
    BY <1>0, <1>3 DEF InvokeTool, At, Ready, Jobs, Writing, Working
  <2>3. job' \in [Processes -> Jobs] /\ JobsReady'
    BY <1>3, <2>2, GotoStep DEF InvokeTool, Locked
  <2> QED BY <1>3, <2>1, <2>3, StoreStutter DEF InvokeTool, Outside
<1>4. ASSUME ToolWrite(p) PROVE TypeInv'
  <2>1. StoreTypeOK'
    BY <1>4 DEF ToolWrite, WriteArtifactFile, StoreTypeOK, FileStates
  <2>2. Ready([job[p] EXCEPT !.pc = "register"])
    BY <1>0, <1>4 DEF ToolWrite, At, Ready, Jobs, Writing, Working
  <2>3. job' \in [Processes -> Jobs] /\ JobsReady'
    BY <1>4, <2>2, GotoStep DEF ToolWrite, Locked
  <2> QED BY <1>4, <2>1, <2>3 DEF ToolWrite, Outside, History
<1>5. ASSUME ToolRegister(p) PROVE TypeInv'
  <2>1. job[p].attempt \in Attempts
    BY <1>0, <1>5 DEF ToolRegister, At, Ready, Working
  <2>2. StoreTypeOK'
    BY <1>5, <2>1 DEF ToolRegister, RegisterArtifact, StoreTypeOK, ArtifactIds
  <2>3. Ready([job[p] EXCEPT !.pc = "tool"])
    BY <1>0, <1>5 DEF ToolRegister, At, Ready, Jobs, Writing, Working
  <2>4. job' \in [Processes -> Jobs] /\ JobsReady'
    BY <1>5, <2>3, GotoStep DEF ToolRegister, Locked
  <2> QED BY <1>5, <2>2, <2>4 DEF ToolRegister, Outside, History
<1>6. ASSUME ToolReturn(p) PROVE TypeInv'
  <2> DEFINE j == [job[p] EXCEPT !.pc = "commit", !.flow = "complete"]
  <2>1. j \in Jobs /\ Ready(j)
    BY <1>0, <1>6 DEF ToolReturn, At, Ready, Jobs, Writing, Working, Locked, Flows
  <2> QED BY <1>6, <2>1, JobStep, StoreStutter DEF ToolReturn, Outside, History
<1>7. ASSUME ToolRaise(p) PROVE TypeInv'
  <2> DEFINE j == [job[p] EXCEPT !.pc = "finish", !.flow = "fail"]
  <2>1. j \in Jobs /\ Ready(j)
    BY <1>0, <1>7 DEF ToolRaise, At, Ready, Jobs, Writing, Working, Locked, Flows
  <2> QED BY <1>7, <2>1, JobStep, StoreStutter DEF ToolRaise, Outside, History
<1> QED BY <1>1, <1>2, <1>3, <1>4, <1>5, <1>6, <1>7

LEMMA CommitType ==
    ASSUME TypeInv, NEW p \in Processes,
           \/ Commit(p) \/ CommitRefused(p) \/ Expose(p) \/ ExposeRefused(p)
           \/ MarkFinalized(p) \/ FinishAttempt(p)
    PROVE  TypeInv'
<1> USE DEF TypeInv, TypeOK
<1>0. job[p] \in Jobs /\ Ready(job[p])
  BY DEF JobsReady
<1>1. ASSUME Commit(p) PROVE TypeInv'
  <2>1. job[p].attempt \in Attempts
    BY <1>0, <1>1 DEF Commit, At, Ready, Working
  <2>2. StoreTypeOK'
    BY <1>1, <2>1, AttemptRecordType, WriteAttemptType DEF Commit, CommitMarker, AttemptStatuses
  <2>3. Ready([job[p] EXCEPT !.pc = "expose"])
    BY <1>0, <1>1 DEF Commit, At, Ready, Jobs, Writing, Working
  <2>4. job' \in [Processes -> Jobs] /\ JobsReady'
    BY <1>1, <2>3, GotoStep DEF Commit, Locked
  <2> QED BY <1>1, <2>2, <2>4 DEF Commit, Outside, History
<1>2. ASSUME CommitRefused(p) \/ ExposeRefused(p) PROVE TypeInv'
  <2>1. job' \in [Processes -> Jobs] /\ JobsReady'
    BY <1>2, IdleStep DEF CommitRefused, ExposeRefused, Release
  <2>2. StoreTypeOK'
    BY <1>2, StoreStutter DEF CommitRefused, ExposeRefused
  <2> QED BY <1>2, <2>1, <2>2 DEF CommitRefused, ExposeRefused, Release, Outside, History
<1>3. ASSUME Expose(p) PROVE TypeInv'
  <2> DEFINE l == IF At(p, "expose") THEN "reexpose" ELSE "mark"
  <2>1. job[p].attempt \in Attempts
    BY <1>0, <1>3 DEF Expose, Ready, Working
  <2>2. StoreTypeOK'
    BY <1>3, <2>1 DEF Expose, ExposeArtifacts, StoreTypeOK, AttemptRecords
  <2>3. Ready([job[p] EXCEPT !.pc = l])
    BY <1>0, <1>3 DEF Expose, At, Ready, Jobs, Writing, Working
  <2>4. job' \in [Processes -> Jobs] /\ JobsReady'
    BY <1>3, <2>3, GotoStep DEF Expose, Locked
  <2> QED BY <1>3, <2>2, <2>4 DEF Expose, Outside, History
<1>4. ASSUME MarkFinalized(p) PROVE TypeInv'
  <2> DEFINE l == IF job[p].plan[job[p].step].status = "completed"
                  THEN "save_task" ELSE "save_plan"
  <2>1. job[p].attempt \in Attempts
    BY <1>0, <1>4 DEF MarkFinalized, At, Ready, Working
  <2>2. StoreTypeOK'
    BY <1>4, <2>1, AttemptRecordType, WriteAttemptType
    DEF MarkFinalized, MarkFinalizedFile, AttemptStatuses
  <2>3. Ready([job[p] EXCEPT !.pc = l])
    BY <1>0, <1>4 DEF MarkFinalized, At, Ready, Jobs, Writing, Working
  <2>4. job' \in [Processes -> Jobs] /\ JobsReady'
    BY <1>4, <2>3, GotoStep DEF MarkFinalized, Locked
  <2> QED BY <1>4, <2>2, <2>4 DEF MarkFinalized, Outside, History
<1>5. ASSUME FinishAttempt(p) PROVE TypeInv'
  <2>1. job[p].attempt \in Attempts
    BY <1>0, <1>5 DEF FinishAttempt, At, Ready, Working
  <2>2. StoreTypeOK'
    BY <1>5, <2>1, AttemptRecordType, WriteAttemptType
    DEF FinishAttempt, FinishAttemptFile, AttemptStatuses
  <2>3. Ready([job[p] EXCEPT !.pc = "save_plan"])
    BY <1>0, <1>5 DEF FinishAttempt, At, Ready, Jobs, Writing, Working
  <2>4. job' \in [Processes -> Jobs] /\ JobsReady'
    BY <1>5, <2>3, GotoStep DEF FinishAttempt, Locked
  <2> QED BY <1>5, <2>2, <2>4 DEF FinishAttempt, Outside, History
<1> QED BY <1>1, <1>2, <1>3, <1>4, <1>5

LEMMA RevisedType ==
    ASSUME TypeInv, NEW p \in Processes, SavePlan(p)
    PROVE  Revised(p) \in StepRecords
<1>0. job[p] \in Jobs /\ Ready(job[p]) /\ StoreTypeOK
  BY DEF TypeInv, TypeOK, JobsReady
<1>1. job[p].flow \in Flows \ {"none"} /\ job[p].plan \in Plans /\ job[p].step \in Steps
  BY <1>0 DEF SavePlan, At, Ready, Writing, Jobs
<1>2. job[p].plan[job[p].step] \in StepRecords
  BY <1>1 DEF Plans
<1>3. CASE job[p].flow = "complete"
  <2>1. attempts[job[p].attempt].artifacts \in SUBSET ArtifactIds
    BY <1>0, <1>3 DEF SavePlan, At, Ready, Writing, StoreTypeOK, AttemptRecords
  <2> QED BY <1>2, <1>3, <2>1 DEF Revised, StepRecords, StepStatuses
<1>4. CASE job[p].flow # "complete"
  BY <1>0, <1>1, <1>2, <1>4 DEF Revised, StepRecords, StepStatuses, Flows, Jobs, NoneOrFingerprint
<1> QED BY <1>3, <1>4

LEMMA SavingType ==
    ASSUME TypeInv, NEW p \in Processes, SavePlan(p) \/ SaveTask(p) \/ Audit(p)
    PROVE  TypeInv'
<1> USE DEF TypeInv, TypeOK
<1>0. job[p] \in Jobs /\ Ready(job[p])
  BY DEF JobsReady
<1>1. ASSUME SavePlan(p) PROVE TypeInv'
  <2> DEFINE revisedPlan == [job[p].plan EXCEPT ![job[p].step] = Revised(p)]
             j == [job[p] EXCEPT !.pc = "save_task", !.plan = revisedPlan]
  <2>1. job[p].flow \in Flows \ {"none"} /\ job[p].plan \in Plans /\ job[p].step \in Steps
    BY <1>0, <1>1 DEF SavePlan, At, Ready, Writing, Jobs
  <2>2. Revised(p) \in StepRecords
    BY <1>1, RevisedType DEF TypeInv
  <2>3. revisedPlan \in Plans
    BY <2>1, <2>2 DEF Plans
  <2>4. j \in Jobs /\ Ready(j)
    BY <1>0, <1>1, <2>3 DEF SavePlan, At, Ready, Jobs, Writing, Working, Locked
  <2>5. StoreTypeOK'
    BY <1>1, <2>3 DEF SavePlan, SavePlanFile, StoreTypeOK
  <2>6. job' = [job EXCEPT ![p] = j]
    BY <1>1 DEF SavePlan
  <2>7. job' \in [Processes -> Jobs] /\ JobsReady'
    BY <2>4, <2>6, JobStep
  <2> QED BY <1>1, <2>5, <2>7 DEF SavePlan, Outside, History
<1>2. ASSUME SaveTask(p) PROVE TypeInv'
  <2>1. job[p].flow \in Flows \ {"none"}
    BY <1>0, <1>2 DEF SaveTask, At, Ready, Writing, Jobs
  <2>2. TaskStatusFor(p) \in TaskStatuses
    BY <2>1 DEF TaskStatusFor, StatusAfterCompletion, TaskStatuses, Flows
  <2>3. StoreTypeOK'
    BY <1>2, <2>2 DEF SaveTask, SaveTaskFile, StoreTypeOK
  <2>4. CASE Release(p)
    BY <1>2, <2>3, <2>4, IdleStep DEF SaveTask, Release, Outside, History
  <2>5. CASE job[p].flow = "run" /\ Goto(p, "start") /\ UNCHANGED lock
    <3>1. Ready([job[p] EXCEPT !.pc = "start"])
      BY <1>0, <1>2, <2>5 DEF SaveTask, At, Ready, Jobs, Writing, Working
    <3>2. job' \in [Processes -> Jobs] /\ JobsReady'
      BY <2>5, <3>1, GotoStep DEF Locked
    <3> QED BY <1>2, <2>3, <2>5, <3>2 DEF SaveTask, Outside, History
  <2>6. CASE job[p].flow \in {"approve", "invalidate"} /\ Goto(p, "audit") /\ UNCHANGED lock
    <3>1. Ready([job[p] EXCEPT !.pc = "audit"])
      BY <1>0, <1>2, <2>6 DEF SaveTask, At, Ready, Jobs, Writing, Working
    <3>2. job' \in [Processes -> Jobs] /\ JobsReady'
      BY <2>6, <3>1, GotoStep DEF Locked
    <3> QED BY <1>2, <2>3, <2>6, <3>2 DEF SaveTask, Outside, History
  <2> QED BY <1>2, <2>4, <2>5, <2>6 DEF SaveTask
<1>3. ASSUME Audit(p) PROVE TypeInv'
  <2>1. StoreTypeOK'
    BY <1>0, <1>3 DEF Audit, AppendApproval, StoreTypeOK, Jobs
  <2>2. job' \in [Processes -> Jobs] /\ JobsReady'
    BY <1>3, IdleStep DEF Audit, Release
  <2> QED BY <1>3, <2>1, <2>2 DEF Audit, Release, Outside, History
<1> QED BY <1>1, <1>2, <1>3

-----------------------------------------------------------------------------
LEMMA TypeInitial == Init => TypeInv
<1> SUFFICES ASSUME Init PROVE TypeInv
  OBVIOUS
<1>1. StoreTypeOK
  BY StoreAssumption DEF Init, StoreInit, StoreTypeOK, InitialPlan, Plans, StepRecords, StepStatuses,
     NoneOrFingerprint, TaskStatuses, AttemptRecords, AttemptStatuses, AbsentAttempt, FileStates
<1>2. job \in [Processes -> Jobs] /\ JobsReady
  BY IdleReady DEF Init, JobsReady
<1> QED BY <1>1, <1>2 DEF Init, TypeInv, TypeOK

LEMMA TypeStep == TypeInv /\ [Next]_vars => TypeInv'
<1> SUFFICES ASSUME TypeInv, [Next]_vars PROVE TypeInv'
  OBVIOUS
<1>1. ASSUME NEW p \in Processes, Advance(p) PROVE TypeInv'
  BY <1>1, ToolType, CommitType, SavingType DEF Advance
<1>2. CASE UNCHANGED vars
  BY <1>2, StoreStutter DEF vars, storeVars, runnerVars, TypeInv, TypeOK, JobsReady
<1> QED
  BY <1>1, <1>2, ApprovingType, ResumingType, RecoveringType, CrashType, OutsideType DEF Next

(* Every variable keeps its type, and a command has the step, attempt and   *)
(* fingerprint its place in the handler dereferences.                       *)
THEOREM Typed == Spec => []TypeInv
BY TypeInitial, TypeStep, PTL DEF Spec

(* Every variable keeps its type, for every number of steps, attempts,      *)
(* outputs and processes.                                                   *)
THEOREM TypeCorrect == Spec => []TypeOK
<1>1. TypeInv => TypeOK
  BY DEF TypeInv
<1> QED BY <1>1, Typed, PTL

-----------------------------------------------------------------------------
(* The task lock *)

(* A step of process p seen from the lock: it enters, leaves, stays outside *)
(* or writes while inside, and only SavePlan touches the plan.              *)
Enters(p) == lock = NoProcess /\ lock' = p /\ plan' = plan /\ job'[p].plan = plan
Leaves(p) == job[p].pc \in Locked /\ job'[p].pc \in Unlocked /\ lock' = NoProcess /\ plan' = plan
StaysOut(p) == job[p].pc \in Unlocked /\ job'[p].pc \in Unlocked /\ lock' = lock /\ plan' = plan
StaysIn(p) == job[p].pc \in Locked /\ lock' = lock /\ (job[p].plan = plan => job'[p].plan = plan')
OthersWait(p) == \A q \in Processes \ {p} : job'[q] = job[q]

LockStep(p) == OthersWait(p) /\ (Enters(p) \/ Leaves(p) \/ StaysOut(p) \/ StaysIn(p))

LEMMA LockStepKeepsPlan ==
    ASSUME TypeInv, LoadedPlanIsCurrent, NEW p \in Processes, LockStep(p)
    PROVE  LoadedPlanIsCurrent'
<1> SUFFICES ASSUME NEW q \in Processes, job'[q].pc \in Locked
             PROVE  lock' = q /\ job'[q].plan = plan'
  BY DEF LoadedPlanIsCurrent
<1>1. NoProcess \notin Processes
  BY RunnerAssumption
<1>2. Locked \cap Unlocked = {}
  BY DEF Locked, Unlocked
<1>3. CASE q = p
  BY <1>2, <1>3 DEF LockStep, Enters, Leaves, StaysOut, StaysIn, LoadedPlanIsCurrent
<1>4. CASE q # p
  <2>1. job[q].pc \in Locked /\ lock = q /\ job[q].plan = plan /\ job'[q] = job[q]
    BY <1>4 DEF LockStep, OthersWait, LoadedPlanIsCurrent
  <2>2. ~Enters(p) /\ job[p].pc \notin Locked
    BY <1>1, <1>4, <2>1 DEF Enters, LoadedPlanIsCurrent
  <2> QED BY <2>1, <2>2 DEF LockStep, Leaves, StaysOut, StaysIn
<1> QED BY <1>3, <1>4

LEMMA UnlockedIsLockStep ==
    ASSUME TypeInv, NEW p \in Processes, Approving(p) \/ Resuming(p) \/ Recovering(p)
    PROVE  LockStep(p)
<1> USE DEF LockStep, OthersWait
<1>0. job \in [Processes -> Jobs] /\ Idle.pc = "idle"
  BY DEF TypeInv, TypeOK, Idle
<1>1. ASSUME Approving(p), ~ApproveStep(p) PROVE LockStep(p)
  <2>1. StaysOut(p) /\ OthersWait(p)
    BY <1>0, <1>1, ZenonT(40)
    DEF Approving, StartApprove, Preview, PreviewRefused, Confirm, Decline,
       ApproveRefused, Busy, EndUnlocked, Goto, At, StaysOut, Unlocked, storeVars, Idle, Jobs
  <2> QED BY <2>1
<1>2. ASSUME \/ ApproveStep(p) \/ ResumeInterrupted(p) \/ ResumeInvalidate(p)
             \/ ResumeApproved(p) \/ Recovering(p)
      PROVE  LockStep(p)
  <2>1. PICK l, f, s, e, fp, a : job' = [job EXCEPT ![p] = Loaded(l, f, s, e, fp, a)]
    BY <1>2 DEF ApproveStep, ResumeInterrupted, ResumeInvalidate, ResumeApproved, Recovering,
       RecoverFinalize, RecoverRetry, RecoverFail, RecoverFrom
  <2>2. job'[p].plan = plan /\ OthersWait(p)
    BY <1>0, <2>1 DEF Loaded
  <2>3. lock = NoProcess /\ lock' = p /\ plan' = plan
    BY <1>2 DEF ApproveStep, ResumeInterrupted, ResumeInvalidate, ResumeApproved, Recovering,
       RecoverFinalize, RecoverRetry, RecoverFail, RecoverFrom, Acquire, storeVars
  <2> QED BY <2>2, <2>3 DEF Enters
<1>3. ASSUME StartResume(p) \/ ResumeReport(p) \/ ResumeRefused(p) PROVE LockStep(p)
  <2>1. StaysOut(p) /\ OthersWait(p)
    BY <1>0, <1>3 DEF StartResume, ResumeReport, ResumeRefused, EndUnlocked, At, StaysOut,
       Unlocked, storeVars, SaveTaskFile, Idle
  <2> QED BY <2>1
<1> QED BY <1>1, <1>2, <1>3 DEF Resuming

LEMMA LockedIsLockStep ==
    ASSUME TypeInv, NEW p \in Processes, Advance(p) \/ Crash(p)
    PROVE  LockStep(p)
<1>0. job \in [Processes -> Jobs] /\ Idle.pc = "idle"
  BY DEF TypeInv, TypeOK, Idle
<1>1. ASSUME \/ StartAttempt(p) \/ InvokeTool(p) \/ ToolWrite(p) \/ ToolRegister(p)
             \/ Commit(p) \/ Expose(p) \/ MarkFinalized(p) \/ FinishAttempt(p)
      PROVE  LockStep(p)
  <2>1. PICK l : Goto(p, l)
    BY <1>1 DEF StartAttempt, InvokeTool, ToolWrite, ToolRegister, Commit, Expose,
       MarkFinalized, FinishAttempt
  <2>2. job'[p].plan = job[p].plan /\ OthersWait(p)
    BY <1>0, <2>1 DEF Goto, Jobs, OthersWait
  <2>3. job[p].pc \in Locked /\ lock' = lock /\ plan' = plan
    BY <1>1 DEF StartAttempt, InvokeTool, ToolWrite, ToolRegister, Commit, Expose,
       MarkFinalized, FinishAttempt, At, Locked, storeVars, StartAttemptFile, WriteAttempt,
       WriteArtifactFile, RegisterArtifact, CommitMarker, ExposeArtifacts, MarkFinalizedFile,
       FinishAttemptFile
  <2> QED BY <2>2, <2>3 DEF LockStep, StaysIn
<1>2. ASSUME BeginAttempt(p) \/ ToolReturn(p) \/ ToolRaise(p) PROVE LockStep(p)
  BY <1>0, <1>2 DEF BeginAttempt, ToolReturn, ToolRaise, BeginAttemptFile, WriteAttempt, At,
     Locked, storeVars, Jobs, LockStep, OthersWait, StaysIn
<1>3. ASSUME SavePlan(p) PROVE LockStep(p)
  BY <1>0, <1>3 DEF SavePlan, SavePlanFile, At, Locked, Jobs, LockStep, OthersWait, StaysIn
<1>4. ASSUME SaveTask(p), ~Release(p) PROVE LockStep(p)
  <2>1. PICK l : Goto(p, l)
    BY <1>4 DEF SaveTask
  <2>2. job'[p].plan = job[p].plan /\ OthersWait(p)
    BY <1>0, <2>1 DEF Goto, Jobs, OthersWait
  <2> QED BY <1>4, <2>2 DEF SaveTask, SaveTaskFile, At, Locked, LockStep, StaysIn
<1>5. ASSUME \/ CommitRefused(p) \/ ExposeRefused(p) \/ Audit(p) \/ Crash(p)
             \/ SaveTask(p) /\ Release(p)
      PROVE  LockStep(p)
  BY <1>0, <1>5 DEF CommitRefused, ExposeRefused, Audit, Crash, SaveTask, SaveTaskFile,
     AppendApproval, Release, At, Locked, Unlocked, storeVars, LockStep, OthersWait, Leaves, Idle
<1> QED BY <1>1, <1>2, <1>3, <1>4, <1>5 DEF Advance

LEMMA LoadedPlanStep == TypeInv /\ LoadedPlanIsCurrent /\ [Next]_vars => LoadedPlanIsCurrent'
<1> SUFFICES ASSUME TypeInv, LoadedPlanIsCurrent, [Next]_vars PROVE LoadedPlanIsCurrent'
  OBVIOUS
<1>1. ASSUME NEW p \in Processes,
             Approving(p) \/ Resuming(p) \/ Recovering(p) \/ Advance(p) \/ Crash(p)
      PROVE  LoadedPlanIsCurrent'
  BY <1>1, UnlockedIsLockStep, LockedIsLockStep, LockStepKeepsPlan
<1>2. CASE ChangeEnvironment \/ Damage \/ UNCHANGED vars
  BY <1>2 DEF ChangeEnvironment, Damage, ChangeInputs, DamageArtifact, vars, storeVars,
     runnerVars, LoadedPlanIsCurrent
<1> QED BY <1>1, <1>2 DEF Next

(* At most one command is inside the task lock, and the plan it is about to *)
(* write back is the plan on disk: no update of plan.json is ever lost.     *)
THEOREM LoadedPlanCorrect == Spec => []LoadedPlanIsCurrent
<1>1. Init => LoadedPlanIsCurrent
  BY DEF Init, Idle, Locked, LoadedPlanIsCurrent
<1> QED BY <1>1, LoadedPlanStep, Typed, PTL DEF Spec

-----------------------------------------------------------------------------
(* Consent *)

(* Every fingerprint the workspace or a running command relies on is one a  *)
(* user has confirmed, for the step it is used for.                         *)
Granted(fp, s) == fp \in consented /\ fp.step = s

PlanGranted == \A s \in Steps : plan[s].fp # NoFingerprint => Granted(plan[s].fp, s)

AttemptsGranted == \A a \in Attempts :
    IF attempts[a].status = "absent" THEN attempts[a].step = 0
                                     ELSE Granted(attempts[a].fp, attempts[a].step)

Opened(a) == attempts[a].status # "absent"

RunsFor(p) == Opened(job[p].attempt) /\ attempts[job[p].attempt].fp.env = job[p].env

JobGranted(p) ==
    /\ At(p, "confirm") => job[p].fp.step = job[p].step
    /\ At(p, "approve") => Granted(job[p].fp, job[p].step)
    /\ At(p, "save_plan") /\ job[p].flow = "approve" => Granted(job[p].fp, job[p].step)
    /\ At(p, "begin") => Granted(job[p].fp, job[p].step) /\ job[p].fp.env = job[p].env
    /\ job[p].pc \in Working => Opened(job[p].attempt)
    /\ job[p].pc \in {"start", "invoke", "tool", "register"} => RunsFor(p)
    /\ job[p].pc \in Writing /\ job[p].flow = "run" => RunsFor(p)

ConsentInv ==
    /\ PlanGranted
    /\ AttemptsGranted
    /\ \A a \in invoked : Opened(a)
    /\ \A p \in Processes : JobGranted(p)

(* What no step takes back. *)
Grows ==
    /\ consented \subseteq consented'
    /\ \A a \in Attempts : Opened(a) =>
        Opened(a)' /\ attempts'[a].step = attempts[a].step /\ attempts'[a].fp = attempts[a].fp

LEMMA OthersStayGranted ==
    ASSUME TypeInv, ConsentInv, Grows, NEW p \in Processes, OthersWait(p), JobGranted(p)'
    PROVE  \A q \in Processes : JobGranted(q)'
<1> SUFFICES ASSUME NEW q \in Processes, q # p PROVE JobGranted(q)'
  OBVIOUS
<1>1. job'[q] = job[q] /\ JobGranted(q) /\ Ready(job[q]) /\ job[q] \in Jobs
  BY DEF OthersWait, ConsentInv, TypeInv, TypeOK, JobsReady
<1>2. job[q].pc \in Working \/ (job[q].pc \in Writing /\ job[q].flow = "run") =>
        job[q].attempt \in Attempts
  BY <1>1 DEF Ready
<1>3. \A fp, s : Granted(fp, s) => Granted(fp, s)'
  BY DEF Granted, Grows
<1>4. job[q].attempt \in Attempts /\ Opened(job[q].attempt) => Opened(job[q].attempt)'
  BY <1>1 DEF Grows, Opened
<1>5. job[q].attempt \in Attempts /\ RunsFor(q) => RunsFor(q)'
  BY <1>1 DEF Grows, Opened, RunsFor
<1>6. {"start", "invoke", "tool", "register"} \subseteq Working
  BY DEF Working
<1> QED
  BY <1>1, <1>2, <1>3, <1>4, <1>5, <1>6 DEF JobGranted, At, Granted

LEMMA QuietGrows ==
    ASSUME UNCHANGED <<attempts, consented>>
    PROVE  Grows
BY DEF Grows, Opened

(* Steps that leave plan.json, the attempt records and the histories alone. *)
LEMMA QuietConsent ==
    ASSUME TypeInv, ConsentInv, NEW p \in Processes, OthersWait(p), JobGranted(p)',
           UNCHANGED <<plan, attempts, consented, invoked>>
    PROVE  ConsentInv'
<1>1. \A q \in Processes : JobGranted(q)'
  BY QuietGrows, OthersStayGranted
<1> QED
  BY <1>1 DEF ConsentInv, PlanGranted, AttemptsGranted, Granted, Opened

LEMMA ApprovingConsent ==
    ASSUME TypeInv, ConsentInv, NEW p \in Processes, Approving(p)
    PROVE  ConsentInv'
<1>0. job \in [Processes -> Jobs] /\ JobGranted(p) /\ Ready(job[p]) /\ StoreTypeOK
  BY DEF TypeInv, TypeOK, JobsReady, ConsentInv
<1>1. OthersWait(p)
  BY UnlockedIsLockStep DEF LockStep
<1>2. ASSUME NEW s \in Steps, StartApprove(p, s) PROVE ConsentInv'
  <2>1. JobGranted(p)'
    BY <1>0, <1>2 DEF StartApprove, JobGranted, At, Writing, Working
  <2> QED BY <1>1, <1>2, <2>1, QuietConsent DEF StartApprove, storeVars, History
<1>3. ASSUME Preview(p) PROVE ConsentInv'
  <2>1. CurrentFingerprint(p).step = job[p].step
    BY DEF CurrentFingerprint, Manifest
  <2>2. JobGranted(p)'
    BY <1>0, <1>3, <2>1 DEF Preview, JobGranted, At, Writing, Working, Jobs
  <2> QED BY <1>1, <1>3, <2>2, QuietConsent DEF Preview, storeVars, History
<1>4. ASSUME Confirm(p) PROVE ConsentInv'
  <2>1. JobGranted(p)'
    BY <1>0, <1>4 DEF Confirm, Goto, JobGranted, At, Writing, Working, Granted, Jobs
  <2>2. Grows
    BY <1>4 DEF Confirm, Grows, storeVars, Opened
  <2>3. \A q \in Processes : JobGranted(q)'
    BY <1>1, <2>1, <2>2, OthersStayGranted
  <2> QED BY <1>4, <2>3
    DEF Confirm, storeVars, ConsentInv, PlanGranted, AttemptsGranted, Granted, Opened
<1>5. ASSUME PreviewRefused(p) \/ Decline(p) \/ ApproveRefused(p) \/ Busy(p) PROVE ConsentInv'
  <2>1. JobGranted(p)'
    BY <1>0, <1>5 DEF PreviewRefused, Decline, ApproveRefused, Busy, EndUnlocked, Idle,
       JobGranted, At, Writing, Working
  <2> QED BY <1>1, <1>5, <2>1, QuietConsent
      DEF PreviewRefused, Decline, ApproveRefused, Busy, storeVars, History
<1>6. ASSUME ApproveStep(p) PROVE ConsentInv'
  <2>1. Granted(CurrentFingerprint(p), job[p].step)
    BY <1>0, <1>6 DEF ApproveStep, AsReviewed, JobGranted
  <2>2. JobGranted(p)'
    BY <1>0, <1>6, <2>1 DEF ApproveStep, Loaded, JobGranted, Granted, At, Writing, Working, History
  <2> QED BY <1>1, <1>6, <2>2, QuietConsent DEF ApproveStep, storeVars, History
<1> QED BY <1>2, <1>3, <1>4, <1>5, <1>6 DEF Approving

(* The two shapes a job takes when a command enters or leaves a section.    *)
LEMMA IdleGranted ==
    ASSUME TypeInv, NEW p \in Processes, job' = [job EXCEPT ![p] = Idle]
    PROVE  JobGranted(p)'
BY DEF TypeInv, TypeOK, Idle, JobGranted, At, Writing, Working

LEMMA ResumingConsent ==
    ASSUME TypeInv, ConsentInv, NEW p \in Processes, Resuming(p)
    PROVE  ConsentInv'
<1>0. job \in [Processes -> Jobs] /\ JobGranted(p) /\ Ready(job[p]) /\ StoreTypeOK
  BY DEF TypeInv, TypeOK, JobsReady, ConsentInv
<1>1. OthersWait(p)
  BY UnlockedIsLockStep DEF LockStep
<1>2. ASSUME StartResume(p) PROVE ConsentInv'
  <2>1. JobGranted(p)'
    BY <1>0, <1>2 DEF StartResume, JobGranted, At, Writing, Working
  <2> QED BY <1>1, <1>2, <2>1, QuietConsent DEF StartResume, storeVars, History
<1>3. ASSUME ResumeReport(p) \/ ResumeRefused(p) PROVE ConsentInv'
  <2>1. JobGranted(p)'
    BY <1>3, IdleGranted DEF ResumeReport, ResumeRefused, EndUnlocked
  <2> QED BY <1>1, <1>3, <2>1, QuietConsent
      DEF ResumeReport, ResumeRefused, SaveTaskFile, storeVars, History
<1>4. ASSUME ResumeInterrupted(p) \/ ResumeInvalidate(p) PROVE ConsentInv'
  <2>1. JobGranted(p)'
    BY <1>0, <1>4 DEF ResumeInterrupted, ResumeInvalidate, Loaded, JobGranted, At, Writing, Working
  <2> QED BY <1>1, <1>4, <2>1, QuietConsent
      DEF ResumeInterrupted, ResumeInvalidate, storeVars, History
<1>5. ASSUME ResumeApproved(p) PROVE ConsentInv'
  <2> DEFINE j(s) == Loaded("begin", "run", s, job[p].env, plan[s].fp, NoAttempt)
  <2>1. PICK s \in Steps : StillAsApproved(s, job[p].env) /\ job' = [job EXCEPT ![p] = j(s)]
    BY <1>5 DEF ResumeApproved
  <2>2. job[p].env \in Environments
    BY <1>0, <1>5 DEF ResumeApproved, At, Ready
  <2>3. plan[s].fp = Manifest(s, job[p].env) /\ plan[s].fp # NoFingerprint
    BY <1>0, <2>1, <2>2, ManifestType, FingerprintAssumption DEF StillAsApproved
  <2>4. Granted(plan[s].fp, s) /\ plan[s].fp.env = job[p].env
    BY <2>3 DEF ConsentInv, PlanGranted, Manifest
  <2>5. UNCHANGED consented
    BY <1>5 DEF ResumeApproved, History
  <2>6. JobGranted(p)'
    BY <1>0, <2>1, <2>4, <2>5 DEF Loaded, JobGranted, Granted, At, Writing, Working
  <2> QED BY <1>1, <1>5, <2>6, QuietConsent DEF ResumeApproved, storeVars, History
<1> QED BY <1>2, <1>3, <1>4, <1>5 DEF Resuming

LEMMA RecoveringConsent ==
    ASSUME TypeInv, ConsentInv, NEW p \in Processes, Recovering(p)
    PROVE  ConsentInv'
<1>0. job \in [Processes -> Jobs] /\ StoreTypeOK
  BY DEF TypeInv, TypeOK
<1>1. OthersWait(p)
  BY UnlockedIsLockStep DEF LockStep
<1>2. PICK s \in Steps : RecoverFinalize(p, s) \/ RecoverRetry(p, s) \/ RecoverFail(p, s)
  BY DEF Recovering
<1>3. AttemptMatches(s)
  BY <1>2 DEF RecoverFinalize, RecoverRetry, RecoverFail, Interrupted
<1>4. plan[s].attempt \in Attempts
  BY <1>0, <1>3 DEF AttemptMatches, StoreTypeOK, Plans, StepRecords
<1>5. Opened(plan[s].attempt)
  BY <1>3, <1>4 DEF AttemptMatches, ConsentInv, AttemptsGranted, Opened, Steps
<1>6. \E l \in {"expose", "finish"}, f \in {"complete", "retry", "fail"} : RecoverFrom(p, s, l, f)
  BY <1>2 DEF RecoverFinalize, RecoverRetry, RecoverFail
<1>7. PICK l \in {"expose", "finish"}, f \in {"complete", "retry", "fail"} :
        RecoverFrom(p, s, l, f)
  BY <1>6
<1>8. job' = [job EXCEPT ![p] = Loaded(l, f, s, NoEnvironment, NoFingerprint, plan[s].attempt)]
      /\ UNCHANGED <<storeVars, consented, invoked>>
  BY <1>7 DEF RecoverFrom, History
<1>9. JobGranted(p)'
  BY <1>0, <1>5, <1>8 DEF Loaded, JobGranted, At, Writing, Opened, storeVars
<1> QED BY <1>1, <1>8, <1>9, QuietConsent DEF storeVars

(* Moving an opened attempt record on: its step and approval stay.          *)
LEMMA AttemptMovesOn ==
    ASSUME TypeInv, ConsentInv, NEW a \in Attempts, Opened(a), NEW rec \in AttemptRecords,
           rec.status # "absent", rec.step = attempts[a].step, rec.fp = attempts[a].fp,
           WriteAttempt(a, rec), UNCHANGED consented
    PROVE  /\ Grows
           /\ AttemptsGranted'
           /\ \A b \in Attempts : Opened(b) => Opened(b)'
           /\ plan' = plan
<1>1. attempts' = [attempts EXCEPT ![a] = rec] /\ attempts \in [Attempts -> AttemptRecords]
  BY DEF WriteAttempt, TypeInv, TypeOK, StoreTypeOK
<1>2. Grows /\ \A b \in Attempts : Opened(b) => Opened(b)'
  BY <1>1 DEF Grows, Opened
<1>3. AttemptsGranted'
  BY <1>1 DEF ConsentInv, AttemptsGranted, Granted, Opened
<1> QED BY <1>2, <1>3 DEF WriteAttempt

LEMMA MovesOnConsent ==
    ASSUME TypeInv, ConsentInv, NEW p \in Processes, NEW st \in AttemptStatuses \ {"absent"},
           NEW arts \in SUBSET ArtifactIds, NEW l \in Locked, Goto(p, l),
           job[p].pc \in Working,
           WriteAttempt(job[p].attempt,
                        [attempts[job[p].attempt] EXCEPT !.status = st, !.artifacts = arts]),
           l = "invoke" => job[p].pc = "start",
           l \notin {"start", "tool", "register", "begin"},
           l \in Writing => job[p].flow \notin {"run", "approve"},
           UNCHANGED <<consented, invoked>>
    PROVE  ConsentInv'
<1> DEFINE a == job[p].attempt
           rec == [attempts[a] EXCEPT !.status = st, !.artifacts = arts]
<1>0. job \in [Processes -> Jobs] /\ JobGranted(p) /\ Ready(job[p]) /\ StoreTypeOK
  BY DEF TypeInv, TypeOK, JobsReady, ConsentInv
<1>1. a \in Attempts /\ Opened(a)
  BY <1>0 DEF Ready, JobGranted
<1>2. /\ rec \in AttemptRecords /\ rec.status # "absent"
      /\ rec.step = attempts[a].step /\ rec.fp = attempts[a].fp
  BY <1>0, <1>1 DEF StoreTypeOK, AttemptRecords
<1>3. /\ Grows /\ AttemptsGranted' /\ plan' = plan
      /\ \A b \in Attempts : Opened(b) => Opened(b)'
  BY <1>1, <1>2, AttemptMovesOn
<1>4. OthersWait(p)
  BY <1>0 DEF Goto, OthersWait
<1>5. /\ job'[p].pc = l /\ job'[p].attempt = a /\ job'[p].env = job[p].env
      /\ job'[p].flow = job[p].flow
  BY <1>0 DEF Goto, Jobs
<1>6. Opened(a)' /\ attempts'[a].fp = attempts[a].fp
  BY <1>1, <1>3, <1>5 DEF Grows, Opened
<1>7. job[p].pc = "start" => RunsFor(p)
  BY <1>0 DEF JobGranted
<1>8. JobGranted(p)'
  BY <1>5, <1>6, <1>7 DEF JobGranted, At, Working, Writing, RunsFor, Opened, Locked
<1>9. \A q \in Processes : JobGranted(q)'
  BY <1>3, <1>4, <1>8, OthersStayGranted
<1>10. invoked \subseteq Attempts
  BY DEF TypeInv, TypeOK
<1> QED BY <1>3, <1>9, <1>10 DEF ConsentInv, PlanGranted, Granted

LEMMA ToolConsent ==
    ASSUME TypeInv, ConsentInv, NEW p \in Processes, Advance(p),
           \/ BeginAttempt(p) \/ StartAttempt(p) \/ InvokeTool(p) \/ ToolWrite(p)
           \/ ToolRegister(p) \/ ToolReturn(p) \/ ToolRaise(p)
    PROVE  ConsentInv'
<1>0. job \in [Processes -> Jobs] /\ JobGranted(p) /\ Ready(job[p]) /\ StoreTypeOK
  BY DEF TypeInv, TypeOK, JobsReady, ConsentInv
<1>1. OthersWait(p)
  BY LockedIsLockStep DEF LockStep
<1>2. ASSUME BeginAttempt(p) PROVE ConsentInv'
  <2>1. PICK a \in Attempts :
          /\ BeginAttemptFile(a, job[p].step, job[p].fp)
          /\ job' = [job EXCEPT ![p].pc = "save_plan", ![p].attempt = a]
    BY <1>2 DEF BeginAttempt
  <2> DEFINE rec == [status |-> "prepared", step |-> job[p].step, fp |-> job[p].fp,
                     artifacts |-> {}]
  <2>2. /\ attempts' = [attempts EXCEPT ![a] = rec] /\ ~Opened(a)
        /\ UNCHANGED <<plan, consented, invoked>>
    BY <1>2, <2>1 DEF BeginAttempt, BeginAttemptFile, WriteAttempt, Opened, History
  <2>3. Granted(job[p].fp, job[p].step) /\ job[p].fp.env = job[p].env /\ job[p].flow = "run"
    BY <1>0, <1>2 DEF BeginAttempt, At, JobGranted, Ready
  <2>4. Grows
    BY <1>0, <2>2 DEF Grows, Opened, StoreTypeOK
  <2>5. AttemptsGranted'
    BY <1>0, <2>2, <2>3 DEF ConsentInv, AttemptsGranted, Granted, StoreTypeOK
  <2>6. RunsFor(p)'
    BY <1>0, <2>1, <2>2, <2>3 DEF RunsFor, Opened, StoreTypeOK, Jobs
  <2>7. JobGranted(p)'
    BY <1>0, <2>1, <2>3, <2>6 DEF JobGranted, At, Working, Jobs
  <2>8. \A q \in Processes : JobGranted(q)'
    BY <1>1, <2>4, <2>7, OthersStayGranted
  <2> QED BY <2>2, <2>4, <2>5, <2>8 DEF ConsentInv, PlanGranted, Granted, Grows, TypeInv, TypeOK
<1>3. ASSUME StartAttempt(p) PROVE ConsentInv'
  <2>1. attempts[job[p].attempt] \in AttemptRecords
    BY <1>0, <1>3 DEF StartAttempt, At, Ready, Working, StoreTypeOK
  <2>2. [attempts[job[p].attempt] EXCEPT !.status = "running"]
        = [attempts[job[p].attempt] EXCEPT !.status = "running",
                                           !.artifacts = attempts[job[p].attempt].artifacts]
    BY <2>1 DEF AttemptRecords
  <2>3. attempts[job[p].attempt].artifacts \in SUBSET ArtifactIds
    BY <2>1 DEF AttemptRecords
  <2> QED BY <1>3, <2>2, <2>3, MovesOnConsent
      DEF StartAttempt, StartAttemptFile, At, Working, Writing, Locked, AttemptStatuses, History
<1>4. ASSUME InvokeTool(p) PROVE ConsentInv'
  <2>1. job[p].attempt \in Attempts /\ Opened(job[p].attempt) /\ RunsFor(p)
    BY <1>0, <1>4 DEF InvokeTool, At, Ready, Working, JobGranted
  <2>2. UNCHANGED <<plan, attempts, consented>> /\ invoked' = invoked \cup {job[p].attempt}
    BY <1>4 DEF InvokeTool, storeVars
  <2>3. JobGranted(p)'
    BY <1>0, <1>4, <2>1, <2>2
    DEF InvokeTool, Goto, JobGranted, At, Working, Writing, Jobs, RunsFor, Opened
  <2>4. \A q \in Processes : JobGranted(q)'
    BY <1>1, <2>2, <2>3, QuietGrows, OthersStayGranted
  <2> QED BY <2>1, <2>2, <2>4 DEF ConsentInv, PlanGranted, AttemptsGranted, Granted, Opened
<1>5. ASSUME ToolWrite(p) \/ ToolRegister(p) PROVE ConsentInv'
  <2>1. RunsFor(p) /\ job[p].flow = "run"
    BY <1>0, <1>5 DEF ToolWrite, ToolRegister, At, JobGranted, Ready
  <2>2. UNCHANGED <<plan, attempts, consented, invoked>>
    BY <1>5 DEF ToolWrite, ToolRegister, WriteArtifactFile, RegisterArtifact, History
  <2>3. JobGranted(p)'
    BY <1>0, <1>5, <2>1, <2>2
    DEF ToolWrite, ToolRegister, Goto, JobGranted, At, Working, Writing, Jobs, RunsFor, Opened
  <2> QED BY <1>1, <2>2, <2>3, QuietConsent
<1>6. ASSUME ToolReturn(p) \/ ToolRaise(p) PROVE ConsentInv'
  <2>1. RunsFor(p)
    BY <1>0, <1>6 DEF ToolReturn, ToolRaise, At, JobGranted
  <2>2. UNCHANGED <<plan, attempts, consented, invoked>>
    BY <1>6 DEF ToolReturn, ToolRaise, storeVars, History
  <2>3. JobGranted(p)'
    BY <1>0, <1>6, <2>1, <2>2
    DEF ToolReturn, ToolRaise, JobGranted, At, Working, Writing, Jobs, RunsFor, Opened
  <2> QED BY <1>1, <2>2, <2>3, QuietConsent
<1> QED BY <1>2, <1>3, <1>4, <1>5, <1>6

LEMMA CommitConsent ==
    ASSUME TypeInv, ConsentInv, NEW p \in Processes, Advance(p) \/ Crash(p),
           \/ Commit(p) \/ CommitRefused(p) \/ Expose(p) \/ ExposeRefused(p)
           \/ MarkFinalized(p) \/ FinishAttempt(p) \/ SaveTask(p) \/ Audit(p) \/ Crash(p)
    PROVE  ConsentInv'
<1>0. job \in [Processes -> Jobs] /\ JobGranted(p) /\ Ready(job[p]) /\ StoreTypeOK
  BY DEF TypeInv, TypeOK, JobsReady, ConsentInv
<1>1. OthersWait(p)
  BY LockedIsLockStep DEF LockStep
<1>2. job[p].pc \in Working =>
        /\ attempts[job[p].attempt] \in AttemptRecords
        /\ attempts[job[p].attempt].artifacts \in SUBSET ArtifactIds
        /\ OutputsOf(job[p].attempt) \in SUBSET ArtifactIds
        /\ \A st \in AttemptStatuses :
             [attempts[job[p].attempt] EXCEPT !.status = st]
             = [attempts[job[p].attempt] EXCEPT !.status = st,
                                                !.artifacts = attempts[job[p].attempt].artifacts]
  BY <1>0 DEF Ready, StoreTypeOK, AttemptRecords, OutputsOf
<1>3. ASSUME Commit(p) PROVE ConsentInv'
  BY <1>2, <1>3, MovesOnConsent
  DEF Commit, CommitMarker, At, Working, Writing, Locked, AttemptStatuses, History
<1>4. ASSUME MarkFinalized(p) PROVE ConsentInv'
  <2> DEFINE l == IF job[p].plan[job[p].step].status = "completed"
                  THEN "save_task" ELSE "save_plan"
  <2>1. job[p].pc = "mark" /\ job[p].flow = "complete" /\ Goto(p, l) /\ l \in Writing
    BY <1>0, <1>4 DEF MarkFinalized, At, Ready, Writing
  <2>2. WriteAttempt(job[p].attempt,
          [attempts[job[p].attempt] EXCEPT !.status = "finalized",
                                           !.artifacts = attempts[job[p].attempt].artifacts])
    BY <1>2, <1>4, <2>1 DEF MarkFinalized, MarkFinalizedFile, AttemptStatuses, Working
  <2> QED BY <1>2, <1>4, <2>1, <2>2, MovesOnConsent
      DEF MarkFinalized, Working, Writing, Locked, AttemptStatuses, History
<1>5. ASSUME FinishAttempt(p) PROVE ConsentInv'
  <2> DEFINE st == IF job[p].flow = "retry" THEN "abandoned" ELSE "failed"
  <2>1. job[p].pc = "finish" /\ job[p].flow \in {"fail", "retry"} /\ Goto(p, "save_plan")
    BY <1>0, <1>5 DEF FinishAttempt, At, Ready
  <2>2. WriteAttempt(job[p].attempt,
          [attempts[job[p].attempt] EXCEPT !.status = st,
                                           !.artifacts = attempts[job[p].attempt].artifacts])
    BY <1>2, <1>5, <2>1 DEF FinishAttempt, FinishAttemptFile, AttemptStatuses, Working
  <2> QED BY <1>2, <1>5, <2>1, <2>2, MovesOnConsent
      DEF FinishAttempt, Working, Writing, Locked, AttemptStatuses, History
<1>6. ASSUME Expose(p) PROVE ConsentInv'
  <2>1. JobGranted(p)'
    BY <1>0, <1>6 DEF Expose, ExposeArtifacts, Goto, JobGranted, At, Working, Writing, Jobs, Opened
  <2> QED BY <1>1, <1>6, <2>1, QuietConsent DEF Expose, ExposeArtifacts, History
<1>7. ASSUME CommitRefused(p) \/ ExposeRefused(p) \/ Crash(p) PROVE ConsentInv'
  <2>1. JobGranted(p)'
    BY <1>7, IdleGranted DEF CommitRefused, ExposeRefused, Crash, Release
  <2> QED BY <1>1, <1>7, <2>1, QuietConsent
      DEF CommitRefused, ExposeRefused, Crash, storeVars, History
<1>8. ASSUME Audit(p) PROVE ConsentInv'
  <2>1. JobGranted(p)'
    BY <1>8, IdleGranted DEF Audit, Release
  <2> QED BY <1>1, <1>8, <2>1, QuietConsent DEF Audit, AppendApproval, History
<1>9. ASSUME SaveTask(p) PROVE ConsentInv'
  <2>1. UNCHANGED <<plan, attempts, consented, invoked>>
    BY <1>9 DEF SaveTask, SaveTaskFile, History
  <2>2. CASE Release(p)
    BY <1>1, <2>1, <2>2, IdleGranted, QuietConsent DEF Release
  <2>3. CASE job[p].flow = "run" /\ Goto(p, "start")
    <3>1. RunsFor(p)
      BY <1>0, <1>9, <2>3 DEF SaveTask, At, JobGranted, Writing
    <3>2. JobGranted(p)'
      BY <1>0, <2>1, <2>3, <3>1 DEF Goto, JobGranted, At, Working, Writing, Jobs, RunsFor, Opened
    <3> QED BY <1>1, <2>1, <3>2, QuietConsent
  <2>4. CASE job[p].flow \in {"approve", "invalidate"} /\ Goto(p, "audit")
    <3>1. JobGranted(p)'
      BY <1>0, <2>4 DEF Goto, JobGranted, At, Working, Writing, Jobs
    <3> QED BY <1>1, <2>1, <3>1, QuietConsent
  <2> QED BY <1>9, <2>2, <2>3, <2>4 DEF SaveTask
<1> QED BY <1>3, <1>4, <1>5, <1>6, <1>7, <1>8, <1>9

LEMMA SavePlanConsent ==
    ASSUME TypeInv, LoadedPlanIsCurrent, ConsentInv, NEW p \in Processes, SavePlan(p)
    PROVE  ConsentInv'
<1> DEFINE s == job[p].step
<1>0. /\ job \in [Processes -> Jobs] /\ JobGranted(p) /\ Ready(job[p]) /\ StoreTypeOK
      /\ job[p] \in Jobs /\ s \in Steps
  BY DEF TypeInv, TypeOK, JobsReady, ConsentInv, Jobs
<1>1. OthersWait(p)
  BY LockedIsLockStep DEF LockStep, Advance
<1>2. job[p].plan = plan
  BY DEF LoadedPlanIsCurrent, SavePlan, At, Locked
<1>3. plan' = [plan EXCEPT ![s] = Revised(p)] /\ UNCHANGED <<attempts, consented, invoked>>
  BY <1>2 DEF SavePlan, SavePlanFile, History
<1>4. Revised(p).fp # NoFingerprint => Granted(Revised(p).fp, s)
  <2>1. plan[s].fp # NoFingerprint => Granted(plan[s].fp, s)
    BY <1>0 DEF ConsentInv, PlanGranted
  <2>2. job[p].flow = "approve" => Granted(job[p].fp, s)
    BY <1>0 DEF JobGranted, SavePlan
  <2>3. plan[s] \in StepRecords /\ job[p].flow \in Flows \ {"none"}
    BY <1>0 DEF StoreTypeOK, Plans, Jobs, Ready, SavePlan, At, Writing
  <2> QED BY <1>2, <2>1, <2>2, <2>3 DEF Revised, StepRecords, Flows
<1>5. PlanGranted'
  <2> SUFFICES ASSUME NEW t \in Steps, plan'[t].fp # NoFingerprint
               PROVE  Granted(plan'[t].fp, t)
    BY <1>3 DEF PlanGranted, Granted
  <2>1. CASE t = s
    BY <1>0, <1>3, <1>4, <2>1 DEF StoreTypeOK, Plans
  <2>2. CASE t # s
    BY <1>0, <1>3, <2>2 DEF StoreTypeOK, Plans, ConsentInv, PlanGranted
  <2> QED BY <2>1, <2>2
<1>6. job[p].flow = "run" => RunsFor(p)
  BY <1>0 DEF JobGranted, SavePlan, At, Writing
<1>7. JobGranted(p)'
  BY <1>0, <1>3, <1>6 DEF SavePlan, JobGranted, At, Working, Writing, Jobs, RunsFor, Opened
<1>8. \A q \in Processes : JobGranted(q)'
  BY <1>1, <1>3, <1>7, QuietGrows, OthersStayGranted
<1> QED BY <1>3, <1>5, <1>8 DEF ConsentInv, AttemptsGranted, Granted, Opened

LEMMA ConsentStep == TypeInv /\ LoadedPlanIsCurrent /\ ConsentInv /\ [Next]_vars => ConsentInv'
<1> SUFFICES ASSUME TypeInv, LoadedPlanIsCurrent, ConsentInv, [Next]_vars PROVE ConsentInv'
  OBVIOUS
<1>1. ASSUME NEW p \in Processes, Advance(p) PROVE ConsentInv'
  BY <1>1, ToolConsent, CommitConsent, SavePlanConsent DEF Advance
<1>2. ASSUME NEW p \in Processes, Crash(p) PROVE ConsentInv'
  BY <1>2, CommitConsent
<1>3. CASE ChangeEnvironment \/ Damage \/ UNCHANGED vars
  <2>1. UNCHANGED <<job, plan, attempts, consented, invoked>>
    BY <1>3 DEF ChangeEnvironment, Damage, ChangeInputs, DamageArtifact, vars, storeVars,
       runnerVars, History
  <2> QED BY <2>1 DEF ConsentInv, PlanGranted, AttemptsGranted, JobGranted, Granted, Opened,
      RunsFor, At
<1> QED BY <1>1, <1>2, <1>3, ApprovingConsent, ResumingConsent, RecoveringConsent DEF Next

(* Every fingerprint in the plan, in an attempt record or carried by a      *)
(* command was confirmed by a user for that step.                           *)
THEOREM ConsentCorrect == Spec => []ConsentInv
<1>1. Init => ConsentInv
  BY DEF Init, StoreInit, InitialPlan, AbsentAttempt, Idle, ConsentInv, PlanGranted,
     AttemptsGranted, JobGranted, At, Working, Writing
<1> QED BY <1>1, ConsentStep, LoadedPlanCorrect, Typed, PTL DEF Spec

(* Every tool execution is one a user was shown and confirmed, for that     *)
(* step, over that manifest and in that environment, whatever the number of *)
(* processes, crashes and outside changes.                                  *)
THEOREM OnlyConsentedCorrect == Spec => []OnlyConsentedExecution
<1>1. TypeInv /\ ConsentInv => OnlyConsentedExecution
  <2> SUFFICES ASSUME TypeInv, ConsentInv PROVE OnlyConsentedExecution
    OBVIOUS
  <2>1. \A a \in invoked :
          attempts[a].fp \in consented /\ attempts[a].fp.step = attempts[a].step
    BY DEF TypeInv, TypeOK, ConsentInv, AttemptsGranted, Opened, Granted
  <2>2. \A p \in Processes : job[p].pc \in {"invoke", "tool", "register"} =>
          attempts[job[p].attempt].fp.env = job[p].env
    BY DEF ConsentInv, JobGranted, RunsFor
  <2> QED BY <2>1, <2>2 DEF OnlyConsentedExecution
<1> QED BY <1>1, ConsentCorrect, Typed, PTL
=============================================================================
