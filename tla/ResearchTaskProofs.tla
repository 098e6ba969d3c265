-------------------------- MODULE ResearchTaskProofs --------------------------
(***************************************************************************)
(* A research task keeps what the gate promises, whatever the request and  *)
(* the plan are; plan.json comes last and consent first.  For plans of a   *)
(* model (ByModel), of any length, the rules the planner enforces carry over  *)
(* to the execution: tools find their inputs and reports list the sources  *)
(* of their dataset.  For the bundled workflows, which are finitely many,  *)
(* that is left to model checking.                                         *)
(***************************************************************************)
EXTENDS ResearchTask, StepGateProofs

-----------------------------------------------------------------------------
(* Every step of the task is a step of the gate.                           *)

LEMMA CompleteIsFinish == ASSUME NEW s \in Steps, ToolReturns(s)
                          PROVE  Finish(s) /\ InputsThere(s) /\ s \in DOMAIN plan /\ UNCHANGED runVars
BY DEF ToolReturns, Complete, WebFetch, WebSearch, FileRead, UrlListRead, BrowserExtract,
       DocumentInspect, DocumentConvert, MarkdownValidate, ContentPrepareDraft,
       DataNormalize, MarkdownTable, ReportSummarize, ReportCompose

LEMMA RunIsQuiet == Run => UNCHANGED <<gateVars, request, used>>
BY DEF Run, Refuse, Check, Answer, Snapshot, SnapshotGone, CreateFile, RecordConsent,
       CallProvider, AcceptModelPlan, RefuseModelPlan, ReadModelStep, CompileWorkflow,
       RefuseWorkflow, SaveFile, Crash

LEMMA GateStep == [TaskNext]_taskVars => [Next]_gateVars
<1> SUFFICES ASSUME [TaskNext]_taskVars PROVE [Next]_gateVars
  OBVIOUS
<1>1. CASE Run
  BY <1>1, RunIsQuiet
<1>2. ASSUME NEW i \in DOMAIN request.inputs, Touch(i) PROVE [Next]_gateVars
  BY <1>2 DEF Touch
<1>3. ASSUME NEW s \in Steps,
             \/ Approve(s) \/ Invalidate(s) \/ StartTool(s) \/ EnterTool(s)
             \/ Recover(s) \/ FailStep(s) \/ ToolReturns(s)
      PROVE  [Next]_gateVars
  BY <1>3, CompleteIsFinish
     DEF Approve, Invalidate, StartTool, EnterTool, Recover, FailStep, Next
<1>4. CASE UNCHANGED taskVars
  BY <1>4 DEF taskVars
<1> QED BY <1>1, <1>2, <1>3, <1>4 DEF TaskNext

(* The composition implements the gate. *)
THEOREM TaskKeepsGate == TaskSpec => Spec
<1>1. TaskInit => Init
  BY DEF TaskInit
<1> QED BY <1>1, GateStep, PTL DEF TaskSpec, Spec

(* No step of a research task acts twice, whatever workflow or model made   *)
(* its plan.                                                                *)
THEOREM TaskAtMostOnce == TaskSpec => []AtMostOnce
BY TaskKeepsGate, AtMostOnceCorrect, PTL

(* No step of a research task acts before the steps in front of it are     *)
(* done.                                                                   *)
THEOREM TaskInOrder == TaskSpec => []InOrder
BY TaskKeepsGate, InOrderCorrect, PTL

-----------------------------------------------------------------------------
(* The run command: what is durable in which phase.                        *)

Created == {"inputs.json", "task.json", "artifacts.json"}

RunInv ==
    /\ phase \in {"checking", "asking"} => ~sent
    /\ phase \in {"checking", "asking", "creating", "planning", "calling"} => plan = <<>>
    /\ phase \in {"calling", "answer"} => ByModel
    /\ ByModel /\ phase \notin {"checking", "asking", "stopped"} => agreed
    /\ sent \/ phase = "calling" => agreed /\ "planning_call_approved" \in files
    /\ phase \in {"planning", "calling", "answer", "saving"} =>
        Created \subseteq files /\ Len(snapshots) = Len(request.inputs)
    /\ "plan.json" \in files =>
        /\ phase \in {"ready", "stopped"}
        /\ Created \cup {"waiting_approval"} \subseteq files
        /\ Len(snapshots) = Len(request.inputs)

LEMMA WriteCreate == ASSUME WriteNext(CreateOrder, "planning")
                     PROVE  /\ files \subseteq files' /\ files' \subseteq files \cup Created
                            /\ phase' = phase \/ (phase' = "planning" /\ Created \subseteq files')
<1>1. CreateOrder = <<"inputs.json", "task.json", "artifacts.json">> /\ Len(CreateOrder) = 3
      /\ DOMAIN CreateOrder = 1..3
  BY DEF CreateOrder
<1>2. PICK k \in 1..3 : /\ \A j \in 1..3 : CreateOrder[j] \in files <=> j < k
                        /\ files' = files \cup {CreateOrder[k]}
                        /\ phase' = IF k = 3 THEN "planning" ELSE phase
  BY <1>1 DEF WriteNext
<1>3. Created = {CreateOrder[1], CreateOrder[2], CreateOrder[3]}
  BY <1>1 DEF Created
<1> QED BY <1>2, <1>3

LEMMA WriteSave == ASSUME WriteNext(SaveOrder, "ready")
                   PROVE  \/ files' = files \cup {"waiting_approval"} /\ phase' = phase
                          \/ /\ files' = files \cup {"plan.json"} /\ phase' = "ready"
                             /\ "waiting_approval" \in files
<1>1. SaveOrder = <<"waiting_approval", "plan.json">> /\ Len(SaveOrder) = 2 /\ DOMAIN SaveOrder = 1..2
  BY DEF SaveOrder
<1>2. PICK k \in 1..2 : /\ \A j \in 1..2 : SaveOrder[j] \in files <=> j < k
                        /\ files' = files \cup {SaveOrder[k]}
                        /\ phase' = IF k = 2 THEN "ready" ELSE phase
  BY <1>1 DEF WriteNext
<1> QED BY <1>1, <1>2

LEMMA RunInvStep == RunInv /\ [TaskNext]_taskVars => RunInv'
<1> SUFFICES ASSUME RunInv, [TaskNext]_taskVars PROVE RunInv'
  OBVIOUS
<1> USE DEF RunInv, ByModel, Goto, Created
<1>1. CASE Refuse \/ Check \/ Answer \/ Snapshot \/ SnapshotGone
  BY <1>1 DEF Refuse, Check, Answer, Snapshot, SnapshotGone
<1>2. CASE CreateFile
  BY <1>2, WriteCreate DEF CreateFile
<1>3. CASE RecordConsent \/ CallProvider \/ AcceptModelPlan \/ RefuseModelPlan \/ CompileWorkflow
           \/ RefuseWorkflow \/ Crash
  BY <1>3 DEF RecordConsent, CallProvider, AcceptModelPlan, RefuseModelPlan, CompileWorkflow,
              RefuseWorkflow, Crash
<1>4. ASSUME NEW tool, NEW ref, ReadModelStep(tool, ref) PROVE RunInv'
  BY <1>4 DEF ReadModelStep
<1>5. CASE SaveFile
  BY <1>5, WriteSave DEF SaveFile
<1>6. ASSUME NEW i \in DOMAIN request.inputs, Touch(i) PROVE RunInv'
  BY <1>6 DEF Touch
<1>7. ASSUME NEW s \in Steps,
             \/ Approve(s) \/ Invalidate(s) \/ StartTool(s) \/ EnterTool(s)
             \/ Recover(s) \/ FailStep(s) \/ ToolReturns(s)
      PROVE  RunInv'
  <2>1. UNCHANGED runVars
    BY <1>7, CompleteIsFinish DEF Approve, Invalidate, StartTool, EnterTool, Recover, FailStep
  <2> QED BY <2>1 DEF runVars
<1>8. CASE UNCHANGED taskVars
  BY <1>8 DEF taskVars, runVars
<1> QED BY <1>1, <1>2, <1>3, <1>4, <1>5, <1>6, <1>7, <1>8 DEF TaskNext, Run

LEMMA RunInvInit == TaskInit => RunInv
BY DEF TaskInit, RunInv

(* Whoever finds plan.json finds the inputs, the task and the status too,   *)
(* for every request and wherever the command died.                         *)
THEOREM PlanIsLastCorrect == TaskSpec => []PlanIsLast
<1>1. RunInv => PlanIsLast
  BY DEF RunInv, PlanIsLast, Created
<1> QED BY <1>1, RunInvInit, RunInvStep, PTL DEF TaskSpec

(* The provider is never called for a plan without a recorded consent.      *)
THEOREM SentOnRecordCorrect == TaskSpec => []SentOnRecord
<1>1. RunInv => SentOnRecord
  BY DEF RunInv, SentOnRecord
<1> QED BY <1>1, RunInvInit, RunInvStep, PTL DEF TaskSpec

-----------------------------------------------------------------------------
(* Types, for plans of a model: nothing is known here of a compiled plan.  *)

PlanSteps == [tool : Tools, ref : Nat, shown : Versions]

LEMMA ToolReads ==
    ASSUME NEW s \in Steps, ToolReturns(s)
    PROVE  \E reads \in {{}, Done(DataSources), Done({"document.convert"})} :
               /\ used' = [used EXCEPT ![s] = reads]
               /\ plan[s].tool \in {"data.normalize", "report.summarize", "report.compose"} =>
                    reads = Done(DataSources)
BY DEF ToolReturns, Complete, WebFetch, WebSearch, FileRead, UrlListRead, BrowserExtract,
       DocumentInspect, DocumentConvert, MarkdownValidate, ContentPrepareDraft,
       DataNormalize, MarkdownTable, ReportSummarize, ReportCompose

LEMMA TypeStep == RunInv /\ (ByModel => TaskTypeOK) /\ [TaskNext]_taskVars => (ByModel => TaskTypeOK)'
<1> SUFFICES ASSUME RunInv, TaskTypeOK, ByModel, [TaskNext]_taskVars PROVE TaskTypeOK'
  BY RunIsQuiet, CompleteIsFinish
     DEF ByModel, TaskNext, taskVars, runVars, Touch, Approve, Invalidate, StartTool, EnterTool,
         Recover, FailStep
<1>1. GateTypeOK'
  BY GateStep, GateTypeStep DEF TaskTypeOK
<1>2. request.inputs \in Seq(Kinds) /\ request.urls \in Nat
  BY TaskAssumption DEF TaskTypeOK
<1> USE DEF TaskTypeOK, Versions, Phases, Durable, Goto
<1>3. CASE Refuse \/ Check \/ Answer \/ SnapshotGone
  BY <1>1, <1>3 DEF Refuse, Check, Answer, SnapshotGone, ByModel
<1>4. CASE Snapshot
  BY <1>1, <1>2, <1>4 DEF Snapshot, Upcoming, ByModel
<1>5. CASE CreateFile
  BY <1>1, <1>5, WriteCreate DEF CreateFile, ByModel, Created
<1>6. CASE SaveFile
  BY <1>1, <1>6, WriteSave DEF SaveFile, ByModel
<1>7. CASE RecordConsent \/ CallProvider \/ AcceptModelPlan
  BY <1>1, <1>7 DEF RecordConsent, CallProvider, AcceptModelPlan, ByModel
<1>8. CASE RefuseModelPlan \/ Crash
  <2>1. plan' = plan \/ plan' = <<>>
    BY <1>8 DEF RefuseModelPlan, Crash
  <2>2. <<>> \in Seq(PlanSteps) /\ Len(<<>>) = 0 /\ 0 <= NumSteps /\ 0 <= MaxPlanSteps
    BY TaskAssumption, GateAssumption
  <2>3. plan' \in Seq(PlanSteps) /\ Len(plan') <= NumSteps /\ Len(plan') <= MaxPlanSteps
    BY <2>1, <2>2 DEF PlanSteps
  <2> QED BY <1>1, <1>8, <2>3 DEF RefuseModelPlan, Crash, PlanSteps, ByModel
<1>9. CASE CompileWorkflow \/ RefuseWorkflow
  BY <1>9 DEF CompileWorkflow, RefuseWorkflow
<1>10. ASSUME NEW tool \in Tools, NEW ref, ReadModelStep(tool, ref) PROVE TaskTypeOK'
  <2>1. Len(snapshots) = Len(request.inputs)
    BY <1>10 DEF ReadModelStep, RunInv
  <2>2. ref \in Nat /\ (tool \in FileTools => ref \in 1..Len(request.inputs))
    BY <1>2, <1>10 DEF ReadModelStep, Permitted, FileTools
  <2>3. Step(tool, ref) \in PlanSteps
    BY <2>1, <2>2 DEF Step, ConfigShown, PlanSteps, FileTools
  <2>4. plan' = Append(plan, Step(tool, ref)) /\ Len(plan) < MaxPlanSteps
    BY <1>10 DEF ReadModelStep, RoomForMore
  <2>5. plan' \in Seq(PlanSteps) /\ Len(plan') = Len(plan) + 1
    BY <2>3, <2>4 DEF PlanSteps
  <2>6. Len(plan') <= MaxPlanSteps /\ Len(plan') <= NumSteps
    BY <2>4, <2>5, TaskAssumption, GateAssumption
  <2> QED BY <1>1, <1>10, <2>5, <2>6 DEF ReadModelStep, PlanSteps, ByModel
<1>11. ASSUME NEW i \in DOMAIN request.inputs, Touch(i) PROVE TaskTypeOK'
  BY <1>1, <1>11 DEF Touch, ByModel
<1>12. ASSUME NEW s \in Steps,
              Approve(s) \/ Invalidate(s) \/ StartTool(s) \/ EnterTool(s) \/ Recover(s) \/ FailStep(s)
       PROVE  TaskTypeOK'
  BY <1>1, <1>12
     DEF Approve, Invalidate, StartTool, EnterTool, Recover, FailStep, runVars, ByModel
<1>13. ASSUME NEW s \in Steps, ToolReturns(s) PROVE TaskTypeOK'
  <2>1. UNCHANGED runVars
    BY <1>13, CompleteIsFinish
  <2>2. \A tools : Done(tools) \subseteq Steps
    BY GateAssumption DEF Done, Steps
  <2>3. used' \in [Steps -> SUBSET Steps]
    BY <1>13, <2>2, ToolReads
  <2> QED BY <1>1, <2>1, <2>3 DEF runVars, ByModel
<1>14. CASE UNCHANGED taskVars
  BY <1>1, <1>14 DEF taskVars, runVars, ByModel
<1> QED BY <1>3, <1>4, <1>5, <1>6, <1>7, <1>8, <1>9, <1>10, <1>11, <1>12, <1>13, <1>14
        DEF TaskNext, Run

LEMMA TaskTypeInit == TaskInit => TaskTypeOK
<1> SUFFICES ASSUME TaskInit PROVE TaskTypeOK
  OBVIOUS
<1>1. GateTypeOK
  BY DEF TaskInit, Init, GateTypeOK, Stages
<1>2. request.inputs \in Seq(Kinds)
  BY TaskAssumption DEF TaskInit
<1>3. plan = <<>> /\ Len(plan) = 0 /\ plan \in Seq(PlanSteps) /\ 0 <= NumSteps /\ 0 <= MaxPlanSteps
  BY TaskAssumption, GateAssumption DEF TaskInit
<1>4. snapshots \in Seq(Versions \ {0}) /\ Len(snapshots) <= Len(request.inputs)
  BY <1>2 DEF TaskInit
<1> QED BY <1>1, <1>3, <1>4 DEF TaskInit, TaskTypeOK, PlanSteps, Versions, Phases

-----------------------------------------------------------------------------
(* What the planner's rules mean for the execution of a model's plan.      *)

Before(k) == {plan[j].tool : j \in 1..(k - 1)}

Ordered == \A k \in DOMAIN plan : Acceptable(Before(k), plan[k].tool)

Collecting == {"data.normalize", "report.summarize", "report.compose"}

SourcesBefore(s) == {j \in 1..(s - 1) : plan[j].tool \in DataSources}

(* The plan keeps the rules, nothing leaves the start before the plan is    *)
(* durable, and a completed step has read every data source before it.      *)
PlanInv ==
    /\ Ordered
    /\ \A s \in Steps : stage[s] # "waiting" => "plan.json" \in files /\ s \in DOMAIN plan
    /\ \A s \in DOMAIN plan : stage[s] = "done" /\ plan[s].tool \in Collecting =>
        used[s] = SourcesBefore(s)

LEMMA PlanDomain == ASSUME TaskTypeOK
                    PROVE  /\ DOMAIN plan = 1..Len(plan) /\ Len(plan) \in Nat
                           /\ DOMAIN plan \subseteq Steps /\ Steps \subseteq Nat
                           /\ \A s \in Steps : 1..(s - 1) \subseteq Steps
                           /\ \A s \in DOMAIN plan : 1..(s - 1) \subseteq DOMAIN plan
BY GateAssumption DEF TaskTypeOK, Steps

(* When a step completes, the sources that are done are those before it.    *)
LEMMA SourcesDone ==
    ASSUME TaskTypeOK, OrderInv, PlanInv, NEW s \in DOMAIN plan, stage[s] = "executing"
    PROVE  Done(DataSources) = SourcesBefore(s)
<1>1. s \in Steps /\ s \in Nat /\ 1..(s - 1) \subseteq DOMAIN plan
  BY PlanDomain
<1>2. \A j \in 1..(s - 1) : stage[j] = "done"
  BY <1>1 DEF OrderInv
<1>3. ASSUME NEW j \in DOMAIN plan, stage[j] = "done" PROVE j \in 1..(s - 1)
  <2>1. j \in Steps /\ j \in Nat /\ j >= 1 /\ j # s
    BY <1>3, PlanDomain DEF Steps
  <2>2. \A t \in 1..(j - 1) : stage[t] = "done"
    BY <2>1, <1>3 DEF OrderInv
  <2>3. ~(s < j)
    BY <2>1, <2>2, <1>1 DEF Steps
  <2> QED BY <2>1, <2>3, <1>1
<1> QED BY <1>1, <1>2, <1>3 DEF Done, SourcesBefore

LEMMA PlanStep ==
    ASSUME RunInv, TaskTypeOK, OrderInv, PlanInv, ByModel, [TaskNext]_taskVars
    PROVE  PlanInv'
<1> USE DEF Goto
<1>1. CASE UNCHANGED <<plan, stage, used>> /\ files \subseteq files'
  BY <1>1, ZenonT(40) DEF PlanInv, Ordered, Before, SourcesBefore
<1>2. ASSUME plan' = <<>>, UNCHANGED <<stage, used, files>>, "plan.json" \notin files PROVE PlanInv'
  BY <1>2 DEF PlanInv, Ordered
<1>3. CASE Run
  <2>1. UNCHANGED <<stage, used>>
    BY <1>3, RunIsQuiet DEF gateVars
  <2>2. CASE Refuse \/ Check \/ Answer \/ Snapshot \/ SnapshotGone \/ RecordConsent
             \/ CallProvider \/ AcceptModelPlan \/ RefuseWorkflow
    BY <2>1, <2>2, <1>1 DEF Refuse, Check, Answer, Snapshot, SnapshotGone, RecordConsent,
                            CallProvider, AcceptModelPlan, RefuseWorkflow
  <2>3. CASE CreateFile
    BY <2>1, <2>3, <1>1, WriteCreate DEF CreateFile
  <2>4. CASE SaveFile
    BY <2>1, <2>4, <1>1, WriteSave DEF SaveFile
  <2>5. CASE RefuseModelPlan
    BY <2>1, <2>5, <1>2 DEF RefuseModelPlan, RunInv
  <2>6. CASE Crash
    BY <2>1, <2>6, <1>1, <1>2 DEF Crash
  <2>7. CASE CompileWorkflow
    BY <2>7 DEF CompileWorkflow
  <2>8. ASSUME NEW tool \in Tools, NEW ref, ReadModelStep(tool, ref) PROVE PlanInv'
    <3> PICK n \in Nat : n = Len(plan) + 1
      BY DEF TaskTypeOK
    <3>1. plan' = Append(plan, Step(tool, ref)) /\ "plan.json" \notin files /\ files' = files
      BY <2>8 DEF ReadModelStep, RunInv
    <3>2. plan \in Seq(PlanSteps) /\ Len(plan) \in Nat
      BY DEF TaskTypeOK, PlanSteps
    <3>3. /\ DOMAIN plan' = 1..n /\ plan'[n] = Step(tool, ref)
          /\ \A k \in 1..Len(plan) : plan'[k] = plan[k]
      BY <3>1, <3>2
    <3>4. \A s \in Steps : stage'[s] = "waiting"
      BY <3>1, <2>1 DEF PlanInv
    <3>5. ASSUME NEW k \in 1..Len(plan) PROVE Acceptable(Before(k)', plan'[k].tool)
      <4>1. \A j \in 1..(k - 1) : plan'[j] = plan[j]
        BY <3>2, <3>3
      <4>2. Before(k)' = Before(k)
        BY <4>1 DEF Before
      <4> QED BY <4>2, <3>2, <3>3 DEF PlanInv, Ordered
    <3>6. Acceptable(Before(n)', plan'[n].tool)
      <4>1. Before(n)' = ToolsOf(plan)
        BY <3>2, <3>3 DEF Before, ToolsOf
      <4> QED BY <4>1, <3>3, <2>8 DEF ReadModelStep, Step
    <3>7. Ordered'
      BY <3>2, <3>3, <3>5, <3>6 DEF Ordered
    <3>8. \A s \in DOMAIN plan' : s \in Steps
      BY <3>2, <3>3, <2>8, TaskAssumption, GateAssumption DEF ReadModelStep, RoomForMore, Steps
    <3> QED BY <3>4, <3>7, <3>8 DEF PlanInv
  <2> QED BY <1>3, <2>2, <2>3, <2>4, <2>5, <2>6, <2>7, <2>8 DEF Run
<1>4. ASSUME NEW i \in DOMAIN request.inputs, Touch(i) PROVE PlanInv'
  BY <1>1, <1>4 DEF Touch, gateVars
<1>5. ASSUME NEW s \in Steps,
             Approve(s) \/ Invalidate(s) \/ StartTool(s) \/ EnterTool(s) \/ Recover(s) \/ FailStep(s)
      PROVE  PlanInv'
  <2>1. UNCHANGED <<plan, files, used>>
    BY <1>5 DEF Approve, Invalidate, StartTool, EnterTool, Recover, FailStep, runVars
  <2>2. stage' = stage \/ \E to \in {"granted", "waiting", "executing", "failed"} :
            stage' = [stage EXCEPT ![s] = to] /\ (stage[s] = "waiting" => Loadable(s))
    BY <1>5 DEF Approve, Invalidate, StartTool, EnterTool, Recover, FailStep,
                Grant, Withdraw, Execute, Act, Retract, Fail, Move
  <2>3. \A t \in Steps : (stage'[t] # "waiting" => stage[t] # "waiting" \/ (t = s /\ Loadable(s)))
                        /\ (stage'[t] = "done" => stage[t] = "done")
    BY <2>2 DEF TaskTypeOK, GateTypeOK
  <2>4. Ordered'
    BY <2>1 DEF PlanInv, Ordered, Before
  <2>5. \A t : SourcesBefore(t)' = SourcesBefore(t)
    BY <2>1 DEF SourcesBefore
  <2> QED BY <2>1, <2>3, <2>4, <2>5, PlanDomain DEF PlanInv, Loadable
<1>6. ASSUME NEW s \in Steps, ToolReturns(s) PROVE PlanInv'
  <2>1. s \in DOMAIN plan /\ UNCHANGED <<plan, files>> /\ Finish(s)
    BY <1>6, CompleteIsFinish DEF runVars
  <2>2. stage[s] = "executing" /\ stage' = [stage EXCEPT ![s] = "done"]
    BY <2>1 DEF Finish, Move
  <2>3. PICK reads : /\ used' = [used EXCEPT ![s] = reads]
                     /\ plan[s].tool \in Collecting => reads = Done(DataSources)
    BY <1>6, ToolReads DEF Collecting
  <2>4. plan[s].tool \in Collecting => used'[s] = SourcesBefore(s)
    BY <2>1, <2>2, <2>3, SourcesDone DEF TaskTypeOK
  <2>5. \A t \in Steps \ {s} : stage'[t] = stage[t] /\ used'[t] = used[t]
    BY <2>2, <2>3 DEF TaskTypeOK, GateTypeOK
  <2>6. SourcesBefore(s)' = SourcesBefore(s) /\ \A t : SourcesBefore(t)' = SourcesBefore(t)
    BY <2>1 DEF SourcesBefore
  <2> QED BY <2>1, <2>2, <2>4, <2>5, <2>6, PlanDomain, ZenonT(40) DEF PlanInv, Ordered, Before
<1>7. CASE UNCHANGED taskVars
  BY <1>1, <1>7 DEF taskVars, gateVars, runVars
<1> QED BY <1>3, <1>4, <1>5, <1>6, <1>7 DEF TaskNext

ModelInv == RunInv /\ OrderInv /\ (ByModel => TaskTypeOK /\ PlanInv)

LEMMA ModelInvInit == TaskInit => OrderInv /\ (ByModel => PlanInv)
<1>1. TaskInit => OrderInv
  BY DEF TaskInit, Init, OrderInv, GateTypeOK, Stages
<1>2. ASSUME TaskInit PROVE PlanInv
  BY <1>2 DEF TaskInit, Init, PlanInv, Ordered
<1> QED BY <1>1, <1>2

LEMMA RequestStays == [TaskNext]_taskVars => (ByModel' <=> ByModel)
BY RunIsQuiet, CompleteIsFinish
   DEF ByModel, TaskNext, taskVars, runVars, Touch, Approve, Invalidate, StartTool, EnterTool,
       Recover, FailStep

(* A tool that runs finds what it needs: the rule put it behind a step that *)
(* makes it, and the gate behind that step's completion.                    *)
LEMMA RulesGiveInputs == ASSUME TaskTypeOK, OrderInv, PlanInv PROVE ToolsFindTheirInputs
<1> SUFFICES ASSUME NEW s \in DOMAIN plan, stage[s] = "executing",
                    NEW tool \in Required(plan[s].tool)
             PROVE  Done({tool}) # {}
  BY DEF ToolsFindTheirInputs, InputsThere
<1>1. s \in Steps /\ 1..(s - 1) \subseteq DOMAIN plan /\ s \in Nat
  BY PlanDomain
<1>2. \A j \in 1..(s - 1) : stage[j] = "done"
  BY <1>1 DEF OrderInv
<1>3. Acceptable(Before(s), plan[s].tool)
  BY DEF PlanInv, Ordered
<1>4. ASSUME NEW k \in 1..(s - 1) PROVE /\ Acceptable(Before(k), plan[k].tool) /\ k - 1 < s - 1
                                       /\ 1..(k - 1) \subseteq 1..(s - 1)
  BY <1>1 DEF PlanInv, Ordered
<1>5. \E j \in 1..(s - 1) : plan[j].tool = tool
  <2>1. CASE plan[s].tool \in {"data.to_markdown", "report.summarize", "report.compose"}
    BY <2>1, <1>3 DEF Acceptable, DatasetFirst, Required, Before
  <2>2. CASE plan[s].tool = "markdown.validate"
    BY <2>2, <1>3 DEF Acceptable, Required, Before
  <2>3. CASE plan[s].tool = "content.prepare_draft"
    <3>1. PICK k \in 1..(s - 1) : plan[k].tool = "markdown.validate"
      BY <2>3, <1>3 DEF Acceptable, Before
    <3>2. \E j \in 1..(k - 1) : plan[j].tool = "document.convert"
      BY <3>1, <1>4 DEF Acceptable, Before
    <3>3. tool \in {"markdown.validate", "document.convert"}
      BY <2>3 DEF Required
    <3> QED BY <3>1, <3>2, <3>3, <1>4
  <2> QED BY <2>1, <2>2, <2>3 DEF Required
<1> QED BY <1>1, <1>2, <1>5 DEF Done

(* Once there is a dataset no source follows, so a later report lists what  *)
(* the dataset was made from.                                               *)
LEMMA RulesFixSources == ASSUME TaskTypeOK, OrderInv, PlanInv PROVE ReportListsWhatItSays
<1> SUFFICES ASSUME NEW s \in Done({"report.summarize", "report.compose"}),
                    NEW d \in Done({"data.normalize"})
             PROVE  used[s] = used[d]
  BY DEF ReportListsWhatItSays
<1>1. /\ s \in DOMAIN plan /\ plan[s].tool \in {"report.summarize", "report.compose"} /\ s \in Nat
      /\ d \in DOMAIN plan /\ plan[d].tool = "data.normalize" /\ d \in Nat
      /\ s \in 1..Len(plan) /\ d \in 1..Len(plan) /\ Len(plan) \in Nat
  BY PlanDomain DEF Done
<1>2. used[s] = SourcesBefore(s) /\ used[d] = SourcesBefore(d)
  BY <1>1 DEF PlanInv, Collecting, Done
<1>3. \A k \in 1..Len(plan) : Acceptable(Before(k), plan[k].tool)
  BY PlanDomain DEF PlanInv, Ordered
<1>4. d < s
  <2>1. PICK k \in 1..(s - 1) : plan[k].tool = "data.normalize"
    BY <1>1, <1>3 DEF Acceptable, DatasetFirst, Before
  <2>2. "data.normalize" \notin Before(d)
    BY <1>1, <1>3 DEF Acceptable
  <2>3. ~(k < d)
    BY <2>1, <2>2, <1>1 DEF Before
  <2> QED BY <2>1, <2>3, <1>1
<1>5. ASSUME NEW j \in 1..(s - 1), j >= d PROVE plan[j].tool \notin SourceTools
  <2>1. CASE j = d
    BY <2>1, <1>1 DEF SourceTools
  <2>2. CASE j > d
    <3>1. "data.normalize" \in Before(j) /\ j \in 1..Len(plan)
      BY <2>2, <1>1 DEF Before
    <3> QED BY <3>1, <1>3 DEF Acceptable, SourcesFirst, SourceTools
  <2> QED BY <2>1, <2>2, <1>1, <1>5
<1>6. SourcesBefore(s) = SourcesBefore(d)
  BY <1>1, <1>4, <1>5 DEF SourcesBefore, DataSources
<1> QED BY <1>2, <1>6

LEMMA ModelInvStep == ModelInv /\ [TaskNext]_taskVars => ModelInv'
<1> SUFFICES ASSUME ModelInv, [TaskNext]_taskVars PROVE ModelInv'
  OBVIOUS
<1>1. RunInv' /\ OrderInv'
  BY RunInvStep, OrderStep, GateStep DEF ModelInv
<1>2. ASSUME ByModel' PROVE TaskTypeOK' /\ PlanInv'
  BY <1>2, RequestStays, TypeStep, PlanStep DEF ModelInv
<1> QED BY <1>1, <1>2 DEF ModelInv

LEMMA ModelInvAlways == TaskSpec => []ModelInv
<1>1. TaskInit => ModelInv
  BY RunInvInit, TaskTypeInit, ModelInvInit DEF ModelInv
<1> QED BY <1>1, ModelInvStep, PTL DEF TaskSpec

(* The state of a task that executes a plan of a model is well typed, in    *)
(* particular the plan is never longer than allowed.                        *)
THEOREM TaskTypeCorrect == TaskSpec => [](ByModel => TaskTypeOK)
<1>1. ModelInv => (ByModel => TaskTypeOK)
  BY DEF ModelInv
<1> QED BY <1>1, ModelInvAlways, PTL

(* No tool of a model's plan is started without the artifacts it needs,     *)
(* however long the plan is.                                                *)
THEOREM ToolsFindTheirInputsCorrect == TaskSpec => [](ByModel => ToolsFindTheirInputs)
<1>1. ModelInv => (ByModel => ToolsFindTheirInputs)
  BY RulesGiveInputs DEF ModelInv
<1> QED BY <1>1, ModelInvAlways, PTL

(* A report of a model's plan lists exactly the sources of its dataset,     *)
(* however long the plan is.                                                *)
THEOREM ReportListsWhatItSaysCorrect == TaskSpec => [](ByModel => ReportListsWhatItSays)
<1>1. ModelInv => (ByModel => ReportListsWhatItSays)
  BY RulesFixSources DEF ModelInv
<1> QED BY <1>1, ModelInvAlways, PTL

-----------------------------------------------------------------------------
(* What a plan shows of a crawler config, for every kind of plan.          *)

LEMMA ShownStep ==
    ASSUME ModelInv, PlanShowsTheSnapshot, [TaskNext]_taskVars
    PROVE  PlanShowsTheSnapshot'
<1> USE DEF PlanShowsTheSnapshot, Goto
<1>1. CASE UNCHANGED <<plan, snapshots>>
  BY <1>1
<1>2. CASE plan' = <<>>
  BY <1>2
<1>3. CASE Snapshot
  BY <1>2, <1>3 DEF Snapshot, ModelInv, RunInv
<1>4. CASE \/ Refuse \/ Check \/ Answer \/ SnapshotGone \/ CreateFile \/ RecordConsent
           \/ CallProvider \/ AcceptModelPlan \/ RefuseModelPlan \/ RefuseWorkflow \/ SaveFile \/ Crash
  BY <1>1, <1>2, <1>4
     DEF Refuse, Check, Answer, SnapshotGone, CreateFile, RecordConsent,
         CallProvider, AcceptModelPlan, RefuseModelPlan, RefuseWorkflow, SaveFile, Crash
<1>5. CASE CompileWorkflow
  BY <1>5 DEF CompileWorkflow, Step, ConfigShown
<1>6. ASSUME NEW tool \in Tools, NEW ref, ReadModelStep(tool, ref) PROVE PlanShowsTheSnapshot'
  <2>1. plan \in Seq(PlanSteps)
    BY <1>6 DEF ReadModelStep, ModelInv, RunInv, TaskTypeOK, PlanSteps
  <2>2. plan' = Append(plan, Step(tool, ref)) /\ snapshots' = snapshots
    BY <1>6 DEF ReadModelStep
  <2> QED BY <2>1, <2>2 DEF Step, ConfigShown
<1>7. ASSUME NEW i \in DOMAIN request.inputs, Touch(i) PROVE PlanShowsTheSnapshot'
  BY <1>1, <1>7 DEF Touch
<1>8. ASSUME NEW s \in Steps,
             \/ Approve(s) \/ Invalidate(s) \/ StartTool(s) \/ EnterTool(s)
             \/ Recover(s) \/ FailStep(s) \/ ToolReturns(s)
      PROVE  PlanShowsTheSnapshot'
  <2>1. UNCHANGED runVars
    BY <1>8, CompleteIsFinish DEF Approve, Invalidate, StartTool, EnterTool, Recover, FailStep
  <2> QED BY <1>1, <2>1 DEF runVars
<1>9. CASE UNCHANGED taskVars
  BY <1>1, <1>9 DEF taskVars, runVars
<1> QED BY <1>3, <1>4, <1>5, <1>6, <1>7, <1>8, <1>9 DEF TaskNext, Run

(* The hosts a plan shows are those of the copy the tool reads, for every   *)
(* workflow and every plan of a model, whatever the user does to the file.  *)
THEOREM PlanShowsTheSnapshotCorrect == TaskSpec => []PlanShowsTheSnapshot
<1>1. TaskInit => PlanShowsTheSnapshot
  BY DEF TaskInit, PlanShowsTheSnapshot
<1>2. ModelInv /\ PlanShowsTheSnapshot /\ [TaskNext]_taskVars => PlanShowsTheSnapshot'
  BY ShownStep
<1> QED BY <1>1, <1>2, ModelInvAlways, PTL DEF TaskSpec
=============================================================================
