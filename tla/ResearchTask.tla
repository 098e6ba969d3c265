---------------------------- MODULE ResearchTask ----------------------------
(***************************************************************************)
(* A research task from "agent run" to its last step.  The first half is   *)
(* cli.py's _run_command and TaskWorkspace.create: inputs are copied,      *)
(* files written one by one, a plan obtained from a model or a workflow    *)
(* file.  The second half executes the plan through the approvals of       *)
(* StepGate (which TaskRunner implements) and follows what each tool reads *)
(* of what earlier ones made.  Meanwhile the user may edit or delete the   *)
(* original input files, and the command may die.                          *)
(*                                                                         *)
(* A file has version 1 when the command starts, 2 once the user has       *)
(* edited it and 0 when it is not there.                                   *)
(***************************************************************************)
EXTENDS StepGate, PlanRules

CONSTANTS
    Requests,      \* what users ask for (command lines of "agent run")
    MaxPlanSteps,  \* longest plan accepted from a model (20 in the code)
    MaxTouched     \* bound on the original input files the user edits or deletes

ASSUME TaskAssumption ==
    /\ MaxPlanSteps \in 0..NumSteps
    /\ MaxTouched \in Nat
    /\ \A r \in Requests :
        /\ r.workflow \in Workflows
        /\ r.urls \in Nat
        /\ r.inputs \in Seq(Kinds)
        /\ r.provider \in {"none", "ready", "broken"}
        /\ r.platform \in BOOLEAN
        /\ r.workflow = "auto" \/ Len(Expanded(r)) <= NumSteps

VARIABLES
    request,    \* the command line
    originals,  \* version of each input file the user named
    phase,      \* where the run command is
    snapshots,  \* versions of the input copies in the workspace
    files,      \* what is durable: workspace files, statuses and approvals in them
    agreed,     \* history: the user agreed to the planning call
    sent,       \* history: the provider was called for a plan
    plan,       \* the plan in memory, then the one in plan.json
    used        \* the steps whose artifacts the tool of a completed step read

runVars == <<request, originals, phase, snapshots, files, agreed, sent, plan>>
taskVars == <<gateVars, runVars, used>>

Versions == {0, 1, 2}

(* What TaskWorkspace.create writes after the snapshots, in this order. *)
CreateOrder == <<"inputs.json", "task.json", "artifacts.json">>

(* Mutant: the plan is saved before the task. *)
SavePlanFirst == <<"plan.json", "waiting_approval">>

(* With a plan, the task is saved with its new status, then the plan. *)
SaveOrder == <<"waiting_approval", "plan.json">>

Durable == {"inputs.json", "task.json", "artifacts.json", "planning_call_approved",
            "waiting_approval", "plan.json"}

Phases == {"checking", "asking", "creating", "planning", "calling", "answer",
           "saving", "ready", "stopped"}

ByModel == request.workflow = "auto"

TaskTypeOK ==
    /\ GateTypeOK
    /\ request \in Requests
    /\ originals \in [DOMAIN request.inputs -> Versions]
    /\ phase \in Phases
    /\ snapshots \in Seq(Versions \ {0})
    /\ Len(snapshots) <= Len(request.inputs)
    /\ files \subseteq Durable
    /\ agreed \in BOOLEAN /\ sent \in BOOLEAN
    /\ plan \in Seq([tool : Tools, ref : Nat, shown : Versions])
    /\ Len(plan) <= NumSteps /\ (ByModel => Len(plan) <= MaxPlanSteps)
    /\ used \in [Steps -> SUBSET Steps]

TaskInit ==
    /\ Init
    /\ request \in Requests
    /\ originals = [i \in DOMAIN request.inputs |-> 1]
    /\ phase = "checking"
    /\ snapshots = <<>>
    /\ files = {}
    /\ agreed = FALSE
    /\ sent = FALSE
    /\ plan = <<>>
    /\ used = [s \in Steps |-> {}]

-----------------------------------------------------------------------------
(* The run command.                                                        *)

Goto(from, to) == phase = from /\ phase' = to

(* The user edits or deletes a file the request names. *)
Touch(i) ==
    /\ originals[i] # 0
    /\ Cardinality({j \in DOMAIN originals \ {i} : originals[j] # 1}) < MaxTouched
    /\ \E v \in {0, 2} \ {originals[i]} : originals' = [originals EXCEPT ![i] = v]
    /\ UNCHANGED <<gateVars, request, phase, snapshots, files, agreed, sent, plan, used>>

Present == \A i \in DOMAIN request.inputs : originals[i] # 0

(* A file is missing, or a plan is wanted from a model nobody configured. *)
Refuse ==
    /\ ~Present \/ (ByModel /\ request.provider # "ready")
    /\ Goto("checking", "stopped")
    /\ UNCHANGED <<gateVars, request, originals, snapshots, files, agreed, sent, plan, used>>

Check ==
    /\ Present
    /\ ByModel => request.provider = "ready"
    /\ Goto("checking", IF ByModel THEN "asking" ELSE "creating")
    /\ UNCHANGED <<gateVars, request, originals, snapshots, files, agreed, sent, plan, used>>

(* --approve-planning, or the answer to the prompt. *)
Answer ==
    /\ phase = "asking"
    /\ agreed' \in BOOLEAN
    /\ phase' = IF agreed' THEN "creating" ELSE "stopped"
    /\ UNCHANGED <<gateVars, request, originals, snapshots, files, sent, plan, used>>

Upcoming == Len(snapshots) + 1

(* One input file is read once: the bytes copied are the bytes recorded. *)
Snapshot ==
    /\ phase = "creating"
    /\ Upcoming \in DOMAIN request.inputs
    /\ originals[Upcoming] # 0
    /\ snapshots' = Append(snapshots, originals[Upcoming])
    /\ UNCHANGED <<gateVars, request, originals, phase, files, agreed, sent, plan, used>>

(* The file has gone since it was checked: the command fails. *)
SnapshotGone ==
    /\ Upcoming \in DOMAIN request.inputs
    /\ originals[Upcoming] = 0
    /\ Goto("creating", "stopped")
    /\ UNCHANGED <<gateVars, request, originals, snapshots, files, agreed, sent, plan, used>>

(* One more file of a list of files written in order. *)
WriteNext(order, to) ==
    \E k \in DOMAIN order :
        /\ \A j \in DOMAIN order : order[j] \in files <=> j < k
        /\ files' = files \cup {order[k]}
        /\ phase' = IF k = Len(order) THEN to ELSE phase

CreateFile ==
    /\ phase = "creating"
    /\ Len(snapshots) = Len(request.inputs)
    /\ WriteNext(CreateOrder, "planning")
    /\ UNCHANGED <<gateVars, request, originals, snapshots, agreed, sent, plan, used>>

(* The consent goes on record before anything is sent. *)
RecordConsent ==
    /\ ByModel
    /\ Goto("planning", "calling")
    /\ files' = files \cup {"planning_call_approved"}
    /\ UNCHANGED <<gateVars, request, originals, snapshots, agreed, sent, plan, used>>

(* Mutant: the provider is called with the consent still to be recorded. *)
CallProviderAtOnce ==
    /\ ByModel
    /\ Goto("planning", "answer")
    /\ sent' = TRUE
    /\ UNCHANGED <<gateVars, request, originals, snapshots, files, agreed, plan, used>>

CallProvider ==
    /\ Goto("calling", "answer")
    /\ sent' = TRUE
    /\ UNCHANGED <<gateVars, request, originals, snapshots, files, agreed, plan, used>>

(* Mutant: the crawler config is shown as the user's own file has it. *)
ConfigOfOriginal(tool, ref) == IF tool = "browser.extract" THEN originals[ref] ELSE 0

(* The version of a crawler config whose hosts the plan shows as target. *)
ConfigShown(tool, ref) == IF tool = "browser.extract" THEN snapshots[ref] ELSE 0

Step(tool, ref) == [tool |-> tool, ref |-> ref, shown |-> ConfigShown(tool, ref)]

ToolsOf(steps) == {steps[k].tool : k \in DOMAIN steps}

(* Mutant: one step too many. *)
RoomForOneMore == Len(plan) <= MaxPlanSteps

RoomForMore == Len(plan) < MaxPlanSteps

(* The next step of the model's answer is read and found acceptable. *)
ReadModelStep(tool, ref) ==
    /\ phase = "answer"
    /\ RoomForMore
    /\ Permitted(request, tool, ref)
    /\ Acceptable(ToolsOf(plan), tool)
    /\ plan' = Append(plan, Step(tool, ref))
    /\ UNCHANGED <<gateVars, request, originals, phase, snapshots, files, agreed, sent, used>>

AcceptModelPlan ==
    /\ plan # <<>>
    /\ Goto("answer", "saving")
    /\ UNCHANGED <<gateVars, request, originals, snapshots, files, agreed, sent, plan, used>>

(* The provider fails, or its answer breaks a rule. *)
RefuseModelPlan ==
    /\ Goto("answer", "stopped")
    /\ plan' = <<>>
    /\ UNCHANGED <<gateVars, request, originals, snapshots, files, agreed, sent, used>>

CompileWorkflow ==
    /\ ~ByModel
    /\ Goto("planning", "saving")
    /\ RequirementsHold(request)
    /\ Expanded(request) # <<>>
    /\ plan' = [k \in DOMAIN Expanded(request) |->
                    Step(Expanded(request)[k].tool, Expanded(request)[k].ref)]
    /\ UNCHANGED <<gateVars, request, originals, snapshots, files, agreed, sent, used>>

(* An input the workflow requires is not there, or a crawler config it      *)
(* reads for the targets is not valid.                                      *)
RefuseWorkflow ==
    /\ ~ByModel
    /\ RequirementsHold(request) => "browser.extract" \in ToolsOf(Expanded(request))
    /\ Goto("planning", "stopped")
    /\ UNCHANGED <<gateVars, request, originals, snapshots, files, agreed, sent, plan, used>>

SaveFile ==
    /\ phase = "saving"
    /\ WriteNext(SaveOrder, "ready")
    /\ UNCHANGED <<gateVars, request, originals, snapshots, agreed, sent, plan, used>>

(* The command dies.  What it had not saved is gone. *)
Crash ==
    /\ phase \notin {"ready", "stopped"}
    /\ phase' = "stopped"
    /\ plan' = IF "plan.json" \in files THEN plan ELSE <<>>
    /\ UNCHANGED <<gateVars, request, originals, snapshots, files, agreed, sent, used>>

Run ==
    \/ Refuse \/ Check \/ Answer \/ Snapshot \/ SnapshotGone \/ CreateFile
    \/ RecordConsent \/ CallProvider \/ AcceptModelPlan \/ RefuseModelPlan
    \/ \E tool \in Tools, ref \in 0..(request.urls + Len(request.inputs)) : ReadModelStep(tool, ref)
    \/ CompileWorkflow \/ RefuseWorkflow \/ SaveFile \/ Crash

-----------------------------------------------------------------------------
(* Executing the plan.                                                     *)

(* approve and resume load the plan and verify the input copies first. *)
Loadable(s) == "plan.json" \in files /\ s \in DOMAIN plan

Approve(s) == Loadable(s) /\ Grant(s) /\ UNCHANGED <<runVars, used>>
Invalidate(s) == Withdraw(s) /\ UNCHANGED <<runVars, used>>
StartTool(s) == Loadable(s) /\ Execute(s) /\ UNCHANGED <<runVars, used>>
EnterTool(s) == Act(s) /\ UNCHANGED <<runVars, used>>
Recover(s) == Retract(s) /\ UNCHANGED <<runVars, used>>
FailStep(s) == Fail(s) /\ UNCHANGED <<runVars, used>>

(* Completed steps with one of the given tools: their artifacts are what    *)
(* the registry of artifacts shows.                                         *)
Done(tools) == {s \in DOMAIN plan : plan[s].tool \in tools /\ stage[s] = "done"}

(* Whose artifacts are normalized, and listed as sources. *)
DataSources == SourceTools \ {"document.inspect"}

(* Tools whose artifacts a tool will not run without. *)
Required(tool) ==
    CASE tool \in {"data.to_markdown", "report.summarize", "report.compose"} -> {"data.normalize"}
      [] tool = "markdown.validate" -> {"document.convert"}
      [] tool = "content.prepare_draft" -> {"markdown.validate", "document.convert"}
      [] OTHER -> {}

InputsThere(s) == \A tool \in Required(plan[s].tool) : Done({tool}) # {}

InputOf(s) == request.inputs[plan[s].ref]

(* A tool returns, having read the artifacts of the given steps, and its    *)
(* own are committed with the step.  A tool may also raise at any time      *)
(* (FailStep).                                                              *)
Complete(s, tool, reads) ==
    /\ s \in DOMAIN plan
    /\ plan[s].tool = tool
    /\ InputsThere(s)
    /\ Finish(s)
    /\ used' = [used EXCEPT ![s] = reads]
    /\ UNCHANGED runVars

WebFetch(s) == Complete(s, "web.fetch", {})
WebSearch(s) == Complete(s, "web.search", {})
FileRead(s) == Complete(s, "file.read", {}) /\ InputOf(s) \in {"text", "data"}
UrlListRead(s) == Complete(s, "url_list.read", {}) /\ InputOf(s) \in {"text", "data"}
BrowserExtract(s) == Complete(s, "browser.extract", {}) /\ InputOf(s) = "yaml"
DocumentInspect(s) == Complete(s, "document.inspect", {}) /\ InputOf(s) \in DocumentKinds
DocumentConvert(s) == Complete(s, "document.convert", {}) /\ InputOf(s) \in DocumentKinds
DataNormalize(s) == Complete(s, "data.normalize", Done(DataSources))
MarkdownTable(s) == Complete(s, "data.to_markdown", {})
ReportSummarize(s) == Complete(s, "report.summarize", Done(DataSources))
ReportCompose(s) == Complete(s, "report.compose", Done(DataSources))
MarkdownValidate(s) == Complete(s, "markdown.validate", Done({"document.convert"}))
ContentPrepareDraft(s) ==
    Complete(s, "content.prepare_draft", Done({"document.convert"})) /\ request.platform

ToolReturns(s) ==
    \/ WebFetch(s) \/ WebSearch(s) \/ FileRead(s) \/ UrlListRead(s) \/ BrowserExtract(s)
    \/ DocumentInspect(s) \/ DocumentConvert(s) \/ MarkdownValidate(s) \/ ContentPrepareDraft(s)
    \/ DataNormalize(s) \/ MarkdownTable(s) \/ ReportSummarize(s) \/ ReportCompose(s)

TaskNext ==
    \/ Run
    \/ \E i \in DOMAIN request.inputs : Touch(i)
    \/ \E s \in Steps :
        \/ Approve(s) \/ Invalidate(s) \/ StartTool(s) \/ EnterTool(s)
        \/ Recover(s) \/ FailStep(s) \/ ToolReturns(s)

TaskSpec == TaskInit /\ [][TaskNext]_taskVars

-----------------------------------------------------------------------------
(* Properties.                                                             *)

(* plan.json comes last: whoever finds it finds all that approving and      *)
(* executing need, wherever an earlier run command died.                    *)
PlanIsLast == "plan.json" \in files =>
    /\ {"inputs.json", "task.json", "artifacts.json", "waiting_approval"} \subseteq files
    /\ Len(snapshots) = Len(request.inputs)

(* Nothing goes to the provider unless the user agreed and the agreement    *)
(* is on record, also if the command dies in the call.                      *)
SentOnRecord == sent => agreed /\ "planning_call_approved" \in files

(* The hosts a plan shows for a crawler config are those of the copy the    *)
(* tool will read, whatever happens to the user's file meanwhile.           *)
PlanShowsTheSnapshot ==
    \A s \in DOMAIN plan : plan[s].tool = "browser.extract" => plan[s].shown = snapshots[plan[s].ref]

(* No tool is started without the artifacts it needs: neither a workflow    *)
(* nor a model's plan that passed the rules can run into "requires a        *)
(* completed ... step".                                                     *)
ToolsFindTheirInputs ==
    \A s \in DOMAIN plan : stage[s] = "executing" => InputsThere(s)

(* The sources a report (or a summary) names are exactly those its dataset  *)
(* was made from.                                                           *)
ReportListsWhatItSays ==
    \A s \in Done({"report.summarize", "report.compose"}), d \in Done({"data.normalize"}) :
        used[s] = used[d]

(* A draft package holds only documents the validation before it covered.   *)
DraftIsValidated ==
    \A s \in Done({"content.prepare_draft"}) :
        \E v \in Done({"markdown.validate"}) : used[s] \subseteq used[v]
=============================================================================
