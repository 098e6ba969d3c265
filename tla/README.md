# A verification project for the research assistant and its crawler

This directory holds TLA+ models of the repository's stateful parts, TLC configurations that check
them on small instances, and theorems that TLAPS proves for every instance. Everything is
translated from the code under `src/`; `PROJECT.json` maps each definition to the lines it stands
for.

1. [The system](#1-the-system): components, state, interaction, hard behaviours
2. [The modules](#2-the-modules): which module models what, and how
3. [The runs](#3-the-runs): what TLC checks, with which bounds and which fairness
4. [The proofs](#4-the-proofs)
5. [Disagreements found](#5-disagreements-found)
6. [Not modelled](#6-not-modelled)
7. [The plan](#7-the-plan)

## 1. The system

The repository has two halves. The **optional research assistant** (`research_assistant/`) runs a
plan of tool calls, each of which a user approves before it is executed. The **crawler**
(`core/`) extracts records from pages, repairs what it can, and may record every repair episode
in an evidence store. The assistant reaches the crawler through its tools.

| Component | State it keeps | Operations | What makes it correct |
|---|---|---|---|
| Task runner (`runner.py`) | nothing of its own: a copy of plan and task while it holds the lock | approve, resume, recover (finalize, retry, fail) | only consented work runs; remote effects at most once; committed work is neither lost nor redone; no interruption is a dead end, unless a committed file was damaged |
| Task workspace (`workspace.py`, `models.py`) | `plan.json`, `task.json`, `approvals.jsonl`, attempt records, `artifacts.json`, artifact files, `.task.lock` | atomic whole-file saves, begin / start / finish / commit / finalize of an attempt | the commit marker precedes visibility; a visible artifact stays visible |
| Approval manifest (`integrity.py`) | none (a pure function) | fingerprint of step, environment, visible artifacts, inputs | an approval covers exactly what will be used |
| Assistant CLI (`cli.py`) | none | preview, confirmation prompt, calls to the runner | what the user read is what he approves |
| Planner (`planner.py`), workflow files (`workflows.py`, `workflows/*.yaml`), registry | tables | ask a provider for a plan and check it; compile a workflow | nothing is sent without recorded consent; a plan that passes the rules gives every tool what it needs, and shows what will be executed |
| Browser tool and request policy (`tools.py`) | request count and first violation of one call | check each request, run the crawl under a deadline | requests stay within the limit; a refusal decides the outcome; nothing outlives the call |
| Other tools (`tools.py`, `document_tools.py`, `content_tools.py`) | artifacts of a task | read artifacts of earlier steps, write new ones | a report lists what it was made from; a draft holds what was validated |
| Providers, settings | settings file, keyring | network calls, I/O | a call returns or raises |
| Experience store (`experience_store.py`) | SQLite tables and a content-addressed directory | create episode, append event, put capture, propose, validate, decide, import, export | acceptance rests on validation; event logs have no gap; rows have their files; content stays within its authorization |
| Page captures (`captures.py`) | per-page session: claimed specs, ready events, values, errors, tasks | response callback, consume, finish, aclose | a page sees its own captures only; a required capture fails closed; everything ends |
| Spider engine (`spider_engine.py`) | records, page counter, current session | page loop, fallback chain, repair, episode recording | one page at a time; a failed page contributes nothing |
| Field extraction (`extraction_pipeline.py`, `quality_gate.py`, `llm_repair.py`), repair records | attempts of one field, parsed HTML per page, the episode being recorded; a JSONL of approved repairs | six layers in order, one gate, recording | every value passed the gate, is the best accepted and of this page; a weak one is recorded |
| Benchmark, adapters, release scripts | files | offline reports | – |

**How they interact.** `agent run` copies the inputs into a new workspace, obtains a plan from a model
or a workflow file and saves it; tools later read the copies and the artifacts of completed steps. The CLI previews an approval under the lock, releases it, asks the user,
and takes the lock again to approve. `resume` takes the lock once, checks the approved step
against a manifest computed anew, and holds the lock through the tool call and the commit. Tools write
into the attempt's directory; `artifacts.json` decides what is visible. The spider engine owns one
`PageCaptureSession` per page, attached to the browser page object as a response listener; its
callbacks create asyncio tasks. The engine's recorder and the review commands are independent
clients of one experience store, in several threads and processes.

**What is hard about it.** Commands are separate processes that can die between any two file
writes; the plan is written back whole from a copy; an environment is captured before the lock is
taken; user confirmation happens between two locked sections. The store's methods are transactions,
but timestamps are taken before the write lock, a capture is three separate writes, and an
import of one line is six, an export is five reads without a transaction. A model's plan obeys rules
that are written apart from what each tool requires. Captures are callbacks, tasks, cancellations and timeouts around a loop
that navigates a shared page object. `PROJECT.json` lists each hazard at its line with the
properties that would catch it.

## 2. The modules

### The task runner

`WorkspaceStore` is the durable half: one variable per file of the task directory and one operator
per durable write. A file is replaced atomically (temporary file, fsync, rename), so a write is one
step and a crash can fall between any two of them, never inside one.

| Variable | Code |
|---|---|
| `plan[s]` | the step record in `plan.json`: status, `approval_fingerprint`, `attempt_id`, `artifact_ids` |
| `taskStatus` | `task.json`'s status |
| `attempts[a]` | `attempts/<id>.json`; status `absent` is "no file yet" |
| `registry`, `exposed` | the entries of `artifacts.json`, and those with the committed flag |
| `disk[i]`, `inputs` | an artifact file and the input snapshots: as written, changed or gone |
| `approvals` | the records of `approvals.jsonl` |

A fingerprint is the hash of a canonical manifest; the model keeps the manifest itself, restricted to what
can differ between approval and execution (step, environment, visible artifacts with what is on
disk). Two manifests are equal exactly when the hashes are, assuming SHA-256 has no collisions.

`TaskRunner` is the commands. `job[p].pc` is the durable write (or prompt) process `p` is about to
make; `job[p].plan` is the copy it loaded when it took the lock, which `SavePlan` writes back whole.
`Approving`, `Resuming`, `Recovering` and `Advance` follow `cli.py` and `runner.py` handler by
handler; `Crash` ends the process at any `pc` and releases the lock, which is what the operating
system does with `flock`. `ChangeEnvironment` and `Damage` are everything outside: edits of the
settings, of inputs, of artifact files. `consented` and `invoked` are history variables used only
by properties.

`StepGate` is the abstract specification: a step waits, is granted, executes, acts at most once
per grant, and is done, failed or retracted. `TaskRunnerImpl` gives the refinement mapping (a
step's stage is read off `plan.json` alone, its effects are the number of attempts whose tool was
entered) and the fair specification.

### Planning and the data of a task

`PlanRules` holds the pure part: `Permitted` (what `make_model_step` lets a model name) and `Acceptable` (the
planner's `_validate_sequence`, as what may follow a set of tools), and the bundled workflow files as
`Definitions` with their interpreter `Expanded` (conditions, `for_each` collections, requirements). A step is a tool
and the number of the URL or input file it names.

`ResearchTask` extends `StepGate` with `agent run` in front of it and with what flows between tools behind it.
`phase` is where the command is; `files` are the durable files and records, written one per action
(`CreateFile`, `RecordConsent`, `SaveFile`); `Crash` ends the command at any of them. `Touch` is the user editing or
deleting an input meanwhile: `originals[i]` and `snapshots[i]` are versions of the file and of its copy, and a
step's `shown` is the version of the crawler config whose hosts the plan displays. The answer of a model is read step
by step (`ReadModelStep`), so that TLC enumerates every plan the rules accept. Execution is the gate's: `Approve` …
`FailStep` are its actions on a loadable plan, and one action per tool (`WebFetch` … `ReportCompose`) is the step's
completion, with the artifacts it requires and, in `used`, the steps whose artifacts it read. `TaskRunner` implements the gate, so what
`ResearchTask` shows over `StepGate` needs no model of attempts and locks.

### The experience store

`ExperienceStore` keeps each table as the sequence of its rows (rows are never deleted; an id is
a row number). A public method is one transaction and one action, except where something can come
between: `CallValidation`/`AddValidation` (the timestamp is taken before the write lock),
`PutFile`/`PutRow`/`PutEvent` (a capture), the six transactions `ImportEpisode` … `ImportMark` of one legacy
line, and `SelectTable`, one SELECT of an export, in `ReadOrder`. Decisions carry no timestamp: nothing but the order of a
list is decided by it. `clock` may stand still across calls, since
timestamps have microseconds and ties are legal. Redaction is modelled by the storage form it leads
to, for the four content kinds the rules tell apart. A refused call is `Refused` or a guard: it
rolls back and changes nothing.

`RepairLedger` is the abstract specification, with the entries of all episodes, how many episodes there are and what each
proposal stands as: an entry gets the next number of its episode, is about a proposal of that episode or none, changes at most the
standing it speaks of, and an acceptance needs the candidate and a passed validation among the entries made before. `ExperienceStoreImpl`
gives the refinement mapping: an entry is an event with what its row says, a standing is a status. What the mapping hides (calls in
progress, timestamps, captures between file and event, the marks of an import, exports, the statuses of episodes) must stutter.

### Page captures

`PageCapture` composes the page loop of `GenericSpider` with `PageCaptureSession`. `pc` names the
await the coroutine is suspended at; everything between two awaits is one action, as asyncio
guarantees. `Deliver` is the synchronous response callback, `ReadBody` the consuming task,
`EndCancelled` the end of a cancelled one. A captured value is represented by the page whose
document asked for it.

### The browser tool

`BrowserRun` composes one `browser.extract` call: `BrowserExtractTool.run` with its deadline,
`BrowserRequestPolicy`, and `GenericSpider.run`, which acquires the driver, a browser, a context
and a page per start URL and closes them in nested `finally` blocks. `pc` names the await the task is
at; `held` are the resources whose close has not been started; `closing`, `closer` and `cut` are the
frame of `_run_browser_cleanup`. `Raise` is an exception at any await of the acquiring half, `Deadline` the
cancellation by `wait_for` at any await of either half. `Route`, `Validated` and `WebSocket` are the route handlers,
which run beside the task: `Route` is a handler up to its URL check, which runs in a thread, `Validated` the rest.
`PageCapture` and `FieldRepair` are what happens inside the one await called `crawl` here.

### Field extraction and repair

`FieldRepair` goes through the pages, items and fields of a crawl. For each field `BeginField` reads its
source; `Configured`, `Fallback`, `CachedRepair`, `Adaptive`, `AskModel` and `LlmText` are the layers of
`FieldExtractionPipeline.extract`, in `Order`, each skipped where the configuration does not have it
(`Available`). A layer's value is `none`, `bad` (the gate refuses it) or `good`, chosen when it is tried, because the page is live.
`held` is the local `adaptive_result` that waits while the model is asked; `cache[c]` is the page whose parsed HTML
`scrapling_cache` holds for a node or the page itself. `Return` decides whether a result is weak, and `BeginEpisode` lays out the
store calls of `_record_repair_episode`, which `RecordCall` and `RecordLast` make one by one and any of which may
raise (`RecordRaises`). What the store does with a call is `ExperienceStore`; what the page wait and the captures do is `PageCapture`.

### Support modules

`MCTaskRunner` and `MCExperienceStore` declare the model values and the symmetry sets, `MCResearchTask` the
requests. The theorems are in modules of their own: `TaskRunnerProofs` (types, the lock, consent) and
`TaskRecoveryProofs` (crashes and the refinement) for the runner, `StepGateProofs` and `ResearchTaskProofs` for the gate
and the tasks it executes, `ExperienceStoreProofs`, `PageCaptureProofs`, `BrowserRunProofs` and `FieldRepairProofs` for the
modules they are named after. A definition whose comment begins with
"Mutant:" is a plausible bug in the operator after it; no specification uses it. `PROJECT.json`
pairs it with the property that detects it.

## 3. The runs

| Run (`cfg`) | Question | Properties |
|---|---|---|
| `runner_safety` | Commands die between any two writes while settings, inputs and files change at any moment: is only what the user confirmed executed, is work lost, redone or unbacked, and does the runner keep the gate's promise? | `TypeOK`, `LoadedPlanIsCurrent`, `OnlyConsentedExecution`, `ApprovalCoversInputs`, `CommittedWorkIsKept`, `StatusIsBacked`, `CommitIsFinal`, `ImplementsStepGate` |
| `runner_liveness` | Commands die, a recovery of a recovery too, and an artifact changes at any moment: does every interruption come to an end, whoever holds the lock, and is a remote tool never repeated? | `RemoteAtMostOnce`, `CommittedWorkIsRecorded`, `InterruptionIsResolved` |
| `research_task` | `agent run` dying anywhere while inputs change, then the plan executed: are plans complete, consented and honest, and do tools find what they need? | `TaskTypeOK`, `PlanIsLast`, `SentOnRecord`, `PlanShowsTheSnapshot`, `ToolsFindTheirInputs`, `ReportListsWhatItSays` |
| `store_review` | Overlapping validations, decisions, an import and an export under a coarse clock: is acceptance proven, and what is shown supported? | `AcceptanceIsProven`, `StatusFollowsDecisions`, `ExportIsSupported`, `ImplementsLedger` |
| `store_import` | Two importers of one file, reviewers, and calls that die half way | `TypeOK`, `EventLogComplete`, `ImportedIsComplete` |
| `store_captures` | Captures of all content kinds, interrupted, sharing objects | `CapturesAreStored`, `ContentIsPermitted` |
| `page_capture` | Two pages, any responses, any await | `TypeOK`, `NothingSurvivesThePage`, `ClaimedIsReadyOrRead`, `FailsClosed`, `CaptureWaitsEnd` |
| `browser_run` | Concurrent requests, errors, hanging closes and the deadline at any await | `TypeOK`, `NothingKeepsRunning`, `PolicyIsEnforced`, `DeadlineStopsTheCrawl`, `RunEnds` |
| `field_repair` | Any value from any layer, any setting, any store call failing: what gets into a record? | `TypeOK`, `BestAcceptedIsKept`, `EvidenceIsOfThisPage`, `WeakValuesAreRecorded` |
| `runner_audit`, `store_idempotent`, `research_draft` | expected violations, section 5 | `EveryExecutionAudited`, `ImportedOnce`, `DraftIsValidated` |

**Bounds, and why they are enough.**

- *Task runner.* In `runner_safety`, `NumSteps` = 2 with `LocalSteps` = {1}: an earlier repeatable step and a later remote one,
  which is what ordering, visibility of earlier outputs and both recovery strategies need. Two processes
  (symmetric) give every lock conflict. `MaxAttempts` = 2 leaves room for a retry,
  `MaxOutputs` = 1 gives attempts with and without an artifact. `MaxCrashes` = 2 covers a
  crash of `recover` after a crash of `resume`. `MaxChanges` = 1 places one outside change anywhere, next to at most
  one crash (`MaxFaults` = 2); the theorems have no such bound.
  `runner_liveness` has all three faults in one behaviour (`MaxFaults` = 3), so that a `recover` dies between its
  writes after a `resume` died, and a commit is refused because the artifact changed. It has one remote step (`NumSteps` = 1,
  `LocalSteps` = {}): `recover` reads and writes the records of its own step only, earlier steps are completed and stay so
  (`CommittedWorkIsKept`), and a remote step has the fewest ways out, as it may not be retried once its tool may have run. Two steps and these
  faults are beyond what TLC can check for liveness, which excludes symmetry. An exhausted `MaxAttempts` stops only new runs, never the
  recovery of old ones.
  A committed file that is damaged before its step is recorded as completed is a dead end the code accepts (`recover finalize` refuses,
  `retry` and `fail` are not allowed); both liveness properties except it by name (`Spoilt`).
- *Experience store.* One episode and proposal with two validations and two decisions
  is the smallest instance in which a pass, a later failure and an acceptance can
  overlap in any order, or an acceptance be followed by a decision that re-opens the episode; an imported line is four events,
  and so is each of these (`MaxEvents` = 4). `MaxTime` = 1 gives equal and different timestamps. The import run has two
  importers of one line (`Lines`) and one crash (`MaxCrashes`), so `MaxEpisodes`, `MaxProposals`,
  `MaxValidations`, `MaxDecisions` = 2 and `MaxEvents` = 8 hold a line imported twice. The capture run has two episodes with
  the two categories that may keep content, all content kinds and one crash; `MaxEvents` and
  `MaxNotes` bound the events an episode takes, so that opting in and a capture can race. Exports write nothing, so one at a
  time (`MaxExports` = 1), of whatever the other writer makes meanwhile, shows all there is.
- *Research task.* `research_task` asks for every bundled workflow with up to two input files of every kind, with and
  without a URL, a provider and a platform; the longest such plan has 7 steps (`NumSteps`). Plans of a model are all those
  the rules accept with up to four steps (`MaxPlanSteps`, 20 in the code) for a task with one text or crawler file or a URL
  and a text file: four
  steps hold source, normalisation, table or summary, and report. `MaxTouched` = 1 has one input edited and deleted at any moment.
  No step is assumed repeatable (`LocalSteps` = {}), which only restricts retries. `research_draft` takes five steps and one file,
  the shortest draft with a conversion after the validation.
- *Page captures.* Two network specs (one required, one optional) and a required embedded one; two
  pages, because everything that can leak goes to the next page; three matching responses
  (`MaxResponses`) allow a duplicate and a late one.
- *Browser tool.* `NumUrls` = 2: an error or the deadline in the first page's close must reach the second page or
  keep it from being opened. `MaxRequests` = 2 and `MaxSeen` = 4: two requests being checked at once while two more
  exceed the limit.
- *Field repair.* Four fields (`NumFields`) for the kinds the code tells apart: selector with fallbacks
  (`Selectors`, `WithFallbacks`), a declared source with and without a selector (`DeclaredSource`), a legacy source (`LegacySource`);
  the second is read from the page (`PageScoped`) and its validation lets an empty text pass (`Lenient`). Two items and two pages
  (`MaxItems`, `MaxPages`) let parsed HTML go stale across either; `NumFallbacks` = 2 has a fallback after a fallback. `Thresholds`
  lie on both sides of the adaptive (70) and the model's (75) confidence. All switches are on and off.

`CHECK_DEADLOCK FALSE` is set where the system may really stop: a crawl, a browser call or an extraction that has ended, a finished plan in
`ResearchTask` (or one that was refused or died), and a store whose callers have used up the bounds and have nothing more to do. The
runner runs check for deadlock: some command can always be started.

**Fairness.** `TaskRunnerImpl!Fairness`: a started command goes on to its next write (weak), except that no tool is assumed to
return, since a browser call may lose its deadline (section 5): a step whose tool still runs is not one that was interrupted. A prompt is answered
or closed; and, as long as a step is interrupted, the user keeps trying `recover finalize` and
`recover fail` (strong, because another command can hold the lock at any single try). No approval,
resume or retry is ever assumed. `PageCapture!Fairness`: the timer of `finish` goes off, a cancelled task ends, and a session goes on when
what it waits for has happened. No response and no body is assumed to arrive, and no await of the crawl outside the session to end: queries of the
page have no timeout, so the property is about the session's own waits. `BrowserRun!Fairness`: the two timers go off, `wait_for`'s and the
one of a cleanup, and a cancelled close ends (the comment of `_cancel_and_drain` says why). No await of the crawl and no close is assumed to end by
itself. `RunEnds` therefore excepts a lost deadline, and says of that case only that the call ends if the awaits that are left do. The experience store and `FieldRepair` have no liveness properties: every
call is a bounded sequence of transactions.

**Assumptions.** SQLite transactions are atomic and `BEGIN IMMEDIATE` serialises writers; the
system clock does not run backwards (a clock stepped back would order validations wrongly); a
rename is atomic; asyncio runs one callback at a time; rows and CAS files are not deleted from
outside.

## 4. The proofs

TLAPS checks the following for every value of the constants that satisfies the named assumptions (`StoreAssumption`,
`FingerprintAssumption`, `RunnerAssumption`, `GateAssumption`, `TaskAssumption`, `ExperienceAssumption`,
`CaptureAssumption`, `RunAssumption`, `FieldAssumption`): any plan, any number of processes, attempts, outputs, crashes and
changes, any requests and any length of a model's plan, any number of writers and rows, of pages, specs and responses, of start
URLs and requests, of fields and items. The assumptions give the constants their types and say nothing about the size of
anything; `FieldAssumption` adds that a field has one kind of source. Every safety property of the passing runs is
a theorem, and so are both refinements.

| Theorem | Statement | Inductive invariant |
|---|---|---|
| `TypeCorrect` | `TaskRunner!Spec => []TypeOK` | `TypeInv` |
| `LoadedPlanCorrect` | `... => []LoadedPlanIsCurrent` | itself, with `TypeInv` |
| `OnlyConsentedCorrect` | `... => []OnlyConsentedExecution` | `ConsentInv`, with both above |
| `CommittedWorkCorrect`, `ApprovalCovered`, `StatusBacked`, `RemoteOnce` | `... => []` of `CommittedWorkIsKept`, `ApprovalCoversInputs`, `StatusIsBacked`, `RemoteAtMostOnce` | `RecoveryInv`, with all above |
| `CommitFinal` | `... => CommitIsFinal` (of every step) | `RecoveryInv` |
| `GateImplemented` | `... => ImplementsStepGate` | `RecoveryInv` |
| `EffectsFollowThePlan` | `... => []InOrder`, of the gate under the refinement mapping | none: the two before and `InOrderCorrect` |
| `AtMostOnceCorrect`, `InOrderCorrect` | `StepGate!Spec => []AtMostOnce`, `[]InOrder` | `OnceInv`, `OrderInv` |
| `TaskKeepsGate`, `TaskAtMostOnce`, `TaskInOrder` | `TaskSpec => Spec` of the gate, and so both properties of it | none |
| `PlanIsLastCorrect`, `SentOnRecordCorrect` | `TaskSpec => []PlanIsLast`, `TaskSpec => []SentOnRecord` | `RunInv` |
| `PlanShowsTheSnapshotCorrect` | `TaskSpec => []PlanShowsTheSnapshot` | itself, with `ModelInv` |
| `TaskTypeCorrect`, `ToolsFindTheirInputsCorrect`, `ReportListsWhatItSaysCorrect` | `TaskSpec => [](ByModel => ...)` of `TaskTypeOK`, `ToolsFindTheirInputs`, `ReportListsWhatItSays` | `ModelInv` |
| `StoreTyped`, `LogIsComplete`, `AcceptanceProven`, `StatusFollows`, `ExportSupported`, `CapturesStored`, `ContentPermitted`, `ImportComplete` | `ExperienceStore!Spec => []` of `TypeOK`, `EventLogComplete`, `AcceptanceIsProven`, `StatusFollowsDecisions`, `ExportIsSupported`, `CapturesAreStored`, `ContentIsPermitted`, `ImportedIsComplete` | `StoreInv` |
| `LedgerImplemented` | `... => ImplementsLedger` | `StoreInv` |
| `AcceptedIsOnRecord` | `... => []AcceptedOnTheRecord`, of the ledger under the refinement mapping | itself, with `StoreInv` |
| `CaptureTyped`, `SessionEndsWithPage`, `NoWakeUpIsLost`, `CapturesFailClosed` | `PageCapture!Spec => []` of `TypeOK`, `NothingSurvivesThePage`, `ClaimedIsReadyOrRead`, `FailsClosed` | `CaptureInv` |
| `RunTyped`, `NothingIsLeftRunning` | `BrowserRun!Spec => []` of `TypeOK`, `NothingKeepsRunning` | `RunInv` |
| `PolicyHolds`, `DeadlineHolding` | `... => PolicyIsEnforced`, `DeadlineStopsTheCrawl` (of every step) | `RunInv` |
| `FieldTyped`, `BestIsKept`, `EvidenceIsCurrent`, `WeakRecorded` | `FieldRepair!Spec => []` of `TypeOK`, `BestAcceptedIsKept`, `EvidenceIsOfThisPage`, `WeakValuesAreRecorded` | `FieldInv` |

### The runner

`TypeOK` alone is not inductive: a command at `start` dereferences `job[p].attempt`, which may be
`NoAttempt` for an arbitrary well-typed job. `TypeInv` adds `JobsReady`: a job at a given `pc` has
the step, attempt, environment and fingerprint that position needs. The lock argument classifies each action as entering, leaving,
staying out of or staying inside the lock (`LockStep`), proves once that every such step keeps the
loaded plan current, and then that each action is one.

Consent needs the whole chain from the prompt to the tool. `ConsentInv` says: the plan holds only
fingerprints a user confirmed, each for its own step (`PlanGranted`); an attempt record carries such a
fingerprint for its own step (`AttemptsGranted`); and a running command has obtained its fingerprint from a
confirmation or from the plan (`JobGranted`). `LoadedPlanIsCurrent` carries the chain across
`SavePlan`: the copy written back is the plan on disk, so it brings no unconfirmed fingerprint back.

None of the crash properties is inductive, because what a command is about to write may break any of them. `RecoveryInv` has
a half about the files (`StoreInv`) and a half about each command (`Work`). The files: a step has an attempt record of
its own approval exactly from its first save as running on, and only planned steps follow an unfinished one (`StepsInOrder`);
a committed flag is the trace of a marker that lists the artifact (`ExposedIsListed`); an attempt whose tool was entered is past
`prepared`, stays the attempt of a step that must not be repeated, and only such an attempt is ever committed (`EnteredIsKept`). `Work` says, for each write a command
still has to make, what the files must be like for it: at `mark`, all artifacts are visible; at the save that completes a
step, its attempt is finalized. A crash releases the lock, and `Work` asks nothing of a command without it, which
is the argument why a crash between any two writes does no harm. `OthersWork` uses `LoadedPlanIsCurrent` once for all actions: a
command in the lock finds the files as it left them.

The refinement maps a step's stage to its status in `plan.json` and its effects to the attempts whose tool was
entered. Every write but two kinds is a stutter of the gate: entering a tool is `Act`, and saving the plan is a move of
one step, which `RecoveryInv` shows to be one the gate allows. `EffectsFollowThePlan` reads the gate's `InOrder` back for the code.

### The gate and research tasks

`AtMostOnce` needs `OnceInv`: a non-repeatable step that has not acted since its last grant has no
effect at all, because `Retract` excludes one that has. `InOrder` needs `OrderInv`: whatever is granted or has acted stands on
finished steps, and a finished step never moves.

`RunInv` of `ResearchTask` ties each `phase` of the run command to the files that are durable by then: the plan is saved in the
phase `saving` only, which nothing reaches before all of `CreateOrder`, and the call is made from `calling`, which only
`RecordConsent` reaches. `ModelInv` adds, for plans of a model (`ByModel`), the type invariant, `OrderInv` of the gate, and
`PlanInv`: every step of the plan is `Acceptable` after the steps before it, nothing leaves the start before the plan is durable, and a
completed collecting step has read every data source before it. With `OrderInv` an executing step has exactly the
earlier steps done (`SourcesDone`), so what a rule says about the steps before it says what its tool finds: a required tool is among
them, and every source comes before the first transformation, hence before the dataset and the report alike. The theorems that need
`PlanInv` stop at plans of a model: a workflow's plan is what `FlattenSeq`, a fold, computes from a definition, and what a recursive
definition computes is out of the prover's reach; TLC checks every bundled workflow.

### The experience store

A transaction adds one row to one table, with its event, or changes none, and everything else only grows. The proof is
built on that: `Shape` lists the kinds of step, and each part of the store's half of `StoreInv` is proved against each
kind; what a call in progress relies on between its transactions (`GoesOn`) is proved against `Grows` alone, so that no pair of concurrent calls is
looked at twice. The parts that are not in the properties: references between rows (`References`), that
an event of a row has its row and a row one event (`Logged`), and `Timing`, on which acceptance under a coarse clock rests: a
validation called after another was committed is not older than it. The timestamp is taken before the write lock, so what a call
in progress relies on is about the validations there were when it took its timestamp: none of them is younger (`ValidationGoesOn`). An export that has read some of its tables rests on those rows and, for
a table it has not come to, on all there are (`ExportGoesOn`): the order of its SELECTs is what makes it supported.
`EventLogComplete` counts: the next number is one more than the number of events, because the numbers are an initial segment.

The refinement needs three facts of `StoreInv` and no more: the next number is new (`AppendEnters`), what an entry says never changes
since rows only gain statuses (`EntryStays`), and a row that a decision looks up has its event in the log of the same episode
(`OwnMatterNow`, `PassNow`). With them every kind of step in `Shape` is one entry, one episode or a stutter. `AcceptedIsOnRecord` then
speaks of the log alone: whoever exports the events of an episode finds an acceptance after its candidate and a pass. That no later
failure had overturned the pass is `AcceptanceProven`, which needs the timestamps the ledger does not have.

### Page captures, the browser tool, field extraction

`CaptureInv` adds to the properties that only the present page's session is alive at each await of a page and has ended before the next
(`OnePage`), that no task is cancelled before `finish()` gives up (`NothingLost`), and that extraction has seen the required captures of all
pages it got to (`Judged`): the properties mention only some of the awaits, the invariant has to speak of all.

`RunInv` of `BrowserRun` knows what is held at each await (`Nesting`), that a cleanup is under way exactly while its close task lives
(`Cleaning`), that requests in checks and let through were all counted (`PolicyCounts`), and where a delivered deadline can be
on its way (`DeadlineHolds`). `Nesting` is what makes "attempted the close of all it acquired" provable, its one exception included.

`FieldInv` follows a value from the layer that accepted it to the record. Inside the pipeline only the adaptive result
may have been accepted and not returned yet (`InPipeline`); a value that waits for its episode is already as good as
kept, and the calls made and to come are all an episode must have (`Recording`). A declared source that failed has its episode in the list
before the pipeline begins, which `InPipeline` and `Recording` carry to the end. The actions end in few ways (a value is
kept, an episode is begun, the pipeline goes on), and each is proved once.

**Only model-checked**: liveness, which is out of the prover's reach, as is ENABLED (`CommittedWorkIsRecorded`, `InterruptionIsResolved`,
`CaptureWaitsEnd`, `RunEnds`); the last three theorems of `ResearchTask` for bundled workflows; and the expected violations of section 5.

## 5. Disagreements found

- **An approval without its audit record** (`runner_audit`). `approve_step` saves the plan with the
  step approved (`runner.py:54`) before it appends to `approvals.jsonl` (`runner.py:56`). A crash in between leaves a step
  that `resume` executes although the file the docs call the audit record of every approval
  (`docs/AI_RESEARCH_ASSISTANT.md:126`) has no record of it.
- **An import that is not idempotent** (`store_idempotent`). The mark of a line is the last of six
  transactions (`experience_store.py:1652`). After a crash before it, importing the file again creates a
  second episode for the line; the test suite states that the import is idempotent.

- **A draft of what was not validated** (`research_draft`). `content.prepare_draft` packs every converted document but
  looks only at the last validation (`content_tools.py:38`), and the rules for a model's plan accept a conversion after
  `markdown.validate` (`planner.py:115`). The tool describes itself as a draft of validated document artifacts. The bundled
  workflow `content_save_draft` converts all documents first and keeps the property.

Other oddities contradict no checkable statement of the repository. A deadline that
falls into the drain of an overrun close is swallowed (`except BaseException` in `_cancel_and_drain`,
`spider_engine.py:55`): the crawl goes on without a limit, and an await without a timeout (a query of the page, a new page, installing
the policy) that then hangs leaves the call without an end, the one thing the timeout of the cleanup is there to prevent. `DeadlineStopsTheCrawl`
and `RunEnds` except it as `deadline = "lost"`; TLC shows the hanging call when `RunEnds` is stated without the exception. An `asyncio.TimeoutError` raised
inside the crawl is reported as the deadline (`tools.py:1064`), where the model has `failed`; no property tells the two apart. A deadline
during the context's close skips the browser's (`spider_engine.py:1435`) and leaves it to the driver's stop, which `NothingKeepsRunning`
names. And page N+1's capture session listens before the click (`spider_engine.py:1342`), so that a late response to page N
becomes page N+1's capture; the documented contract is the first match while listening, whoever asked for it.
`agent run` saves `task.json` with the status waiting_approval before `plan.json` (`cli.py:282`): a crash in between leaves a task that waits for
approval of a plan that is not there, which only `PlanIsLast` in the other direction excludes. The workflow compiler reads a YAML definition
twice, for its steps and for its hash. The planning prompt (`cli.py:216`) lists what is sent to the provider without the platform option,
which `create_plan` sends as well; the models have no content of the request. And a model's plan may normalise document
inspections only, which `data.normalize` does not read: the report is then empty, but lists what it says.

## 6. Not modelled

- Argument schemas of the tool registry, plugins, providers, settings, the keyring: lookups and I/O. A refused call
  is an outcome of `ResumeRefused`. `agent status`, `inspect`, `export` and the settings commands read or copy. The task runner starts
  from a saved plan as Init; `ResearchTask` has how it came about.
- What a tool computes from what it reads, the browser tool's parsing of its approved spec and its URL check included.
- Store: schema migration, the list of episodes, integrity scans of captured files. The order of the decisions `get_episode` lists
  follows a timestamp taken before the write lock and is display only.
- Captures: parsing the declarations; a page object without response events.
- The rules of the quality gate and the file of approved repairs: `FieldRepair` has what they decide, not how. A torn line of the file costs a
  repair that later layers look for again. The
  compatibility facade passes its arguments on to the same pipeline.
- Benchmark, adapters, crawler CLI, release scripts: offline, no state that outlives a run.

## 7. The plan

Done, in this order: the runner with its workspace, its abstract specification and refinement; the
experience store; page captures; the browser tool with its request policy; field extraction; planning, workflows and the data flow
of a task over the gate; the export of episodes; the proofs of section 4, component by component.

Then: the ledger the store implements, with the refinement as a theorem.

Next: the episodes of `FieldRepair` as clients of that ledger; the theorems of `ResearchTask` for bundled workflows, from facts about each definition
instead of what the fold computes; the JSONL of approved repairs with concurrent appends.
