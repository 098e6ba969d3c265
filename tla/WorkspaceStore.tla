--------------------------- MODULE WorkspaceStore ---------------------------
(***************************************************************************)
(* The durable half of the optional assistant: one task workspace          *)
(* directory (research_assistant/workspace.py), the approval manifest      *)
(* computed from it (integrity.py) and the writes that change it.  Every   *)
(* file is replaced atomically (temp file, fsync, rename), but a command   *)
(* writes several files in sequence, so each operator below is ONE         *)
(* durable write and a crash can fall between any two of them.             *)
(*                                                                         *)
(* Identifiers that the code draws with uuid4 are numbered in creation     *)
(* order.  An artifact is named by its attempt and its position in it;     *)
(* artifacts.json only ever grows at the end, so the set of its entries    *)
(* determines their order.                                                 *)
(***************************************************************************)
EXTENDS Naturals

CONSTANTS
    NumSteps,       \* steps of the plan
    LocalSteps,     \* steps whose tool declares recovery_strategy "local_deterministic"
    Environments,   \* execution environments (settings, provider, plugins, code)
    MaxAttempts,    \* bound on attempt records
    MaxOutputs,     \* bound on artifacts one attempt writes
    NoFingerprint   \* approval_fingerprint is None

ASSUME StoreAssumption ==
    /\ NumSteps \in Nat \ {0}
    /\ MaxAttempts \in Nat
    /\ MaxOutputs \in Nat
    /\ LocalSteps \subseteq 1..NumSteps
    /\ Environments # {}

Steps == 1..NumSteps
Attempts == 1..MaxAttempts
NoAttempt == 0
ArtifactIds == Attempts \X (1..MaxOutputs)

FileStates == {"absent", "intact", "changed", "missing"}
StepStatuses == {"planned", "approved", "running", "recovery_required",
                 "completed", "rejected", "failed"}
TaskStatuses == {"planned", "waiting_approval", "running",
                 "recovery_required", "completed", "failed"}
AttemptStatuses == {"absent", "prepared", "running", "committed", "finalized",
                    "failed", "abandoned"}
Durable == {"committed", "finalized"}

(* A fingerprint is the SHA-256 of the canonical manifest; it is modelled  *)
(* by the manifest itself (the part of it that can differ between an       *)
(* approval and an execution).                                             *)
Fingerprints == [step : Steps, env : Environments,
                 visible : SUBSET (ArtifactIds \X FileStates)]
NoneOrFingerprint == Fingerprints \cup {NoFingerprint}

ASSUME FingerprintAssumption == NoFingerprint \notin Fingerprints

StepRecords == [status : StepStatuses, fp : NoneOrFingerprint,
                attempt : Attempts \cup {NoAttempt},
                artifacts : SUBSET ArtifactIds]
Plans == [Steps -> StepRecords]
AttemptRecords == [status : AttemptStatuses, step : Steps \cup {0},
                   fp : NoneOrFingerprint, artifacts : SUBSET ArtifactIds]

VARIABLES
    plan,        \* plan.json: a record per step
    taskStatus,  \* the status field of task.json
    attempts,    \* attempts/<id>.json
    registry,    \* the entries of artifacts.json
    exposed,     \* the entries whose committed flag is set
    disk,        \* the artifact files under artifacts/versions/<attempt>
    inputs,      \* the input snapshots, as inputs.json registered them or not
    approvals    \* approvals.jsonl, as a set of (action, fingerprint) records

storeVars == <<plan, taskStatus, attempts, registry, exposed, disk, inputs, approvals>>

InitialPlan == [s \in Steps |-> [status |-> "planned", fp |-> NoFingerprint,
                                 attempt |-> NoAttempt, artifacts |-> {}]]
AbsentAttempt == [status |-> "absent", step |-> 0, fp |-> NoFingerprint, artifacts |-> {}]

StoreTypeOK ==
    /\ plan \in Plans
    /\ taskStatus \in TaskStatuses
    /\ attempts \in [Attempts -> AttemptRecords]
    /\ registry \in SUBSET ArtifactIds
    /\ exposed \in SUBSET ArtifactIds
    /\ disk \in [ArtifactIds -> FileStates]
    /\ inputs \in {"intact", "changed"}
    /\ approvals \in SUBSET [action : {"approved", "approval_invalidated"},
                             fp : NoneOrFingerprint]

(* The workspace "agent run" leaves behind: inputs snapshotted, plan saved, *)
(* every step still to be approved.                                         *)
StoreInit ==
    /\ plan = InitialPlan
    /\ taskStatus = "waiting_approval"
    /\ attempts = [a \in Attempts |-> AbsentAttempt]
    /\ registry = {}
    /\ exposed = {}
    /\ disk = [i \in ArtifactIds |-> "absent"]
    /\ inputs = "intact"
    /\ approvals = {}

-----------------------------------------------------------------------------
(* Reads *)

(* Mutant: any unfinished step passes for the next one. *)
IsUnfinished(pl, s) == pl[s].status # "completed"

(* _next_unfinished_step: s is the first step of pl that is not completed. *)
IsNextUnfinished(pl, s) ==
    /\ pl[s].status # "completed"
    /\ \A t \in 1..(s - 1) : pl[t].status = "completed"

AllCompleted(pl) == \A s \in Steps : pl[s].status = "completed"

(* Mutant: every registered artifact counts as visible. *)
VisibleRegistered == registry

(* list_artifacts(): the flag alone does not make an artifact visible, its *)
(* attempt must carry the durable commit marker as well.                   *)
Visible == {i \in registry : i \in exposed /\ attempts[i[1]].status \in Durable}

(* approval_manifest raises when a visible artifact is gone or an input    *)
(* snapshot no longer matches inputs.json.                                 *)
ManifestReadable == inputs = "intact" /\ \A i \in Visible : disk[i] # "missing"

(* build_approval_fingerprint: artifacts are re-hashed from disk. *)
Manifest(s, e) == [step |-> s, env |-> e,
                   visible |-> {<<i, disk[i]>> : i \in Visible}]

OutputsOf(a) == {i \in registry : i[1] = a}

(* The task status that goes with a plan after a step completed. *)
StatusAfterCompletion(pl) ==
    IF AllCompleted(pl) THEN "completed" ELSE "waiting_approval"

-----------------------------------------------------------------------------
(* Writes: one durable file each *)

SavePlanFile(pl) ==
    /\ plan' = pl
    /\ UNCHANGED <<taskStatus, attempts, registry, exposed, disk, inputs, approvals>>

SaveTaskFile(st) ==
    /\ taskStatus' = st
    /\ UNCHANGED <<plan, attempts, registry, exposed, disk, inputs, approvals>>

AppendApproval(action, fp) ==
    /\ approvals' = approvals \cup {[action |-> action, fp |-> fp]}
    /\ UNCHANGED <<plan, taskStatus, attempts, registry, exposed, disk, inputs>>

WriteAttempt(a, rec) ==
    /\ attempts' = [attempts EXCEPT ![a] = rec]
    /\ UNCHANGED <<plan, taskStatus, registry, exposed, disk, inputs, approvals>>

BeginAttemptFile(a, s, fp) ==
    /\ attempts[a].status = "absent"
    /\ \A b \in 1..(a - 1) : attempts[b].status # "absent"
    /\ WriteAttempt(a, [status |-> "prepared", step |-> s, fp |-> fp, artifacts |-> {}])

StartAttemptFile(a) ==
    /\ attempts[a].status = "prepared"
    /\ WriteAttempt(a, [attempts[a] EXCEPT !.status = "running"])

(* finish_attempt overwrites the status without looking at the old one. *)
FinishAttemptFile(a, st) == WriteAttempt(a, [attempts[a] EXCEPT !.status = st])

(* _atomic_write_bytes of the first file name the attempt has not used. *)
WriteArtifactFile(a, n) ==
    /\ disk[<<a, n>>] = "absent"
    /\ \A m \in 1..(n - 1) : disk[<<a, m>>] # "absent"
    /\ disk' = [disk EXCEPT ![<<a, n>>] = "intact"]
    /\ UNCHANGED <<plan, taskStatus, attempts, registry, exposed, inputs, approvals>>

(* _register_artifact: inside an attempt the entry starts uncommitted. *)
RegisterArtifact(i) ==
    /\ registry' = registry \cup {i}
    /\ UNCHANGED <<plan, taskStatus, attempts, exposed, disk, inputs, approvals>>

(* commit_attempt up to the durable marker: only a running attempt whose   *)
(* registered files are all as they were written.                          *)
Committable(a) ==
    /\ attempts[a].status = "running"
    /\ \A i \in OutputsOf(a) : disk[i] = "intact"

CommitMarker(a) ==
    WriteAttempt(a, [attempts[a] EXCEPT !.status = "committed", !.artifacts = OutputsOf(a)])

(* finalize_attempt_artifacts: refuses unless the marker is there and each *)
(* artifact of its manifest is registered and unchanged on disk.           *)
Exposable(a) ==
    /\ attempts[a].status \in Durable
    /\ \A i \in attempts[a].artifacts : i \in registry /\ i[1] = a /\ disk[i] = "intact"

(* Mutant: the flags of earlier attempts are lost. *)
ExposeOnlyThese(a) ==
    /\ exposed' = attempts[a].artifacts
    /\ UNCHANGED <<plan, taskStatus, attempts, registry, disk, inputs, approvals>>

ExposeArtifacts(a) ==
    /\ exposed' = exposed \cup attempts[a].artifacts
    /\ UNCHANGED <<plan, taskStatus, attempts, registry, disk, inputs, approvals>>

(* Mutant: the attempt is never marked finalized. *)
MarkFinalizedSkipped(a) == WriteAttempt(a, attempts[a])

(* mark_attempt_finalized, after its own finalize_attempt_artifacts. *)
MarkFinalizedFile(a) == WriteAttempt(a, [attempts[a] EXCEPT !.status = "finalized"])

-----------------------------------------------------------------------------
(* What something outside the assistant can do to the directory *)

DamageArtifact(i, how) ==
    /\ i \in registry
    /\ disk[i] = "intact"
    /\ disk' = [disk EXCEPT ![i] = how]
    /\ UNCHANGED <<plan, taskStatus, attempts, registry, exposed, inputs, approvals>>

ChangeInputs ==
    /\ inputs = "intact"
    /\ inputs' = "changed"
    /\ UNCHANGED <<plan, taskStatus, attempts, registry, exposed, disk, approvals>>
=============================================================================
