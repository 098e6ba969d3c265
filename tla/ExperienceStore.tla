-------------------------- MODULE ExperienceStore --------------------------
(***************************************************************************)
(* The opt-in repair-episode store (core/experience_store.py): one SQLite  *)
(* database with a content-addressed directory (CAS) beside it, used by    *)
(* several threads and processes at once.                                  *)
(*                                                                         *)
(* A public method is one transaction, hence one action, except where the  *)
(* code does something a second writer or a crash can come between: the    *)
(* timestamp of a validation is taken before the write lock, a capture is  *)
(* a file, a row and an event, importing one line of an old JSONL file is  *)
(* six transactions, and an export five SELECTs.  Rows are never deleted,  *)
(* so a table is the sequence of its rows (rowid order) and an id is a row *)
(* number.                                                                 *)
(* An object of the CAS is named by its body: what of which content it     *)
(* holds.  Timestamps are kept where something is ordered by them.         *)
(***************************************************************************)
EXTENDS Integers, Sequences, FiniteSetsExt

CONSTANTS
    Writers,        \* threads and processes that use the store
    Categories,     \* authorization categories in use
    Contents,       \* kinds of captured content
    Lines,          \* lines of the old JSONL file that qualify for import
    Outcomes,       \* decisions reviewers take
    MaxEpisodes, MaxProposals, MaxValidations, MaxDecisions, MaxNotes, MaxEvents, \* bounds on rows
    MaxTime,        \* bound on the clock
    MaxCrashes,     \* bound on calls that die half way
    MaxExports      \* bound on exports at the same time

(* The content kinds that the storage rules tell apart: text, text with a  *)
(* credential in it, text that is not UTF-8, and anything else.            *)
ContentKinds == {"plain", "secret", "broken", "binary"}
AllOutcomes == {"accepted", "rejected", "deferred", "superseded",
                "historical_candidate", "needs_review"}

ASSUME ExperienceAssumption ==
    /\ Categories \subseteq {"synthetic_local", "public", "authorized", "unknown"}
    /\ Contents \subseteq ContentKinds
    /\ Outcomes \subseteq AllOutcomes
    /\ Lines \in Nat /\ MaxTime \in Nat /\ MaxCrashes \in Nat /\ MaxExports \in Nat
    /\ {MaxEpisodes, MaxProposals, MaxValidations, MaxDecisions, MaxNotes, MaxEvents} \subseteq Nat

VARIABLES
    episodes,     \* repair_episodes
    events,       \* repair_events
    proposals,    \* repair_proposals
    validations,  \* repair_validations
    decisions,    \* repair_decisions
    casRows,      \* cas_objects
    casFiles,     \* the files under <store>.cas/objects
    imports,      \* legacy_imports
    clock,        \* the system clock, which may be coarser than two calls
    job,          \* the call each writer is in
    crashes

tables == <<episodes, events, proposals, validations, decisions, casRows, imports>>
vars == <<tables, casFiles, clock, job, crashes>>

Bodies == [content : ContentKinds, form : {"raw", "redacted", "structure"}]
Modes == {"full", "redacted_full", "redacted_full_opt_in", "structure_only",
          "structure_only_invalid_utf8"}
NoBody == [content |-> "binary", form |-> "structure"]
EpisodeStatuses == {"open", "decided", "historical"}
ProposalStatuses == AllOutcomes \cup {"candidate"}

(* at and began belong to the validation under way: its timestamp and how  *)
(* many validations were committed when the call began.                    *)
(* What a call is given and nothing looks at before its transaction        *)
(* (passed, outcome) is chosen in the transaction.  view is what an export *)
(* has read so far, tables with rows that never change by their length.    *)
NoView == [read |-> 0, episode |-> "open", events |-> {}, proposals |-> <<>>,
           validations |-> 0, decisions |-> 0]
Idle == [pc |-> "idle", episode |-> 0, proposal |-> 0, at |-> 0, began |-> 0,
         body |-> NoBody, mode |-> "structure_only", line |-> 0, view |-> NoView]

Pcs == {"idle", "validate", "put_file", "put_row", "put_event", "look_up",
        "create", "note", "propose", "replay", "settle", "mark", "export"}

TypeOK ==
    /\ \A e \in DOMAIN episodes : episodes[e] \in
        [category : Categories, retain : BOOLEAN, status : EpisodeStatuses, line : 0..Lines]
    /\ \A v \in events : v.episode \in DOMAIN episodes /\ v.sequence \in 1..MaxEvents
    /\ \A p \in DOMAIN proposals : proposals[p] \in
        [episode : DOMAIN episodes, historical : BOOLEAN, status : ProposalStatuses]
    /\ \A v \in DOMAIN validations :
        /\ validations[v].proposal # 0 =>
             proposals[validations[v].proposal].episode = validations[v].episode
        /\ validations[v].at \in 0..MaxTime
    /\ \A d \in DOMAIN decisions : decisions[d].outcome \in AllOutcomes
    /\ casFiles \subseteq Bodies
    /\ casRows \subseteq [body : Bodies, mode : Modes]
    /\ \A w \in Writers :
        /\ [job[w] EXCEPT !.view = NoView] \in
             [pc : Pcs, episode : 0..MaxEpisodes, proposal : 0..MaxProposals,
              at : 0..MaxTime, began : 0..MaxValidations,
              body : Bodies, mode : Modes, line : 0..Lines, view : {NoView}]
        /\ job[w].view.events \subseteq events

Init ==
    /\ episodes = <<>> /\ proposals = <<>> /\ validations = <<>> /\ decisions = <<>>
    /\ events = {} /\ casRows = {} /\ casFiles = {} /\ imports = {}
    /\ clock = 0
    /\ job = [w \in Writers |-> Idle]
    /\ crashes = 0

-----------------------------------------------------------------------------
(* Reads and helpers *)

At(w, pc) == job[w].pc = pc
Goto(w, pc) == job' = [job EXCEPT ![w].pc = pc]
Return(w) == job' = [job EXCEPT ![w] = Idle]

EventsOf(e) == {v \in events : v.episode = e}

(* Mutant: the next number is counted over all episodes. *)
NextSequenceOfStore(e) == Cardinality(events) + 1

(* SELECT COALESCE(MAX(sequence), 0) + 1 ... WHERE episode_id = ? *)
NextSequence(e) == Max({0} \cup {v.sequence : v \in EventsOf(e)}) + 1

Event(e, kind, ref) == [episode |-> e, sequence |-> NextSequence(e), kind |-> kind, ref |-> ref]

(* _append_event_in_transaction, as part of the transaction of its caller. *)
AppendEvent(e, kind, ref) ==
    /\ Cardinality(events) < MaxEvents
    /\ e \in DOMAIN episodes
    /\ events' = events \cup {Event(e, kind, ref)}

(* Mutant: the proposal of another episode will do. *)
AnyProposal(e, p) == p \in DOMAIN proposals

OwnProposal(e, p) == p \in DOMAIN proposals /\ proposals[p].episode = e

ValidationsOf(e, p) ==
    {v \in DOMAIN validations : validations[v].episode = e /\ validations[v].proposal = p}

(* Mutant: of two validations with one timestamp, the first row counts. *)
LatestPassedFirstRow(e, p) ==
    \E v \in ValidationsOf(e, p) :
        /\ validations[v].passed
        /\ \A u \in ValidationsOf(e, p) :
            \/ validations[u].at < validations[v].at
            \/ validations[u].at = validations[v].at /\ u >= v

(* ORDER BY created_at DESC, rowid DESC LIMIT 1, and it passed. *)
LatestPassed(e, p) ==
    \E v \in ValidationsOf(e, p) :
        /\ validations[v].passed
        /\ \A u \in ValidationsOf(e, p) :
            \/ validations[u].at < validations[v].at
            \/ validations[u].at = validations[v].at /\ u <= v

(* Mutant: every decision that is not final re-opens the episode. *)
StatusAfterReopen(e, outcome) ==
    IF outcome \in {"accepted", "rejected", "superseded"} THEN "decided" ELSE "open"

StatusAfter(e, outcome) ==
    CASE outcome \in {"accepted", "rejected", "superseded"} -> "decided"
      [] outcome = "historical_candidate" -> episodes[e].status
      [] OTHER -> "open"

(* Full text is for local fixtures, and for sources whose owner agreed and *)
(* whose episode asked for it.                                             *)
OptedIn(e) == episodes[e].retain /\ episodes[e].category = "authorized"

(* put_capture: what of content c is stored for a capture of episode e     *)
(* that its caller labels with category claim.                             *)
StoredBody(e, c, claim) ==
    LET synthetic == claim = "synthetic_local"
        optIn == OptedIn(e) /\ claim = "authorized" IN
    [content |-> c,
     form |-> CASE synthetic /\ c = "binary" -> "raw"
                [] (synthetic \/ optIn) /\ c = "plain" -> "raw"
                [] (synthetic \/ optIn) /\ c = "secret" -> "redacted"
                [] OTHER -> "structure"]

StorageMode(e, c, claim) ==
    LET synthetic == claim = "synthetic_local"
        optIn == OptedIn(e) /\ claim = "authorized" IN
    CASE (synthetic \/ optIn) /\ c = "broken" -> "structure_only_invalid_utf8"
      [] synthetic /\ c \in {"plain", "binary"} -> "full"
      [] synthetic /\ c = "secret" -> "redacted_full"
      [] optIn /\ c \in {"plain", "secret"} -> "redacted_full_opt_in"
      [] OTHER -> "structure_only"

-----------------------------------------------------------------------------
(* Episodes and events *)

InsertEpisode(category, retain, status, line) ==
    /\ Len(episodes) < MaxEpisodes
    /\ retain => category \in {"synthetic_local", "authorized"}
    /\ episodes' = Append(episodes, [category |-> category, retain |-> retain,
                                     status |-> status, line |-> line])

CreateEpisode(w) ==
    /\ At(w, "idle")
    /\ \E category \in Categories, retain \in BOOLEAN :
        InsertEpisode(category, retain, "open", 0)
    /\ UNCHANGED <<events, proposals, validations, decisions, casRows, casFiles,
                   imports, clock, job, crashes>>

AppendNote(w) ==
    /\ At(w, "idle")
    /\ Cardinality({v \in events : v.kind = "note"}) < MaxNotes
    /\ \E e \in DOMAIN episodes : AppendEvent(e, "note", 0)
    /\ UNCHANGED <<episodes, proposals, validations, decisions, casRows, casFiles,
                   imports, clock, job, crashes>>

-----------------------------------------------------------------------------
(* Captures: the file first, then its row, then the event *)

(* Mutant: any caller may call its capture a local fixture. *)
MayClaimAnything(e, claim) == TRUE

MayClaim(e, claim) == claim = "synthetic_local" => episodes[e].category = "synthetic_local"

AddCapture(w) ==
    /\ At(w, "idle")
    /\ \E e \in DOMAIN episodes, c \in Contents, claim \in Categories :
        /\ MayClaim(e, claim)
        /\ job' = [job EXCEPT ![w] = [Idle EXCEPT !.pc = "put_file", !.episode = e,
                     !.body = StoredBody(e, c, claim), !.mode = StorageMode(e, c, claim)]]
    /\ UNCHANGED <<tables, casFiles, clock, crashes>>

(* Mutant: a file that could not be written is passed over in silence. *)
PutFileMaybe(w) ==
    /\ At(w, "put_file")
    /\ casFiles' \in {casFiles, casFiles \cup {job[w].body}}
    /\ Goto(w, "put_row")
    /\ UNCHANGED <<tables, clock, crashes>>

(* _write_cas_object: renamed into place whole, or already there. *)
PutFile(w) ==
    /\ At(w, "put_file")
    /\ casFiles' = casFiles \cup {job[w].body}
    /\ Goto(w, "put_row")
    /\ UNCHANGED <<tables, clock, crashes>>

(* INSERT OR IGNORE: the row of an object that is known stays as it is. *)
PutRow(w) ==
    /\ At(w, "put_row")
    /\ casRows' = IF \E r \in casRows : r.body = job[w].body THEN casRows
                  ELSE casRows \cup {[body |-> job[w].body, mode |-> job[w].mode]}
    /\ Goto(w, "put_event")
    /\ UNCHANGED <<episodes, events, proposals, validations, decisions, imports,
                   casFiles, clock, crashes>>

PutEvent(w) ==
    /\ At(w, "put_event")
    /\ \E r \in casRows :
        r.body = job[w].body /\ AppendEvent(job[w].episode, "capture", r)
    /\ Return(w)
    /\ UNCHANGED <<episodes, proposals, validations, decisions, casRows, imports,
                   casFiles, clock, crashes>>

-----------------------------------------------------------------------------
(* Proposals, validations, decisions: a row and its event in one transaction *)

InsertProposal(e, historical) ==
    /\ Len(proposals) < MaxProposals
    /\ proposals' = Append(proposals, [episode |-> e, historical |-> historical,
            status |-> IF historical THEN "historical_candidate" ELSE "candidate"])
    /\ AppendEvent(e, "proposal", Len(proposals) + 1)

InsertValidation(e, p, passed, at, began) ==
    /\ Len(validations) < MaxValidations
    /\ p # 0 => OwnProposal(e, p)
    /\ validations' = Append(validations, [episode |-> e, proposal |-> p, passed |-> passed,
                                           at |-> at, began |-> began])
    /\ AppendEvent(e, "validation", Len(validations) + 1)

(* Mutant: any proposal of the episode is accepted. *)
MayDecideUnproven(e, p, outcome) == p # 0 => OwnProposal(e, p)

MayDecide(e, p, outcome) ==
    /\ p # 0 => OwnProposal(e, p)
    /\ outcome = "accepted" => p # 0 /\ ~proposals[p].historical /\ LatestPassed(e, p)

(* seen is history: the validations committed before this decision. *)
InsertDecision(e, p, outcome) ==
    /\ Len(decisions) < MaxDecisions
    /\ MayDecide(e, p, outcome)
    /\ decisions' = Append(decisions, [episode |-> e, proposal |-> p, outcome |-> outcome,
                                       seen |-> Len(validations)])
    /\ proposals' = IF p = 0 THEN proposals ELSE [proposals EXCEPT ![p].status = outcome]
    /\ episodes' = [episodes EXCEPT ![e].status = StatusAfter(e, outcome)]
    /\ AppendEvent(e, "decision", Len(decisions) + 1)

AddProposal(w) ==
    /\ At(w, "idle")
    /\ \E e \in DOMAIN episodes : InsertProposal(e, FALSE)
    /\ UNCHANGED <<episodes, validations, decisions, casRows, imports, casFiles,
                   clock, job, crashes>>

(* The call takes its timestamp here, before it waits for the write lock. *)
CallValidation(w) ==
    /\ At(w, "idle")
    /\ \E e \in DOMAIN episodes, p \in 0..Len(proposals) :
        job' = [job EXCEPT ![w] = [Idle EXCEPT !.pc = "validate", !.episode = e,
            !.proposal = p, !.at = clock, !.began = Len(validations)]]
    /\ UNCHANGED <<tables, casFiles, clock, crashes>>

AddValidation(w) ==
    /\ At(w, "validate")
    /\ \E passed \in BOOLEAN :
        InsertValidation(job[w].episode, job[w].proposal, passed, job[w].at, job[w].began)
    /\ Return(w)
    /\ UNCHANGED <<episodes, proposals, decisions, casRows, imports, casFiles,
                   clock, crashes>>

(* All that a decision depends on is read in its transaction; one that may *)
(* not be taken is rolled back.                                            *)
AddDecision(w) ==
    /\ At(w, "idle")
    /\ \E e \in DOMAIN episodes, p \in 0..Len(proposals), outcome \in Outcomes :
        InsertDecision(e, p, outcome)
    /\ UNCHANGED <<validations, casRows, imports, casFiles, clock, job, crashes>>

(* The transaction of a validation is rolled back and the call raises. *)
Refused(w) ==
    /\ At(w, "validate") /\ job[w].proposal # 0
    /\ ~OwnProposal(job[w].episode, job[w].proposal)
    /\ Return(w)
    /\ UNCHANGED <<tables, casFiles, clock, crashes>>

-----------------------------------------------------------------------------
(* import_legacy_jsonl: six transactions for each line *)

Untouched == <<casRows, casFiles, clock, crashes>>

(* The call goes on with the next line or ends. *)
NextLine(w) ==
    job' = [job EXCEPT ![w] = IF job[w].line = Lines THEN Idle
                              ELSE [Idle EXCEPT !.pc = "look_up", !.line = job[w].line + 1]]

CallImport(w) ==
    /\ At(w, "idle")
    /\ Lines > 0
    /\ job' = [job EXCEPT ![w] = [Idle EXCEPT !.pc = "look_up", !.line = 1]]
    /\ UNCHANGED <<tables, casFiles, clock, crashes>>

LookUpLine(w) ==
    /\ At(w, "look_up")
    /\ IF \E i \in imports : i.line = job[w].line THEN NextLine(w) ELSE Goto(w, "create")
    /\ UNCHANGED <<tables, casFiles, clock, crashes>>

(* Mutant: the line is marked together with its episode. *)
ImportEpisodeMarked(w) ==
    /\ At(w, "create")
    /\ \E category \in Categories : InsertEpisode(category, FALSE, "historical", job[w].line)
    /\ imports' = imports \cup {[line |-> job[w].line, episode |-> Len(episodes) + 1]}
    /\ job' = [job EXCEPT ![w].pc = "note", ![w].episode = Len(episodes) + 1]
    /\ UNCHANGED <<events, proposals, validations, decisions, Untouched>>

(* The category comes from the caller of the import (unknown by default).  *)
ImportEpisode(w) ==
    /\ At(w, "create")
    /\ \E category \in Categories : InsertEpisode(category, FALSE, "historical", job[w].line)
    /\ job' = [job EXCEPT ![w].pc = "note", ![w].episode = Len(episodes) + 1]
    /\ UNCHANGED <<events, proposals, validations, decisions, imports, Untouched>>

ImportNote(w) ==
    /\ At(w, "note")
    /\ AppendEvent(job[w].episode, "legacy_import", job[w].line)
    /\ Goto(w, "propose")
    /\ UNCHANGED <<episodes, proposals, validations, decisions, imports, Untouched>>

ImportProposal(w) ==
    /\ At(w, "propose")
    /\ InsertProposal(job[w].episode, TRUE)
    /\ job' = [job EXCEPT ![w].pc = "replay", ![w].proposal = Len(proposals) + 1]
    /\ UNCHANGED <<episodes, validations, decisions, imports, Untouched>>

ImportValidation(w) ==
    /\ At(w, "replay")
    /\ InsertValidation(job[w].episode, job[w].proposal, TRUE, 0, Len(validations))
    /\ Goto(w, "settle")
    /\ UNCHANGED <<episodes, proposals, decisions, imports, Untouched>>

ImportDecision(w) ==
    /\ At(w, "settle")
    /\ InsertDecision(job[w].episode, job[w].proposal, "historical_candidate")
    /\ Goto(w, "mark")
    /\ UNCHANGED <<validations, imports, Untouched>>

(* The primary key (source, line) refuses a second mark: the call raises. *)
ImportMark(w) ==
    /\ At(w, "mark")
    /\ IF \E i \in imports : i.line = job[w].line
       THEN UNCHANGED imports /\ Return(w)
       ELSE imports' = imports \cup {[line |-> job[w].line, episode |-> job[w].episode]}
            /\ NextLine(w)
    /\ UNCHANGED <<episodes, events, proposals, validations, decisions, Untouched>>

-----------------------------------------------------------------------------
(* get_episode, for display and export: one SELECT after the other, without *)
(* a transaction around them (the lock excludes the threads of this object, *)
(* not other processes).                                                    *)

(* Mutant: what an episode rests on is read before its status. *)
ReadOrderOfEvidence == <<"validations", "decisions", "proposals", "events", "episode">>

ReadOrder == <<"episode", "events", "proposals", "validations", "decisions">>

Selected(e) == [episode |-> episodes[e].status, events |-> EventsOf(e), proposals |-> proposals,
                validations |-> Len(validations), decisions |-> Len(decisions)]

CallExport(w) ==
    /\ At(w, "idle")
    /\ Cardinality({v \in Writers : At(v, "export")}) < MaxExports
    /\ \E e \in DOMAIN episodes :
        job' = [job EXCEPT ![w] = [Idle EXCEPT !.pc = "export", !.episode = e]]
    /\ UNCHANGED <<tables, casFiles, clock, crashes>>

SelectTable(w) ==
    LET n == job[w].view.read + 1
        table == ReadOrder[n] IN
    /\ At(w, "export") /\ n <= Len(ReadOrder)
    /\ job' = [job EXCEPT ![w].view.read = n, ![w].view[table] = Selected(job[w].episode)[table]]
    /\ UNCHANGED <<tables, casFiles, clock, crashes>>

(* The rows are put together, written out and forgotten. *)
EndExport(w) ==
    /\ At(w, "export") /\ job[w].view.read = Len(ReadOrder)
    /\ Return(w)
    /\ UNCHANGED <<tables, casFiles, clock, crashes>>

-----------------------------------------------------------------------------
(* A call dies between two transactions (or before its only one). *)
Crash(w) ==
    /\ ~At(w, "idle")
    /\ crashes < MaxCrashes
    /\ crashes' = crashes + 1
    /\ Return(w)
    /\ UNCHANGED <<tables, casFiles, clock>>

Tick ==
    /\ clock < MaxTime
    /\ clock' = clock + 1
    /\ UNCHANGED <<tables, casFiles, job, crashes>>

Capturing(w) == AddCapture(w) \/ PutFile(w) \/ PutRow(w) \/ PutEvent(w)

Reviewing(w) ==
    \/ AddProposal(w) \/ CallValidation(w) \/ AddValidation(w)
    \/ AddDecision(w) \/ Refused(w)

Importing(w) ==
    \/ CallImport(w) \/ LookUpLine(w) \/ ImportEpisode(w) \/ ImportNote(w)
    \/ ImportProposal(w) \/ ImportValidation(w) \/ ImportDecision(w) \/ ImportMark(w)

Exporting(w) == CallExport(w) \/ SelectTable(w) \/ EndExport(w)

Next ==
    \/ \E w \in Writers :
        \/ CreateEpisode(w) \/ AppendNote(w)
        \/ Capturing(w) \/ Reviewing(w) \/ Importing(w) \/ Exporting(w) \/ Crash(w)
    \/ Tick

Spec == Init /\ [][Next]_vars
-----------------------------------------------------------------------------
(* Properties *)

(* The event log of an episode is complete and gapless: numbers 1..n once   *)
(* each, and exactly one event for every proposal, validation and decision  *)
(* row, whatever two writers or a crash do.                                 *)
EventLogComplete ==
    /\ \A e \in DOMAIN episodes :
        {v.sequence : v \in EventsOf(e)} = 1..Cardinality(EventsOf(e))
    /\ \A table \in {<<"proposal", proposals>>, <<"validation", validations>>,
                     <<"decision", decisions>>} : \A r \in DOMAIN table[2] :
        Cardinality({v \in EventsOf(table[2][r].episode) : v.kind = table[1] /\ v.ref = r}) = 1

(* "An accepted decision requires the proposal's latest replay validation   *)
(* to pass": it rests on a pass that no failing validation called after     *)
(* that pass was committed had overturned, however calls overlap, whichever *)
(* order they commit in and however coarse the clock; and it is never the   *)
(* acceptance of an imported candidate.                                     *)
AcceptanceIsProven ==
    \A d \in DOMAIN decisions : decisions[d].outcome = "accepted" =>
        LET known == {v \in 1..decisions[d].seen :
                        validations[v].proposal = decisions[d].proposal} IN
        /\ ~proposals[decisions[d].proposal].historical
        /\ \E v \in known :
            /\ validations[v].passed
            /\ \A f \in known : validations[f].began >= v => validations[f].passed

(* What a reader sees as the status of a proposal and of an episode is what *)
(* the decisions, in the order they were committed, add up to; importing    *)
(* old observations decides nothing.                                        *)
StatusFollowsDecisions ==
    /\ \A p \in DOMAIN proposals :
        LET on == {d \in DOMAIN decisions : decisions[d].proposal = p} IN
        proposals[p].status =
            IF on # {} THEN decisions[Max(on)].outcome
            ELSE IF proposals[p].historical THEN "historical_candidate" ELSE "candidate"
    /\ \A e \in DOMAIN episodes :
        LET on == {d \in DOMAIN decisions : decisions[d].episode = e
                                            /\ decisions[d].outcome # "historical_candidate"} IN
        episodes[e].status =
            IF on = {} THEN (IF episodes[e].line = 0 THEN "open" ELSE "historical")
            ELSE IF decisions[Max(on)].outcome \in {"accepted", "rejected", "superseded"}
                 THEN "decided" ELSE "open"

(* An export that other processes write into between its SELECTs may be a   *)
(* state that never was, but it never lacks what it rests on: each of its   *)
(* events has its row, a decided episode its final decision, and a proposal *)
(* shown as accepted the acceptance and a validation that passed.           *)
ExportIsSupported ==
    \A w \in Writers : At(w, "export") /\ job[w].view.read = Len(ReadOrder) =>
        LET view == job[w].view
            shown == {d \in 1..view.decisions : decisions[d].episode = job[w].episode} IN
        /\ \A v \in view.events :
            /\ v.kind = "proposal" => v.ref \in DOMAIN view.proposals
            /\ v.kind = "validation" => v.ref \in 1..view.validations
            /\ v.kind = "decision" => v.ref \in shown
        /\ view.episode = "decided" => \E d \in shown :
             decisions[d].outcome \in {"accepted", "rejected", "superseded"}
        /\ \A p \in DOMAIN view.proposals : view.proposals[p].episode = job[w].episode
                                            /\ view.proposals[p].status = "accepted" =>
            /\ \E d \in shown : decisions[d].proposal = p /\ decisions[d].outcome = "accepted"
            /\ \E v \in 1..view.validations : validations[v].proposal = p /\ validations[v].passed

(* Wherever a capture is interrupted, an event only names an object with a  *)
(* row, and a row only an object whose file is there.                       *)
CapturesAreStored ==
    /\ \A v \in events : v.kind = "capture" => v.ref \in casRows
    /\ \A r \in casRows : r.body \in casFiles

(* Content beyond its structure is kept only in the captures of a local     *)
(* fixture or of an authorized source whose episode opted in, and no text   *)
(* is kept with its credentials; a shared object keeps an honest mode.      *)
ContentIsPermitted ==
    /\ \A v \in events : v.kind = "capture" /\ v.ref.body.form # "structure" =>
        episodes[v.episode].category = "synthetic_local" \/ OptedIn(v.episode)
    /\ \A b \in casFiles : b.content = "secret" => b.form # "raw"
    /\ \A r \in casRows : r.mode \in {"structure_only", "structure_only_invalid_utf8"}
                           <=> r.body.form = "structure"

(* A line that is marked as imported is there as a whole: its episode has   *)
(* the import event, the candidate, its old result and the decision.        *)
ImportedIsComplete ==
    \A i \in imports :
        /\ episodes[i.episode].line = i.line
        /\ {"legacy_import", "proposal", "validation", "decision"} \subseteq
             {v.kind : v \in EventsOf(i.episode)}
        /\ \A j \in imports : j.line = i.line => j = i

(* "legacy jsonl import is idempotent": one episode for each line.          *)
ImportedOnce ==
    \A e, f \in DOMAIN episodes :
        episodes[e].line # 0 /\ episodes[e].line = episodes[f].line => e = f
=============================================================================
