----------------------- MODULE ExperienceStoreProofs -----------------------
(***************************************************************************)
(* What the experience store promises, for every number of writers, rows   *)
(* and lines to import.  A transaction adds one row or none (Shape below), *)
(* so each part of the invariant is proved against the kinds of rows, and  *)
(* what a call in progress relies on only against the growth of tables.    *)
(***************************************************************************)
EXTENDS ExperienceStoreImpl, FiniteSetTheorems, TLAPS

Final == {"accepted", "rejected", "superseded"}

Episodes == [category : Categories, retain : BOOLEAN, status : EpisodeStatuses, line : 0..Lines]
Proposals == [episode : Nat, historical : BOOLEAN, status : ProposalStatuses]
Validations == [episode : Nat, proposal : Nat, passed : BOOLEAN, at : 0..MaxTime, began : Nat]
Decisions == [episode : Nat, proposal : Nat, outcome : AllOutcomes, seen : Nat]
Objects == [body : Bodies, mode : Modes]
Views == [read : 0..5, episode : EpisodeStatuses, events : SUBSET events,
          proposals : Seq(Proposals), validations : Nat, decisions : Nat]
Jobs == [pc : Pcs, episode : 0..MaxEpisodes, proposal : 0..MaxProposals, at : 0..MaxTime,
         began : 0..MaxValidations, body : Bodies, mode : Modes, line : 0..Lines, view : Views]

(* The tables, and the references between them: a row about a proposal is  *)
(* a row about its episode.                                                *)
Typed ==
    /\ episodes \in Seq(Episodes) /\ Len(episodes) <= MaxEpisodes
    /\ proposals \in Seq(Proposals) /\ Len(proposals) <= MaxProposals
    /\ validations \in Seq(Validations) /\ Len(validations) <= MaxValidations
    /\ decisions \in Seq(Decisions)
    /\ casFiles \subseteq Bodies /\ casRows \subseteq Objects
    /\ clock \in 0..MaxTime

References ==
    /\ \A p \in 1..Len(proposals) : proposals[p].episode \in 1..Len(episodes)
    /\ \A v \in 1..Len(validations) :
        validations[v].proposal # 0 =>
            /\ validations[v].proposal \in 1..Len(proposals)
            /\ proposals[validations[v].proposal].episode = validations[v].episode
    /\ \A d \in 1..Len(decisions) :
        /\ decisions[d].episode \in 1..Len(episodes)
        /\ decisions[d].proposal # 0 =>
            /\ decisions[d].proposal \in 1..Len(proposals)
            /\ proposals[decisions[d].proposal].episode = decisions[d].episode

(* The numbers of an episode's events are an initial segment; a row has    *)
(* one event, an event of a row has its row.                               *)
Numbered ==
    /\ IsFiniteSet(events) /\ Cardinality(events) <= MaxEvents
    /\ \A v \in events : v.episode \in 1..Len(episodes)
    /\ \A e \in 1..Len(episodes) :
        {v.sequence : v \in EventsOf(e)} = 1..Cardinality(EventsOf(e))

Logged(kind, rows, log) ==
    /\ \A v \in log : v.kind = kind =>
         v.ref \in 1..Len(rows) /\ v.episode = rows[v.ref].episode
    /\ \A r \in 1..Len(rows) : \E v \in log : v.kind = kind /\ v.ref = r
    /\ \A u, v \in log : u.kind = kind /\ v.kind = kind /\ u.ref = v.ref => u = v

EventLog ==
    /\ Numbered
    /\ Logged("proposal", proposals, events)
    /\ Logged("validation", validations, events)
    /\ Logged("decision", decisions, events)

(* Timestamps agree with the order of calls: a validation called after     *)
(* another was committed is not older, unless it is an imported pass.      *)
Timing ==
    /\ \A v \in 1..Len(validations) : validations[v].at <= clock /\ validations[v].began < v
    /\ \A v, f \in 1..Len(validations) :
        validations[f].began >= v => validations[f].passed \/ validations[v].at <= validations[f].at

Proven(d) ==
    LET known == {v \in 1..decisions[d].seen :
                    validations[v].proposal = decisions[d].proposal} IN
    /\ decisions[d].proposal # 0
    /\ ~proposals[decisions[d].proposal].historical
    /\ \E v \in known :
        /\ validations[v].passed
        /\ \A f \in known : validations[f].began >= v => validations[f].passed

Acceptances ==
    \A d \in 1..Len(decisions) :
        /\ decisions[d].seen <= Len(validations)
        /\ decisions[d].outcome = "accepted" => Proven(d)

(* d is the last decision on a proposal, or that bears on an episode. *)
LastOn(p, d) ==
    /\ decisions[d].proposal = p
    /\ \A c \in 1..Len(decisions) : decisions[c].proposal = p => c <= d

Bears(d, e) == decisions[d].episode = e /\ decisions[d].outcome # "historical_candidate"

LastFor(e, d) ==
    /\ Bears(d, e)
    /\ \A c \in 1..Len(decisions) : Bears(c, e) => c <= d

(* A status is the one its row began with or what the last decision made it. *)
Statuses ==
    /\ \A p \in 1..Len(proposals) :
        \/ /\ \A d \in 1..Len(decisions) : decisions[d].proposal # p
           /\ proposals[p].status =
                IF proposals[p].historical THEN "historical_candidate" ELSE "candidate"
        \/ \E d \in 1..Len(decisions) : LastOn(p, d) /\ proposals[p].status = decisions[d].outcome
    /\ \A e \in 1..Len(episodes) :
        \/ /\ \A d \in 1..Len(decisions) : ~Bears(d, e)
           /\ episodes[e].status = IF episodes[e].line = 0 THEN "open" ELSE "historical"
        \/ \E d \in 1..Len(decisions) :
            /\ LastFor(e, d)
            /\ episodes[e].status = IF decisions[d].outcome \in Final THEN "decided" ELSE "open"

(* What may be kept of a capture of an episode, and how its object is      *)
(* labelled.                                                               *)
Allowed(e, body) ==
    body.form # "structure" => episodes[e].category = "synthetic_local" \/ OptedIn(e)
Redacted(body) == body.content = "secret" => body.form # "raw"
Honest(body, mode) ==
    mode \in {"structure_only", "structure_only_invalid_utf8"} <=> body.form = "structure"

Captures ==
    /\ \A v \in events : v.kind = "capture" => v.ref \in casRows /\ Allowed(v.episode, v.ref.body)
    /\ \A r \in casRows : r.body \in casFiles /\ Honest(r.body, r.mode)
    /\ \A b \in casFiles : Redacted(b)

(* What is there of an imported line when its import has come so far. *)
Imported(e, kinds) == \A k \in kinds : \E v \in events : v.episode = e /\ v.kind = k

AllKinds == {"legacy_import", "proposal", "validation", "decision"}

Marks ==
    /\ \A i \in imports : /\ i.episode \in 1..Len(episodes)
                          /\ episodes[i.episode].line = i.line
                          /\ Imported(i.episode, AllKinds)
    /\ \A i, j \in imports : j.line = i.line => j = i

-----------------------------------------------------------------------------
(* What a call in progress relies on *)

ImportSteps == {"look_up", "create", "note", "propose", "replay", "settle", "mark"}

DoneBefore(step) ==
    CASE step = "note" -> {}
      [] step = "propose" -> {"legacy_import"}
      [] step = "replay" -> {"legacy_import", "proposal"}
      [] step = "settle" -> {"legacy_import", "proposal", "validation"}
      [] OTHER -> AllKinds

CaptureGoesOn(j) ==
    /\ j.pc \in {"put_file", "put_row", "put_event"} =>
        /\ j.episode \in 1..Len(episodes)
        /\ Allowed(j.episode, j.body) /\ Redacted(j.body) /\ Honest(j.body, j.mode)
    /\ j.pc = "put_row" => j.body \in casFiles

ValidationGoesOn(j) ==
    j.pc = "validate" =>
        /\ j.began <= Len(validations) /\ j.at <= clock
        /\ \A v \in 1..j.began : validations[v].at <= j.at

ImportGoesOn(j) ==
    /\ j.pc \in ImportSteps => j.line \in 1..Lines
    /\ j.pc \in ImportSteps \ {"look_up", "create"} =>
        /\ j.episode \in 1..Len(episodes)
        /\ episodes[j.episode].line = j.line
        /\ Imported(j.episode, DoneBefore(j.pc))

(* An export rests on the rows it has read, and on all there are of a table *)
(* it has not come to.                                                     *)
ProposalsOf(j) == IF j.view.read >= 3 THEN Len(j.view.proposals) ELSE Len(proposals)
ValidationsSeen(j) == IF j.view.read >= 4 THEN j.view.validations ELSE Len(validations)
DecisionsSeen(j) == IF j.view.read >= 5 THEN j.view.decisions ELSE Len(decisions)

ExportGoesOn(j) ==
    j.pc = "export" =>
        /\ j.episode \in 1..Len(episodes)
        /\ ProposalsOf(j) <= Len(proposals)
        /\ ValidationsSeen(j) <= Len(validations)
        /\ DecisionsSeen(j) <= Len(decisions)
        /\ j.view.read >= 1 /\ j.view.episode = "decided" =>
            \E d \in 1..DecisionsSeen(j) :
                decisions[d].episode = j.episode /\ decisions[d].outcome \in Final
        /\ j.view.read >= 2 => \A v \in j.view.events :
            /\ v.episode = j.episode
            /\ v.kind = "proposal" => v.ref \in 1..ProposalsOf(j)
            /\ v.kind = "validation" => v.ref \in 1..ValidationsSeen(j)
            /\ v.kind = "decision" =>
                v.ref \in 1..DecisionsSeen(j) /\ decisions[v.ref].episode = j.episode
        /\ j.view.read >= 3 => \A p \in 1..Len(j.view.proposals) :
            /\ j.view.proposals[p].episode = proposals[p].episode
            /\ j.view.proposals[p].status = "accepted" =>
                /\ \E d \in 1..DecisionsSeen(j) :
                    decisions[d].proposal = p /\ decisions[d].outcome = "accepted"
                /\ \E v \in 1..ValidationsSeen(j) :
                    validations[v].proposal = p /\ validations[v].passed

GoesOn(j) == CaptureGoesOn(j) /\ ValidationGoesOn(j) /\ ImportGoesOn(j) /\ ExportGoesOn(j)

Calls == job \in [Writers -> Jobs] /\ \A w \in Writers : GoesOn(job[w])

StoreInv ==
    /\ Typed /\ References /\ EventLog /\ Timing /\ Acceptances /\ Statuses
    /\ Captures /\ Marks /\ Calls

-----------------------------------------------------------------------------
(* Tables *)

LEMMA Counts ==
    /\ Lines \in Nat /\ MaxTime \in Nat /\ MaxEpisodes \in Nat /\ MaxProposals \in Nat
    /\ MaxValidations \in Nat /\ MaxDecisions \in Nat /\ MaxNotes \in Nat /\ MaxEvents \in Nat
  BY ExperienceAssumption

LEMMA Rows ==
    ASSUME NEW T, NEW s \in Seq(T)
    PROVE  /\ Len(s) \in Nat /\ DOMAIN s = 1..Len(s)
           /\ \A i \in 1..Len(s) : s[i] \in T
  OBVIOUS

LEMMA RowAdded ==
    ASSUME NEW T, NEW s \in Seq(T), NEW x \in T
    PROVE  /\ Append(s, x) \in Seq(T) /\ Len(Append(s, x)) = Len(s) + 1
           /\ \A i \in 1..Len(s) : Append(s, x)[i] = s[i]
           /\ Append(s, x)[Len(s) + 1] = x
           /\ 1..(Len(s) + 1) = 1..Len(s) \cup {Len(s) + 1}
  OBVIOUS

LEMMA RowChanged ==
    ASSUME NEW T, NEW s \in Seq(T), NEW i \in 1..Len(s), NEW x \in T
    PROVE  /\ [s EXCEPT ![i] = x] \in Seq(T) /\ Len([s EXCEPT ![i] = x]) = Len(s)
           /\ \A k \in 1..Len(s) : [s EXCEPT ![i] = x][k] = IF k = i THEN x ELSE s[k]
  OBVIOUS

LEMMA StatusKinds ==
    /\ EpisodeStatuses = {"open", "decided", "historical"}
    /\ AllOutcomes \subseteq ProposalStatuses
    /\ {"candidate", "historical_candidate"} \subseteq ProposalStatuses
  BY DEF EpisodeStatuses, ProposalStatuses, AllOutcomes

-----------------------------------------------------------------------------
(* The shapes of a transaction: at most one row of one table, and its event *)

NewEpisode ==
    /\ \E category \in Categories, retain \in BOOLEAN, line \in 0..Lines :
        InsertEpisode(category, retain, IF line = 0 THEN "open" ELSE "historical", line)
    /\ UNCHANGED <<events, proposals, validations, decisions, casRows, casFiles, imports>>

NewEvent ==
    /\ \E e, kind, ref :
        /\ kind \in {"note", "legacy_import", "capture"}
        /\ kind = "capture" => ref \in casRows /\ Allowed(e, ref.body)
        /\ AppendEvent(e, kind, ref)
    /\ UNCHANGED <<episodes, proposals, validations, decisions, casRows, casFiles, imports>>

NewProposal ==
    /\ \E e \in Nat, historical \in BOOLEAN : InsertProposal(e, historical)
    /\ UNCHANGED <<episodes, validations, decisions, casRows, casFiles, imports>>

NewValidation ==
    /\ \E e \in Nat, p \in Nat, passed \in BOOLEAN, at \in 0..MaxTime, began \in 0..Len(validations) :
        /\ InsertValidation(e, p, passed, at, began)
        /\ at <= clock
        /\ passed \/ \A v \in 1..began : validations[v].at <= at
    /\ UNCHANGED <<episodes, proposals, decisions, casRows, casFiles, imports>>

NewDecision ==
    /\ \E e \in Nat, p \in Nat, outcome \in AllOutcomes : InsertDecision(e, p, outcome)
    /\ UNCHANGED <<validations, casRows, casFiles, imports>>

NewObject ==
    /\ \/ \E b \in Bodies : Redacted(b) /\ casFiles' = casFiles \cup {b} /\ UNCHANGED casRows
       \/ \E o \in Objects : /\ o.body \in casFiles /\ Honest(o.body, o.mode)
                             /\ casRows' = casRows \cup {o} /\ UNCHANGED casFiles
    /\ UNCHANGED <<episodes, events, proposals, validations, decisions, imports>>

NewMark ==
    /\ \E line \in 1..Lines, e \in 1..Len(episodes) :
        /\ \A i \in imports : i.line # line
        /\ episodes[e].line = line /\ Imported(e, AllKinds)
        /\ imports' = imports \cup {[line |-> line, episode |-> e]}
    /\ UNCHANGED <<episodes, events, proposals, validations, decisions, casRows, casFiles>>

Shape ==
    /\ \/ NewEpisode \/ NewEvent \/ NewProposal \/ NewValidation \/ NewDecision
       \/ NewObject \/ NewMark \/ UNCHANGED <<tables, casFiles>>
    /\ clock' \in 0..MaxTime /\ clock <= clock'

(* What a caller may claim of its capture, is allowed. *)
LEMMA ClaimIsAllowed ==
    ASSUME NEW e, NEW c \in ContentKinds, NEW claim, MayClaim(e, claim)
    PROVE  /\ StoredBody(e, c, claim) \in Bodies /\ StorageMode(e, c, claim) \in Modes
           /\ Allowed(e, StoredBody(e, c, claim))
           /\ Redacted(StoredBody(e, c, claim))
           /\ Honest(StoredBody(e, c, claim), StorageMode(e, c, claim))
<1> DEFINE synthetic == claim = "synthetic_local"
           optIn == OptedIn(e) /\ claim = "authorized"
           form == CASE synthetic /\ c = "binary" -> "raw"
                     [] (synthetic \/ optIn) /\ c = "plain" -> "raw"
                     [] (synthetic \/ optIn) /\ c = "secret" -> "redacted"
                     [] OTHER -> "structure"
<1>1. StoredBody(e, c, claim) = [content |-> c, form |-> form]
  BY DEF StoredBody
<1>2. /\ form \in {"raw", "redacted", "structure"}
      /\ form # "structure" => synthetic \/ optIn
      /\ c = "secret" => form # "raw"
      /\ form = "structure" <=> ~((synthetic /\ c \in {"binary", "plain", "secret"})
                                  \/ (optIn /\ c \in {"plain", "secret"}))
  BY DEF ContentKinds
<1>3. /\ StorageMode(e, c, claim) \in Modes
      /\ StorageMode(e, c, claim) \in {"structure_only", "structure_only_invalid_utf8"}
           <=> form = "structure"
  BY <1>2 DEF StorageMode, Modes, ContentKinds
<1> HIDE DEF form
<1>4. StoredBody(e, c, claim) \in Bodies
  BY <1>1, <1>2 DEF Bodies
<1>5. synthetic => episodes[e].category = "synthetic_local"
  BY DEF MayClaim
<1> QED BY <1>1, <1>2, <1>3, <1>4, <1>5 DEF Allowed, Redacted, Honest

(* Every action is a transaction of one of the shapes. *)
LEMMA ActionShape ==
    ASSUME Typed, Timing, Captures, Calls, [Next]_vars PROVE Shape
<1> USE Counts
<1>0. clock \in 0..MaxTime /\ clock \in Nat
  BY DEF Typed
<1>1. CASE UNCHANGED vars
  BY <1>0, <1>1 DEF Shape, vars
<1>2. CASE Tick
  BY <1>0, <1>2 DEF Tick, Shape, tables
<1>3. ASSUME NEW w \in Writers, CreateEpisode(w) \/ ImportEpisode(w) PROVE Shape
  <2>1. clock' = clock
    BY <1>3 DEF CreateEpisode, ImportEpisode, Untouched
  <2>2. NewEpisode
    <3>1. CASE CreateEpisode(w)
      BY <3>1 DEF CreateEpisode, NewEpisode
    <3>2. CASE ImportEpisode(w)
      <4>1. job[w].line \in 0..Lines /\ job[w].line # 0
        BY <3>2 DEF ImportEpisode, At, Calls, GoesOn, ImportGoesOn, ImportSteps
      <4> QED BY <3>2, <4>1 DEF ImportEpisode, NewEpisode, Untouched
    <3> QED BY <1>3, <3>1, <3>2
  <2> QED BY <1>0, <2>1, <2>2 DEF Shape
<1>4. ASSUME NEW w \in Writers, AppendNote(w) \/ ImportNote(w) \/ PutEvent(w) PROVE Shape
  <2>1. clock' = clock
    BY <1>4 DEF AppendNote, ImportNote, PutEvent, Untouched
  <2>2. NewEvent
    <3>1. CASE AppendNote(w)
      BY <3>1 DEF AppendNote, NewEvent
    <3>2. CASE ImportNote(w)
      BY <3>2 DEF ImportNote, NewEvent, Untouched
    <3>3. CASE PutEvent(w)
      BY <3>3 DEF PutEvent, NewEvent, At, Calls, GoesOn, CaptureGoesOn
    <3> QED BY <1>4, <3>1, <3>2, <3>3
  <2> QED BY <1>0, <2>1, <2>2 DEF Shape
<1>5. ASSUME NEW w \in Writers, AddProposal(w) \/ ImportProposal(w) PROVE Shape
  <2>1. DOMAIN episodes \subseteq Nat /\ job[w].episode \in Nat
    BY Rows DEF Typed, Calls, Jobs
  <2>2. CASE AddProposal(w)
    <3>1. PICK e \in Nat : InsertProposal(e, FALSE)
      BY <2>1, <2>2 DEF AddProposal
    <3>2. \E x \in Nat, h \in BOOLEAN : InsertProposal(x, h)
      BY <3>1, Zenon
    <3> QED BY <1>0, <2>2, <3>2 DEF AddProposal, NewProposal, Shape
  <2>3. CASE ImportProposal(w)
    <3>1. PICK e \in Nat : InsertProposal(e, TRUE)
      BY <2>1, <2>3 DEF ImportProposal
    <3>2. \E x \in Nat, h \in BOOLEAN : InsertProposal(x, h)
      BY <3>1, Zenon
    <3> QED BY <1>0, <2>3, <3>2 DEF ImportProposal, NewProposal, Shape, Untouched
  <2> QED BY <1>5, <2>2, <2>3
<1>6. ASSUME NEW w \in Writers, AddValidation(w) \/ ImportValidation(w) PROVE Shape
  <2>0. job[w].episode \in Nat /\ job[w].proposal \in Nat /\ job[w].at \in 0..MaxTime
        /\ job[w].began \in Nat
    BY DEF Calls, Jobs
  <2>1. clock' = clock
    BY <1>6 DEF AddValidation, ImportValidation, Untouched
  <2>2. Len(validations) \in Nat
    BY DEF Typed
  <2>3. NewValidation
    <3>1. CASE AddValidation(w)
      <4>1. /\ job[w].began <= Len(validations) /\ job[w].at <= clock
            /\ \A v \in 1..job[w].began : validations[v].at <= job[w].at
        BY <3>1 DEF AddValidation, At, Calls, GoesOn, ValidationGoesOn
      <4>2. job[w].began \in 0..Len(validations)
        BY <2>0, <2>2, <4>1
      <4>3. PICK passed \in BOOLEAN :
              InsertValidation(job[w].episode, job[w].proposal, passed, job[w].at, job[w].began)
        BY <3>1 DEF AddValidation
      <4>4. UNCHANGED <<episodes, proposals, decisions, casRows, casFiles, imports>>
        BY <3>1 DEF AddValidation
      <4>5. \E e \in Nat, p \in Nat, b \in BOOLEAN, at \in 0..MaxTime,
               began \in 0..Len(validations) :
              /\ InsertValidation(e, p, b, at, began)
              /\ at <= clock
              /\ b \/ \A v \in 1..began : validations[v].at <= at
        <5> USE <2>0, <4>2
        <5> WITNESS job[w].episode \in Nat, job[w].proposal \in Nat, passed \in BOOLEAN,
                    job[w].at \in 0..MaxTime, job[w].began \in 0..Len(validations)
        <5> QED BY <4>1, <4>3
      <4> QED BY <4>4, <4>5 DEF NewValidation
    <3>2. CASE ImportValidation(w)
      <4>1. 0 \in 0..MaxTime /\ 0 <= clock /\ Len(validations) \in 0..Len(validations)
        BY <1>0, <2>2
      <4> QED BY <2>0, <3>2, <4>1 DEF ImportValidation, NewValidation, Untouched
    <3> QED BY <1>6, <3>1, <3>2
  <2> QED BY <1>0, <2>1, <2>3 DEF Shape
<1>7. ASSUME NEW w \in Writers, AddDecision(w) \/ ImportDecision(w) PROVE Shape
  <2>1. clock' = clock
    BY <1>7 DEF AddDecision, ImportDecision, Untouched
  <2>2. NewDecision
    <3>1. CASE AddDecision(w)
      <4>1. /\ DOMAIN episodes \subseteq Nat /\ 0..Len(proposals) \subseteq Nat
            /\ Outcomes \subseteq AllOutcomes
        BY ExperienceAssumption, Rows DEF Typed
      <4> QED BY <3>1, <4>1 DEF AddDecision, NewDecision
    <3>2. CASE ImportDecision(w)
      <4>1. job[w].episode \in Nat /\ job[w].proposal \in Nat
        BY DEF Calls, Jobs
      <4> QED BY <3>2, <4>1 DEF ImportDecision, NewDecision, Untouched, AllOutcomes
    <3> QED BY <1>7, <3>1, <3>2
  <2> QED BY <1>0, <2>1, <2>2 DEF Shape
<1>8. ASSUME NEW w \in Writers, PutFile(w) \/ PutRow(w) PROVE Shape
  <2>0. job[w].body \in Bodies /\ job[w].mode \in Modes
    BY DEF Calls, Jobs
  <2>1. Redacted(job[w].body) /\ Honest(job[w].body, job[w].mode)
    BY <1>8 DEF PutFile, PutRow, At, Calls, GoesOn, CaptureGoesOn
  <2>2. CASE PutFile(w)
    BY <1>0, <2>0, <2>1, <2>2 DEF PutFile, Shape, NewObject, tables
  <2>3. CASE PutRow(w)
    <3>1. job[w].body \in casFiles
      BY <2>3 DEF PutRow, At, Calls, GoesOn, CaptureGoesOn
    <3>2. [body |-> job[w].body, mode |-> job[w].mode] \in Objects
      BY <2>0 DEF Objects
    <3>3. NewObject \/ UNCHANGED <<tables, casFiles>>
      BY <2>1, <2>3, <3>1, <3>2 DEF PutRow, NewObject, tables
    <3> QED BY <1>0, <2>3, <3>3 DEF Shape, PutRow
  <2> QED BY <1>8, <2>2, <2>3
<1>9. ASSUME NEW w \in Writers, ImportMark(w) PROVE Shape
  <2>1. /\ job[w].episode \in 1..Len(episodes)
        /\ episodes[job[w].episode].line = job[w].line
        /\ Imported(job[w].episode, AllKinds) /\ job[w].line \in 1..Lines
    BY <1>9 DEF ImportMark, At, Calls, GoesOn, ImportGoesOn, ImportSteps, DoneBefore
  <2>2. NewMark \/ UNCHANGED <<tables, casFiles>>
    BY <1>9, <2>1 DEF ImportMark, NewMark, Untouched, tables
  <2> QED BY <1>0, <1>9, <2>2 DEF Shape, ImportMark, Untouched
<1>10. ASSUME NEW w \in Writers,
              \/ AddCapture(w) \/ CallValidation(w) \/ Refused(w) \/ CallImport(w) \/ LookUpLine(w)
              \/ Exporting(w) \/ Crash(w)
       PROVE  Shape
  <2>1. UNCHANGED <<tables, casFiles, clock>>
    BY <1>10
    DEF AddCapture, CallValidation, Refused, CallImport, LookUpLine, Exporting, CallExport,
        SelectTable, EndExport, Crash
  <2> QED BY <1>0, <2>1 DEF Shape
<1> QED
  BY <1>1, <1>2, <1>3, <1>4, <1>5, <1>6, <1>7, <1>8, <1>9, <1>10
  DEF Next, Capturing, Reviewing, Importing

-----------------------------------------------------------------------------
(* What each shape does to its table *)

LEMMA EpisodeAdded ==
    ASSUME Typed, NewEpisode
    PROVE  /\ episodes' \in Seq(Episodes) /\ Len(episodes') = Len(episodes) + 1
           /\ Len(episodes') <= MaxEpisodes
           /\ \A e \in 1..Len(episodes) : episodes'[e] = episodes[e]
           /\ \A e \in 1..Len(episodes') : e \in 1..Len(episodes) \/ e = Len(episodes) + 1
           /\ episodes'[Len(episodes) + 1].status =
                IF episodes'[Len(episodes) + 1].line = 0 THEN "open" ELSE "historical"
<1>1. PICK category \in Categories, retain \in BOOLEAN, line \in 0..Lines :
        InsertEpisode(category, retain, IF line = 0 THEN "open" ELSE "historical", line)
  BY DEF NewEpisode
<1> DEFINE x == [category |-> category, retain |-> retain,
                 status |-> IF line = 0 THEN "open" ELSE "historical", line |-> line]
<1>2. x \in Episodes /\ x.line = line /\ x.status = IF line = 0 THEN "open" ELSE "historical"
  BY DEF Episodes, EpisodeStatuses
<1>3. episodes' = Append(episodes, x) /\ Len(episodes) < MaxEpisodes
  BY <1>1 DEF InsertEpisode
<1> HIDE DEF x
<1>4. episodes \in Seq(Episodes) /\ Len(episodes) \in Nat
  BY DEF Typed
<1> QED BY <1>2, <1>3, <1>4, RowAdded, Counts

LEMMA ProposalAdded ==
    ASSUME Typed, NewProposal
    PROVE  /\ proposals' \in Seq(Proposals) /\ Len(proposals') = Len(proposals) + 1
           /\ Len(proposals') <= MaxProposals
           /\ \A p \in 1..Len(proposals) : proposals'[p] = proposals[p]
           /\ \A p \in 1..Len(proposals') : p \in 1..Len(proposals) \/ p = Len(proposals) + 1
           /\ proposals'[Len(proposals) + 1].status =
                IF proposals'[Len(proposals) + 1].historical THEN "historical_candidate"
                ELSE "candidate"
           /\ AppendEvent(proposals'[Len(proposals) + 1].episode, "proposal", Len(proposals) + 1)
<1>1. PICK e \in Nat, historical \in BOOLEAN : InsertProposal(e, historical)
  BY DEF NewProposal
<1> DEFINE x == [episode |-> e, historical |-> historical,
                 status |-> IF historical THEN "historical_candidate" ELSE "candidate"]
<1>2. /\ x \in Proposals /\ x.episode = e
      /\ x.status = IF x.historical THEN "historical_candidate" ELSE "candidate"
  BY StatusKinds DEF Proposals
<1>3. /\ proposals' = Append(proposals, x) /\ Len(proposals) < MaxProposals
      /\ AppendEvent(e, "proposal", Len(proposals) + 1)
  BY <1>1 DEF InsertProposal
<1> HIDE DEF x
<1>4. proposals \in Seq(Proposals) /\ Len(proposals) \in Nat
  BY DEF Typed
<1> QED BY <1>2, <1>3, <1>4, RowAdded, Counts

LEMMA ValidationAdded ==
    ASSUME Typed, NewValidation
    PROVE  LET n == Len(validations) + 1 IN
           /\ validations' \in Seq(Validations) /\ Len(validations') = n
           /\ Len(validations') <= MaxValidations
           /\ \A v \in 1..Len(validations) : validations'[v] = validations[v]
           /\ \A v \in 1..Len(validations') : v \in 1..Len(validations) \/ v = n
           /\ AppendEvent(validations'[n].episode, "validation", n)
           /\ validations'[n].proposal # 0 =>
                OwnProposal(validations'[n].episode, validations'[n].proposal)
           /\ validations'[n].at <= clock /\ validations'[n].began < n
           /\ \/ validations'[n].passed
              \/ \A v \in 1..validations'[n].began : validations[v].at <= validations'[n].at
<1>1. PICK e \in Nat, p \in Nat, passed \in BOOLEAN, at \in 0..MaxTime,
           began \in 0..Len(validations) :
        /\ InsertValidation(e, p, passed, at, began)
        /\ at <= clock
        /\ passed \/ \A v \in 1..began : validations[v].at <= at
  BY DEF NewValidation
<1> DEFINE x == [episode |-> e, proposal |-> p, passed |-> passed, at |-> at, began |-> began]
<1>2. /\ x \in Validations /\ x.episode = e /\ x.proposal = p
      /\ x.passed = passed /\ x.at = at /\ x.began = began
  BY DEF Validations
<1>3. /\ validations' = Append(validations, x) /\ Len(validations) < MaxValidations
      /\ AppendEvent(e, "validation", Len(validations) + 1)
      /\ p # 0 => OwnProposal(e, p)
  BY <1>1 DEF InsertValidation
<1> HIDE DEF x
<1>4. validations \in Seq(Validations) /\ Len(validations) \in Nat
  BY DEF Typed
<1>5. /\ validations' \in Seq(Validations) /\ Len(validations') = Len(validations) + 1
      /\ \A v \in 1..Len(validations) : validations'[v] = validations[v]
      /\ validations'[Len(validations) + 1] = x
      /\ 1..(Len(validations) + 1) = 1..Len(validations) \cup {Len(validations) + 1}
  BY <1>2, <1>3, <1>4, RowAdded
<1>6. began < Len(validations) + 1 /\ Len(validations') <= MaxValidations
  BY <1>3, <1>4, <1>5, Counts
<1> QED BY <1>1, <1>2, <1>3, <1>5, <1>6

(* A decision is one row, and the statuses it sets. *)
DecisionMade(n, e, p, outcome) ==
    /\ n = Len(decisions) + 1 /\ outcome \in AllOutcomes
    /\ decisions' \in Seq(Decisions) /\ Len(decisions') = n
    /\ \A d \in 1..Len(decisions) : decisions'[d] = decisions[d]
    /\ \A d \in 1..Len(decisions') : d \in 1..Len(decisions) \/ d = n
    /\ decisions'[n] = [episode |-> e, proposal |-> p, outcome |-> outcome,
                        seen |-> Len(validations)]
    /\ MayDecide(e, p, outcome)
    /\ AppendEvent(e, "decision", n)
    /\ e \in 1..Len(episodes)
    /\ p # 0 => p \in 1..Len(proposals)
    /\ proposals' \in Seq(Proposals) /\ Len(proposals') = Len(proposals)
    /\ \A q \in 1..Len(proposals) :
        /\ proposals'[q].episode = proposals[q].episode
        /\ proposals'[q].historical = proposals[q].historical
        /\ proposals'[q].status = IF q = p THEN outcome ELSE proposals[q].status
    /\ episodes' \in Seq(Episodes) /\ Len(episodes') = Len(episodes)
    /\ \A f \in 1..Len(episodes) :
        /\ episodes'[f].category = episodes[f].category
        /\ episodes'[f].retain = episodes[f].retain
        /\ episodes'[f].line = episodes[f].line
        /\ episodes'[f].status = IF f = e THEN StatusAfter(e, outcome) ELSE episodes[f].status

LEMMA DecisionAdded ==
    ASSUME Typed, NewDecision
    PROVE  \E n, e, p, outcome : DecisionMade(n, e, p, outcome)
<1>1. PICK e \in Nat, p \in Nat, outcome \in AllOutcomes : InsertDecision(e, p, outcome)
  BY DEF NewDecision
<1>2. /\ decisions \in Seq(Decisions) /\ Len(decisions) \in Nat
      /\ proposals \in Seq(Proposals) /\ episodes \in Seq(Episodes)
      /\ Len(validations) \in Nat
  BY DEF Typed
<1> DEFINE n == Len(decisions) + 1
           x == [episode |-> e, proposal |-> p, outcome |-> outcome, seen |-> Len(validations)]
<1>3. x \in Decisions /\ decisions' = Append(decisions, x)
  BY <1>1, <1>2 DEF Decisions, InsertDecision
<1>4. /\ decisions' \in Seq(Decisions) /\ Len(decisions') = n
      /\ \A d \in 1..Len(decisions) : decisions'[d] = decisions[d]
      /\ \A d \in 1..Len(decisions') : d \in 1..Len(decisions) \/ d = n
      /\ decisions'[n] = x
  <2> HIDE DEF x
  <2> QED BY <1>2, <1>3, RowAdded
<1>5. MayDecide(e, p, outcome) /\ AppendEvent(e, "decision", n)
  BY <1>1 DEF InsertDecision
<1>6. e \in 1..Len(episodes) /\ (p # 0 => p \in 1..Len(proposals))
  BY <1>2, <1>5, Rows DEF AppendEvent, MayDecide, OwnProposal
<1>7. /\ proposals' \in Seq(Proposals) /\ Len(proposals') = Len(proposals)
      /\ \A q \in 1..Len(proposals) :
          /\ proposals'[q].episode = proposals[q].episode
          /\ proposals'[q].historical = proposals[q].historical
          /\ proposals'[q].status = IF q = p THEN outcome ELSE proposals[q].status
  <2>1. CASE p = 0
    <3>1. proposals' = proposals /\ \A q \in 1..Len(proposals) : q # p
      BY <1>1, <2>1 DEF InsertDecision
    <3> QED BY <1>2, <3>1
  <2>2. CASE p # 0
    <3> DEFINE y == [proposals[p] EXCEPT !.status = outcome]
    <3>1. proposals' = [proposals EXCEPT ![p] = y]
      BY <1>1, <2>2 DEF InsertDecision
    <3>2. /\ y \in Proposals /\ y.status = outcome /\ y.episode = proposals[p].episode
          /\ y.historical = proposals[p].historical
      <4>1. proposals[p] \in Proposals /\ outcome \in ProposalStatuses
        BY <1>2, <1>6, <2>2, Rows, StatusKinds
      <4> QED BY <4>1 DEF Proposals
    <3> HIDE DEF y
    <3> QED BY <1>2, <1>6, <2>2, <3>1, <3>2, RowChanged
  <2> QED BY <2>1, <2>2
<1>8. /\ episodes' \in Seq(Episodes) /\ Len(episodes') = Len(episodes)
      /\ \A f \in 1..Len(episodes) :
          /\ episodes'[f].category = episodes[f].category
          /\ episodes'[f].retain = episodes[f].retain
          /\ episodes'[f].line = episodes[f].line
          /\ episodes'[f].status = IF f = e THEN StatusAfter(e, outcome) ELSE episodes[f].status
  <2> DEFINE y == [episodes[e] EXCEPT !.status = StatusAfter(e, outcome)]
  <2>1. episodes' = [episodes EXCEPT ![e] = y]
    BY <1>1 DEF InsertDecision
  <2>2. episodes[e] \in Episodes
    BY <1>2, <1>6, Rows
  <2>3. StatusAfter(e, outcome) \in EpisodeStatuses
    BY <2>2 DEF StatusAfter, EpisodeStatuses, Episodes
  <2>4. /\ y \in Episodes /\ y.status = StatusAfter(e, outcome) /\ y.line = episodes[e].line
        /\ y.category = episodes[e].category /\ y.retain = episodes[e].retain
    BY <2>2, <2>3 DEF Episodes
  <2> HIDE DEF y
  <2> QED BY <1>2, <1>6, <2>1, <2>4, RowChanged
<1>9. DecisionMade(n, e, p, outcome)
  BY <1>4, <1>5, <1>6, <1>7, <1>8 DEF DecisionMade
<1> QED BY <1>9

(* An event gets the next number of its episode. *)
LEMMA MaxOfInterval == ASSUME NEW n \in Nat PROVE Max({0} \cup 1..n) = n
<1> DEFINE S == {0} \cup 1..n
<1>1. n \in S /\ \A y \in S : n >= y
  OBVIOUS
<1>2. \A x \in S : (\A y \in S : x >= y) => x = n
  OBVIOUS
<1> HIDE DEF S
<1> QED BY <1>1, <1>2 DEF Max, S

LEMMA EventAdded ==
    ASSUME Typed, Numbered, NEW e, NEW kind, NEW ref, AppendEvent(e, kind, ref),
           Len(episodes') = Len(episodes)
    PROVE  /\ Numbered'
           /\ e \in 1..Len(episodes)
           /\ Event(e, kind, ref) \notin events
           /\ events' = events \cup {Event(e, kind, ref)}
           /\ Event(e, kind, ref).episode = e /\ Event(e, kind, ref).kind = kind
           /\ Event(e, kind, ref).ref = ref
<1> DEFINE n == Cardinality(EventsOf(e))
           v == Event(e, kind, ref)
<1>1. e \in 1..Len(episodes) /\ Len(episodes) \in Nat
  BY Rows DEF AppendEvent, Typed
<1>2. events' = events \cup {v} /\ Cardinality(events) < MaxEvents
  BY DEF AppendEvent
<1>3. \A f : EventsOf(f) \subseteq events /\ IsFiniteSet(EventsOf(f))
  BY FS_Subset DEF EventsOf, Numbered
<1>4. n \in Nat /\ Cardinality(events) \in Nat
  BY <1>3, FS_CardinalityType DEF Numbered
<1>5. {u.sequence : u \in EventsOf(e)} = 1..n
  BY <1>1 DEF Numbered
<1>6. NextSequence(e) = n + 1
  BY <1>4, <1>5, MaxOfInterval DEF NextSequence
<1>7. v.episode = e /\ v.sequence = n + 1 /\ v.kind = kind /\ v.ref = ref
  BY <1>6 DEF Event
<1> HIDE DEF v, n
<1>8. v \notin events
  <2>1. ASSUME v \in events PROVE FALSE
    <3>1. v \in EventsOf(e)
      BY <1>7, <2>1 DEF EventsOf
    <3>2. n + 1 \in 1..n
      BY <1>5, <1>7, <3>1
    <3> QED BY <1>4, <3>2
  <2> QED BY <2>1
<1>9. IsFiniteSet(events') /\ Cardinality(events') <= MaxEvents
  <2>1. IsFiniteSet(events)
    BY DEF Numbered
  <2>2. IsFiniteSet(events \cup {v}) /\ Cardinality(events \cup {v}) = Cardinality(events) + 1
    BY <1>8, <2>1, FS_AddElement
  <2> QED BY <1>2, <1>4, <2>2, Counts
<1>10. \A u \in events' : u.episode \in 1..Len(episodes')
  BY <1>1, <1>2, <1>7 DEF Numbered
<1>11. ASSUME NEW f \in 1..Len(episodes')
       PROVE  {u.sequence : u \in EventsOf(f)'} = 1..Cardinality(EventsOf(f)')
  <2>1. CASE f # e
    <3>1. EventsOf(f)' = EventsOf(f)
      BY <1>2, <1>7, <2>1 DEF EventsOf
    <3> QED BY <1>11, <3>1 DEF Numbered
  <2>2. CASE f = e
    <3>1. EventsOf(f)' = EventsOf(e) \cup {v}
      BY <1>2, <1>7, <2>2 DEF EventsOf
    <3>2. v \notin EventsOf(e)
      BY <1>8 DEF EventsOf
    <3>3. Cardinality(EventsOf(e) \cup {v}) = n + 1
      BY <1>3, <3>2, FS_AddElement DEF n
    <3>4. {u.sequence : u \in EventsOf(e) \cup {v}} = 1..n \cup {n + 1}
      BY <1>5, <1>7
    <3>5. 1..n \cup {n + 1} = 1..(n + 1)
      BY <1>4
    <3> QED BY <3>1, <3>3, <3>4, <3>5
  <2> QED BY <2>1, <2>2
<1>12. Numbered'
  BY <1>9, <1>10, <1>11 DEF Numbered
<1> QED BY <1>1, <1>2, <1>7, <1>8, <1>12 DEF v

(* The log of a kind of rows stays complete when a row comes with its event, *)
(* and when an event of another kind comes or none.                          *)
LEMMA LoggedRow ==
    ASSUME NEW kind, NEW rows, NEW rows2, NEW log, NEW v, Logged(kind, rows, log),
           Len(rows) \in Nat, Len(rows2) = Len(rows) + 1,
           \A r \in 1..Len(rows) : rows2[r].episode = rows[r].episode,
           v.kind = kind, v.ref = Len(rows) + 1, v.episode = rows2[Len(rows) + 1].episode
    PROVE  Logged(kind, rows2, log \cup {v})
  BY DEF Logged

LEMMA LoggedOther ==
    ASSUME NEW kind, NEW rows, NEW rows2, NEW log, NEW log2, Logged(kind, rows, log),
           Len(rows2) = Len(rows),
           \A r \in 1..Len(rows) : rows2[r].episode = rows[r].episode,
           log \subseteq log2, \A v \in log2 : v.kind = kind => v \in log
    PROVE  Logged(kind, rows2, log2)
  BY DEF Logged

-----------------------------------------------------------------------------
(* Growth *)

Grows ==
    /\ Len(episodes) <= Len(episodes') /\ Len(proposals) <= Len(proposals')
    /\ Len(validations) <= Len(validations') /\ Len(decisions) <= Len(decisions')
    /\ \A e \in 1..Len(episodes) :
        /\ episodes'[e].category = episodes[e].category
        /\ episodes'[e].retain = episodes[e].retain
        /\ episodes'[e].line = episodes[e].line
    /\ \A p \in 1..Len(proposals) :
        /\ proposals'[p].episode = proposals[p].episode
        /\ proposals'[p].historical = proposals[p].historical
    /\ \A v \in 1..Len(validations) : validations'[v] = validations[v]
    /\ \A d \in 1..Len(decisions) : decisions'[d] = decisions[d]
    /\ events \subseteq events' /\ casFiles \subseteq casFiles' /\ casRows \subseteq casRows'
    /\ clock <= clock'

LEMMA Lengths ==
    ASSUME Typed
    PROVE  /\ Len(episodes) \in Nat /\ Len(proposals) \in Nat
           /\ Len(validations) \in Nat /\ Len(decisions) \in Nat
           /\ clock \in Nat
  BY Counts DEF Typed

LEMMA Growth == ASSUME Typed, Numbered, Shape PROVE Typed' /\ Grows
<1> USE Lengths
<1>0. clock' \in 0..MaxTime /\ clock <= clock'
  BY DEF Shape
<1>1. CASE NewEpisode
  <2>1. UNCHANGED <<events, proposals, validations, decisions, casRows, casFiles>>
    BY <1>1 DEF NewEpisode
  <2> QED BY <1>0, <1>1, <2>1, EpisodeAdded, SMTT(30) DEF Typed, Grows
<1>2. CASE NewEvent
  <2>1. /\ UNCHANGED <<episodes, proposals, validations, decisions, casRows, casFiles>>
        /\ events \subseteq events'
    BY <1>2 DEF NewEvent, AppendEvent
  <2> QED BY <1>0, <2>1 DEF Typed, Grows
<1>3. CASE NewProposal
  <2>1. /\ UNCHANGED <<episodes, validations, decisions, casRows, casFiles>>
        /\ events \subseteq events'
    BY <1>3 DEF NewProposal, InsertProposal, AppendEvent
  <2> QED BY <1>0, <1>3, <2>1, ProposalAdded, SMTT(30) DEF Typed, Grows
<1>4. CASE NewValidation
  <2>1. /\ UNCHANGED <<episodes, proposals, decisions, casRows, casFiles>>
        /\ events \subseteq events'
    BY <1>4 DEF NewValidation, InsertValidation, AppendEvent
  <2> QED BY <1>0, <1>4, <2>1, ValidationAdded DEF Typed, Grows
<1>5. CASE NewDecision
  <2>1. /\ UNCHANGED <<validations, casRows, casFiles>>
        /\ events \subseteq events'
    BY <1>5 DEF NewDecision, InsertDecision, AppendEvent
  <2>2. PICK n, e, p, outcome : DecisionMade(n, e, p, outcome)
    BY <1>5, DecisionAdded
  <2>3. /\ decisions' \in Seq(Decisions) /\ Len(decisions') = Len(decisions) + 1
        /\ \A d \in 1..Len(decisions) : decisions'[d] = decisions[d]
        /\ proposals' \in Seq(Proposals) /\ Len(proposals') = Len(proposals)
        /\ \A q \in 1..Len(proposals) :
            /\ proposals'[q].episode = proposals[q].episode
            /\ proposals'[q].historical = proposals[q].historical
    BY <2>2 DEF DecisionMade
  <2>4. /\ episodes' \in Seq(Episodes) /\ Len(episodes') = Len(episodes)
        /\ \A f \in 1..Len(episodes) :
            /\ episodes'[f].category = episodes[f].category
            /\ episodes'[f].retain = episodes[f].retain
            /\ episodes'[f].line = episodes[f].line
    BY <2>2 DEF DecisionMade
  <2> QED BY <1>0, <2>1, <2>3, <2>4 DEF Typed, Grows
<1>6. CASE NewObject
  BY <1>0, <1>6 DEF NewObject, Typed, Grows
<1>7. CASE NewMark \/ UNCHANGED <<tables, casFiles>>
  <2>1. UNCHANGED <<episodes, events, proposals, validations, decisions, casRows, casFiles>>
    BY <1>7 DEF NewMark, tables
  <2> QED BY <1>0, <2>1 DEF Typed, Grows
<1> QED BY <1>1, <1>2, <1>3, <1>4, <1>5, <1>6, <1>7 DEF Shape

-----------------------------------------------------------------------------
(* The parts of the invariant, against each shape *)

LEMMA ReferencesStep == ASSUME Typed, Numbered, References, Shape PROVE References'
<1> USE Lengths
<1>1. Grows
  BY Growth
<1>2. CASE NewEpisode
  <2>1. UNCHANGED <<proposals, validations, decisions>> /\ Len(episodes') = Len(episodes) + 1
    BY <1>2, EpisodeAdded DEF NewEpisode
  <2> QED BY <2>1 DEF References
<1>3. CASE NewEvent \/ NewObject \/ NewMark \/ UNCHANGED <<tables, casFiles>>
  <2>1. UNCHANGED <<episodes, proposals, validations, decisions>>
    BY <1>3 DEF NewEvent, NewObject, NewMark, tables
  <2> QED BY <2>1 DEF References
<1>4. CASE NewProposal
  <2>1. UNCHANGED <<episodes, validations, decisions>>
    BY <1>4 DEF NewProposal
  <2>2. proposals'[Len(proposals) + 1].episode \in 1..Len(episodes)
    BY <1>4, ProposalAdded, Rows DEF AppendEvent, Typed
  <2>3. /\ Len(proposals') = Len(proposals) + 1
        /\ \A p \in 1..Len(proposals) : proposals'[p] = proposals[p]
        /\ \A p \in 1..Len(proposals') : p \in 1..Len(proposals) \/ p = Len(proposals) + 1
        /\ \A p \in 1..Len(proposals) : p \in 1..Len(proposals')
    BY <1>4, ProposalAdded
  <2> QED BY <2>1, <2>2, <2>3 DEF References
<1>5. CASE NewValidation
  <2>1. UNCHANGED <<episodes, proposals, decisions>>
    BY <1>5 DEF NewValidation
  <2>2. LET n == Len(validations) + 1 IN
        validations'[n].proposal # 0 =>
            /\ validations'[n].proposal \in 1..Len(proposals)
            /\ proposals[validations'[n].proposal].episode = validations'[n].episode
    BY <1>5, ValidationAdded, Rows DEF OwnProposal, Typed
  <2>3. ASSUME NEW v \in 1..Len(validations'), validations'[v].proposal # 0
        PROVE  /\ validations'[v].proposal \in 1..Len(proposals)
               /\ proposals[validations'[v].proposal].episode = validations'[v].episode
    <3>1. CASE v \in 1..Len(validations)
      BY <1>5, <2>3, <3>1, ValidationAdded DEF References
    <3>2. CASE v = Len(validations) + 1
      BY <2>2, <2>3, <3>2
    <3> QED BY <1>5, <3>1, <3>2, ValidationAdded
  <2> QED BY <2>1, <2>3 DEF References
<1>6. CASE NewDecision
  <2>1. UNCHANGED validations
    BY <1>6 DEF NewDecision
  <2>2. PICK n, e, p, outcome : DecisionMade(n, e, p, outcome)
    BY <1>6, DecisionAdded
  <2>3. /\ e \in 1..Len(episodes)
        /\ p # 0 => p \in 1..Len(proposals) /\ proposals[p].episode = e
    BY <2>2 DEF DecisionMade, MayDecide, OwnProposal
  <2>4. /\ Len(episodes') = Len(episodes) /\ Len(proposals') = Len(proposals)
        /\ \A q \in 1..Len(proposals) : proposals'[q].episode = proposals[q].episode
        /\ \A d \in 1..Len(decisions) : decisions'[d] = decisions[d]
        /\ \A d \in 1..Len(decisions') : d \in 1..Len(decisions) \/ d = n
        /\ decisions'[n].episode = e /\ decisions'[n].proposal = p
    BY <2>2 DEF DecisionMade
  <2>5. ASSUME NEW d \in 1..Len(decisions')
        PROVE  /\ decisions'[d].episode \in 1..Len(episodes')
               /\ decisions'[d].proposal # 0 =>
                   /\ decisions'[d].proposal \in 1..Len(proposals')
                   /\ proposals'[decisions'[d].proposal].episode = decisions'[d].episode
    <3>1. CASE d = n
      BY <2>3, <2>4, <3>1
    <3>2. CASE d \in 1..Len(decisions)
      <4>1. decisions'[d] = decisions[d]
        BY <2>4, <3>2
      <4>2. /\ decisions[d].episode \in 1..Len(episodes)
            /\ decisions[d].proposal # 0 =>
                /\ decisions[d].proposal \in 1..Len(proposals)
                /\ proposals[decisions[d].proposal].episode = decisions[d].episode
        BY <3>2 DEF References
      <4>3. decisions[d].proposal # 0 =>
                proposals'[decisions[d].proposal].episode = decisions[d].episode
        BY <2>4, <4>2
      <4> QED BY <2>4, <4>1, <4>2, <4>3
    <3> QED BY <2>4, <3>1, <3>2
  <2>6. /\ \A q \in 1..Len(proposals') : proposals'[q].episode \in 1..Len(episodes')
        /\ \A v \in 1..Len(validations) :
            validations[v].proposal # 0 =>
                /\ validations[v].proposal \in 1..Len(proposals')
                /\ proposals'[validations[v].proposal].episode = validations[v].episode
    BY <2>4 DEF References
  <2> QED BY <2>1, <2>5, <2>6 DEF References
<1> QED BY <1>2, <1>3, <1>4, <1>5, <1>6 DEF Shape

LEMMA EventLogStep == ASSUME Typed, EventLog, Shape PROVE EventLog'
<1> USE Lengths DEF EventLog
<1>1. CASE NewEpisode
  <2>1. UNCHANGED <<events, proposals, validations, decisions>>
    BY <1>1 DEF NewEpisode
  <2>2. Numbered'
    <3>1. \A e \in 1..Len(episodes) : e \in 1..Len(episodes')
      BY <1>1, EpisodeAdded
    <3>2. EventsOf(Len(episodes) + 1) = {}
      BY DEF EventsOf, Numbered
    <3>3. 1..Cardinality({}) = {}
      BY FS_EmptySet
    <3>4. {v.sequence : v \in EventsOf(Len(episodes) + 1)}
            = 1..Cardinality(EventsOf(Len(episodes) + 1))
      BY <3>2, <3>3
    <3>5. \A e : EventsOf(e)' = EventsOf(e)
      BY <2>1 DEF EventsOf
    <3> QED BY <1>1, <2>1, <3>1, <3>4, <3>5, EpisodeAdded DEF Numbered
  <2> QED BY <2>1, <2>2
<1>2. CASE NewObject \/ NewMark \/ UNCHANGED <<tables, casFiles>>
  <2>1. UNCHANGED <<episodes, events, proposals, validations, decisions>>
    BY <1>2 DEF NewObject, NewMark, tables
  <2> QED BY <2>1 DEF Numbered, EventsOf
<1>3. CASE NewEvent
  <2>1. UNCHANGED <<episodes, proposals, validations, decisions>>
    BY <1>3 DEF NewEvent
  <2>2. PICK e, kind, ref : kind \in {"note", "legacy_import", "capture"} /\ AppendEvent(e, kind, ref)
    BY <1>3 DEF NewEvent
  <2>3. /\ Numbered' /\ events' = events \cup {Event(e, kind, ref)}
        /\ Event(e, kind, ref).kind = kind
    BY <2>1, <2>2, EventAdded
  <2>4. ASSUME NEW k \in {"proposal", "validation", "decision"}, NEW rows, Logged(k, rows, events)
        PROVE  Logged(k, rows, events')
    BY <2>2, <2>3, <2>4, LoggedOther
  <2> QED BY <2>1, <2>3, <2>4
<1>4. CASE NewProposal
  <2>1. UNCHANGED <<episodes, validations, decisions>>
    BY <1>4 DEF NewProposal
  <2> DEFINE e == proposals'[Len(proposals) + 1].episode
             v == Event(e, "proposal", Len(proposals) + 1)
  <2>2. /\ Numbered' /\ events' = events \cup {v}
        /\ v.kind = "proposal" /\ v.ref = Len(proposals) + 1 /\ v.episode = e
    BY <1>4, <2>1, ProposalAdded, EventAdded
  <2>3. Logged("proposal", proposals', events')
    <3>1. /\ Len(proposals') = Len(proposals) + 1
          /\ \A r \in 1..Len(proposals) : proposals'[r].episode = proposals[r].episode
      BY <1>4, ProposalAdded
    <3> HIDE DEF v
    <3> QED BY <2>2, <3>1, LoggedRow
  <2>4. ASSUME NEW k \in {"validation", "decision"}, NEW rows, Logged(k, rows, events)
        PROVE  Logged(k, rows, events')
    BY <2>2, <2>4, LoggedOther
  <2> QED BY <2>1, <2>2, <2>3, <2>4
<1>5. CASE NewValidation
  <2>1. UNCHANGED <<episodes, proposals, decisions>>
    BY <1>5 DEF NewValidation
  <2> DEFINE e == validations'[Len(validations) + 1].episode
             v == Event(e, "validation", Len(validations) + 1)
  <2>2. /\ Numbered' /\ events' = events \cup {v}
        /\ v.kind = "validation" /\ v.ref = Len(validations) + 1 /\ v.episode = e
    BY <1>5, <2>1, ValidationAdded, EventAdded
  <2>3. Logged("validation", validations', events')
    <3>1. /\ Len(validations') = Len(validations) + 1
          /\ \A r \in 1..Len(validations) : validations'[r].episode = validations[r].episode
      BY <1>5, ValidationAdded
    <3> HIDE DEF v
    <3> QED BY <2>2, <3>1, LoggedRow
  <2>4. ASSUME NEW k \in {"proposal", "decision"}, NEW rows, Logged(k, rows, events)
        PROVE  Logged(k, rows, events')
    BY <2>2, <2>4, LoggedOther
  <2> QED BY <2>1, <2>2, <2>3, <2>4
<1>6. CASE NewDecision
  <2>1. UNCHANGED validations
    BY <1>6 DEF NewDecision
  <2>2. PICK n, e, p, outcome : DecisionMade(n, e, p, outcome)
    BY <1>6, DecisionAdded
  <2>3. /\ Numbered' /\ events' = events \cup {Event(e, "decision", n)}
        /\ Event(e, "decision", n).kind = "decision" /\ Event(e, "decision", n).ref = n
        /\ Event(e, "decision", n).episode = e
    BY <2>2, EventAdded DEF DecisionMade
  <2>4. Logged("decision", decisions', events')
    <3>1. /\ Len(decisions') = Len(decisions) + 1 /\ n = Len(decisions) + 1
          /\ \A r \in 1..Len(decisions) : decisions'[r].episode = decisions[r].episode
          /\ decisions'[n].episode = e
      BY <2>2 DEF DecisionMade
    <3> QED BY <2>3, <3>1, LoggedRow
  <2>5. Logged("proposal", proposals', events')
    <3>1. /\ Len(proposals') = Len(proposals)
          /\ \A r \in 1..Len(proposals) : proposals'[r].episode = proposals[r].episode
      BY <2>2 DEF DecisionMade
    <3> QED BY <2>3, <3>1, LoggedOther
  <2>6. Logged("validation", validations', events')
    BY <2>1, <2>3, LoggedOther
  <2> QED BY <2>3, <2>4, <2>5, <2>6
<1> QED BY <1>1, <1>2, <1>3, <1>4, <1>5, <1>6 DEF Shape

LEMMA TimingStep == ASSUME Typed, Numbered, Timing, Shape PROVE Timing'
<1> USE Lengths
<1>1. clock' \in Nat /\ clock <= clock'
  BY Growth, Lengths DEF Shape
<1>2. \A v \in 1..Len(validations) :
        /\ validations[v].at \in Nat /\ validations[v].began \in Nat
  <2>1. \A v \in 1..Len(validations) : validations[v] \in Validations
    BY Rows DEF Typed
  <2> QED BY <2>1, Counts DEF Validations
<1>3. CASE NewValidation
  <2> DEFINE n == Len(validations) + 1
  <2>1. /\ Len(validations') = n
        /\ \A v \in 1..Len(validations) : validations'[v] = validations[v]
        /\ \A v \in 1..Len(validations') : v \in 1..Len(validations) \/ v = n
        /\ validations'[n].at <= clock /\ validations'[n].began < n
        /\ \/ validations'[n].passed
           \/ \A v \in 1..validations'[n].began : validations[v].at <= validations'[n].at
        /\ validations' \in Seq(Validations)
    BY <1>3, ValidationAdded
  <2>2. validations'[n].at \in Nat /\ validations'[n].began \in Nat
    <3>1. n \in 1..Len(validations')
      BY <2>1
    <3>2. validations'[n] \in Validations
      BY <2>1, <3>1, Rows
    <3> QED BY <3>2, Counts DEF Validations
  <2>3. ASSUME NEW v \in 1..Len(validations')
        PROVE  validations'[v].at <= clock' /\ validations'[v].began < v
    <3>1. validations'[v].at <= clock /\ validations'[v].began < v /\ validations'[v].at \in Nat
      BY <1>2, <2>1, <2>2, <2>3 DEF Timing
    <3> QED BY <1>1, <3>1
  <2>4. ASSUME NEW v \in 1..Len(validations'), NEW f \in 1..Len(validations'),
               validations'[f].began >= v
        PROVE  validations'[f].passed \/ validations'[v].at <= validations'[f].at
    <3>1. CASE f = n
      <4>1. v \in 1..Len(validations) /\ v \in 1..validations'[n].began
        BY <2>1, <2>2, <2>4, <3>1
      <4> QED BY <2>1, <3>1, <4>1
    <3>2. CASE f \in 1..Len(validations)
      <4>1. v \in 1..Len(validations)
        BY <1>2, <2>1, <2>4, <3>2 DEF Timing
      <4> QED BY <2>1, <2>4, <3>2, <4>1 DEF Timing
    <3> QED BY <2>1, <3>1, <3>2
  <2> QED BY <2>3, <2>4 DEF Timing
<1>4. CASE UNCHANGED validations
  <2>1. \A v \in 1..Len(validations) : validations[v].at <= clock'
    BY <1>1, <1>2 DEF Timing
  <2> QED BY <1>4, <2>1 DEF Timing
<1> QED
  BY <1>3, <1>4
  DEF Shape, NewEpisode, NewEvent, NewProposal, NewDecision, NewObject, NewMark, tables

(* A pass that the latest validation of a proposal is not overturned. *)
LEMMA LatestIsProof ==
    ASSUME Typed, References, Timing, NEW e, NEW p, p # 0, OwnProposal(e, p), LatestPassed(e, p)
    PROVE  LET known == {v \in 1..Len(validations) : validations[v].proposal = p} IN
           \E v \in known :
            /\ validations[v].passed
            /\ \A f \in known : validations[f].began >= v => validations[f].passed
<1> DEFINE known == {v \in 1..Len(validations) : validations[v].proposal = p}
<1>1. DOMAIN validations = 1..Len(validations)
  BY Rows DEF Typed
<1>2. ValidationsOf(e, p) = known
  BY <1>1 DEF ValidationsOf, References, OwnProposal
<1>3. PICK v \in known :
        /\ validations[v].passed
        /\ \A u \in known : \/ validations[u].at < validations[v].at
                            \/ validations[u].at = validations[v].at /\ u <= v
  BY <1>2 DEF LatestPassed
<1>4. ASSUME NEW f \in known, validations[f].began >= v, ~validations[f].passed PROVE FALSE
  <2>1. validations[f] \in Validations /\ validations[v] \in Validations
    BY Rows DEF Typed
  <2>2. /\ validations[f].at \in Nat /\ validations[v].at \in Nat /\ validations[f].began \in Nat
        /\ f \in Nat /\ v \in Nat
    BY <2>1, Counts DEF Validations
  <2>3. validations[v].at <= validations[f].at /\ validations[f].began < f
    BY <1>4 DEF Timing
  <2>4. f <= v
    BY <1>3, <2>2, <2>3
  <2> QED BY <1>4, <2>2, <2>3, <2>4
<1> QED BY <1>3, <1>4

LEMMA AcceptancesStep ==
    ASSUME Typed, Numbered, References, Timing, Acceptances, Shape PROVE Acceptances'
<1> USE Lengths
<1>1. Grows
  BY Growth
<1>2. ASSUME NEW d \in 1..Len(decisions), decisions'[d] = decisions[d]
      PROVE  /\ decisions'[d].seen <= Len(validations')
             /\ decisions'[d].outcome = "accepted" => Proven(d)'
  <2>1. Len(validations') \in Nat
    BY Growth, Rows DEF Typed
  <2>2. decisions[d] \in Decisions
    BY Rows DEF Typed
  <2>3. decisions[d].seen \in Nat /\ decisions[d].seen <= Len(validations)
    BY <2>2 DEF Acceptances, Decisions
  <2>4. \A v \in 1..decisions[d].seen : v \in 1..Len(validations) /\ validations'[v] = validations[v]
    BY <1>1, <2>3, SMTT(30) DEF Grows
  <2>5. ASSUME decisions[d].outcome = "accepted" PROVE Proven(d)'
    <3>1. Proven(d)
      BY <2>5 DEF Acceptances
    <3>2. decisions[d].proposal \in 1..Len(proposals)
      BY <3>1 DEF Proven, References
    <3>3. proposals'[decisions[d].proposal].historical = proposals[decisions[d].proposal].historical
      BY <1>1, <3>2 DEF Grows
    <3> QED BY <1>2, <2>4, <3>1, <3>3 DEF Proven
  <2>6. decisions[d].seen <= Len(validations')
    BY <1>1, <2>1, <2>3 DEF Grows
  <2> QED BY <1>2, <2>5, <2>6
<1>3. CASE UNCHANGED decisions
  BY <1>2, <1>3 DEF Acceptances
<1>4. CASE NewDecision
  <2>1. UNCHANGED validations
    BY <1>4 DEF NewDecision
  <2>2. PICK n, e, p, outcome : DecisionMade(n, e, p, outcome)
    BY <1>4, DecisionAdded
  <2>3. /\ decisions'[n].proposal = p /\ decisions'[n].outcome = outcome
        /\ decisions'[n].seen = Len(validations)
    BY <2>2 DEF DecisionMade
  <2>4. ASSUME outcome = "accepted" PROVE Proven(n)'
    <3>1. p # 0 /\ OwnProposal(e, p) /\ ~proposals[p].historical /\ LatestPassed(e, p)
      BY <2>2, <2>4 DEF DecisionMade, MayDecide
    <3>2. proposals'[p].historical = proposals[p].historical
      BY <2>2, <3>1 DEF DecisionMade
    <3>3. LET known == {v \in 1..Len(validations) : validations[v].proposal = p} IN
           \E v \in known :
            /\ validations[v].passed
            /\ \A f \in known : validations[f].began >= v => validations[f].passed
      BY <3>1, LatestIsProof
    <3> QED BY <2>1, <2>3, <3>1, <3>2, <3>3 DEF Proven
  <2>5. \A d \in 1..Len(decisions') : d = n \/ (d \in 1..Len(decisions) /\ decisions'[d] = decisions[d])
    BY <2>2 DEF DecisionMade
  <2> QED BY <1>2, <2>1, <2>3, <2>4, <2>5 DEF Acceptances
<1> QED
  BY <1>3, <1>4
  DEF Shape, NewEpisode, NewEvent, NewProposal, NewValidation, NewObject, NewMark, tables

(* What the status of a row rests on, as long as nothing is decided on it. *)
ProposalStanding(p) ==
    \/ /\ \A d \in 1..Len(decisions) : decisions[d].proposal # p
       /\ proposals[p].status =
            IF proposals[p].historical THEN "historical_candidate" ELSE "candidate"
    \/ \E d \in 1..Len(decisions) : LastOn(p, d) /\ proposals[p].status = decisions[d].outcome

EpisodeStanding(e) ==
    \/ /\ \A d \in 1..Len(decisions) : ~Bears(d, e)
       /\ episodes[e].status = IF episodes[e].line = 0 THEN "open" ELSE "historical"
    \/ \E d \in 1..Len(decisions) :
        /\ LastFor(e, d)
        /\ episodes[e].status = IF decisions[d].outcome \in Final THEN "decided" ELSE "open"

LEMMA StatusesByRow ==
    Statuses <=> /\ \A p \in 1..Len(proposals) : ProposalStanding(p)
                 /\ \A e \in 1..Len(episodes) : EpisodeStanding(e)
  BY DEF Statuses, ProposalStanding, EpisodeStanding

LEMMA StatusesStep == ASSUME Typed, Numbered, References, Statuses, Shape PROVE Statuses'
<1> USE Lengths
<1>1. CASE NewDecision
  <2>1. PICK n, e, p, outcome : DecisionMade(n, e, p, outcome)
    BY <1>1, DecisionAdded
  <2>2. /\ n = Len(decisions) + 1 /\ Len(decisions') = n /\ n \in 1..n
        /\ \A d \in 1..Len(decisions) : decisions'[d] = decisions[d] /\ d \in 1..n /\ d <= n
        /\ \A d \in 1..n : d \in 1..Len(decisions) \/ d = n
        /\ decisions'[n].proposal = p /\ decisions'[n].episode = e
        /\ decisions'[n].outcome = outcome
        /\ n <= n /\ n \notin 1..Len(decisions)
    BY <2>1 DEF DecisionMade
  <2>3. ASSUME NEW q \in 1..Len(proposals) PROVE ProposalStanding(q)'
    <3>1. CASE q = p
      <4>1. LastOn(q, n)'
        BY <2>2, <3>1 DEF LastOn
      <4>2. proposals'[q].status = outcome
        BY <2>1, <3>1 DEF DecisionMade
      <4> QED BY <2>2, <4>1, <4>2 DEF ProposalStanding
    <3>2. CASE q # p
      <4>1. proposals'[q].status = proposals[q].status
            /\ proposals'[q].historical = proposals[q].historical
        BY <2>1, <3>2 DEF DecisionMade
      <4>2. \A d \in 1..Len(decisions) : LastOn(q, d) => LastOn(q, d)'
        BY <2>2, <3>2 DEF LastOn
      <4>3. ProposalStanding(q)
        BY StatusesByRow
      <4>4. CASE \A d \in 1..Len(decisions) : decisions[d].proposal # q
        BY <2>2, <3>2, <4>1, <4>3, <4>4 DEF ProposalStanding, LastOn
      <4>5. CASE \E d \in 1..Len(decisions) :
                   LastOn(q, d) /\ proposals[q].status = decisions[d].outcome
        BY <2>2, <4>1, <4>2, <4>5 DEF ProposalStanding
      <4> QED BY <4>3, <4>4, <4>5 DEF ProposalStanding
    <3> QED BY <3>1, <3>2
  <2>4. ASSUME NEW f \in 1..Len(episodes) PROVE EpisodeStanding(f)'
    <3>1. /\ episodes'[f].line = episodes[f].line
          /\ episodes'[f].status = IF f = e THEN StatusAfter(e, outcome) ELSE episodes[f].status
      BY <2>1 DEF DecisionMade
    <3>2. CASE f = e /\ outcome # "historical_candidate"
      <4>1. LastFor(f, n)'
        BY <2>2, <3>2 DEF LastFor, Bears
      <4>2. episodes'[f].status = IF outcome \in Final THEN "decided" ELSE "open"
        BY <3>1, <3>2 DEF StatusAfter, Final
      <4> QED BY <2>2, <4>1, <4>2 DEF EpisodeStanding
    <3>3. CASE ~(f = e /\ outcome # "historical_candidate")
      <4>1. episodes'[f].status = episodes[f].status
        BY <3>1, <3>3 DEF StatusAfter
      <4>2. ~Bears(n, f)' /\ \A d \in 1..Len(decisions) : Bears(d, f)' <=> Bears(d, f)
        BY <2>2, <3>3 DEF Bears
      <4>3. \A d \in 1..Len(decisions) : LastFor(f, d) => LastFor(f, d)'
        BY <2>2, <4>2 DEF LastFor
      <4>4. EpisodeStanding(f)
        BY StatusesByRow
      <4>5. CASE \A d \in 1..Len(decisions) : ~Bears(d, f)
        <5>1. \A d \in 1..Len(decisions') : ~Bears(d, f)'
          BY <2>2, <4>2, <4>5
        <5>2. episodes[f].status = IF episodes[f].line = 0 THEN "open" ELSE "historical"
          BY <4>4, <4>5 DEF EpisodeStanding, LastFor
        <5> QED BY <3>1, <4>1, <5>1, <5>2 DEF EpisodeStanding
      <4>6. CASE \E d \in 1..Len(decisions) :
                   /\ LastFor(f, d)
                   /\ episodes[f].status = IF decisions[d].outcome \in Final THEN "decided" ELSE "open"
        BY <2>2, <4>1, <4>3, <4>6 DEF EpisodeStanding
      <4> QED BY <4>4, <4>5, <4>6 DEF EpisodeStanding
    <3> QED BY <3>2, <3>3
  <2>5. Len(proposals') = Len(proposals) /\ Len(episodes') = Len(episodes)
    BY <2>1 DEF DecisionMade
  <2>6. /\ \A q \in 1..Len(proposals') : ProposalStanding(q)'
        /\ \A f \in 1..Len(episodes') : EpisodeStanding(f)'
    BY <2>3, <2>4, <2>5
  <2> QED BY <2>6 DEF Statuses, ProposalStanding, EpisodeStanding
<1>2. CASE NewProposal
  <2>1. UNCHANGED <<episodes, decisions>>
    BY <1>2 DEF NewProposal
  <2>0. PICK n : n = Len(proposals) + 1
    OBVIOUS
  <2>2. ASSUME NEW q \in 1..Len(proposals) PROVE ProposalStanding(q)'
    <3>1. proposals'[q] = proposals[q]
      BY <1>2, ProposalAdded
    <3> QED BY <2>1, <3>1, StatusesByRow, ZenonT(40) DEF ProposalStanding, LastOn
  <2>3. ProposalStanding(n)'
    <3>1. proposals'[n].status = IF proposals'[n].historical THEN "historical_candidate"
                                 ELSE "candidate"
      BY <1>2, <2>0, ProposalAdded
    <3>2. \A d \in 1..Len(decisions) : decisions[d].proposal # n
      BY <2>0 DEF References
    <3> QED BY <2>1, <3>1, <3>2 DEF ProposalStanding
  <2>4. \A q \in 1..Len(proposals') : q \in 1..Len(proposals) \/ q = n
    BY <1>2, <2>0, ProposalAdded
  <2>5. \A q \in 1..Len(proposals') : ProposalStanding(q)'
    BY <2>2, <2>3, <2>4
  <2> QED BY <2>1, <2>5, ZenonT(40) DEF Statuses, ProposalStanding, LastFor, Bears
<1>3. CASE NewEpisode
  <2>1. UNCHANGED <<proposals, decisions>>
    BY <1>3 DEF NewEpisode
  <2>0. PICK n : n = Len(episodes) + 1
    OBVIOUS
  <2>2. ASSUME NEW f \in 1..Len(episodes) PROVE EpisodeStanding(f)'
    <3>1. episodes'[f] = episodes[f]
      BY <1>3, EpisodeAdded
    <3>2. EpisodeStanding(f)
      BY StatusesByRow
    <3>3. \A d : (LastFor(f, d)' <=> LastFor(f, d)) /\ (Bears(d, f)' <=> Bears(d, f))
      BY <2>1 DEF LastFor, Bears
    <3> QED BY <2>1, <3>1, <3>2, <3>3 DEF EpisodeStanding
  <2>3. EpisodeStanding(n)'
    <3>1. episodes'[n].status = IF episodes'[n].line = 0 THEN "open" ELSE "historical"
      BY <1>3, <2>0, EpisodeAdded
    <3>2. \A d \in 1..Len(decisions) : ~Bears(d, n)
      BY <2>0 DEF References, Bears
    <3> QED BY <2>1, <3>1, <3>2 DEF EpisodeStanding, Bears
  <2>4. \A f \in 1..Len(episodes') : f \in 1..Len(episodes) \/ f = n
    BY <1>3, <2>0, EpisodeAdded
  <2>5. \A f \in 1..Len(episodes') : EpisodeStanding(f)'
    BY <2>2, <2>3, <2>4
  <2> QED BY <2>1, <2>5 DEF Statuses, EpisodeStanding, LastOn
<1>4. CASE UNCHANGED <<episodes, proposals, decisions>>
  <2>1. \A q, d : LastOn(q, d)' <=> LastOn(q, d)
    BY <1>4 DEF LastOn
  <2>2. \A f, d : (LastFor(f, d)' <=> LastFor(f, d)) /\ (Bears(d, f)' <=> Bears(d, f))
    BY <1>4 DEF LastFor, Bears
  <2> QED BY <1>4, <2>1, <2>2 DEF Statuses
<1> QED
  BY <1>1, <1>2, <1>3, <1>4
  DEF Shape, NewEvent, NewValidation, NewObject, NewMark, tables

LEMMA AllowedStays ==
    ASSUME Grows, NEW e \in 1..Len(episodes), NEW body, Allowed(e, body)
    PROVE  Allowed(e, body)'
  BY DEF Grows, Allowed, OptedIn

(* An event that is new is no capture, or a capture that may be kept. *)
LEMMA NewEventsAreAllowed ==
    ASSUME Typed, Numbered, Shape, NEW v \in events', v \notin events, v.kind = "capture"
    PROVE  /\ v.episode \in 1..Len(episodes)
           /\ v.ref \in casRows /\ Allowed(v.episode, v.ref.body)
<1>1. CASE NewEvent
  <2>1. PICK e, kind, ref :
          /\ kind = "capture" => ref \in casRows /\ Allowed(e, ref.body)
          /\ AppendEvent(e, kind, ref)
    BY <1>1 DEF NewEvent
  <2>2. /\ e \in 1..Len(episodes) /\ events' = events \cup {Event(e, kind, ref)}
        /\ Event(e, kind, ref).episode = e /\ Event(e, kind, ref).kind = kind
        /\ Event(e, kind, ref).ref = ref
    BY <1>1, <2>1, EventAdded DEF NewEvent
  <2> QED BY <2>1, <2>2
<1>2. ASSUME NEW e, NEW kind, NEW ref, AppendEvent(e, kind, ref), kind # "capture" PROVE FALSE
  BY <1>2 DEF AppendEvent, Event
<1>3. CASE NewProposal
  BY <1>2, <1>3 DEF NewProposal, InsertProposal
<1>4. CASE NewValidation
  BY <1>2, <1>4 DEF NewValidation, InsertValidation
<1>5. CASE NewDecision
  BY <1>2, <1>5 DEF NewDecision, InsertDecision
<1>6. CASE UNCHANGED events
  BY <1>6
<1> QED
  BY <1>1, <1>3, <1>4, <1>5, <1>6 DEF Shape, NewEpisode, NewObject, NewMark, tables

LEMMA CapturesStep == ASSUME Typed, Numbered, Captures, Shape PROVE Captures'
<1>1. Grows
  BY Growth
<1>2. ASSUME NEW v \in events', v.kind = "capture"
      PROVE  v.ref \in casRows' /\ Allowed(v.episode, v.ref.body)'
  <2>1. v.episode \in 1..Len(episodes) /\ v.ref \in casRows /\ Allowed(v.episode, v.ref.body)
    BY <1>2, NewEventsAreAllowed DEF Captures, Numbered
  <2>2. PICK e, body : e = v.episode /\ body = v.ref.body
    OBVIOUS
  <2>3. Allowed(e, body)'
    BY <1>1, <2>1, <2>2, AllowedStays
  <2> QED BY <1>1, <2>1, <2>2, <2>3 DEF Grows
<1>3. /\ \A r \in casRows' : r.body \in casFiles' /\ Honest(r.body, r.mode)
      /\ \A b \in casFiles' : Redacted(b)
  <2>1. CASE NewObject
    BY <1>1, <2>1 DEF NewObject, Captures, Grows
  <2>2. CASE UNCHANGED <<casRows, casFiles>>
    BY <2>2 DEF Captures
  <2> QED
    BY <2>1, <2>2
    DEF Shape, NewEpisode, NewEvent, NewProposal, NewValidation, NewDecision, NewMark, tables
<1> QED BY <1>2, <1>3 DEF Captures

LEMMA ImportedStays ==
    ASSUME Grows, NEW e, NEW kinds, Imported(e, kinds) PROVE Imported(e, kinds)'
  BY DEF Grows, Imported

LEMMA MarksStep == ASSUME Typed, Numbered, Marks, Shape PROVE Marks'
<1> USE Lengths
<1>1. Grows
  BY Growth
<1>2. Len(episodes') \in Nat
  BY Growth DEF Typed
<1>3. ASSUME NEW e \in 1..Len(episodes)
      PROVE  e \in 1..Len(episodes') /\ episodes'[e].line = episodes[e].line
  BY <1>1, <1>2 DEF Grows
<1>4. ASSUME NEW i \in imports
      PROVE  /\ i.episode \in 1..Len(episodes')
             /\ episodes'[i.episode].line = i.line
             /\ Imported(i.episode, AllKinds)'
  <2>1. PICK e : e = i.episode
    OBVIOUS
  <2>2. e \in 1..Len(episodes) /\ episodes[e].line = i.line /\ Imported(e, AllKinds)
    BY <2>1 DEF Marks
  <2> QED BY <1>1, <1>3, <2>1, <2>2, ImportedStays
<1>5. CASE NewMark
  <2>1. PICK line \in 1..Lines, e \in 1..Len(episodes) :
          /\ \A i \in imports : i.line # line
          /\ episodes[e].line = line /\ Imported(e, AllKinds)
          /\ imports' = imports \cup {[line |-> line, episode |-> e]}
    BY <1>5 DEF NewMark
  <2>2. Imported(e, AllKinds)'
    BY <1>1, <2>1, ImportedStays
  <2> QED BY <1>3, <1>4, <2>1, <2>2 DEF Marks
<1>6. CASE UNCHANGED imports
  BY <1>4, <1>6 DEF Marks
<1> QED
  BY <1>5, <1>6
  DEF Shape, NewEpisode, NewEvent, NewProposal, NewValidation, NewDecision, NewObject, tables

-----------------------------------------------------------------------------
(* The calls in progress *)

(* What a call relies on stays when the tables grow. *)
LEMMA JobParts ==
    ASSUME NEW j \in Jobs
    PROVE  /\ j.episode \in Nat /\ j.began \in Nat /\ j.at \in Nat /\ j.view.read \in Nat
           /\ j.view.validations \in Nat /\ j.view.decisions \in Nat
           /\ Len(j.view.proposals) \in Nat
<1>1. j.view \in Views /\ j.episode \in Nat /\ j.began \in Nat /\ j.at \in Nat
  BY Counts DEF Jobs
<1>2. PICK v \in Views : v = j.view
  BY <1>1
<1>3. v.read \in 0..5 /\ v.validations \in Nat /\ v.decisions \in Nat
  BY DEF Views
<1>4. v.proposals \in Seq(Proposals)
  BY DEF Views
<1>5. Len(v.proposals) \in Nat
  BY <1>4, Rows
<1> QED BY <1>1, <1>2, <1>3, <1>5

LEMMA GoesOnStays ==
    ASSUME Typed, Typed', Grows, NEW j \in Jobs, GoesOn(j)
    PROVE  GoesOn(j)'
<1> USE Lengths
<1>0. /\ Len(episodes') \in Nat /\ Len(proposals') \in Nat /\ Len(validations') \in Nat
      /\ Len(decisions') \in Nat /\ clock' \in Nat
  BY Counts DEF Typed
<1>1. /\ j.episode \in Nat /\ j.began \in Nat /\ j.at \in Nat /\ j.view.read \in Nat
      /\ j.view.validations \in Nat /\ j.view.decisions \in Nat
      /\ Len(j.view.proposals) \in Nat
  BY JobParts
<1>2. 1..Len(episodes) \subseteq 1..Len(episodes')
  BY <1>0 DEF Grows
<1>3. CaptureGoesOn(j)'
  <2>1. ASSUME j.pc \in {"put_file", "put_row", "put_event"}
        PROVE  j.episode \in 1..Len(episodes') /\ Allowed(j.episode, j.body)'
    <3>1. PICK e, body : e = j.episode /\ body = j.body
      OBVIOUS
    <3>2. e \in 1..Len(episodes) /\ Allowed(e, body)
      BY <2>1, <3>1 DEF GoesOn, CaptureGoesOn
    <3> QED BY <1>2, <3>1, <3>2, AllowedStays
  <2> QED BY <2>1 DEF GoesOn, CaptureGoesOn, Grows
<1>4. ValidationGoesOn(j)'
  <2> SUFFICES ASSUME j.pc = "validate" PROVE ValidationGoesOn(j)'
    BY DEF ValidationGoesOn
  <2>1. /\ j.began <= Len(validations) /\ j.at <= clock
        /\ \A v \in 1..j.began : validations[v].at <= j.at
    BY DEF GoesOn, ValidationGoesOn
  <2>2. /\ Len(validations) <= Len(validations') /\ clock <= clock'
        /\ \A v \in 1..Len(validations) : validations'[v] = validations[v]
    BY DEF Grows
  <2>3. j.began <= Len(validations') /\ j.at <= clock'
    <3>1. j.began <= Len(validations) /\ Len(validations) <= Len(validations')
      BY <2>1, <2>2
    <3>2. j.at <= clock /\ clock <= clock'
      BY <2>1, <2>2
    <3>3. j.began <= Len(validations')
      BY <1>0, <1>1, <3>1
    <3>4. j.at <= clock'
      BY <1>0, <1>1, <3>2
    <3> QED BY <3>3, <3>4
  <2>4. \A v \in 1..j.began : v \in 1..Len(validations)
    BY <1>1, <2>1
  <2> QED BY <2>1, <2>2, <2>3, <2>4 DEF ValidationGoesOn
<1>5. ImportGoesOn(j)'
  <2>1. ASSUME j.pc \in ImportSteps \ {"look_up", "create"}
        PROVE  /\ j.episode \in 1..Len(episodes')
               /\ episodes'[j.episode].line = j.line
               /\ Imported(j.episode, DoneBefore(j.pc))'
    <3>1. PICK e, kinds : e = j.episode /\ kinds = DoneBefore(j.pc)
      OBVIOUS
    <3>2. e \in 1..Len(episodes) /\ episodes[e].line = j.line /\ Imported(e, kinds)
      BY <2>1, <3>1 DEF GoesOn, ImportGoesOn
    <3>3. Imported(e, kinds)'
      BY <3>2, ImportedStays
    <3> QED BY <1>2, <3>1, <3>2, <3>3 DEF Grows
  <2> QED BY <2>1 DEF GoesOn, ImportGoesOn
<1>6. ExportGoesOn(j)'
  <2> SUFFICES ASSUME j.pc = "export" PROVE ExportGoesOn(j)'
    BY DEF ExportGoesOn
  <2>1. ExportGoesOn(j)
    BY DEF GoesOn
  <2>2. /\ ProposalsOf(j) \in Nat /\ ValidationsSeen(j) \in Nat /\ DecisionsSeen(j) \in Nat
        /\ ProposalsOf(j)' \in Nat /\ ValidationsSeen(j)' \in Nat /\ DecisionsSeen(j)' \in Nat
        /\ ProposalsOf(j) <= Len(proposals) /\ ValidationsSeen(j) <= Len(validations)
        /\ DecisionsSeen(j) <= Len(decisions)
    BY <1>0, <1>1, <2>1 DEF ExportGoesOn, ProposalsOf, ValidationsSeen, DecisionsSeen
  <2>3. /\ ProposalsOf(j) <= ProposalsOf(j)' /\ ProposalsOf(j)' <= Len(proposals')
        /\ ValidationsSeen(j) <= ValidationsSeen(j)' /\ ValidationsSeen(j)' <= Len(validations')
        /\ DecisionsSeen(j) <= DecisionsSeen(j)' /\ DecisionsSeen(j)' <= Len(decisions')
        /\ j.view.read >= 3 => ProposalsOf(j)' = Len(j.view.proposals)
    <3>1. /\ Len(proposals) <= Len(proposals') /\ Len(validations) <= Len(validations')
          /\ Len(decisions) <= Len(decisions')
      BY DEF Grows
    <3>2. /\ ProposalsOf(j) <= ProposalsOf(j)' /\ ProposalsOf(j)' <= Len(proposals')
          /\ j.view.read >= 3 => ProposalsOf(j)' = Len(j.view.proposals)
      <4>1. CASE j.view.read >= 3
        <5>1. ProposalsOf(j) = Len(j.view.proposals) /\ ProposalsOf(j)' = Len(j.view.proposals)
          BY <4>1 DEF ProposalsOf
        <5>2. Len(j.view.proposals) <= Len(proposals) /\ Len(j.view.proposals) \in Nat
          BY <1>1, <2>2, <5>1
        <5>3. Len(j.view.proposals) <= Len(proposals')
          BY <1>0, <3>1, <5>2
        <5> QED BY <5>1, <5>2, <5>3
      <4>2. CASE ~(j.view.read >= 3)
        <5>1. ProposalsOf(j) = Len(proposals) /\ ProposalsOf(j)' = Len(proposals')
          BY <4>2 DEF ProposalsOf
        <5> QED BY <1>0, <3>1, <4>2, <5>1
      <4> QED BY <4>1, <4>2
    <3>3. /\ ValidationsSeen(j) <= ValidationsSeen(j)'
          /\ ValidationsSeen(j)' <= Len(validations')
      <4>1. CASE j.view.read >= 4
        <5>1. ValidationsSeen(j) = j.view.validations /\ ValidationsSeen(j)' = j.view.validations
          BY <4>1 DEF ValidationsSeen
        <5>2. j.view.validations <= Len(validations) /\ j.view.validations \in Nat
          BY <1>1, <2>2, <5>1
        <5>3. j.view.validations <= Len(validations')
          BY <1>0, <3>1, <5>2
        <5> QED BY <5>1, <5>2, <5>3
      <4>2. CASE ~(j.view.read >= 4)
        <5>1. ValidationsSeen(j) = Len(validations) /\ ValidationsSeen(j)' = Len(validations')
          BY <4>2 DEF ValidationsSeen
        <5> QED BY <1>0, <3>1, <5>1
      <4> QED BY <4>1, <4>2
    <3>4. DecisionsSeen(j) <= DecisionsSeen(j)' /\ DecisionsSeen(j)' <= Len(decisions')
      <4>1. CASE j.view.read >= 5
        <5>1. DecisionsSeen(j) = j.view.decisions /\ DecisionsSeen(j)' = j.view.decisions
          BY <4>1 DEF DecisionsSeen
        <5>2. j.view.decisions <= Len(decisions) /\ j.view.decisions \in Nat
          BY <1>1, <2>2, <5>1
        <5>3. j.view.decisions <= Len(decisions')
          BY <1>0, <3>1, <5>2
        <5> QED BY <5>1, <5>2, <5>3
      <4>2. CASE ~(j.view.read >= 5)
        <5>1. DecisionsSeen(j) = Len(decisions) /\ DecisionsSeen(j)' = Len(decisions')
          BY <4>2 DEF DecisionsSeen
        <5> QED BY <1>0, <3>1, <5>1
      <4> QED BY <4>1, <4>2
    <3> QED BY <3>2, <3>3, <3>4
  <2>4. /\ 1..ProposalsOf(j) \subseteq 1..ProposalsOf(j)'
        /\ \A v \in 1..ValidationsSeen(j) :
            v \in 1..ValidationsSeen(j)' /\ validations'[v] = validations[v]
        /\ \A d \in 1..DecisionsSeen(j) :
            d \in 1..DecisionsSeen(j)' /\ decisions'[d] = decisions[d]
    <3>0. ASSUME NEW a \in Nat, NEW b \in Nat, a <= b PROVE 1..a \subseteq 1..b
      BY <3>0
    <3>1. 1..ProposalsOf(j) \subseteq 1..ProposalsOf(j)'
      BY <2>2, <2>3, <3>0
    <3>2. 1..ValidationsSeen(j) \subseteq 1..ValidationsSeen(j)' \cap 1..Len(validations)
      BY <2>2, <2>3, <3>0
    <3>3. 1..DecisionsSeen(j) \subseteq 1..DecisionsSeen(j)' \cap 1..Len(decisions)
      BY <2>2, <2>3, <3>0
    <3> QED BY <3>1, <3>2, <3>3 DEF Grows
  <2>5. j.view.read >= 1 /\ j.view.episode = "decided" =>
            \E d \in 1..DecisionsSeen(j)' :
                decisions'[d].episode = j.episode /\ decisions'[d].outcome \in Final
    BY <2>1, <2>4 DEF ExportGoesOn
  <2>6. j.view.read >= 2 => \A v \in j.view.events :
            /\ v.episode = j.episode
            /\ v.kind = "proposal" => v.ref \in 1..ProposalsOf(j)'
            /\ v.kind = "validation" => v.ref \in 1..ValidationsSeen(j)'
            /\ v.kind = "decision" =>
                v.ref \in 1..DecisionsSeen(j)' /\ decisions'[v.ref].episode = j.episode
    BY <2>1, <2>4 DEF ExportGoesOn
  <2>7. ASSUME j.view.read >= 3, NEW p \in 1..Len(j.view.proposals)
        PROVE  /\ j.view.proposals[p].episode = proposals'[p].episode
               /\ j.view.proposals[p].status = "accepted" =>
                   /\ \E d \in 1..DecisionsSeen(j)' :
                       decisions'[d].proposal = p /\ decisions'[d].outcome = "accepted"
                   /\ \E v \in 1..ValidationsSeen(j)' :
                       validations'[v].proposal = p /\ validations'[v].passed
    <3>1. p \in 1..Len(proposals)
      BY <1>1, <2>2, <2>7 DEF ProposalsOf
    <3>2. /\ j.view.proposals[p].episode = proposals[p].episode
          /\ j.view.proposals[p].status = "accepted" =>
              /\ \E d \in 1..DecisionsSeen(j) :
                  decisions[d].proposal = p /\ decisions[d].outcome = "accepted"
              /\ \E v \in 1..ValidationsSeen(j) :
                  validations[v].proposal = p /\ validations[v].passed
      BY <2>1, <2>7 DEF ExportGoesOn
    <3>3. proposals'[p].episode = proposals[p].episode
      BY <3>1 DEF Grows
    <3> QED BY <2>4, <3>2, <3>3
  <2>8. j.episode \in 1..Len(episodes')
    BY <1>2, <2>1 DEF ExportGoesOn
  <2> QED BY <2>3, <2>5, <2>6, <2>7, <2>8 DEF ExportGoesOn
<1> QED BY <1>3, <1>4, <1>5, <1>6 DEF GoesOn

LEMMA JobsStay == ASSUME Grows PROVE Jobs \subseteq Jobs'
<1>1. Views \subseteq Views'
  BY DEF Views, Grows
<1> QED BY <1>1 DEF Jobs

(* It is enough to look at the writer that moves. *)
LEMMA OneCall ==
    ASSUME Typed, Typed', Grows, Calls, NEW w \in Writers, NEW j \in Jobs',
           job' = [job EXCEPT ![w] = j], GoesOn(j)'
    PROVE  Calls'
<1>1. job' \in [Writers -> Jobs']
  BY JobsStay DEF Calls
<1>2. ASSUME NEW v \in Writers PROVE GoesOn(job[v])'
  <2>1. PICK k : k = job'[v]
    OBVIOUS
  <2>2. CASE v = w
    <3>1. k = j
      BY <2>1, <2>2 DEF Calls
    <3>2. GoesOn(k)'
      BY <3>1
    <3> QED BY <2>1, <3>2
    DEF GoesOn, CaptureGoesOn, ValidationGoesOn, ImportGoesOn, ExportGoesOn, ProposalsOf,
        ValidationsSeen, DecisionsSeen
  <2>3. CASE v # w
    <3>1. k = job[v] /\ k \in Jobs /\ GoesOn(job[v])
      BY <2>1, <2>3 DEF Calls
    <3>2. GoesOn(k)
      BY <3>1
    <3>3. GoesOn(k)'
      BY <3>1, <3>2, GoesOnStays
    <3> QED BY <2>1, <3>3
    DEF GoesOn, CaptureGoesOn, ValidationGoesOn, ImportGoesOn, ExportGoesOn, ProposalsOf,
        ValidationsSeen, DecisionsSeen
  <2> QED BY <2>2, <2>3
<1> QED BY <1>1, <1>2 DEF Calls

LEMMA IdleJob == Idle \in Jobs /\ Idle.pc = "idle"
<1>1. NoView \in Views
  BY DEF NoView, Views, EpisodeStatuses
<1>2. /\ 0 \in 0..MaxEpisodes /\ 0 \in 0..MaxProposals /\ 0 \in 0..MaxTime
      /\ 0 \in 0..MaxValidations /\ 0 \in 0..Lines
  BY Counts
<1>3. NoBody \in Bodies /\ "structure_only" \in Modes /\ "idle" \in Pcs
  BY DEF NoBody, Bodies, ContentKinds, Modes, Pcs
<1> QED BY <1>1, <1>2, <1>3 DEF Idle, Jobs

(* A call that goes on to its next transaction is otherwise as it was. *)
LEMMA NextPc ==
    ASSUME Calls, NEW w \in Writers, NEW pc \in Pcs, NEW j, j = [job[w] EXCEPT !.pc = pc]
    PROVE  /\ j \in Jobs /\ [job EXCEPT ![w].pc = pc] = [job EXCEPT ![w] = j]
           /\ j.pc = pc /\ j.episode = job[w].episode /\ j.proposal = job[w].proposal
           /\ j.line = job[w].line /\ j.body = job[w].body /\ j.mode = job[w].mode
<1>1. job[w] \in Jobs
  BY DEF Calls
<1> QED BY <1>1 DEF Jobs, Calls

(* A call relies on what belongs to the transaction it is at. *)
LEMMA GoesOnAt ==
    ASSUME NEW j
    PROVE  /\ j.pc = "idle" => GoesOn(j)
           /\ j.pc \in {"put_file", "put_row", "put_event"} /\ CaptureGoesOn(j) => GoesOn(j)
           /\ j.pc = "validate" /\ ValidationGoesOn(j) => GoesOn(j)
           /\ j.pc \in ImportSteps /\ ImportGoesOn(j) => GoesOn(j)
           /\ j.pc = "export" /\ ExportGoesOn(j) => GoesOn(j)
  BY DEF GoesOn, CaptureGoesOn, ValidationGoesOn, ImportGoesOn, ExportGoesOn, ImportSteps

LEMMA GoesOnAtNext ==
    ASSUME NEW j
    PROVE  /\ j.pc = "idle" => GoesOn(j)'
           /\ j.pc \in {"put_file", "put_row", "put_event"} /\ CaptureGoesOn(j)' => GoesOn(j)'
           /\ j.pc \in ImportSteps /\ ImportGoesOn(j)' => GoesOn(j)'
  BY DEF GoesOn, CaptureGoesOn, ValidationGoesOn, ImportGoesOn, ExportGoesOn, ImportSteps

LEMMA NoCall ==
    ASSUME Typed, Typed', Grows, Calls, UNCHANGED job PROVE Calls'
<1>1. job' \in [Writers -> Jobs']
  BY JobsStay DEF Calls
<1>2. ASSUME NEW v \in Writers PROVE GoesOn(job[v])'
  <2>1. PICK k : k = job'[v]
    OBVIOUS
  <2>2. k \in Jobs /\ GoesOn(job[v]) /\ k = job[v]
    BY <2>1 DEF Calls
  <2>3. GoesOn(k)'
    BY <2>2, GoesOnStays
  <2> QED BY <2>1, <2>3
  DEF GoesOn, CaptureGoesOn, ValidationGoesOn, ImportGoesOn, ExportGoesOn, ProposalsOf,
      ValidationsSeen, DecisionsSeen
<1> QED BY <1>1, <1>2 DEF Calls

LEMMA ReturnStep ==
    ASSUME Typed, Typed', Grows, Calls, NEW w \in Writers, Return(w) PROVE Calls'
<1>1. Idle \in Jobs' /\ job' = [job EXCEPT ![w] = Idle]
  BY IdleJob, JobsStay DEF Return
<1>2. PICK j : j = Idle
  OBVIOUS
<1>3. GoesOn(j)'
  BY <1>2, IdleJob, GoesOnAtNext
<1> QED BY <1>1, <1>2, <1>3, OneCall

(* A call begins, or goes on without writing. *)
LEMMA CallStep ==
    ASSUME Typed, Typed', Grows, Calls, NEW w \in Writers, NEW j \in Jobs, GoesOn(j),
           job' = [job EXCEPT ![w] = j]
    PROVE  Calls'
<1>1. j \in Jobs' /\ GoesOn(j)'
  BY JobsStay, GoesOnStays
<1> QED BY <1>1, OneCall

LEMMA CaptureCalls ==
    ASSUME Typed, Typed', Grows, Calls, NEW w \in Writers,
           AddCapture(w) \/ PutFile(w) \/ PutRow(w) \/ PutEvent(w)
    PROVE  Calls'
<1>1. CASE AddCapture(w)
  <2>1. PICK e \in DOMAIN episodes, c \in Contents, claim \in Categories :
          /\ MayClaim(e, claim)
          /\ job' = [job EXCEPT ![w] = [Idle EXCEPT !.pc = "put_file", !.episode = e,
                       !.body = StoredBody(e, c, claim), !.mode = StorageMode(e, c, claim)]]
    BY <1>1 DEF AddCapture
  <2>2. PICK body, mode : body = StoredBody(e, c, claim) /\ mode = StorageMode(e, c, claim)
    OBVIOUS
  <2>3. PICK j : j = [Idle EXCEPT !.pc = "put_file", !.episode = e, !.body = body, !.mode = mode]
    OBVIOUS
  <2>4. e \in 1..Len(episodes) /\ e \in 0..MaxEpisodes
    BY Counts, Rows DEF Typed
  <2>5. /\ body \in Bodies /\ mode \in Modes
        /\ Allowed(e, body) /\ Redacted(body) /\ Honest(body, mode)
    BY <2>1, <2>2, ClaimIsAllowed, ExperienceAssumption
  <2>6. j \in Jobs /\ j.pc = "put_file" /\ j.episode = e /\ j.body = body /\ j.mode = mode
    BY <2>3, <2>4, <2>5, IdleJob DEF Jobs, Pcs
  <2>7. CaptureGoesOn(j)
    BY <2>4, <2>5, <2>6 DEF CaptureGoesOn
  <2>8. GoesOn(j)
    BY <2>6, <2>7, GoesOnAt
  <2> QED BY <2>1, <2>2, <2>3, <2>6, <2>8, CallStep
<1>2. CASE PutFile(w) \/ PutRow(w)
  <2>0. PICK pc \in {"put_row", "put_event"} : Goto(w, pc) /\ (pc = "put_row" => PutFile(w))
    BY <1>2 DEF PutFile, PutRow
  <2>1. pc \in Pcs /\ job' = [job EXCEPT ![w].pc = pc]
    BY <2>0 DEF Goto, Pcs
  <2>2. PICK j : j = [job[w] EXCEPT !.pc = pc]
    OBVIOUS
  <2>3. /\ j \in Jobs /\ job' = [job EXCEPT ![w] = j] /\ j.pc = pc
        /\ j.episode = job[w].episode /\ j.body = job[w].body /\ j.mode = job[w].mode
    BY <2>1, <2>2, NextPc
  <2>4. job[w].pc \in {"put_file", "put_row"}
    BY <1>2 DEF PutFile, PutRow, At
  <2>5. PICK e : e = job[w].episode
    OBVIOUS
  <2>6. /\ e \in 1..Len(episodes) /\ Allowed(job[w].episode, job[w].body)
        /\ Redacted(job[w].body) /\ Honest(job[w].body, job[w].mode)
    BY <2>4, <2>5 DEF Calls, GoesOn, CaptureGoesOn
  <2>7. Allowed(j.episode, j.body)'
    <3>1. PICK body : body = job[w].body
      OBVIOUS
    <3>2. Allowed(e, body)
      BY <2>5, <2>6, <3>1
    <3>3. Allowed(e, body)'
      BY <2>6, <3>2, AllowedStays
    <3>4. e = j.episode /\ body = j.body
      BY <2>3, <2>5, <3>1
    <3> QED BY <3>3, <3>4
  <2>8. pc = "put_row" => j.body \in casFiles'
    BY <2>0, <2>3 DEF PutFile
  <2>9. j.episode \in 1..Len(episodes')
    BY <2>3, <2>5, <2>6, Lengths, Rows, SMTT(30) DEF Grows, Typed
  <2>10. CaptureGoesOn(j)'
    BY <2>3, <2>6, <2>7, <2>8, <2>9 DEF CaptureGoesOn
  <2>11. GoesOn(j)' /\ j \in Jobs'
    BY <2>3, <2>10, GoesOnAtNext, JobsStay
  <2> QED BY <2>3, <2>11, OneCall
<1>3. CASE PutEvent(w)
  BY <1>3, ReturnStep DEF PutEvent
<1> QED BY <1>1, <1>2, <1>3

LEMMA ReviewCalls ==
    ASSUME Typed, Typed', Grows, Timing, Calls, NEW w \in Writers,
           AddProposal(w) \/ CallValidation(w) \/ AddValidation(w) \/ AddDecision(w) \/ Refused(w)
    PROVE  Calls'
<1>1. CASE CallValidation(w)
  <2>1. PICK e \in DOMAIN episodes, p \in 0..Len(proposals) :
          job' = [job EXCEPT ![w] = [Idle EXCEPT !.pc = "validate", !.episode = e,
                    !.proposal = p, !.at = clock, !.began = Len(validations)]]
    BY <1>1 DEF CallValidation
  <2>2. PICK at, began : at = clock /\ began = Len(validations)
    OBVIOUS
  <2>3. PICK j : j = [Idle EXCEPT !.pc = "validate", !.episode = e, !.proposal = p, !.at = at,
                                  !.began = began]
    OBVIOUS
  <2>4. /\ e \in 0..MaxEpisodes /\ p \in 0..MaxProposals /\ at \in 0..MaxTime
        /\ began \in 0..MaxValidations
    BY <2>2, Counts, Rows, Lengths DEF Typed
  <2>5. j \in Jobs /\ j.pc = "validate" /\ j.at = at /\ j.began = began
    BY <2>3, <2>4, IdleJob DEF Jobs, Pcs
  <2>6. ValidationGoesOn(j)
    BY <2>2, <2>5, Lengths DEF ValidationGoesOn, Timing
  <2>7. GoesOn(j)
    BY <2>5, <2>6, GoesOnAt
  <2> QED BY <2>1, <2>2, <2>3, <2>5, <2>7, CallStep
<1>2. CASE AddProposal(w) \/ AddDecision(w)
  BY <1>2, NoCall DEF AddProposal, AddDecision
<1>3. CASE AddValidation(w) \/ Refused(w)
  BY <1>3, ReturnStep DEF AddValidation, Refused
<1> QED BY <1>1, <1>2, <1>3

(* An appended event is there afterwards. *)
LEMMA ImportedMore ==
    ASSUME Grows, NEW e, NEW k, NEW ref, AppendEvent(e, k, ref), NEW kinds, Imported(e, kinds)
    PROVE  Imported(e, kinds \cup {k})'
<1>1. PICK v : v = Event(e, k, ref)
  OBVIOUS
<1>2. v \in events' /\ v.episode = e /\ v.kind = k
  BY <1>1 DEF AppendEvent, Event
<1>3. Imported(e, kinds)'
  BY ImportedStays
<1> QED BY <1>2, <1>3 DEF Imported

(* The call goes on with the next line or ends. *)
LEMMA NextLineStep ==
    ASSUME Typed, Typed', Grows, Calls, NEW w \in Writers, job[w].pc \in ImportSteps, NextLine(w)
    PROVE  Calls'
<1>1. CASE job[w].line = Lines
  BY <1>1, ReturnStep DEF NextLine, Return
<1>2. CASE job[w].line # Lines
  <2>1. PICK line : line = job[w].line + 1
    OBVIOUS
  <2>2. line \in 1..Lines /\ line \in 0..Lines
    BY <1>2, <2>1, Counts DEF Calls, GoesOn, ImportGoesOn
  <2>3. PICK j : j = [Idle EXCEPT !.pc = "look_up", !.line = line]
    OBVIOUS
  <2>4. j \in Jobs /\ j.pc = "look_up" /\ j.line = line
    BY <2>2, <2>3, IdleJob DEF Jobs, Pcs
  <2>5. GoesOn(j)
    BY <2>2, <2>4, GoesOnAt DEF ImportGoesOn, ImportSteps
  <2> QED BY <1>2, <2>1, <2>3, <2>4, <2>5, CallStep DEF NextLine
<1> QED BY <1>1, <1>2

(* An import that has added the event of its step goes on to the next one. *)
LEMMA ImportGoesOnNext ==
    ASSUME Typed, Typed', Grows, Calls, NEW w \in Writers, NEW j \in Jobs,
           job[w].pc \in ImportSteps \ {"look_up", "create"},
           j.pc \in ImportSteps \ {"look_up", "create"},
           j.episode = job[w].episode, j.line = job[w].line,
           job' = [job EXCEPT ![w] = j],
           NEW k, NEW ref, AppendEvent(job[w].episode, k, ref),
           DoneBefore(j.pc) = DoneBefore(job[w].pc) \cup {k}
    PROVE  Calls'
<1>1. PICK e, kinds : e = job[w].episode /\ kinds = DoneBefore(job[w].pc)
  OBVIOUS
<1>2. e \in 1..Len(episodes) /\ episodes[e].line = job[w].line /\ Imported(e, kinds)
      /\ job[w].line \in 1..Lines
  BY <1>1 DEF Calls, GoesOn, ImportGoesOn
<1>3. Imported(e, kinds \cup {k})'
  BY <1>1, <1>2, ImportedMore
<1>4. Imported(j.episode, DoneBefore(j.pc))'
  BY <1>1, <1>3 DEF Imported
<1>5. e \in 1..Len(episodes') /\ episodes'[e].line = episodes[e].line
  <2>1. /\ Len(episodes) <= Len(episodes') /\ Len(episodes) \in Nat
        /\ episodes'[e].line = episodes[e].line
    BY <1>2, Lengths DEF Grows
  <2>2. Len(episodes') \in Nat
    BY Rows DEF Typed
  <2> QED BY <1>2, <2>1, <2>2
<1>6. ImportGoesOn(j)'
  BY <1>1, <1>2, <1>4, <1>5 DEF ImportGoesOn
<1> QED BY <1>6, GoesOnAtNext, JobsStay, OneCall

LEMMA ImportCalls ==
    ASSUME Typed, Typed', Grows, Calls, NEW w \in Writers, Importing(w)
    PROVE  Calls'
<1>1. CASE CallImport(w)
  <2>1. PICK j : j = [Idle EXCEPT !.pc = "look_up", !.line = 1]
    OBVIOUS
  <2>2. 1 \in 1..Lines /\ 1 \in 0..Lines
    BY <1>1, Counts DEF CallImport
  <2>3. j \in Jobs /\ j.pc = "look_up" /\ j.line = 1
    BY <2>1, <2>2, IdleJob DEF Jobs, Pcs
  <2>4. GoesOn(j)
    BY <2>2, <2>3, GoesOnAt DEF ImportGoesOn, ImportSteps
  <2> QED BY <1>1, <2>1, <2>3, <2>4, CallStep DEF CallImport
<1>2. CASE LookUpLine(w)
  <2>0. job[w].pc = "look_up"
    BY <1>2 DEF LookUpLine, At
  <2>1. CASE NextLine(w)
    BY <2>0, <2>1, NextLineStep DEF ImportSteps
  <2>2. CASE Goto(w, "create")
    <3>0. "create" \in Pcs /\ job' = [job EXCEPT ![w].pc = "create"]
      BY <2>2 DEF Goto, Pcs
    <3>1. PICK j : j = [job[w] EXCEPT !.pc = "create"]
      OBVIOUS
    <3>2. /\ j \in Jobs /\ j.pc = "create" /\ j.line = job[w].line
          /\ job' = [job EXCEPT ![w] = j]
      BY <3>0, <3>1, NextPc
    <3>3. job[w].line \in 1..Lines
      BY <2>0 DEF Calls, GoesOn, ImportGoesOn, ImportSteps
    <3>4. GoesOn(j)
      BY <3>2, <3>3, GoesOnAt DEF ImportGoesOn, ImportSteps
    <3> QED BY <3>2, <3>4, CallStep
  <2> QED BY <1>2, <2>1, <2>2 DEF LookUpLine
<1>3. CASE ImportEpisode(w)
  <2>0. job[w] \in Jobs /\ job[w].line \in 1..Lines
    BY <1>3 DEF ImportEpisode, At, Calls, GoesOn, ImportGoesOn, ImportSteps
  <2>1. PICK n : n = Len(episodes) + 1
    OBVIOUS
  <2>2. PICK category \in Categories : InsertEpisode(category, FALSE, "historical", job[w].line)
    BY <1>3 DEF ImportEpisode
  <2>3. /\ episodes' = Append(episodes, [category |-> category, retain |-> FALSE,
                                         status |-> "historical", line |-> job[w].line])
        /\ Len(episodes) < MaxEpisodes /\ Len(episodes) \in Nat
    BY <2>2, Lengths DEF InsertEpisode
  <2>4. [category |-> category, retain |-> FALSE, status |-> "historical",
         line |-> job[w].line] \in Episodes
    BY <2>0 DEF Episodes, EpisodeStatuses, Jobs
  <2>5. n \in 1..Len(episodes') /\ episodes'[n].line = job[w].line /\ n \in 0..MaxEpisodes
    BY <2>1, <2>3, <2>4, RowAdded, Counts DEF Typed
  <2>6. PICK j : j = [job[w] EXCEPT !.pc = "note", !.episode = n]
    OBVIOUS
  <2>7. /\ j \in Jobs /\ j.pc = "note" /\ j.line = job[w].line /\ j.episode = n
        /\ job' = [job EXCEPT ![w] = j]
    BY <1>3, <2>0, <2>1, <2>5, <2>6 DEF ImportEpisode, Jobs, Pcs, Calls
  <2>8. ImportGoesOn(j)'
    BY <2>0, <2>5, <2>7 DEF ImportGoesOn, ImportSteps, Imported, DoneBefore
  <2>9. GoesOn(j)' /\ j \in Jobs'
    BY <2>7, <2>8, GoesOnAtNext, JobsStay DEF ImportSteps
  <2> QED BY <2>7, <2>9, OneCall
<1>4. CASE ImportNote(w)
  <2>0. "propose" \in Pcs /\ job' = [job EXCEPT ![w].pc = "propose"]
    BY <1>4 DEF ImportNote, Goto, Pcs
  <2>1. PICK j : j = [job[w] EXCEPT !.pc = "propose"]
    OBVIOUS
  <2>2. /\ j \in Jobs /\ j.pc = "propose" /\ j.line = job[w].line
        /\ j.episode = job[w].episode /\ job' = [job EXCEPT ![w] = j]
    BY <2>0, <2>1, NextPc
  <2>3. job[w].pc = "note" /\ AppendEvent(job[w].episode, "legacy_import", job[w].line)
    BY <1>4 DEF ImportNote, At
  <2>4. DoneBefore(j.pc) = DoneBefore(job[w].pc) \cup {"legacy_import"}
    BY <2>2, <2>3 DEF DoneBefore
  <2> QED BY <2>2, <2>3, <2>4, ImportGoesOnNext DEF ImportSteps
<1>5. CASE ImportProposal(w)
  <2>0. job[w] \in Jobs
    BY DEF Calls
  <2>1. PICK p : p = Len(proposals) + 1
    OBVIOUS
  <2>2. job[w].pc = "propose" /\ AppendEvent(job[w].episode, "proposal", Len(proposals) + 1)
        /\ Len(proposals) < MaxProposals
    BY <1>5 DEF ImportProposal, At, InsertProposal
  <2>3. p \in 0..MaxProposals
    BY <2>1, <2>2, Lengths, Counts
  <2>4. PICK j : j = [job[w] EXCEPT !.pc = "replay", !.proposal = p]
    OBVIOUS
  <2>5. /\ j \in Jobs /\ j.pc = "replay" /\ j.line = job[w].line
        /\ j.episode = job[w].episode /\ job' = [job EXCEPT ![w] = j]
    BY <1>5, <2>0, <2>1, <2>3, <2>4 DEF ImportProposal, Jobs, Pcs, Calls
  <2>6. DoneBefore(j.pc) = DoneBefore(job[w].pc) \cup {"proposal"}
    BY <2>2, <2>5 DEF DoneBefore
  <2> QED BY <2>2, <2>5, <2>6, ImportGoesOnNext DEF ImportSteps
<1>6. CASE ImportValidation(w)
  <2>0. "settle" \in Pcs /\ job' = [job EXCEPT ![w].pc = "settle"]
    BY <1>6 DEF ImportValidation, Goto, Pcs
  <2>1. PICK j : j = [job[w] EXCEPT !.pc = "settle"]
    OBVIOUS
  <2>2. /\ j \in Jobs /\ j.pc = "settle" /\ j.line = job[w].line
        /\ j.episode = job[w].episode /\ job' = [job EXCEPT ![w] = j]
    BY <2>0, <2>1, NextPc
  <2>3. job[w].pc = "replay"
        /\ AppendEvent(job[w].episode, "validation", Len(validations) + 1)
    BY <1>6 DEF ImportValidation, InsertValidation, At
  <2>4. DoneBefore(j.pc) = DoneBefore(job[w].pc) \cup {"validation"}
    BY <2>2, <2>3 DEF DoneBefore
  <2> QED BY <2>2, <2>3, <2>4, ImportGoesOnNext DEF ImportSteps
<1>7. CASE ImportDecision(w)
  <2>0. "mark" \in Pcs /\ job' = [job EXCEPT ![w].pc = "mark"]
    BY <1>7 DEF ImportDecision, Goto, Pcs
  <2>1. PICK j : j = [job[w] EXCEPT !.pc = "mark"]
    OBVIOUS
  <2>2. /\ j \in Jobs /\ j.pc = "mark" /\ j.line = job[w].line
        /\ j.episode = job[w].episode /\ job' = [job EXCEPT ![w] = j]
    BY <2>0, <2>1, NextPc
  <2>3. job[w].pc = "settle"
        /\ AppendEvent(job[w].episode, "decision", Len(decisions) + 1)
    BY <1>7 DEF ImportDecision, InsertDecision, At
  <2>4. DoneBefore(j.pc) = DoneBefore(job[w].pc) \cup {"decision"}
    BY <2>2, <2>3 DEF DoneBefore, AllKinds
  <2> QED BY <2>2, <2>3, <2>4, ImportGoesOnNext DEF ImportSteps
<1>8. CASE ImportMark(w)
  <2>1. job[w].pc = "mark" /\ (Return(w) \/ NextLine(w))
    BY <1>8 DEF ImportMark, At
  <2> QED BY <2>1, ReturnStep, NextLineStep DEF ImportSteps
<1> QED BY <1>1, <1>2, <1>3, <1>4, <1>5, <1>6, <1>7, <1>8 DEF Importing

(* A view in which one table was filled in. *)
ViewIs(view, n, status, log, rows, validated, decided) ==
    /\ view \in Views /\ view.read = n /\ view.episode = status /\ view.events = log
    /\ view.proposals = rows /\ view.validations = validated /\ view.decisions = decided

LEMMA ViewChanged ==
    ASSUME NEW view \in Views, NEW n \in 0..5, NEW view2
    PROVE  /\ \A x \in EpisodeStatuses : view2 = [view EXCEPT !.read = n, !.episode = x] =>
                ViewIs(view2, n, x, view.events, view.proposals, view.validations, view.decisions)
           /\ \A x \in SUBSET events : view2 = [view EXCEPT !.read = n, !.events = x] =>
                ViewIs(view2, n, view.episode, x, view.proposals, view.validations, view.decisions)
           /\ \A x \in Seq(Proposals) : view2 = [view EXCEPT !.read = n, !.proposals = x] =>
                ViewIs(view2, n, view.episode, view.events, x, view.validations, view.decisions)
           /\ \A x \in Nat : view2 = [view EXCEPT !.read = n, !.validations = x] =>
                ViewIs(view2, n, view.episode, view.events, view.proposals, x, view.decisions)
           /\ \A x \in Nat : view2 = [view EXCEPT !.read = n, !.decisions = x] =>
                ViewIs(view2, n, view.episode, view.events, view.proposals, view.validations, x)
<1>1. PICK S, Q : S = SUBSET events /\ Q = Seq(Proposals)
  OBVIOUS
<1>2. Views = [read : 0..5, episode : EpisodeStatuses, events : S, proposals : Q,
               validations : Nat, decisions : Nat]
  BY <1>1 DEF Views
<1> QED BY <1>1, <1>2 DEF ViewIs

(* One SELECT of an export fills in one table of its view. *)
LEMMA Selecting ==
    ASSUME Typed, Calls, NEW w \in Writers, SelectTable(w)
    PROVE  \E n \in 1..5, j \in Jobs :
            /\ job[w].view.read = n - 1 /\ job[w].pc = "export"
            /\ job' = [job EXCEPT ![w] = j]
            /\ j.pc = "export" /\ j.episode = job[w].episode /\ j.view.read = n
            /\ j.view.episode = IF n = 1 THEN episodes[j.episode].status ELSE job[w].view.episode
            /\ j.view.events = IF n = 2 THEN EventsOf(j.episode) ELSE job[w].view.events
            /\ j.view.proposals = IF n = 3 THEN proposals ELSE job[w].view.proposals
            /\ j.view.validations = IF n = 4 THEN Len(validations) ELSE job[w].view.validations
            /\ j.view.decisions = IF n = 5 THEN Len(decisions) ELSE job[w].view.decisions
<1>1. PICK n : n = job[w].view.read + 1
  OBVIOUS
<1>2. PICK e, view : e = job[w].episode /\ view = job[w].view
  OBVIOUS
<1>3. job[w] \in Jobs /\ job \in [Writers -> Jobs]
  BY DEF Calls
<1>0. view \in Views
  BY <1>2, <1>3 DEF Jobs
<1>4. /\ job[w].pc = "export" /\ n <= Len(ReadOrder)
      /\ job' = [job EXCEPT ![w].view.read = n, ![w].view[ReadOrder[n]] = Selected(e)[ReadOrder[n]]]
  BY <1>1, <1>2 DEF SelectTable, At
<1>5. n \in 1..5 /\ view.read = n - 1
  <2>1. view.read \in 0..5
    BY <1>0 DEF Views
  <2>2. Len(ReadOrder) = 5
    BY DEF ReadOrder
  <2> QED BY <1>1, <1>2, <1>4, <2>1, <2>2
<1>6. PICK x : x = Selected(e)[ReadOrder[n]]
  OBVIOUS
<1>7. PICK view2 : view2 = [view EXCEPT !.read = n, ![ReadOrder[n]] = x]
  OBVIOUS
<1>8. PICK j : j = [job[w] EXCEPT !.view = view2]
  OBVIOUS
<1>9. job' = [job EXCEPT ![w] = j]
  BY <1>2, <1>3, <1>4, <1>6, <1>7, <1>8 DEF Jobs
<1>10. e \in 1..Len(episodes) /\ episodes[e].status \in EpisodeStatuses
  <2>1. e \in 1..Len(episodes)
    BY <1>2, <1>4 DEF Calls, GoesOn, ExportGoesOn
  <2>2. episodes[e] \in Episodes
    BY <2>1, Rows DEF Typed
  <2> QED BY <2>1, <2>2 DEF Episodes
<1>11. EventsOf(e) \subseteq events /\ proposals \in Seq(Proposals)
       /\ Len(validations) \in Nat /\ Len(decisions) \in Nat
  BY Lengths DEF EventsOf, Typed
<1>12. /\ view2 \in Views /\ view2.read = n
       /\ view2.episode = IF n = 1 THEN episodes[e].status ELSE view.episode
       /\ view2.events = IF n = 2 THEN EventsOf(e) ELSE view.events
       /\ view2.proposals = IF n = 3 THEN proposals ELSE view.proposals
       /\ view2.validations = IF n = 4 THEN Len(validations) ELSE view.validations
       /\ view2.decisions = IF n = 5 THEN Len(decisions) ELSE view.decisions
  <2>0. n \in 0..5
    BY <1>5
  <2>1. CASE n = 1
    <3>1. view2 = [view EXCEPT !.read = n, !.episode = episodes[e].status]
      BY <1>6, <1>7, <2>1 DEF ReadOrder, Selected
    <3>2. ViewIs(view2, n, episodes[e].status, view.events, view.proposals, view.validations, view.decisions)
      BY <1>0, <1>10, <2>0, <3>1, ViewChanged
    <3> QED BY <2>1, <3>2 DEF ViewIs
  <2>2. CASE n = 2
    <3>1. view2 = [view EXCEPT !.read = n, !.events = EventsOf(e)]
      BY <1>6, <1>7, <2>2 DEF ReadOrder, Selected
    <3>2. ViewIs(view2, n, view.episode, EventsOf(e), view.proposals, view.validations, view.decisions)
      BY <1>0, <1>11, <2>0, <3>1, ViewChanged
    <3> QED BY <2>2, <3>2 DEF ViewIs
  <2>3. CASE n = 3
    <3>1. view2 = [view EXCEPT !.read = n, !.proposals = proposals]
      BY <1>6, <1>7, <2>3 DEF ReadOrder, Selected
    <3>2. ViewIs(view2, n, view.episode, view.events, proposals, view.validations, view.decisions)
      BY <1>0, <1>11, <2>0, <3>1, ViewChanged
    <3> QED BY <2>3, <3>2 DEF ViewIs
  <2>4. CASE n = 4
    <3>1. view2 = [view EXCEPT !.read = n, !.validations = Len(validations)]
      BY <1>6, <1>7, <2>4 DEF ReadOrder, Selected
    <3>2. ViewIs(view2, n, view.episode, view.events, view.proposals, Len(validations), view.decisions)
      BY <1>0, <1>11, <2>0, <3>1, ViewChanged
    <3> QED BY <2>4, <3>2 DEF ViewIs
  <2>5. CASE n = 5
    <3>1. view2 = [view EXCEPT !.read = n, !.decisions = Len(decisions)]
      BY <1>6, <1>7, <2>5 DEF ReadOrder, Selected
    <3>2. ViewIs(view2, n, view.episode, view.events, view.proposals, view.validations, Len(decisions))
      BY <1>0, <1>11, <2>0, <3>1, ViewChanged
    <3> QED BY <2>5, <3>2 DEF ViewIs
  <2> QED BY <1>5, <2>1, <2>2, <2>3, <2>4, <2>5
<1>13. j \in Jobs /\ j.pc = "export" /\ j.episode = e /\ j.view = view2
  BY <1>2, <1>3, <1>4, <1>8, <1>12 DEF Jobs
<1> USE <1>5, <1>13
<1> WITNESS n \in 1..5, j \in Jobs
<1> QED BY <1>2, <1>4, <1>5, <1>9, <1>12, <1>13

(* The row a table shows as decided, or accepted, has the decision that made it so. *)
LEMMA StatusIsSupported ==
    ASSUME Typed, References, Acceptances, Statuses
    PROVE  /\ \A e \in 1..Len(episodes) : episodes[e].status = "decided" =>
                \E d \in 1..Len(decisions) :
                    decisions[d].episode = e /\ decisions[d].outcome \in Final
           /\ \A p \in 1..Len(proposals) : proposals[p].status = "accepted" =>
                /\ \E d \in 1..Len(decisions) :
                    decisions[d].proposal = p /\ decisions[d].outcome = "accepted"
                /\ \E v \in 1..Len(validations) :
                    validations[v].proposal = p /\ validations[v].passed
<1>1. ASSUME NEW e \in 1..Len(episodes), episodes[e].status = "decided"
      PROVE  \E d \in 1..Len(decisions) :
                decisions[d].episode = e /\ decisions[d].outcome \in Final
  BY <1>1 DEF Statuses, LastFor, Bears
<1>2. ASSUME NEW p \in 1..Len(proposals), proposals[p].status = "accepted"
      PROVE  /\ \E d \in 1..Len(decisions) :
                decisions[d].proposal = p /\ decisions[d].outcome = "accepted"
             /\ \E v \in 1..Len(validations) :
                validations[v].proposal = p /\ validations[v].passed
  <2>1. PICK d \in 1..Len(decisions) :
          decisions[d].proposal = p /\ decisions[d].outcome = "accepted"
    BY <1>2 DEF Statuses, LastOn
  <2>2. decisions[d].seen <= Len(validations) /\ Proven(d)
    BY <2>1 DEF Acceptances
  <2>3. PICK v \in 1..decisions[d].seen : validations[v].proposal = p /\ validations[v].passed
    BY <2>1, <2>2 DEF Proven
  <2>4. decisions[d].seen \in Nat
    <3>1. decisions[d] \in Decisions
      BY <2>1, Rows DEF Typed
    <3> QED BY <3>1 DEF Decisions
  <2>5. v \in 1..Len(validations)
    BY <2>2, <2>3, <2>4, Lengths
  <2> QED BY <2>1, <2>3, <2>5
<1> QED BY <1>1, <1>2

LEMMA SelectCalls ==
    ASSUME Typed, Typed', Grows, References, EventLog, Acceptances, Statuses, Calls,
           NEW w \in Writers, SelectTable(w)
    PROVE  Calls'
<1>1. PICK n \in 1..5, j \in Jobs :
        /\ job[w].view.read = n - 1 /\ job[w].pc = "export"
        /\ job' = [job EXCEPT ![w] = j]
        /\ j.pc = "export" /\ j.episode = job[w].episode /\ j.view.read = n
        /\ j.view.episode = IF n = 1 THEN episodes[j.episode].status ELSE job[w].view.episode
        /\ j.view.events = IF n = 2 THEN EventsOf(j.episode) ELSE job[w].view.events
        /\ j.view.proposals = IF n = 3 THEN proposals ELSE job[w].view.proposals
        /\ j.view.validations = IF n = 4 THEN Len(validations) ELSE job[w].view.validations
        /\ j.view.decisions = IF n = 5 THEN Len(decisions) ELSE job[w].view.decisions
  BY Selecting
<1>2. PICK old : old = job[w]
  OBVIOUS
<1>3. ExportGoesOn(old)
  BY <1>2 DEF Calls, GoesOn
<1>4. /\ ProposalsOf(j) = ProposalsOf(old) /\ ValidationsSeen(j) = ValidationsSeen(old)
      /\ DecisionsSeen(j) = DecisionsSeen(old)
      /\ n <= 3 => ProposalsOf(j) = Len(proposals)
      /\ n <= 4 => ValidationsSeen(j) = Len(validations)
      /\ DecisionsSeen(j) = Len(decisions)
  BY <1>1, <1>2 DEF ProposalsOf, ValidationsSeen, DecisionsSeen
<1>5. /\ j.episode \in 1..Len(episodes) /\ ProposalsOf(j) <= Len(proposals)
      /\ ValidationsSeen(j) <= Len(validations) /\ DecisionsSeen(j) <= Len(decisions)
  BY <1>1, <1>2, <1>3, <1>4 DEF ExportGoesOn
<1>6. j.view.episode = "decided" =>
        \E d \in 1..DecisionsSeen(j) :
            decisions[d].episode = j.episode /\ decisions[d].outcome \in Final
  <2>1. CASE n = 1
    BY <1>1, <1>4, <1>5, <2>1, StatusIsSupported
  <2>2. CASE n # 1
    <3>1. old.view.read >= 1 /\ old.view.episode = j.view.episode /\ old.episode = j.episode
      BY <1>1, <1>2, <2>2
    <3> QED BY <1>1, <1>2, <1>3, <1>4, <3>1 DEF ExportGoesOn
  <2> QED BY <2>1, <2>2
<1>7. n >= 2 => \A v \in j.view.events :
            /\ v.episode = j.episode
            /\ v.kind = "proposal" => v.ref \in 1..ProposalsOf(j)
            /\ v.kind = "validation" => v.ref \in 1..ValidationsSeen(j)
            /\ v.kind = "decision" =>
                v.ref \in 1..DecisionsSeen(j) /\ decisions[v.ref].episode = j.episode
  <2>1. CASE n = 2
    <3>1. j.view.events = EventsOf(j.episode) /\ ProposalsOf(j) = Len(proposals)
          /\ ValidationsSeen(j) = Len(validations) /\ DecisionsSeen(j) = Len(decisions)
      BY <1>1, <1>4, <2>1
    <3>2. ASSUME NEW v \in events, v.episode = j.episode
          PROVE  /\ v.kind = "proposal" => v.ref \in 1..Len(proposals)
                 /\ v.kind = "validation" => v.ref \in 1..Len(validations)
                 /\ v.kind = "decision" =>
                     v.ref \in 1..Len(decisions) /\ decisions[v.ref].episode = j.episode
      <4>1. v.kind = "proposal" => v.ref \in 1..Len(proposals)
        BY DEF EventLog, Logged
      <4>2. v.kind = "validation" => v.ref \in 1..Len(validations)
        BY DEF EventLog, Logged
      <4>3. v.kind = "decision" =>
              v.ref \in 1..Len(decisions) /\ decisions[v.ref].episode = v.episode
        BY DEF EventLog, Logged
      <4> QED BY <3>2, <4>1, <4>2, <4>3
    <3> QED BY <3>1, <3>2 DEF EventsOf
  <2>2. CASE n > 2
    <3>1. /\ old.pc = "export" /\ old.view.read >= 2
          /\ old.view.events = j.view.events /\ old.episode = j.episode
      BY <1>1, <1>2, <2>2
    <3>2. \A v \in old.view.events :
            /\ v.episode = old.episode
            /\ v.kind = "proposal" => v.ref \in 1..ProposalsOf(old)
            /\ v.kind = "validation" => v.ref \in 1..ValidationsSeen(old)
            /\ v.kind = "decision" =>
                v.ref \in 1..DecisionsSeen(old) /\ decisions[v.ref].episode = old.episode
      BY <1>3, <3>1 DEF ExportGoesOn
    <3> QED BY <1>4, <3>1, <3>2
  <2> QED BY <1>1, <2>1, <2>2
<1>8. n >= 3 => \A p \in 1..Len(j.view.proposals) :
            /\ j.view.proposals[p].episode = proposals[p].episode
            /\ j.view.proposals[p].status = "accepted" =>
                /\ \E d \in 1..DecisionsSeen(j) :
                    decisions[d].proposal = p /\ decisions[d].outcome = "accepted"
                /\ \E v \in 1..ValidationsSeen(j) :
                    validations[v].proposal = p /\ validations[v].passed
  <2>1. CASE n = 3
    <3>1. j.view.proposals = proposals /\ ValidationsSeen(j) = Len(validations)
          /\ DecisionsSeen(j) = Len(decisions)
      BY <1>1, <1>4, <2>1
    <3> QED BY <3>1, StatusIsSupported
  <2>2. CASE n > 3
    <3>1. /\ old.pc = "export" /\ old.view.read >= 3
          /\ old.view.proposals = j.view.proposals
      BY <1>1, <1>2, <2>2
    <3>2. \A p \in 1..Len(old.view.proposals) :
            /\ old.view.proposals[p].episode = proposals[p].episode
            /\ old.view.proposals[p].status = "accepted" =>
                /\ \E d \in 1..DecisionsSeen(old) :
                    decisions[d].proposal = p /\ decisions[d].outcome = "accepted"
                /\ \E v \in 1..ValidationsSeen(old) :
                    validations[v].proposal = p /\ validations[v].passed
      BY <1>3, <3>1 DEF ExportGoesOn
    <3> QED BY <1>4, <3>1, <3>2
  <2> QED BY <1>1, <2>1, <2>2
<1>9. ExportGoesOn(j)
  BY <1>1, <1>5, <1>6, <1>7, <1>8 DEF ExportGoesOn
<1>10. GoesOn(j)
  BY <1>1, <1>9, GoesOnAt
<1> QED BY <1>1, <1>10, CallStep

LEMMA ExportCalls ==
    ASSUME Typed, Typed', Grows, References, EventLog, Acceptances, Statuses, Calls,
           NEW w \in Writers, Exporting(w)
    PROVE  Calls'
<1>1. CASE CallExport(w)
  <2>1. PICK e \in DOMAIN episodes :
          job' = [job EXCEPT ![w] = [Idle EXCEPT !.pc = "export", !.episode = e]]
    BY <1>1 DEF CallExport
  <2>2. PICK j : j = [Idle EXCEPT !.pc = "export", !.episode = e]
    OBVIOUS
  <2>3. e \in 1..Len(episodes) /\ e \in 0..MaxEpisodes
    BY Counts, Rows DEF Typed
  <2>4. j \in Jobs /\ j.pc = "export" /\ j.episode = e /\ j.view.read = 0
    <3>1. "export" \in Pcs /\ Idle.view.read = 0
      BY DEF Pcs, Idle, NoView
    <3> QED BY <2>2, <2>3, <3>1, IdleJob DEF Jobs
  <2>5. ExportGoesOn(j)
    BY <2>3, <2>4, Lengths DEF ExportGoesOn, ProposalsOf, ValidationsSeen, DecisionsSeen
  <2> QED BY <2>1, <2>2, <2>4, <2>5, GoesOnAt, CallStep
<1>2. CASE SelectTable(w)
  BY <1>2, SelectCalls
<1>3. CASE EndExport(w)
  BY <1>3, ReturnStep DEF EndExport
<1> QED BY <1>1, <1>2, <1>3 DEF Exporting

LEMMA CallsStep ==
    ASSUME Typed, Typed', Grows, References, EventLog, Timing, Acceptances, Statuses, Calls,
           [Next]_vars
    PROVE  Calls'
<1>1. ASSUME NEW w \in Writers, CreateEpisode(w) \/ AppendNote(w) PROVE Calls'
  BY <1>1, NoCall DEF CreateEpisode, AppendNote
<1>2. ASSUME NEW w \in Writers, Capturing(w) \/ Reviewing(w) PROVE Calls'
  BY <1>2, CaptureCalls, ReviewCalls DEF Capturing, Reviewing
<1>3. ASSUME NEW w \in Writers, Importing(w) PROVE Calls'
  BY <1>3, ImportCalls
<1>4. ASSUME NEW w \in Writers, Exporting(w) PROVE Calls'
  BY <1>4, ExportCalls
<1>5. ASSUME NEW w \in Writers, Crash(w) PROVE Calls'
  BY <1>5, ReturnStep DEF Crash
<1>6. CASE Tick \/ UNCHANGED vars
  BY <1>6, NoCall DEF Tick, vars
<1> QED BY <1>1, <1>2, <1>3, <1>4, <1>5, <1>6 DEF Next

-----------------------------------------------------------------------------
(* The invariant *)

LEMMA StoreInitial == Init => StoreInv
<1> SUFFICES ASSUME Init PROVE StoreInv
  OBVIOUS
<1> USE DEF Init
<1>1. /\ Len(episodes) = 0 /\ Len(proposals) = 0 /\ Len(validations) = 0 /\ Len(decisions) = 0
      /\ events = {} /\ casRows = {} /\ casFiles = {} /\ imports = {} /\ clock = 0
  OBVIOUS
<1>2. Typed
  BY Counts DEF Typed
<1>3. Numbered
  BY <1>1, Counts, FS_EmptySet DEF Numbered
<1>4. References /\ Timing /\ Acceptances /\ Statuses
  BY <1>1 DEF References, Timing, Acceptances, Statuses
<1>5. EventLog
  BY <1>1, <1>3 DEF EventLog, Logged
<1>6. Captures /\ Marks
  BY <1>1 DEF Captures, Marks
<1>7. Calls
  BY IdleJob, GoesOnAt DEF Calls
<1> QED BY <1>2, <1>4, <1>5, <1>6, <1>7 DEF StoreInv

LEMMA StoreStep == StoreInv /\ [Next]_vars => StoreInv'
<1> SUFFICES ASSUME StoreInv, [Next]_vars PROVE StoreInv'
  OBVIOUS
<1>1. /\ Typed /\ References /\ EventLog /\ Timing /\ Acceptances /\ Statuses
      /\ Captures /\ Marks /\ Calls /\ Numbered
  BY DEF StoreInv, EventLog
<1>2. Shape
  BY <1>1, ActionShape
<1>3. Typed' /\ Grows
  BY <1>1, <1>2, Growth
<1>4. References' /\ EventLog' /\ Timing' /\ Acceptances' /\ Statuses' /\ Captures' /\ Marks'
  BY <1>1, <1>2, ReferencesStep, EventLogStep, TimingStep, AcceptancesStep, StatusesStep,
     CapturesStep, MarksStep
<1>5. Calls'
  BY <1>1, <1>3, CallsStep
<1> QED BY <1>3, <1>4, <1>5 DEF StoreInv

(* Every reachable state of the store is one of the invariant. *)
THEOREM StoreCorrect == Spec => []StoreInv
<1>1. Init => StoreInv
  BY StoreInitial
<1>2. StoreInv /\ [Next]_vars => StoreInv'
  BY StoreStep
<1> QED BY <1>1, <1>2, PTL DEF Spec

-----------------------------------------------------------------------------
(* The promises *)

(* Rows refer to rows that are there, events are numbered within bounds,   *)
(* and a call carries what its next transaction needs.                     *)
THEOREM StoreTyped == Spec => []TypeOK
<1>1. ASSUME StoreInv PROVE TypeOK
  <2>0. /\ Typed /\ References /\ Numbered /\ Calls
        /\ DOMAIN episodes = 1..Len(episodes) /\ DOMAIN proposals = 1..Len(proposals)
        /\ DOMAIN validations = 1..Len(validations) /\ DOMAIN decisions = 1..Len(decisions)
    BY <1>1, Rows DEF StoreInv, EventLog, Typed
  <2>1. ASSUME NEW e \in DOMAIN episodes
        PROVE  episodes[e] \in [category : Categories, retain : BOOLEAN,
                                status : EpisodeStatuses, line : 0..Lines]
    <3>1. episodes[e] \in Episodes
      BY <2>0, Rows DEF Typed
    <3> QED BY <3>1 DEF Episodes
  <2>2. ASSUME NEW v \in events
        PROVE  v.episode \in DOMAIN episodes /\ v.sequence \in 1..MaxEvents
    <3>1. PICK e : e = v.episode
      OBVIOUS
    <3>2. e \in 1..Len(episodes) /\ v \in EventsOf(e) /\ EventsOf(e) \subseteq events
      BY <2>0, <3>1 DEF Numbered, EventsOf
    <3>3. v.sequence \in 1..Cardinality(EventsOf(e))
      BY <2>0, <3>2 DEF Numbered
    <3>4. /\ Cardinality(EventsOf(e)) <= Cardinality(events) /\ Cardinality(events) <= MaxEvents
          /\ Cardinality(EventsOf(e)) \in Nat /\ Cardinality(events) \in Nat
      BY <2>0, <3>2, FS_Subset, FS_CardinalityType DEF Numbered
    <3>5. v.sequence \in 1..MaxEvents
      BY <3>3, <3>4, Counts
    <3> QED BY <2>0, <3>1, <3>2, <3>5
  <2>3. ASSUME NEW p \in DOMAIN proposals
        PROVE  proposals[p] \in [episode : DOMAIN episodes, historical : BOOLEAN,
                                 status : ProposalStatuses]
    <3>1. proposals[p] \in Proposals /\ proposals[p].episode \in DOMAIN episodes
      BY <2>0, Rows DEF Typed, References
    <3> QED BY <3>1 DEF Proposals
  <2>4. ASSUME NEW v \in DOMAIN validations
        PROVE  /\ validations[v].proposal # 0 =>
                    proposals[validations[v].proposal].episode = validations[v].episode
               /\ validations[v].at \in 0..MaxTime
    <3>1. validations[v] \in Validations
      BY <2>0, Rows DEF Typed
    <3>2. validations[v].at \in 0..MaxTime
      BY <3>1 DEF Validations
    <3> QED BY <2>0, <3>2 DEF References
  <2>5. ASSUME NEW d \in DOMAIN decisions PROVE decisions[d].outcome \in AllOutcomes
    <3>1. decisions[d] \in Decisions
      BY <2>0, Rows DEF Typed
    <3> QED BY <3>1 DEF Decisions
  <2>6. casFiles \subseteq Bodies /\ casRows \subseteq [body : Bodies, mode : Modes]
    BY <2>0 DEF Typed, Objects
  <2>7. ASSUME NEW w \in Writers
        PROVE  /\ [job[w] EXCEPT !.view = NoView] \in
                    [pc : Pcs, episode : 0..MaxEpisodes, proposal : 0..MaxProposals,
                     at : 0..MaxTime, began : 0..MaxValidations,
                     body : Bodies, mode : Modes, line : 0..Lines, view : {NoView}]
               /\ job[w].view.events \subseteq events
    <3>1. job[w] \in Jobs
      BY <2>0 DEF Calls
    <3>2. job[w].view \in Views
      BY <3>1 DEF Jobs
    <3>3. job[w].view.events \subseteq events
      BY <3>2 DEF Views
    <3>4. [job[w] EXCEPT !.view = NoView] \in
            [pc : Pcs, episode : 0..MaxEpisodes, proposal : 0..MaxProposals,
             at : 0..MaxTime, began : 0..MaxValidations,
             body : Bodies, mode : Modes, line : 0..Lines, view : {NoView}]
      BY <3>1 DEF Jobs
    <3> QED BY <3>3, <3>4
  <2> QED BY <2>1, <2>2, <2>3, <2>4, <2>5, <2>6, <2>7 DEF TypeOK
<1> QED BY <1>1, StoreCorrect, PTL

LEMMA OneEvent ==
    ASSUME NEW kind, NEW rows, Logged(kind, rows, events), NEW r \in 1..Len(rows)
    PROVE  Cardinality({v \in EventsOf(rows[r].episode) : v.kind = kind /\ v.ref = r}) = 1
<1>1. PICK v \in events : v.kind = kind /\ v.ref = r
  BY DEF Logged
<1>2. v.episode = rows[r].episode
  BY <1>1 DEF Logged
<1>3. {u \in EventsOf(rows[r].episode) : u.kind = kind /\ u.ref = r} = {v}
  BY <1>1, <1>2 DEF Logged, EventsOf
<1> QED BY <1>3, FS_Singleton

(* The events of an episode are numbered without a gap, and every proposal, *)
(* validation and decision has exactly one, whatever two writers do.        *)
THEOREM LogIsComplete == Spec => []EventLogComplete
<1>1. ASSUME StoreInv PROVE EventLogComplete
  <2>1. /\ DOMAIN episodes = 1..Len(episodes) /\ DOMAIN proposals = 1..Len(proposals)
        /\ DOMAIN validations = 1..Len(validations) /\ DOMAIN decisions = 1..Len(decisions)
    BY <1>1, Rows DEF StoreInv, Typed
  <2>2. \A e \in DOMAIN episodes :
          {v.sequence : v \in EventsOf(e)} = 1..Cardinality(EventsOf(e))
    BY <1>1, <2>1 DEF StoreInv, EventLog, Numbered
  <2>3. \A r \in DOMAIN proposals :
          Cardinality({v \in EventsOf(proposals[r].episode) : v.kind = "proposal" /\ v.ref = r}) = 1
    BY <1>1, <2>1, OneEvent DEF StoreInv, EventLog
  <2>4. \A r \in DOMAIN validations :
          Cardinality({v \in EventsOf(validations[r].episode) :
                         v.kind = "validation" /\ v.ref = r}) = 1
    BY <1>1, <2>1, OneEvent DEF StoreInv, EventLog
  <2>5. \A r \in DOMAIN decisions :
          Cardinality({v \in EventsOf(decisions[r].episode) : v.kind = "decision" /\ v.ref = r}) = 1
    BY <1>1, <2>1, OneEvent DEF StoreInv, EventLog
  <2> QED BY <2>2, <2>3, <2>4, <2>5 DEF EventLogComplete
<1> QED BY <1>1, StoreCorrect, PTL

(* An accepted decision rests on a pass that no failure called after it had *)
(* overturned, however calls overlap and however coarse the clock.          *)
THEOREM AcceptanceProven == Spec => []AcceptanceIsProven
<1>1. ASSUME StoreInv PROVE AcceptanceIsProven
  <2>1. DOMAIN decisions = 1..Len(decisions)
    BY <1>1, Rows DEF StoreInv, Typed
  <2>2. \A d \in 1..Len(decisions) : decisions[d].outcome = "accepted" => Proven(d)
    BY <1>1 DEF StoreInv, Acceptances
  <2> QED BY <2>1, <2>2 DEF AcceptanceIsProven, Proven
<1> QED BY <1>1, StoreCorrect, PTL

LEMMA MaxIs == ASSUME NEW S \in SUBSET Nat, NEW d \in S, \A c \in S : c <= d PROVE Max(S) = d
<1>1. \A x \in S : (\A y \in S : x >= y) => x = d
  OBVIOUS
<1>2. \A y \in S : d >= y
  OBVIOUS
<1> QED BY <1>1, <1>2 DEF Max

(* The statuses readers see are what the decisions, in the order they were *)
(* committed, add up to.                                                   *)
THEOREM StatusFollows == Spec => []StatusFollowsDecisions
<1>1. ASSUME StoreInv PROVE StatusFollowsDecisions
  <2>1. /\ DOMAIN episodes = 1..Len(episodes) /\ DOMAIN proposals = 1..Len(proposals)
        /\ DOMAIN decisions = 1..Len(decisions) /\ 1..Len(decisions) \subseteq Nat
    BY <1>1, Rows DEF StoreInv, Typed
  <2>2. ASSUME NEW p \in DOMAIN proposals
        PROVE  LET on == {d \in DOMAIN decisions : decisions[d].proposal = p} IN
               proposals[p].status =
                 IF on # {} THEN decisions[Max(on)].outcome
                 ELSE IF proposals[p].historical THEN "historical_candidate" ELSE "candidate"
    <3>1. PICK on : on = {d \in DOMAIN decisions : decisions[d].proposal = p}
      OBVIOUS
    <3>2. CASE \E d \in 1..Len(decisions) :
                 LastOn(p, d) /\ proposals[p].status = decisions[d].outcome
      <4>1. PICK d \in 1..Len(decisions) :
              LastOn(p, d) /\ proposals[p].status = decisions[d].outcome
        BY <3>2
      <4>2. on \in SUBSET Nat /\ d \in on /\ \A c \in on : c <= d
        BY <2>1, <3>1, <4>1 DEF LastOn
      <4>3. Max(on) = d
        BY <4>2, MaxIs
      <4> QED BY <3>1, <4>1, <4>2, <4>3
    <3>3. CASE /\ \A d \in 1..Len(decisions) : decisions[d].proposal # p
               /\ proposals[p].status =
                    IF proposals[p].historical THEN "historical_candidate" ELSE "candidate"
      BY <2>1, <3>3
    <3> QED BY <1>1, <2>1, <3>2, <3>3 DEF StoreInv, Statuses
  <2>3. ASSUME NEW e \in DOMAIN episodes
        PROVE  LET on == {d \in DOMAIN decisions : decisions[d].episode = e
                                                   /\ decisions[d].outcome # "historical_candidate"} IN
               episodes[e].status =
                 IF on = {} THEN (IF episodes[e].line = 0 THEN "open" ELSE "historical")
                 ELSE IF decisions[Max(on)].outcome \in {"accepted", "rejected", "superseded"}
                      THEN "decided" ELSE "open"
    <3>1. PICK on : on = {d \in DOMAIN decisions : Bears(d, e)}
      OBVIOUS
    <3>2. CASE \E d \in 1..Len(decisions) :
                 /\ LastFor(e, d)
                 /\ episodes[e].status = IF decisions[d].outcome \in Final THEN "decided" ELSE "open"
      <4>1. PICK d \in 1..Len(decisions) :
              /\ LastFor(e, d)
              /\ episodes[e].status = IF decisions[d].outcome \in Final THEN "decided" ELSE "open"
        BY <3>2
      <4>2. on \in SUBSET Nat /\ d \in on /\ \A c \in on : c <= d
        BY <2>1, <3>1, <4>1 DEF LastFor
      <4>3. Max(on) = d
        BY <4>2, MaxIs
      <4> QED BY <3>1, <4>1, <4>2, <4>3 DEF Bears, Final
    <3>3. CASE /\ \A d \in 1..Len(decisions) : ~Bears(d, e)
               /\ episodes[e].status = IF episodes[e].line = 0 THEN "open" ELSE "historical"
      BY <2>1, <3>3 DEF Bears
    <3> QED BY <1>1, <2>1, <3>2, <3>3 DEF StoreInv, Statuses
  <2> QED BY <2>2, <2>3 DEF StatusFollowsDecisions
<1> QED BY <1>1, StoreCorrect, PTL

(* An export never lacks what it rests on, whatever is written between its *)
(* SELECTs.                                                                *)
THEOREM ExportSupported == Spec => []ExportIsSupported
<1>1. ASSUME StoreInv, NEW w \in Writers, At(w, "export"), job[w].view.read = Len(ReadOrder)
      PROVE  LET view == job[w].view
                 shown == {d \in 1..view.decisions : decisions[d].episode = job[w].episode} IN
             /\ \A v \in view.events :
                 /\ v.kind = "proposal" => v.ref \in DOMAIN view.proposals
                 /\ v.kind = "validation" => v.ref \in 1..view.validations
                 /\ v.kind = "decision" => v.ref \in shown
             /\ view.episode = "decided" => \E d \in shown :
                  decisions[d].outcome \in {"accepted", "rejected", "superseded"}
             /\ \A p \in DOMAIN view.proposals : view.proposals[p].episode = job[w].episode
                                                 /\ view.proposals[p].status = "accepted" =>
                 /\ \E d \in shown : decisions[d].proposal = p /\ decisions[d].outcome = "accepted"
                 /\ \E v \in 1..view.validations :
                      validations[v].proposal = p /\ validations[v].passed
  <2>1. PICK j : j = job[w]
    OBVIOUS
  <2>2. Typed /\ References /\ j \in Jobs /\ ExportGoesOn(j) /\ j.pc = "export"
    BY <1>1, <2>1 DEF StoreInv, Calls, GoesOn, At
  <2>3. j.view.read = 5 /\ Len(ReadOrder) = 5
    BY <1>1, <2>1 DEF ReadOrder
  <2>4. j.view.proposals \in Seq(Proposals) /\ j.view.decisions \in Nat
    <3>1. j.view \in Views
      BY <2>2 DEF Jobs
    <3> QED BY <3>1 DEF Views
  <2>5. DOMAIN j.view.proposals = 1..Len(j.view.proposals)
    BY <2>4, Rows
  <2>6. /\ ProposalsOf(j) = Len(j.view.proposals) /\ ValidationsSeen(j) = j.view.validations
        /\ DecisionsSeen(j) = j.view.decisions
    BY <2>3 DEF ProposalsOf, ValidationsSeen, DecisionsSeen
  <2>7. /\ j.view.decisions <= Len(decisions)
        /\ j.view.episode = "decided" =>
             \E d \in 1..j.view.decisions :
                decisions[d].episode = j.episode /\ decisions[d].outcome \in Final
        /\ \A v \in j.view.events :
            /\ v.kind = "proposal" => v.ref \in 1..Len(j.view.proposals)
            /\ v.kind = "validation" => v.ref \in 1..j.view.validations
            /\ v.kind = "decision" =>
                v.ref \in 1..j.view.decisions /\ decisions[v.ref].episode = j.episode
    BY <2>2, <2>3, <2>6 DEF ExportGoesOn
  <2>8. ASSUME NEW p \in 1..Len(j.view.proposals), j.view.proposals[p].episode = j.episode,
               j.view.proposals[p].status = "accepted"
        PROVE  /\ \E d \in 1..j.view.decisions :
                    /\ decisions[d].episode = j.episode
                    /\ decisions[d].proposal = p /\ decisions[d].outcome = "accepted"
               /\ \E v \in 1..j.view.validations :
                    validations[v].proposal = p /\ validations[v].passed
    <3>1. /\ j.view.proposals[p].episode = proposals[p].episode
          /\ \E d \in 1..j.view.decisions :
              decisions[d].proposal = p /\ decisions[d].outcome = "accepted"
          /\ \E v \in 1..j.view.validations :
              validations[v].proposal = p /\ validations[v].passed
      BY <2>2, <2>3, <2>6, <2>8 DEF ExportGoesOn
    <3>2. PICK d \in 1..j.view.decisions :
            decisions[d].proposal = p /\ decisions[d].outcome = "accepted"
      BY <3>1
    <3>3. d \in 1..Len(decisions) /\ p # 0
      BY <2>2, <2>4, <2>7, <2>8, Lengths
    <3>4. decisions[d].episode = proposals[p].episode
      BY <2>2, <3>2, <3>3 DEF References
    <3> QED BY <2>8, <3>1, <3>2, <3>4
  <2> QED BY <2>1, <2>5, <2>7, <2>8 DEF Final
<1>2. StoreInv => ExportIsSupported
  BY <1>1 DEF ExportIsSupported
<1> QED BY <1>2, StoreCorrect, PTL

(* Wherever a capture is interrupted, an event names an object with a row, *)
(* and a row an object whose file is there.                                *)
THEOREM CapturesStored == Spec => []CapturesAreStored
<1>1. StoreInv => CapturesAreStored
  BY DEF StoreInv, Captures, CapturesAreStored
<1> QED BY <1>1, StoreCorrect, PTL

(* Content beyond its structure is kept only where the episode permits it, *)
(* no text with its credentials, and no object under a dishonest mode.     *)
THEOREM ContentPermitted == Spec => []ContentIsPermitted
<1>1. StoreInv => ContentIsPermitted
  BY DEF StoreInv, Captures, Allowed, Redacted, Honest, ContentIsPermitted
<1> QED BY <1>1, StoreCorrect, PTL

(* A line marked as imported is there as a whole. *)
THEOREM ImportComplete == Spec => []ImportedIsComplete
<1>1. StoreInv => ImportedIsComplete
  BY DEF StoreInv, Marks, Imported, AllKinds, EventsOf, ImportedIsComplete
<1> QED BY <1>1, StoreCorrect, PTL
-----------------------------------------------------------------------------
(* The ledger the store keeps *)

EntriesNow == {EntryOf(v) : v \in events}
StandingNow == [p \in 1..Len(proposals) |-> proposals[p].status]

(* What each kind of event says. *)
LEMMA Entry ==
    ASSUME NEW v
    PROVE  /\ EntryOf(v).episode = v.episode /\ EntryOf(v).number = v.sequence
           /\ EntryOf(v).kind = v.kind
           /\ v.kind = "proposal" =>
                /\ EntryOf(v).proposal = v.ref
                /\ EntryOf(v).says = IF proposals[v.ref].historical THEN "historical_candidate"
                                     ELSE "candidate"
           /\ v.kind = "validation" =>
                /\ EntryOf(v).proposal = validations[v.ref].proposal
                /\ EntryOf(v).says = IF validations[v.ref].passed THEN "passed" ELSE "failed"
           /\ v.kind = "decision" =>
                /\ EntryOf(v).proposal = decisions[v.ref].proposal
                /\ EntryOf(v).says = decisions[v.ref].outcome
           /\ v.kind \notin {"proposal", "validation", "decision"} => EntryOf(v).proposal = 0
  BY DEF EntryOf, Says

(* No row an entry was read from ever changes in what it says. *)
LEMMA EntryStays ==
    ASSUME EventLog, Grows, NEW v \in events PROVE EntryOf(v)' = EntryOf(v)
<1>1. Says(v)' = Says(v)
  <2>1. CASE v.kind = "proposal"
    <3>1. v.ref \in 1..Len(proposals)
      BY <2>1 DEF EventLog, Logged
    <3>2. proposals'[v.ref].historical = proposals[v.ref].historical
      BY <3>1 DEF Grows
    <3> QED BY <2>1, <3>2 DEF Says
  <2>2. CASE v.kind = "validation"
    <3>1. v.ref \in 1..Len(validations)
      BY <2>2 DEF EventLog, Logged
    <3>2. validations'[v.ref] = validations[v.ref]
      BY <3>1 DEF Grows
    <3> QED BY <2>2, <3>2 DEF Says
  <2>3. CASE v.kind = "decision"
    <3>1. v.ref \in 1..Len(decisions)
      BY <2>3 DEF EventLog, Logged
    <3>2. decisions'[v.ref] = decisions[v.ref]
      BY <3>1 DEF Grows
    <3> QED BY <2>3, <3>2 DEF Says
  <2>4. CASE v.kind \notin {"proposal", "validation", "decision"}
    BY <2>4 DEF Says
  <2> QED BY <2>1, <2>2, <2>3, <2>4
<1> QED BY <1>1 DEF EntryOf

(* The numbers of an episode in the ledger are those of its events. *)
NumbersOf(e) == {y.number : y \in {x \in EntriesNow : x.episode = e}}

LEMMA NumbersNow ==
    ASSUME NEW e PROVE NumbersOf(e) = {v.sequence : v \in EventsOf(e)}
<1>1. ASSUME NEW x \in EntriesNow, x.episode = e
      PROVE  \E v \in EventsOf(e) : x.number = v.sequence
  BY <1>1, Entry DEF EntriesNow, EventsOf
<1>2. ASSUME NEW v \in EventsOf(e)
      PROVE  \E x \in EntriesNow : x.episode = e /\ x.number = v.sequence
  BY Entry DEF EntriesNow, EventsOf
<1> QED BY <1>1, <1>2 DEF NumbersOf

(* Appending an event is the next entry of its episode, and a new one. *)
NextEntry(x) ==
    /\ x.number \in Nat \ {0} /\ NumbersOf(x.episode) = 1..(x.number - 1)
    /\ x.episode \in 1..Len(episodes)
    /\ x \notin EntriesNow /\ EntriesNow' = EntriesNow \cup {x}

LEMMA AppendEnters ==
    ASSUME Typed, EventLog, Grows, NEW e, NEW kind, NEW ref, AppendEvent(e, kind, ref),
           Len(episodes') = Len(episodes)
    PROVE  \E v, x :
        /\ x = EntryOf(v)' /\ v.kind = kind /\ v.ref = ref
        /\ x.kind = kind /\ x.episode = e /\ NextEntry(x)
<1>1. PICK v : v = Event(e, kind, ref)
  OBVIOUS
<1>2. /\ Numbered /\ e \in 1..Len(episodes) /\ events' = events \cup {v}
      /\ v.episode = e /\ v.kind = kind /\ v.ref = ref
  BY <1>1, EventAdded DEF EventLog
<1> DEFINE n == Cardinality(EventsOf(e))
<1>3. n \in Nat
  <2>1. EventsOf(e) \subseteq events /\ IsFiniteSet(events)
    BY <1>2 DEF EventsOf, Numbered
  <2> QED BY <2>1, FS_Subset, FS_CardinalityType
<1>4. v.sequence = n + 1
  BY <1>1, <1>2, <1>3, MaxOfInterval DEF Event, NextSequence, Numbered
<1>5. PICK x : x = EntryOf(v)'
  OBVIOUS
<1>6. x.episode = e /\ x.number = n + 1 /\ x.kind = kind
  BY <1>2, <1>4, <1>5 DEF EntryOf
<1>7. EntriesNow' = EntriesNow \cup {x}
  BY <1>2, <1>5, EntryStays DEF EntriesNow
<1>8. NumbersOf(e) = 1..n
  BY <1>2, NumbersNow DEF Numbered
<1>9. x \notin EntriesNow
  <2>1. ASSUME x \in EntriesNow PROVE FALSE
    <3>1. n + 1 \in 1..n
      BY <1>6, <1>8, <2>1 DEF NumbersOf
    <3> QED BY <1>3, <3>1
  <2> QED BY <2>1
<1>10. x.number \in Nat \ {0} /\ x.number - 1 = n
  BY <1>3, <1>6
<1> QED BY <1>2, <1>5, <1>6, <1>7, <1>8, <1>9, <1>10 DEF NextEntry

(* What is looked up in the ledger, from the rows it was entered with. *)
LEMMA EnteredBy ==
    ASSUME NEW v \in events
    PROVE  Ledger!Entered(v.episode, v.kind, EntryOf(v).proposal, EntryOf(v).says)
  BY Entry DEF Ledger!Entered, Ledger!EntriesOf

LEMMA OwnMatterNow ==
    ASSUME Typed, EventLog, NEW e, NEW p, OwnProposal(e, p)
    PROVE  /\ ~proposals[p].historical => Ledger!Entered(e, "proposal", p, "candidate")
           /\ \E as \in Ledger!Beginnings : Ledger!Entered(e, "proposal", p, as)
<1>1. p \in 1..Len(proposals) /\ proposals[p].episode = e
  BY Rows DEF Typed, OwnProposal
<1>2. PICK v \in events : v.kind = "proposal" /\ v.ref = p
  BY <1>1 DEF EventLog, Logged
<1>3. v.episode = e
  BY <1>1, <1>2 DEF EventLog, Logged
<1>4. Ledger!Entered(e, "proposal", p,
        IF proposals[p].historical THEN "historical_candidate" ELSE "candidate")
  BY <1>2, <1>3, Entry, EnteredBy
<1> QED BY <1>4 DEF Ledger!Beginnings

LEMMA PassNow ==
    ASSUME Typed, EventLog, NEW e, NEW p, LatestPassed(e, p)
    PROVE  Ledger!Entered(e, "validation", p, "passed")
<1>1. PICK r \in 1..Len(validations) :
        validations[r].episode = e /\ validations[r].proposal = p /\ validations[r].passed
  BY Rows DEF Typed, LatestPassed, ValidationsOf
<1>2. PICK v \in events : v.kind = "validation" /\ v.ref = r
  BY <1>1 DEF EventLog, Logged
<1>3. v.episode = e
  BY <1>1, <1>2 DEF EventLog, Logged
<1> QED BY <1>1, <1>2, <1>3, Entry, EnteredBy

LEMMA StandingAppended ==
    ASSUME NEW n \in Nat, NEW s, NEW t, NEW x,
           s = [i \in 1..n |-> s[i]], t = [i \in 1..(n + 1) |-> IF i = n + 1 THEN x ELSE s[i]]
    PROVE  Len(s) = n /\ t = Append(s, x)
<1> DEFINE T == {s[i] : i \in 1..n} \cup {x}
<1>1. s \in Seq(T) /\ Len(s) = n
  OBVIOUS
<1>2. Append(s, x) = [i \in 1..(n + 1) |-> Append(s, x)[i]]
  BY <1>1
<1>3. \A i \in 1..(n + 1) : Append(s, x)[i] = IF i = n + 1 THEN x ELSE s[i]
  BY <1>1
<1> QED BY <1>1, <1>2, <1>3

(* An entry made is a step of the ledger. *)
LEMMA EntryMade ==
    ASSUME NEW x, NextEntry(x), Len(episodes') = Len(episodes),
           \/ Ledger!Remark(x) \/ Ledger!Propose(x) \/ Ledger!Validate(x) \/ Ledger!Decide(x)
    PROVE  Ledger!Next
<1>1. Ledger!Enter(x)
  BY DEF Ledger!Enter, Ledger!EntriesOf, EntriesNow, NextEntry, NumbersOf
<1>2. x \in {EntryOf(v) : v \in events}' \ {EntryOf(v) : v \in events}
  BY DEF EntriesNow, NextEntry
<1> QED BY <1>1, <1>2 DEF Ledger!Next

LEMMA LedgerStutters ==
    ASSUME Len(episodes') = Len(episodes), EntriesNow' = EntriesNow, StandingNow' = StandingNow
    PROVE  UNCHANGED Ledger!ledgerVars
  BY DEF Ledger!ledgerVars, EntriesNow, StandingNow
-----------------------------------------------------------------------------
(* Every shape of a transaction is a step of the ledger or none of it. *)

LEMMA RemarkStep == ASSUME Typed, EventLog, Grows, NewEvent PROVE Ledger!Next
<1>1. UNCHANGED <<episodes, proposals>>
  BY DEF NewEvent
<1>2. PICK e, kind, ref :
        kind \in {"note", "legacy_import", "capture"} /\ AppendEvent(e, kind, ref)
  BY DEF NewEvent
<1>3. PICK v, x : /\ x = EntryOf(v)' /\ v.kind = kind
                  /\ x.kind = kind /\ x.episode = e /\ NextEntry(x)
  BY <1>1, <1>2, AppendEnters
<1>4. x.proposal = 0
  BY <1>2, <1>3 DEF EntryOf, Says
<1>5. Ledger!Remark(x)
  BY <1>1, <1>2, <1>3, <1>4 DEF Ledger!Remark, Ledger!Remarks
<1> QED BY <1>1, <1>3, <1>5, EntryMade

LEMMA ProposeStep == ASSUME Typed, EventLog, Grows, NewProposal PROVE Ledger!Next
<1> DEFINE n == Len(proposals)
<1>1. UNCHANGED episodes
  BY DEF NewProposal
<1>2. PICK e, row : /\ row = proposals'[n + 1] /\ e = row.episode
  OBVIOUS
<1>3. /\ AppendEvent(e, "proposal", n + 1) /\ Len(proposals') = n + 1 /\ n \in Nat
      /\ \A p \in 1..n : proposals'[p] = proposals[p]
      /\ row.status = IF row.historical THEN "historical_candidate" ELSE "candidate"
  BY <1>2, ProposalAdded, Lengths
<1>4. PICK v, x : /\ x = EntryOf(v)' /\ v.kind = "proposal" /\ v.ref = n + 1
                  /\ x.kind = "proposal" /\ x.episode = e /\ NextEntry(x)
  BY <1>1, <1>3, AppendEnters
<1>5. x.proposal = n + 1 /\ x.says = row.status
  BY <1>2, <1>3, <1>4 DEF EntryOf, Says
<1>6. StandingNow' = [i \in 1..(n + 1) |-> IF i = n + 1 THEN x.says ELSE StandingNow[i]]
  BY <1>2, <1>3, <1>5 DEF StandingNow
<1>7. Len(StandingNow) = n /\ StandingNow' = Append(StandingNow, x.says)
  <2>1. StandingNow = [i \in 1..n |-> StandingNow[i]]
    BY DEF StandingNow
  <2> QED BY <1>3, <1>6, <2>1, StandingAppended
<1>8. x.says \in Ledger!Beginnings
  BY <1>3, <1>5 DEF Ledger!Beginnings
<1>9. Ledger!Propose(x)
  BY <1>4, <1>5, <1>7, <1>8 DEF Ledger!Propose, StandingNow
<1> QED BY <1>1, <1>4, <1>9, EntryMade

LEMMA ValidateStep == ASSUME Typed, EventLog, Grows, NewValidation PROVE Ledger!Next
<1> DEFINE n == Len(validations) + 1
<1>1. UNCHANGED <<episodes, proposals>>
  BY DEF NewValidation
<1>2. PICK e, row : row = validations'[n] /\ e = row.episode
  OBVIOUS
<1>3. AppendEvent(e, "validation", n) /\ (row.proposal # 0 => OwnProposal(e, row.proposal))
  BY <1>2, ValidationAdded
<1>4. PICK v, x : /\ x = EntryOf(v)' /\ v.kind = "validation" /\ v.ref = n
                  /\ x.kind = "validation" /\ x.episode = e /\ NextEntry(x)
  BY <1>1, <1>3, AppendEnters
<1>5. x.proposal = row.proposal /\ x.says = IF row.passed THEN "passed" ELSE "failed"
  BY <1>2, <1>4 DEF EntryOf, Says
<1>6. Ledger!OwnMatter(x)
  BY <1>3, <1>4, <1>5, OwnMatterNow DEF Ledger!OwnMatter
<1>7. Ledger!Validate(x)
  BY <1>1, <1>4, <1>5, <1>6 DEF Ledger!Validate
<1> QED BY <1>1, <1>4, <1>7, EntryMade

LEMMA DecideStep == ASSUME Typed, EventLog, Grows, NewDecision PROVE Ledger!Next
<1>1. PICK n, e, p, outcome : DecisionMade(n, e, p, outcome)
  BY DecisionAdded
<1>2. /\ MayDecide(e, p, outcome) /\ AppendEvent(e, "decision", n) /\ outcome \in AllOutcomes
      /\ Len(episodes') = Len(episodes) /\ Len(proposals') = Len(proposals)
      /\ decisions'[n].proposal = p /\ decisions'[n].outcome = outcome
      /\ p # 0 => p \in 1..Len(proposals)
      /\ \A q \in 1..Len(proposals) :
          proposals'[q].status = IF q = p THEN outcome ELSE proposals[q].status
  BY <1>1 DEF DecisionMade
<1>3. PICK v, x : /\ x = EntryOf(v)' /\ v.kind = "decision" /\ v.ref = n
                  /\ x.kind = "decision" /\ x.episode = e /\ NextEntry(x)
  BY <1>2, AppendEnters
<1>4. x.proposal = p /\ x.says = outcome
  BY <1>2, <1>3 DEF EntryOf, Says
<1>5. Ledger!OwnMatter(x)
  BY <1>2, <1>3, <1>4, OwnMatterNow DEF Ledger!OwnMatter, MayDecide
<1>6. x.says = "accepted" =>
        /\ Ledger!Entered(x.episode, "proposal", x.proposal, "candidate")
        /\ Ledger!Entered(x.episode, "validation", x.proposal, "passed")
  BY <1>2, <1>3, <1>4, OwnMatterNow, PassNow DEF MayDecide
<1>7. StandingNow' = IF p = 0 THEN StandingNow ELSE [StandingNow EXCEPT ![p] = outcome]
  <2>1. CASE p = 0
    <3>1. \A q \in 1..Len(proposals) : proposals'[q].status = proposals[q].status
      BY <1>2, <2>1
    <3> QED BY <1>2, <2>1, <3>1 DEF StandingNow
  <2>2. CASE p # 0
    <3>1. \A q \in 1..Len(proposals) : StandingNow'[q] = IF q = p THEN outcome ELSE StandingNow[q]
      BY <1>2 DEF StandingNow
    <3>2. StandingNow' = [q \in 1..Len(proposals) |-> StandingNow'[q]]
      BY <1>2 DEF StandingNow
    <3> QED BY <2>2, <3>1, <3>2 DEF StandingNow
  <2> QED BY <2>1, <2>2
<1>8. x.says \in Ledger!Rulings
  BY <1>2, <1>4 DEF AllOutcomes, Ledger!Rulings
<1>9. Ledger!Decide(x)
  BY <1>3, <1>4, <1>5, <1>6, <1>7, <1>8 DEF Ledger!Decide, StandingNow
<1> QED BY <1>2, <1>3, <1>9, EntryMade

LEMMA LedgerStep == StoreInv /\ [Next]_vars => [Ledger!Next]_(Ledger!ledgerVars)
<1> SUFFICES ASSUME StoreInv, [Next]_vars PROVE Ledger!Next \/ UNCHANGED Ledger!ledgerVars
  OBVIOUS
<1>1. Typed /\ EventLog /\ Numbered /\ Timing /\ Captures /\ Calls
  BY DEF StoreInv, EventLog
<1>2. Shape /\ Grows
  BY <1>1, ActionShape, Growth
<1>3. CASE NewEpisode
  <2>1. UNCHANGED <<events, proposals, validations, decisions>>
    BY <1>3 DEF NewEpisode
  <2>2. EntriesNow' = EntriesNow
    BY <1>1, <1>2, <2>1, EntryStays DEF EntriesNow
  <2>3. Len(episodes') = Len(episodes) + 1
    BY <1>1, <1>3, EpisodeAdded
  <2>4. Ledger!Open
    BY <2>1, <2>2, <2>3 DEF Ledger!Open, EntriesNow
  <2> QED BY <2>4 DEF Ledger!Next
<1>4. CASE NewObject \/ NewMark \/ UNCHANGED <<tables, casFiles>>
  <2>1. UNCHANGED <<episodes, events, proposals, validations, decisions>>
    BY <1>4 DEF NewObject, NewMark, tables
  <2>2. EntriesNow' = EntriesNow
    BY <1>1, <1>2, <2>1, EntryStays DEF EntriesNow
  <2>3. StandingNow' = StandingNow
    BY <2>1 DEF StandingNow
  <2> QED BY <2>1, <2>2, <2>3, LedgerStutters
<1> QED BY <1>1, <1>2, <1>3, <1>4, RemarkStep, ProposeStep, ValidateStep, DecideStep DEF Shape

LEMMA LedgerInitial == Init => Ledger!Init
  BY DEF Init, Ledger!Init

(* The store implements the ledger: whichever callers, imports and crashes  *)
(* come between, a transaction makes one entry, the next of its episode and *)
(* never one without grounds, or nothing a reader was promised changes.     *)
THEOREM LedgerImplemented == Spec => ImplementsLedger
<1> QED BY StoreCorrect, LedgerInitial, LedgerStep, PTL DEF Spec, ImplementsLedger, Ledger!Spec
-----------------------------------------------------------------------------
(* What the ledger promises its readers *)

OnRecord(p, log) ==
    \E x, y, z \in log :
        /\ x.kind = "proposal" /\ x.says = "candidate"
        /\ y.kind = "validation" /\ y.says = "passed"
        /\ z.kind = "decision" /\ z.says = "accepted"
        /\ {x.proposal, y.proposal, z.proposal} = {p}
        /\ x.episode = z.episode /\ x.number < z.number
        /\ y.episode = z.episode /\ y.number < z.number

LEMMA RecordNow ==
    Ledger!AcceptedOnTheRecord <=>
        \A p \in 1..Len(proposals) : StandingNow[p] = "accepted" => OnRecord(p, EntriesNow)
  BY DEF Ledger!AcceptedOnTheRecord, OnRecord, EntriesNow, StandingNow

(* What an acceptance was entered on has smaller numbers. *)
LEMMA AcceptanceEntered ==
    ASSUME NEW x, Ledger!Enter(x), Ledger!Decide(x), x.says = "accepted"
    PROVE  OnRecord(x.proposal, EntriesNow')
<1> DEFINE Mine == {y \in EntriesNow : y.episode = x.episode}
<1>1. /\ x.number \in Nat \ {0} /\ {y.number : y \in Mine} = 1..(x.number - 1)
      /\ EntriesNow' = EntriesNow \cup {x}
  BY DEF Ledger!Enter, Ledger!EntriesOf, EntriesNow
<1>2. \A y \in Mine : y.number < x.number
  BY <1>1
<1>3. PICK a \in Mine : a.kind = "proposal" /\ a.proposal = x.proposal /\ a.says = "candidate"
  BY DEF Ledger!Decide, Ledger!Entered, Ledger!EntriesOf, EntriesNow
<1>4. PICK b \in Mine : b.kind = "validation" /\ b.proposal = x.proposal /\ b.says = "passed"
  BY DEF Ledger!Decide, Ledger!Entered, Ledger!EntriesOf, EntriesNow
<1>5. x.kind = "decision" /\ {a.proposal, b.proposal, x.proposal} = {x.proposal}
  BY <1>3, <1>4 DEF Ledger!Decide
<1>6. /\ {a, b, x} \subseteq EntriesNow' /\ a.episode = x.episode /\ b.episode = x.episode
      /\ a.number < x.number /\ b.number < x.number
  BY <1>1, <1>2, <1>3, <1>4
<1> QED BY <1>3, <1>4, <1>5, <1>6 DEF OnRecord

LEMMA RecordStep ==
    ASSUME Typed, Typed', Ledger!AcceptedOnTheRecord, [Ledger!Next]_(Ledger!ledgerVars)
    PROVE  Ledger!AcceptedOnTheRecord'
<1> DEFINE n == Len(proposals)
<1>0. n \in Nat /\ Len(proposals') \in Nat
  BY Rows DEF Typed
<1>1. \A p \in 1..n : StandingNow[p] = "accepted" => OnRecord(p, EntriesNow)
  BY RecordNow
<1>2. \A p, log, more : OnRecord(p, log) => OnRecord(p, log \cup more)
  BY DEF OnRecord
<1>3. CASE Ledger!Open \/ UNCHANGED Ledger!ledgerVars
  <2>1. EntriesNow' = EntriesNow /\ StandingNow' = StandingNow
    BY <1>3 DEF Ledger!Open, Ledger!ledgerVars, EntriesNow, StandingNow
  <2>2. 1..Len(proposals') = 1..n
    BY <2>1 DEF StandingNow
  <2>3. \A p \in 1..Len(proposals') : StandingNow'[p] = "accepted" => OnRecord(p, EntriesNow')
    BY <1>1, <2>1, <2>2
  <2> QED BY <2>3 DEF Ledger!AcceptedOnTheRecord, OnRecord, EntriesNow, StandingNow
<1>4. ASSUME NEW x, Ledger!Enter(x) PROVE Ledger!AcceptedOnTheRecord'
  <2>1. EntriesNow' = EntriesNow \cup {x}
    BY <1>4 DEF Ledger!Enter, EntriesNow
  <2>2. ASSUME NEW p \in 1..Len(proposals'), StandingNow'[p] = "accepted"
        PROVE  OnRecord(p, EntriesNow')
    <3>1. CASE p \in 1..n /\ StandingNow[p] = "accepted"
      BY <1>1, <1>2, <2>1, <3>1
    <3>2. CASE Ledger!Decide(x) /\ x.proposal = p /\ x.says = "accepted"
      BY <1>4, <3>2, AcceptanceEntered
    <3>3. CASE Ledger!Remark(x) \/ Ledger!Validate(x)
      <4>1. StandingNow' = StandingNow
        BY <3>3 DEF Ledger!Remark, Ledger!Validate, StandingNow
      <4>2. 1..Len(proposals') = 1..n
        BY <4>1 DEF StandingNow
      <4> QED BY <2>2, <3>1, <4>1, <4>2
    <3>4. CASE Ledger!Propose(x)
      <4>1. StandingNow' = Append(StandingNow, x.says) /\ x.says # "accepted"
        BY <3>4 DEF Ledger!Propose, Ledger!Beginnings, StandingNow
      <4>2. /\ Len(StandingNow) = n
            /\ Append(StandingNow, x.says)
                 = [i \in 1..(n + 1) |-> IF i = n + 1 THEN x.says ELSE StandingNow[i]]
        BY <1>0, StandingAppended DEF StandingNow
      <4>3. 1..Len(proposals') = 1..(n + 1)
        BY <4>1, <4>2 DEF StandingNow
      <4>4. p # n + 1 /\ StandingNow[p] = "accepted"
        BY <2>2, <4>1, <4>2, <4>3
      <4> QED BY <1>0, <3>1, <4>3, <4>4
    <3>5. CASE Ledger!Decide(x) /\ ~(x.proposal = p /\ x.says = "accepted")
      <4>1. StandingNow' = IF x.proposal = 0 THEN StandingNow
                           ELSE [StandingNow EXCEPT ![x.proposal] = x.says]
        BY <3>5 DEF Ledger!Decide, StandingNow
      <4>2. 1..Len(proposals') = 1..n
        BY <4>1 DEF StandingNow
      <4>3. StandingNow[p] = "accepted"
        BY <2>2, <3>5, <4>1, <4>2 DEF StandingNow
      <4> QED BY <3>1, <4>2, <4>3
    <3> QED BY <1>4, <3>2, <3>3, <3>4, <3>5 DEF Ledger!Enter
  <2> QED BY <2>2 DEF Ledger!AcceptedOnTheRecord, OnRecord, EntriesNow, StandingNow
<1> QED BY <1>3, <1>4 DEF Ledger!Next

(* Every proposal that stands as accepted has, in the ledger of its own     *)
(* episode, the acceptance and before it the candidate and a validation it  *)
(* passed, numbered in that order.                                          *)
THEOREM AcceptedIsOnRecord == Spec => []Ledger!AcceptedOnTheRecord
<1>1. Init => Ledger!AcceptedOnTheRecord
  BY DEF Init, Ledger!AcceptedOnTheRecord
<1>2. Ledger!AcceptedOnTheRecord /\ StoreInv /\ StoreInv' /\ [Next]_vars
        => Ledger!AcceptedOnTheRecord'
  BY LedgerStep, RecordStep DEF StoreInv
<1> QED BY <1>1, <1>2, StoreCorrect, PTL DEF Spec
=============================================================================
