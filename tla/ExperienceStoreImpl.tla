------------------------- MODULE ExperienceStoreImpl -------------------------
(* ExperienceStore implements RepairLedger: an entry is an event with what  *)
(* the row it is about says; a proposal stands as its status.               *)
EXTENDS ExperienceStore

(* What an event says of which proposal; a proposal, what it began as.      *)
Says(v) ==
    CASE v.kind = "proposal" ->
           <<v.ref, IF proposals[v.ref].historical THEN "historical_candidate" ELSE "candidate">>
      [] v.kind = "validation" ->
           <<validations[v.ref].proposal, IF validations[v.ref].passed THEN "passed" ELSE "failed">>
      [] v.kind = "decision" -> <<decisions[v.ref].proposal, decisions[v.ref].outcome>>
      [] OTHER -> <<0, "none">>

EntryOf(v) == [episode |-> v.episode, number |-> v.sequence, kind |-> v.kind,
               proposal |-> Says(v)[1], says |-> Says(v)[2]]

Ledger == INSTANCE RepairLedger WITH
    opened <- Len(episodes),
    ledger <- {EntryOf(v) : v \in events},
    standing <- [p \in 1..Len(proposals) |-> proposals[p].status]

(* Every transaction, whichever callers, imports and crashes come between,  *)
(* makes one entry or changes nothing a reader was promised, and a status   *)
(* moves only together with the entry that says so.                         *)
ImplementsLedger == Ledger!Spec
=============================================================================
