---------------------------- MODULE RepairLedger ----------------------------
(***************************************************************************)
(* What the experience store is to its readers, with no tables, clocks,    *)
(* locks or processes in it: "an append-oriented audit bundle".  The       *)
(* entries of an episode are numbered and none is ever struck out; what a  *)
(* proposal stands as is what was entered about it last; and nothing is    *)
(* accepted without grounds that are in the ledger already.                *)
(* ExperienceStore implements this specification (ExperienceStoreImpl).    *)
(***************************************************************************)
EXTENDS Naturals, Sequences

VARIABLES
    opened,    \* the number of episodes
    ledger,    \* the entries of all episodes
    standing   \* what each proposal stands as

ledgerVars == <<opened, ledger, standing>>

Remarks == {"note", "capture", "legacy_import"}
Beginnings == {"candidate", "historical_candidate"}
Rulings == {"accepted", "rejected", "deferred", "superseded", "historical_candidate",
            "needs_review"}

Init == opened = 0 /\ ledger = {} /\ standing = <<>>

Open == opened' = opened + 1 /\ UNCHANGED <<ledger, standing>>

EntriesOf(e) == {x \in ledger : x.episode = e}

Entered(e, kind, p, says) ==
    \E x \in EntriesOf(e) : x.kind = kind /\ x.proposal = p /\ x.says = says

(* An entry is about the episode as a whole (0) or a proposal of its own. *)
OwnMatter(x) == x.proposal = 0 \/ \E as \in Beginnings : Entered(x.episode, "proposal", x.proposal, as)

(* The four kinds of entries that may be made. *)
Remark(x) == x.kind \in Remarks /\ x.proposal = 0 /\ UNCHANGED standing

Propose(x) ==
    /\ x.kind = "proposal" /\ x.proposal = Len(standing) + 1 /\ x.says \in Beginnings
    /\ standing' = Append(standing, x.says)

Validate(x) ==
    /\ x.kind = "validation" /\ x.says \in {"passed", "failed"} /\ OwnMatter(x)
    /\ UNCHANGED standing

Decide(x) ==
    /\ x.kind = "decision" /\ x.says \in Rulings /\ OwnMatter(x)
    /\ x.says = "accepted" =>
        /\ Entered(x.episode, "proposal", x.proposal, "candidate")
        /\ Entered(x.episode, "validation", x.proposal, "passed")
    /\ standing' = IF x.proposal = 0 THEN standing ELSE [standing EXCEPT ![x.proposal] = x.says]

(* The next entry of an episode. *)
Enter(x) ==
    /\ ledger' = ledger \cup {x}
    /\ x.episode \in 1..opened
    /\ x.number \in Nat \ {0} /\ {y.number : y \in EntriesOf(x.episode)} = 1..(x.number - 1)
    /\ Remark(x) \/ Propose(x) \/ Validate(x) \/ Decide(x)
    /\ UNCHANGED opened

Next == Open \/ \E x \in ledger' \ ledger : Enter(x)

Spec == Init /\ [][Next]_ledgerVars

(* Who reads the ledger alone finds for every proposal that stands as       *)
(* accepted the acceptance, and before it, in the same episode, the         *)
(* candidate and a validation it passed.                                    *)
AcceptedOnTheRecord ==
    \A p \in DOMAIN standing : standing[p] = "accepted" =>
        \E x, y, z \in ledger :
            /\ x.kind = "proposal" /\ x.says = "candidate"
            /\ y.kind = "validation" /\ y.says = "passed"
            /\ z.kind = "decision" /\ z.says = "accepted"
            /\ {x.proposal, y.proposal, z.proposal} = {p}
            /\ x.episode = z.episode /\ x.number < z.number
            /\ y.episode = z.episode /\ y.number < z.number
=============================================================================
