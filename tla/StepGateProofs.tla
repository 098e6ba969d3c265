--------------------------- MODULE StepGateProofs ---------------------------
(* What StepGate promises holds for every plan, however many steps it has. *)
EXTENDS StepGate, TLAPS

(* A step that has not acted since it was last granted has no effect, if it *)
(* may not be repeated.                                                     *)
OnceInv ==
    /\ GateTypeOK
    /\ \A s \in Steps \ LocalSteps :
        /\ ~acted[s] => effects[s] = 0
        /\ effects[s] <= 1

(* Whatever was granted, or has acted before, stands on finished steps. *)
OrderInv ==
    /\ GateTypeOK
    /\ \A s \in Steps : stage[s] # "waiting" \/ effects[s] # 0 =>
        \A t \in 1..(s - 1) : stage[t] = "done"

LEMMA GateTypeStep == GateTypeOK /\ [Next]_gateVars => GateTypeOK'
<1> SUFFICES ASSUME GateTypeOK, [Next]_gateVars PROVE GateTypeOK'
  OBVIOUS
<1> USE DEF GateTypeOK, Stages, Move
<1>1. ASSUME NEW s \in Steps, Act(s) PROVE GateTypeOK'
  BY <1>1 DEF Act
<1>2. ASSUME NEW s \in Steps,
             Grant(s) \/ Withdraw(s) \/ Execute(s) \/ Retract(s) \/ Finish(s) \/ Fail(s)
      PROVE  GateTypeOK'
  BY <1>2 DEF Grant, Withdraw, Execute, Retract, Finish, Fail
<1>3. CASE UNCHANGED gateVars
  BY <1>3 DEF gateVars
<1> QED BY <1>1, <1>2, <1>3 DEF Next

LEMMA OnceStep == OnceInv /\ [Next]_gateVars => OnceInv'
<1> SUFFICES ASSUME OnceInv, [Next]_gateVars PROVE OnceInv'
  OBVIOUS
<1>1. GateTypeOK'
  BY GateTypeStep DEF OnceInv
<1> USE DEF OnceInv, GateTypeOK, Move
<1>2. ASSUME NEW s \in Steps, Act(s) PROVE OnceInv'
  BY <1>1, <1>2 DEF Act
<1>3. ASSUME NEW s \in Steps, Retract(s) PROVE OnceInv'
  BY <1>1, <1>3 DEF Retract
<1>4. ASSUME NEW s \in Steps, Grant(s) \/ Withdraw(s) \/ Execute(s) \/ Finish(s) \/ Fail(s)
      PROVE  OnceInv'
  BY <1>1, <1>4 DEF Grant, Withdraw, Execute, Finish, Fail
<1>5. CASE UNCHANGED gateVars
  BY <1>1, <1>5 DEF gateVars
<1> QED BY <1>2, <1>3, <1>4, <1>5 DEF Next

LEMMA OrderStep == OrderInv /\ [Next]_gateVars => OrderInv'
<1> SUFFICES ASSUME OrderInv, [Next]_gateVars PROVE OrderInv'
  OBVIOUS
<1>1. GateTypeOK'
  BY GateTypeStep DEF OrderInv
<1>2. Steps \subseteq Nat /\ \A s \in Steps : 1..(s - 1) \subseteq Steps
  BY GateAssumption DEF Steps
<1> USE DEF OrderInv, GateTypeOK
<1>3. ASSUME NEW s \in Steps, Grant(s) PROVE OrderInv'
  BY <1>1, <1>2, <1>3 DEF Grant, Move
<1>4. ASSUME NEW s \in Steps, Act(s) PROVE OrderInv'
  BY <1>1, <1>2, <1>4 DEF Act
<1>5. ASSUME NEW s \in Steps,
             Withdraw(s) \/ Execute(s) \/ Retract(s) \/ Finish(s) \/ Fail(s)
      PROVE  OrderInv'
  BY <1>1, <1>2, <1>5 DEF Withdraw, Execute, Retract, Finish, Fail, Move
<1>6. CASE UNCHANGED gateVars
  BY <1>1, <1>6 DEF gateVars
<1> QED BY <1>3, <1>4, <1>5, <1>6 DEF Next

(* A step that may not be repeated acts at most once, for every plan. *)
THEOREM AtMostOnceCorrect == Spec => []AtMostOnce
<1>1. Init => OnceInv
  BY DEF Init, OnceInv, GateTypeOK, Stages
<1>2. OnceInv => AtMostOnce
  BY DEF OnceInv, AtMostOnce
<1> QED BY <1>1, <1>2, OnceStep, PTL DEF Spec

(* Nothing acts before the steps it depends on are done, for every plan. *)
THEOREM InOrderCorrect == Spec => []InOrder
<1>1. Init => OrderInv
  BY DEF Init, OrderInv, GateTypeOK, Stages
<1>2. OrderInv => InOrder
  BY DEF OrderInv, InOrder
<1> QED BY <1>1, <1>2, OrderStep, PTL DEF Spec
=============================================================================
