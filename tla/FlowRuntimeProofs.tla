------------------------- MODULE FlowRuntimeProofs --------------------------
(* Proofs about the Flow v2 state machine, for every flow and every set of
   receipts, arguments and values. *)
EXTENDS FlowRuntime, TLAPS

(* The time the provers have for a step that names none itself. *)
USE SMTT(60), ZenonT(60)

(* A record without the "none" fields is still a key. *)
LEMMA KeyType ==
    ASSUME TypeOK, NEW r \in Receipts, NEW t \in Tools, NEW a \in Args
    PROVE  /\ FlowCapabilityScope.step \in Scopes
           /\ FlowCapabilityScope.attempt \in Nat
           /\ ActionIdempotencyKey(r, t, a) \in Key
<1>1. /\ FlowCapabilityScope.step \in Scopes
      /\ FlowCapabilityScope.attempt \in Nat
  BY DEF TypeOK, FlowCapabilityScope, StepActive, Finished, Scopes
<1>2. NoKey \in Key
  BY DEF NoKey, Key
<1>. QED
  <2>. DEFINE scope == FlowCapabilityScope
  <2>1. /\ scope.step \in Scopes \cup {None}
        /\ scope.attempt \in Nat
    BY <1>1
  <2>. HIDE DEF scope
  <2>2. [NoKey EXCEPT !.tool = t] \in Key
    BY DEF NoKey, Key
  <2>3. [NoKey EXCEPT !.tool = t, !.args = a] \in Key
    BY Zenon DEF NoKey, Key
  <2>4. [NoKey EXCEPT !.tool = t, !.step = scope.step, !.attempt = scope.attempt] \in Key
    BY <2>1, Zenon DEF NoKey, Key
  <2>5. [NoKey EXCEPT !.tool = t, !.step = scope.step, !.attempt = scope.attempt,
         !.args = a] \in Key
    BY <2>1, Zenon DEF NoKey, Key
  <2>6. [NoKey EXCEPT !.tool = t, !.step = scope.step, !.id = r] \in Key
    BY <2>1, Zenon DEF NoKey, Key
  <2>. QED
    BY <1>1, <2>2, <2>3, <2>4, <2>5, <2>6 DEF ActionIdempotencyKey, scope

(* Reservation writes a well-typed receipt. *)
LEMMA NewReceiptType ==
    ASSUME TypeOK, NEW r \in Receipts, NEW t \in Tools, NEW a \in Args
    PROVE  NewReceipt(r, t, a) \in Receipt
<1>1. /\ FlowCapabilityScope.step \in Scopes
      /\ ActionIdempotencyKey(r, t, a) \in Key
  BY KeyType
<1>2. capabilityEpoch \in Nat
  BY DEF TypeOK
<1>. QED
  BY <1>1, <1>2, Zenon DEF NewReceipt, NoReceipt, Receipt, Statuses

(* The updates the actions make to a receipt keep its type. *)
LEMMA ReceiptUpdates ==
    ASSUME TypeOK, NEW r \in Receipts
    PROVE  /\ [actionReceipts[r] EXCEPT !.dispatched = TRUE] \in Receipt
           /\ [actionReceipts[r] EXCEPT !.hot = FALSE] \in Receipt
           /\ \A st \in Statuses :
                /\ [actionReceipts[r] EXCEPT !.status = st] \in Receipt
                /\ [actionReceipts[r] EXCEPT !.status = st, !.proof = TRUE] \in Receipt
                /\ \A v \in Values \cup {None} :
                     /\ [actionReceipts[r] EXCEPT !.status = st, !.result = v] \in Receipt
                     /\ [actionReceipts[r] EXCEPT !.status = st, !.result = v,
                         !.proof = TRUE] \in Receipt
<1>1. actionReceipts[r] \in Receipt
  BY DEF TypeOK
<1>. QED
  BY <1>1, ZenonT(120) DEF Receipt

(* Every step keeps the types. *)
LEMMA TypeStep == TypeOK /\ [Next]_vars => TypeOK'
<1>. SUFFICES ASSUME TypeOK, [Next]_vars PROVE TypeOK'
  OBVIOUS
<1>1. CASE UNCHANGED vars
  BY <1>1 DEF vars, TypeOK
<1>2. ASSUME NEW n \in Nodes, SelectFlowTopic(n) PROVE TypeOK'
  BY <1>2 DEF SelectFlowTopic, UpdateCapabilities, TypeOK
<1>3. ASSUME NEW s \in Steps, EnterFlowStep(s) PROVE TypeOK'
  <2>1. attempts' \in [Steps -> Nat]
    BY <1>3 DEF EnterFlowStep, TypeOK
  <2>2. outputs' \in [Steps -> [value : Values \cup {None}, present : BOOLEAN]]
    BY <1>3 DEF EnterFlowStep, TypeOK, NoOutput
  <2>. QED
    BY <1>3, <2>1, <2>2, FlowAssumption DEF EnterFlowStep, UpdateCapabilities, TypeOK
<1>4. ASSUME NEW v \in Values \cup {None}, CompleteFlowStep(v) PROVE TypeOK'
  <2>1. currentStep \in Steps
    BY <1>4 DEF CompleteFlowStep, StepActive, TypeOK
  <2>2. actionReceipts' \in [Receipts -> Receipt]
    <3>1. ASSUME NEW r \in Receipts PROVE [actionReceipts[r] EXCEPT !.hot = FALSE] \in Receipt
      BY ReceiptUpdates, Zenon
    <3>. QED
      BY <1>4, <3>1 DEF CompleteFlowStep, CompactCompletedStepReceipts, TypeOK
  <2>3. outputs' \in [Steps -> [value : Values \cup {None}, present : BOOLEAN]]
    BY <1>4, <2>1 DEF CompleteFlowStep, TypeOK, Output
  <2>. QED
    BY <1>4, <2>1, <2>2, <2>3 DEF CompleteFlowStep, UpdateCapabilities, TypeOK
<1>5. ASSUME NEW r \in Receipts, NEW t \in Tools, NEW a \in Args, NEW e \in 0 .. capabilityEpoch,
             ReserveFlowAction(r, t, a, e)
      PROVE  TypeOK'
  BY <1>5, NewReceiptType DEF ReserveFlowAction, flowVars, TypeOK
<1>6. ASSUME NEW r \in Receipts, MarkFlowActionDispatchStarted(r) PROVE TypeOK'
  <2>1. [actionReceipts[r] EXCEPT !.dispatched = TRUE] \in Receipt
    BY ReceiptUpdates, Zenon
  <2>. QED
    BY <1>6, <2>1 DEF MarkFlowActionDispatchStarted, flowVars, TypeOK
<1>7. ASSUME NEW r \in Receipts, NEW v \in Values \cup {None}, NEW outcome \in Statuses,
             SettleFlowAction(r, outcome, v)
      PROVE  TypeOK'
  <2>1. [actionReceipts[r] EXCEPT !.status = outcome, !.result = v] \in Receipt
    BY ReceiptUpdates, Zenon
  <2>. QED
    BY <1>7, <2>1 DEF SettleFlowAction, flowVars, TypeOK
<1>8. ASSUME NEW r \in Receipts, NEW v \in Values \cup {None}, PromoteIndeterminateFlowAction(r, v)
      PROVE  TypeOK'
  <2>1. [actionReceipts[r] EXCEPT !.status = "succeeded", !.result = v, !.proof = TRUE] \in Receipt
    BY ReceiptUpdates, Zenon DEF Statuses
  <2>. QED
    BY <1>8, <2>1 DEF PromoteIndeterminateFlowAction, flowVars, TypeOK
<1>9. ASSUME NEW r \in Receipts, ProveIndeterminateFlowActionAbsent(r) PROVE TypeOK'
  <2>1. [actionReceipts[r] EXCEPT !.status = "failed", !.proof = TRUE] \in Receipt
    BY ReceiptUpdates, Zenon DEF Statuses
  <2>. QED
    BY <1>9, <2>1 DEF ProveIndeterminateFlowActionAbsent, flowVars, TypeOK
<1>10. ASSUME NEW ids \in SUBSET Receipts, MarkStaleDispatchedActionsIndeterminate(ids)
       PROVE  TypeOK'
  <2>1. ASSUME NEW r \in Receipts
        PROVE  [actionReceipts[r] EXCEPT !.status = "indeterminate"] \in Receipt
    BY ReceiptUpdates, Zenon DEF Statuses
  <2>. QED
    BY <1>10, <2>1 DEF MarkStaleDispatchedActionsIndeterminate, flowVars, TypeOK
<1>. QED
  BY <1>1, <1>2, <1>3, <1>4, <1>5, <1>6, <1>7, <1>8, <1>9, <1>10 DEF Next, Statuses

(* Every reachable state is a well-typed FlowExecutionState. *)
THEOREM TypeCorrect == Spec => []TypeOK
<1>1. Init => TypeOK
  BY FlowAssumption DEF Init, TypeOK, NoOutput, NoReceipt, NoKey, Receipt, Key, Statuses, Scopes
<1>. QED
  BY <1>1, TypeStep, PTL DEF Spec

------------------------------------------------------------------------------
(* What a step does to one receipt, by its fields.  The invariants below are
   proved from this relation and not from the record updates of the actions. *)
SameIdentity(x, y) ==
    y.step = x.step /\ y.tool = x.tool /\ y.args = x.args /\ y.epoch = x.epoch /\ y.key = x.key

Evolves(x, y) ==
    /\ SameIdentity(x, y)
    /\ x.dispatched => y.dispatched
    /\ \/ /\ y.status = x.status /\ y.result = x.result /\ y.proof = x.proof
          /\ y.hot = x.hot \/ x.status \in {"succeeded", "failed"}
          /\ y.dispatched = x.dispatched \/ x.status = "reserved"
       \/ /\ x.status = "reserved"
          /\ y.status \in {"succeeded", "failed", "indeterminate"}
          /\ y.status = "failed" \/ y.dispatched
          /\ y.status = "succeeded" \/ y.result \in {None, x.result}
          /\ y.proof = x.proof /\ y.hot = x.hot
       \/ /\ x.status = "indeterminate"
          /\ y.status \in {"succeeded", "failed"}
          /\ y.dispatched /\ y.proof /\ y.hot = x.hot
          /\ y.status = "succeeded" \/ y.result = x.result

IsReserved(y) == y.status = "reserved" /\ ~y.dispatched /\ y.result = None /\ ~y.proof /\ y.hot

(* The dispatch mark is an evolution. *)
LEMMA DispatchEvolves ==
    ASSUME NEW x \in Receipt, x.status = "reserved"
    PROVE  Evolves(x, [x EXCEPT !.dispatched = TRUE])
<1>. DEFINE y == [x EXCEPT !.dispatched = TRUE]
<1>1. /\ SameIdentity(x, y)
      /\ y.status = x.status /\ y.dispatched = TRUE /\ y.result = x.result
      /\ y.proof = x.proof /\ y.hot = x.hot
  BY Zenon DEF Receipt, SameIdentity
<1>. QED
  BY <1>1, Zenon DEF Evolves

(* Compaction is an evolution. *)
LEMMA CompactionEvolves ==
    ASSUME NEW x \in Receipt, x.status \in {"succeeded", "failed"}
    PROVE  Evolves(x, [x EXCEPT !.hot = FALSE])
<1>. DEFINE y == [x EXCEPT !.hot = FALSE]
<1>1. /\ SameIdentity(x, y)
      /\ y.status = x.status /\ y.dispatched = x.dispatched /\ y.result = x.result
      /\ y.proof = x.proof /\ y.hot = FALSE
  BY Zenon DEF Receipt, SameIdentity
<1>. QED
  BY <1>1, Zenon DEF Evolves

(* Recovery of a stale receipt is an evolution. *)
LEMMA RecoveryEvolves ==
    ASSUME NEW x \in Receipt, x.status = "reserved", x.dispatched
    PROVE  Evolves(x, [x EXCEPT !.status = "indeterminate"])
<1>. DEFINE y == [x EXCEPT !.status = "indeterminate"]
<1>1. /\ SameIdentity(x, y)
      /\ y.status = "indeterminate" /\ y.dispatched = x.dispatched /\ y.result = x.result
      /\ y.proof = x.proof /\ y.hot = x.hot
  BY Zenon DEF Receipt, SameIdentity
<1>. QED
  BY <1>1, Zenon DEF Evolves

(* Settlement is an evolution. *)
LEMMA SettlementEvolves ==
    ASSUME NEW x \in Receipt, NEW o \in {"succeeded", "failed", "indeterminate"}, NEW v,
           x.status = "reserved", o = "failed" \/ x.dispatched, o = "succeeded" \/ v = None
    PROVE  Evolves(x, [x EXCEPT !.status = o, !.result = v])
<1>. DEFINE y == [x EXCEPT !.status = o, !.result = v]
<1>1. /\ SameIdentity(x, y)
      /\ y.status = o /\ y.dispatched = x.dispatched /\ y.result = v /\ y.proof = x.proof
      /\ y.hot = x.hot
  BY Zenon DEF Receipt, SameIdentity
<1>. QED
  BY <1>1, Zenon DEF Evolves

(* Promotion by a proof is an evolution. *)
LEMMA PromotionEvolves ==
    ASSUME NEW x \in Receipt, NEW v, x.status = "indeterminate", x.dispatched
    PROVE  Evolves(x, [x EXCEPT !.status = "succeeded", !.result = v, !.proof = TRUE])
<1>. DEFINE y == [x EXCEPT !.status = "succeeded", !.result = v, !.proof = TRUE]
<1>1. /\ SameIdentity(x, y)
      /\ y.status = "succeeded" /\ y.dispatched = x.dispatched /\ y.result = v
      /\ y.proof = TRUE /\ y.hot = x.hot
  BY Zenon DEF Receipt, SameIdentity
<1>. QED
  BY <1>1, Zenon DEF Evolves

(* A proof of absence is an evolution. *)
LEMMA AbsenceEvolves ==
    ASSUME NEW x \in Receipt, x.status = "indeterminate", x.dispatched
    PROVE  Evolves(x, [x EXCEPT !.status = "failed", !.proof = TRUE])
<1>. DEFINE y == [x EXCEPT !.status = "failed", !.proof = TRUE]
<1>1. /\ SameIdentity(x, y)
      /\ y.status = "failed" /\ y.dispatched = x.dispatched /\ y.result = x.result
      /\ y.proof = TRUE /\ y.hot = x.hot
  BY Zenon DEF Receipt, SameIdentity
<1>. QED
  BY <1>1, Zenon DEF Evolves

(* Nothing happens to a receipt that no action touches. *)
LEMMA StutterEvolves == ASSUME NEW x PROVE Evolves(x, x)
  BY Zenon DEF Evolves, SameIdentity

------------------------------------------------------------------------------
(* The safety invariants.  Most follow from two views of a step: what it does
   to each receipt (ReceiptSteps), and which position changes it makes
   (FlowSteps). *)

(* What a reservation writes (flow-runtime.ts:744-757). *)
Reserves(r, t, a) ==
    LET y == actionReceipts'[r]
    IN  /\ IsReserved(y)
        /\ y.step = FlowCapabilityScope.step /\ y.tool = t /\ y.args = a
        /\ y.epoch = capabilityEpoch /\ y.key = ActionIdempotencyKey(r, t, a)

(* A reservation writes the new receipt and no other. *)
LEMMA ReservationFields ==
    ASSUME TypeOK, NEW r \in Receipts, NEW t \in Tools, NEW a \in Args, NEW e,
           ReserveFlowAction(r, t, a, e)
    PROVE  /\ Reserves(r, t, a)
           /\ \A x \in Receipts \ {r} : actionReceipts'[x] = actionReceipts[x]
<1>. DEFINE y == NewReceipt(r, t, a)
<1>1. /\ actionReceipts'[r] = y
      /\ \A x \in Receipts \ {r} : actionReceipts'[x] = actionReceipts[x]
  BY DEF ReserveFlowAction, TypeOK
<1>2. /\ y.status = "reserved" /\ y.dispatched = FALSE /\ y.result = None /\ y.proof = FALSE
      /\ y.hot = TRUE /\ y.step = FlowCapabilityScope.step /\ y.tool = t /\ y.args = a
      /\ y.epoch = capabilityEpoch /\ y.key = ActionIdempotencyKey(r, t, a)
  BY Zenon DEF NewReceipt, NoReceipt
<1>. QED
  BY <1>1, <1>2, Zenon DEF Reserves, IsReserved

(* Every step lets each receipt evolve, or reserves it. *)
LEMMA ReceiptSteps ==
    ASSUME TypeOK, [Next]_vars, NEW r \in Receipts
    PROVE  \/ Evolves(actionReceipts[r], actionReceipts'[r])
           \/ \E t \in Tools, a \in Args, e \in 0 .. capabilityEpoch :
                ReserveFlowAction(r, t, a, e) /\ Reserves(r, t, a)
<1>0. actionReceipts[r] \in Receipt
  BY DEF TypeOK
<1>. DEFINE x == actionReceipts[r]
            y == actionReceipts'[r]
<1>1. ASSUME y = x PROVE Evolves(x, y)
  BY <1>1, StutterEvolves
<1>2. ASSUME NEW v \in Values \cup {None}, CompleteFlowStep(v) PROVE Evolves(x, y)
  <2>1. y = x \/ (x.status \in {"succeeded", "failed"} /\ y = [x EXCEPT !.hot = FALSE])
    BY <1>2 DEF CompleteFlowStep, CompactCompletedStepReceipts
  <2>. QED
    BY <1>0, <2>1, StutterEvolves, CompactionEvolves
<1>3. ASSUME NEW q \in Receipts, NEW t \in Tools, NEW a \in Args, NEW e \in 0 .. capabilityEpoch,
             ReserveFlowAction(q, t, a, e)
      PROVE  Evolves(x, y) \/ (q = r /\ Reserves(r, t, a))
  <2>1. y = x \/ (q = r /\ Reserves(r, t, a))
    BY <1>3, ReservationFields
  <2>. QED
    BY <1>1, <2>1
<1>4. ASSUME NEW q \in Receipts, MarkFlowActionDispatchStarted(q) PROVE Evolves(x, y)
  <2>1. y = x \/ (x.status = "reserved" /\ y = [x EXCEPT !.dispatched = TRUE])
    BY <1>4, Zenon DEF MarkFlowActionDispatchStarted, TypeOK
  <2>. QED
    BY <1>0, <2>1, StutterEvolves, DispatchEvolves
<1>5. ASSUME NEW q \in Receipts, NEW o \in {"succeeded", "failed", "indeterminate"}, NEW v,
             o = "succeeded" \/ v = None, SettleFlowAction(q, o, v)
      PROVE  Evolves(x, y)
  <2>1. y = x \/ (/\ x.status = "reserved" /\ (o = "failed" \/ x.dispatched)
                  /\ y = [x EXCEPT !.status = o, !.result = v])
    BY <1>5, Zenon DEF SettleFlowAction, TypeOK
  <2>2. CASE y = x
    BY <2>2, StutterEvolves
  <2>3. ASSUME x.status = "reserved", o = "failed" \/ x.dispatched
        PROVE  Evolves(x, [x EXCEPT !.status = o, !.result = v])
    <3>. HIDE DEF x
    <3>. QED  BY <1>0, <1>5, <2>3, SettlementEvolves, Zenon DEF x
  <2>. QED
    BY <2>1, <2>2, <2>3
<1>6. ASSUME NEW q \in Receipts, NEW v, PromoteIndeterminateFlowAction(q, v) PROVE Evolves(x, y)
  <2>1. y = x \/ (/\ x.status = "indeterminate" /\ x.dispatched
                  /\ y = [x EXCEPT !.status = "succeeded", !.result = v, !.proof = TRUE])
    BY <1>6, Zenon DEF PromoteIndeterminateFlowAction, TypeOK
  <2>. QED
    BY <1>0, <2>1, StutterEvolves, PromotionEvolves, ZenonT(40)
<1>7. ASSUME NEW q \in Receipts, ProveIndeterminateFlowActionAbsent(q) PROVE Evolves(x, y)
  <2>1. y = x \/ (/\ x.status = "indeterminate" /\ x.dispatched
                  /\ y = [x EXCEPT !.status = "failed", !.proof = TRUE])
    BY <1>7, Zenon DEF ProveIndeterminateFlowActionAbsent, TypeOK
  <2>. QED
    BY <1>0, <2>1, StutterEvolves, AbsenceEvolves, Zenon
<1>8. ASSUME NEW ids \in SUBSET Receipts, MarkStaleDispatchedActionsIndeterminate(ids)
      PROVE  Evolves(x, y)
  <2>1. y = x \/ (/\ x.status = "reserved" /\ x.dispatched
                  /\ y = [x EXCEPT !.status = "indeterminate"])
    BY <1>8 DEF MarkStaleDispatchedActionsIndeterminate, Stale
  <2>. QED
    BY <1>0, <2>1, StutterEvolves, RecoveryEvolves
<1>9. ASSUME \/ UNCHANGED vars
             \/ \E n \in Nodes : SelectFlowTopic(n)
             \/ \E s \in Steps : EnterFlowStep(s)
      PROVE  Evolves(x, y)
  <2>1. y = x
    BY <1>9 DEF vars, SelectFlowTopic, EnterFlowStep
  <2>. QED
    BY <1>1, <2>1
<1>. HIDE DEF x, y
<1>. QED
  <2>1. CASE \E q \in Receipts, t \in Tools, a \in Args, e \in 0 .. capabilityEpoch :
               ReserveFlowAction(q, t, a, e)
    BY <1>3, <2>1 DEF x, y
  <2>2. CASE \E q \in Receipts, v \in Values \cup {None} : SettleFlowAction(q, "succeeded", v)
    BY <1>5, <2>2 DEF x, y
  <2>4. CASE \E q \in Receipts, o \in {"failed", "indeterminate"} : SettleFlowAction(q, o, None)
    BY <1>5, <2>4 DEF x, y
  <2>3. Next \/ UNCHANGED vars
    OBVIOUS
  <2>. QED
    BY <1>2, <1>4, <1>6, <1>7, <1>8, <1>9, <2>1, <2>2, <2>3, <2>4 DEF Next, x, y

(* The steps that move the call; every other one leaves its position alone. *)
LEMMA FlowSteps ==
    ASSUME [Next]_vars
    PROVE  \/ UNCHANGED flowVars
           \/ \E n \in Nodes : SelectFlowTopic(n)
           \/ \E s \in Steps : EnterFlowStep(s)
           \/ \E v \in Values \cup {None} : CompleteFlowStep(v)
<1>1. UNCHANGED vars => UNCHANGED flowVars
  BY DEF vars, flowVars
<1>2. ASSUME Next PROVE \/ UNCHANGED flowVars
                        \/ \E n \in Nodes : SelectFlowTopic(n)
                        \/ \E s \in Steps : EnterFlowStep(s)
                        \/ \E v \in Values \cup {None} : CompleteFlowStep(v)
  BY <1>2, Zenon DEF Next, ReserveFlowAction, MarkFlowActionDispatchStarted, SettleFlowAction,
     PromoteIndeterminateFlowAction, ProveIndeterminateFlowActionAbsent,
     MarkStaleDispatchedActionsIndeterminate
<1>. QED
  BY <1>1, <1>2

------------------------------------------------------------------------------
(* The receipts' part of the state schema, strengthened to be inductive: a
   receipt that is not resolved has no result and no proof, so that a proof of
   absence cannot leave a result behind. *)
WellFormed(x) ==
    /\ x.status \in {"none", "reserved", "indeterminate"} => x.result = None /\ ~x.proof /\ x.hot
    /\ x.status = "none" => ~x.dispatched
    /\ x.status \in {"succeeded", "indeterminate"} => x.dispatched
    /\ x.proof /\ x.status = "failed" => x.result = None
ReceiptsWellFormed == \A r \in Receipts : WellFormed(actionReceipts[r])

(* An evolution keeps a receipt well formed. *)
LEMMA EvolutionWellFormed ==
    ASSUME NEW x \in Receipt, NEW y \in Receipt, WellFormed(x), Evolves(x, y)
    PROVE  WellFormed(y)
<1>1. CASE /\ y.status = x.status /\ y.result = x.result /\ y.proof = x.proof
           /\ y.hot = x.hot \/ x.status \in {"succeeded", "failed"}
           /\ y.dispatched = x.dispatched \/ x.status = "reserved"
  BY <1>1 DEF WellFormed, Evolves
<1>2. CASE /\ x.status = "reserved"
           /\ y.status \in {"succeeded", "failed", "indeterminate"}
           /\ y.status = "failed" \/ y.dispatched
           /\ y.status = "succeeded" \/ y.result \in {None, x.result}
           /\ y.proof = x.proof /\ y.hot = x.hot
  BY <1>2 DEF WellFormed
<1>3. CASE /\ x.status = "indeterminate"
           /\ y.status \in {"succeeded", "failed"}
           /\ y.dispatched
           /\ y.status = "succeeded" \/ y.result = x.result
  BY <1>3 DEF WellFormed
<1>. QED
  BY <1>1, <1>2, <1>3 DEF Evolves

(* Receipts stay well formed: every update of a receipt in flow-runtime.ts keeps
   the cross-field rules of its schema. *)
THEOREM ReceiptsStayWellFormed == Spec => []ReceiptsWellFormed
<1>1. Init => ReceiptsWellFormed
  BY DEF Init, ReceiptsWellFormed, WellFormed, NoReceipt
<1>2. ASSUME TypeOK, TypeOK', ReceiptsWellFormed, [Next]_vars PROVE ReceiptsWellFormed'
  <2>. SUFFICES ASSUME NEW r \in Receipts PROVE WellFormed(actionReceipts'[r])
    BY DEF ReceiptsWellFormed
  <2>1. /\ actionReceipts[r] \in Receipt /\ actionReceipts'[r] \in Receipt
        /\ WellFormed(actionReceipts[r])
    BY <1>2 DEF TypeOK, ReceiptsWellFormed
  <2>2. CASE Evolves(actionReceipts[r], actionReceipts'[r])
    BY <2>1, <2>2, EvolutionWellFormed
  <2>3. ASSUME NEW t, NEW a, Reserves(r, t, a) PROVE WellFormed(actionReceipts'[r])
    BY <2>3 DEF Reserves, IsReserved, WellFormed
  <2>. QED
    BY <1>2, <2>2, <2>3, ReceiptSteps
<1>. QED
  BY <1>1, <1>2, TypeCorrect, PTL DEF Spec

(* A resolved receipt keeps its outcome, an indeterminate one is resolved by a
   proof only, and the dispatch boundary is never taken back. *)
THEOREM ReceiptsKeepOutcome == Spec => ReceiptsKeepTheirOutcome
<1>1. ASSUME TypeOK, ReceiptsWellFormed, [Next]_vars PROVE ReceiptLifecycle
  <2>. SUFFICES ASSUME NEW r \in Receipts
                PROVE  LET old == actionReceipts[r]
                           new == actionReceipts'[r]
                       IN  /\ old.status \in {"succeeded", "failed"} =>
                                new.status = old.status /\ new.result = old.result
                           /\ old.status = "indeterminate" /\ new.status # "indeterminate" => new.proof
                           /\ old.dispatched => new.dispatched
                           /\ old.status # "none" => /\ new.key = old.key
                                                     /\ new.epoch = old.epoch
    BY DEF ReceiptLifecycle
  <2>1. CASE Evolves(actionReceipts[r], actionReceipts'[r])
    BY <2>1 DEF Evolves, SameIdentity
  <2>2. ASSUME NEW t, NEW a, NEW e, ReserveFlowAction(r, t, a, e)
        PROVE  actionReceipts[r].status = "none" /\ ~actionReceipts[r].dispatched
    BY <1>1, <2>2 DEF ReserveFlowAction, Admissible, ReceiptsWellFormed, WellFormed
  <2>. QED
    BY <1>1, <2>1, <2>2, ReceiptSteps
<1>. QED
  BY <1>1, TypeCorrect, ReceiptsStayWellFormed, PTL DEF Spec, ReceiptsKeepTheirOutcome

------------------------------------------------------------------------------
(* The position's part of the state schema. *)
PositionValid ==
    /\ status = "routing" => nodeId = None /\ currentStep = None
    /\ status = "active" => nodeId # None
    /\ status = "completed" => currentStep = None
    /\ \A s \in Steps : s \in completedSteps <=> outputs[s].present
    /\ checkpoints \subseteq completedSteps

(* The position of the call, its outputs and its checkpoints fit together after
   every classification, entry and completion. *)
THEOREM PositionStaysValid == Spec => []PositionValid
<1>1. Init => PositionValid
  BY DEF Init, PositionValid, NoOutput
<1>2. ASSUME TypeOK, PositionValid, [Next]_vars PROVE PositionValid'
  <2>1. CASE UNCHANGED flowVars
    BY <1>2, <2>1 DEF flowVars, PositionValid
  <2>2. ASSUME NEW n \in Nodes, SelectFlowTopic(n) PROVE PositionValid'
    BY <1>2, <2>2, NameAssumption DEF SelectFlowTopic, PositionValid
  <2>3. ASSUME NEW s \in Steps, EnterFlowStep(s) PROVE PositionValid'
    <3>1. /\ status' = "active" /\ nodeId' = NodeOf[s] /\ currentStep' = s
          /\ completedSteps' = {c \in completedSteps : ~InSubtree(c, s)}
          /\ outputs' = [c \in Steps |-> IF InSubtree(c, s) THEN NoOutput ELSE outputs[c]]
          /\ checkpoints' = {c \in checkpoints : ~InSubtree(c, s)}
      BY <2>3 DEF EnterFlowStep
    <3>2. nodeId' # None
      BY <3>1, FlowAssumption, NameAssumption
    <3>3. \A c \in Steps : c \in completedSteps' <=> outputs'[c].present
      BY <1>2, <3>1 DEF PositionValid, NoOutput
    <3>4. checkpoints' \subseteq completedSteps'
      BY <1>2, <3>1 DEF PositionValid
    <3>. QED
      BY <3>1, <3>2, <3>3, <3>4 DEF PositionValid
  <2>4. ASSUME NEW v \in Values \cup {None}, CompleteFlowStep(v) PROVE PositionValid'
    <3>1. currentStep \in Steps /\ status = "active"
      BY <1>2, <2>4 DEF CompleteFlowStep, StepActive, TypeOK, PositionValid
    <3>2. PICK o \in Values \cup {None} :
            /\ completedSteps' = completedSteps \cup {currentStep}
            /\ outputs' = [outputs EXCEPT ![currentStep] = Output(o)]
            /\ checkpoints' = checkpoints \cup ({currentStep} \cap Checkpointed)
            /\ \/ status' = "completed" /\ currentStep' = None
               \/ UNCHANGED <<status, currentStep>>
            /\ nodeId' = nodeId
      BY <2>4, Zenon DEF CompleteFlowStep
    <3>3. \A c \in Steps : c \in completedSteps' <=> outputs'[c].present
      BY <1>2, <3>1, <3>2 DEF PositionValid, Output, TypeOK
    <3>. QED
      BY <1>2, <3>1, <3>2, <3>3 DEF PositionValid
  <2>. QED
    BY <1>2, <2>1, <2>2, <2>3, <2>4, FlowSteps
<1>. QED
  BY <1>1, <1>2, TypeCorrect, PTL DEF Spec

(* Every state a mutation produces satisfies the cross-field rules of
   FlowExecutionStateSchema, so no mutation is rejected when it is persisted. *)
THEOREM PersistedStateValid == Spec => []PersistedStateIsValid
<1>1. TypeOK /\ PositionValid /\ ReceiptsWellFormed => PersistedStateIsValid
  <2>. SUFFICES ASSUME TypeOK, PositionValid, ReceiptsWellFormed PROVE PersistedStateIsValid
    OBVIOUS
  <2>1. ASSUME NEW r \in Receipts
        PROVE  LET receipt == actionReceipts[r]
               IN  /\ receipt.status \in {"succeeded", "indeterminate"} => receipt.dispatched
                   /\ ~receipt.hot => receipt.status \in {"succeeded", "failed"}
                   /\ receipt.proof => receipt.status \in {"succeeded", "failed"}
                   /\ receipt.proof /\ receipt.status = "failed" => receipt.result = None
    <3>1. actionReceipts[r].status \in Statuses
      BY DEF TypeOK, Receipt
    <3>. QED
      BY <3>1 DEF ReceiptsWellFormed, WellFormed, Statuses
  <2>. QED
    BY <2>1 DEF PersistedStateIsValid, PositionValid
<1>. QED
  BY <1>1, TypeCorrect, PositionStaysValid, ReceiptsStayWellFormed, PTL

------------------------------------------------------------------------------
(* Position and receipts. *)

(* The scope of the flow is a step exactly while that step is active. *)
LEMMA ScopeOfStep ==
    ASSUME TypeOK
    PROVE  /\ StepActive => FlowCapabilityScope.step = currentStep /\ currentStep \in Steps
           /\ FlowCapabilityScope.step \in Steps => StepActive
  BY NameAssumption DEF FlowCapabilityScope, StepActive, TypeOK

(* Steps that leave the position alone leave the scope alone. *)
LEMMA ScopeUnchanged ==
    ASSUME UNCHANGED flowVars
    PROVE  /\ FlowCapabilityScope' = FlowCapabilityScope
           /\ StepActive' = StepActive
  BY DEF flowVars, FlowCapabilityScope, StepActive, Finished

(* A step with an unresolved action cannot be left, retried or completed, and
   its grants do not change. *)
THEOREM UnresolvedFreezes == Spec => []UnresolvedFreezesStep
<1>1. Init => UnresolvedFreezesStep
  BY DEF Init, UnresolvedFreezesStep, Unresolved, NoReceipt
<1>2. ASSUME TypeOK, PositionValid, UnresolvedFreezesStep, [Next]_vars
      PROVE  UnresolvedFreezesStep'
  <2>. SUFFICES ASSUME NEW r \in Receipts, Unresolved(r)', actionReceipts'[r].step \in Steps
                PROVE  /\ StepActive'
                       /\ actionReceipts'[r].step = currentStep'
                       /\ actionReceipts'[r].epoch = capabilityEpoch'
    BY DEF UnresolvedFreezesStep
  <2>1. CASE \E t \in Tools, a \in Args, e \in 0 .. capabilityEpoch :
               ReserveFlowAction(r, t, a, e) /\ Reserves(r, t, a)
    <3>1. UNCHANGED flowVars
      BY <2>1 DEF ReserveFlowAction
    <3>2. /\ actionReceipts'[r].step = FlowCapabilityScope.step
          /\ actionReceipts'[r].epoch = capabilityEpoch
      BY <2>1 DEF Reserves
    <3>3. StepActive /\ FlowCapabilityScope.step = currentStep
      BY <1>2, <3>2, ScopeOfStep
    <3>. QED
      BY <3>1, <3>2, <3>3, ScopeUnchanged DEF flowVars
  <2>2. CASE Evolves(actionReceipts[r], actionReceipts'[r])
    <3>1. /\ actionReceipts[r].status \in {"reserved", "indeterminate"}
          /\ actionReceipts'[r].step = actionReceipts[r].step
          /\ actionReceipts'[r].epoch = actionReceipts[r].epoch
      BY <2>2 DEF Evolves, SameIdentity, Unresolved
    <3>2. /\ StepActive
          /\ actionReceipts[r].step = currentStep
          /\ actionReceipts[r].epoch = capabilityEpoch
      BY <1>2, <3>1 DEF UnresolvedFreezesStep, Unresolved
    <3>3. PendingEvidence(currentStep) # {}
      BY <3>1, <3>2 DEF PendingEvidence, Unresolved
    <3>4. UNCHANGED flowVars
      <4>1. ASSUME NEW n \in Nodes, SelectFlowTopic(n) PROVE FALSE
        BY <1>2, <3>2, <4>1 DEF SelectFlowTopic, PositionValid, StepActive, TypeOK, Finished
      <4>2. ASSUME NEW s \in Steps, EnterFlowStep(s) PROVE FALSE
        BY <3>2, <3>3, <4>2 DEF EnterFlowStep
      <4>3. ASSUME NEW v \in Values \cup {None}, CompleteFlowStep(v) PROVE FALSE
        BY <3>3, <4>3 DEF CompleteFlowStep
      <4>. QED
        BY <1>2, <4>1, <4>2, <4>3, FlowSteps
    <3>. QED
      BY <3>1, <3>2, <3>4, ScopeUnchanged DEF flowVars
  <2>. QED
    BY <1>2, <2>1, <2>2, ReceiptSteps
<1>. QED
  BY <1>1, <1>2, TypeCorrect, PositionStaysValid, PTL DEF Spec

(* The epoch grows with every step that moves the call. *)
LEMMA EpochSteps ==
    ASSUME TypeOK, [Next]_vars
    PROVE  \/ UNCHANGED flowVars
           \/ capabilityEpoch' = capabilityEpoch + 1
  BY FlowSteps, Zenon DEF SelectFlowTopic, EnterFlowStep, CompleteFlowStep, UpdateCapabilities

(* One capability epoch is one scope. *)
THEOREM EpochIsOneScope == Spec => []EpochIdentifiesScope
<1>1. Init => EpochIdentifiesScope
  BY DEF Init, EpochIdentifiesScope, NoReceipt
<1>2. ASSUME TypeOK, TypeOK', EpochIdentifiesScope, [Next]_vars PROVE EpochIdentifiesScope'
  <2>. DEFINE Old(r) == /\ actionReceipts[r].status # "none"
                        /\ actionReceipts'[r].step = actionReceipts[r].step
                        /\ actionReceipts'[r].epoch = actionReceipts[r].epoch
              New(r) == /\ UNCHANGED flowVars
                        /\ actionReceipts'[r].step = FlowCapabilityScope.step
                        /\ actionReceipts'[r].epoch = capabilityEpoch
  <2>1. ASSUME NEW r \in Receipts, actionReceipts'[r].status # "none" PROVE Old(r) \/ New(r)
    <3>1. Evolves(actionReceipts[r], actionReceipts'[r]) => Old(r)
      BY <2>1 DEF Evolves, SameIdentity
    <3>2. ASSUME NEW t, NEW a, NEW e, ReserveFlowAction(r, t, a, e), Reserves(r, t, a)
          PROVE  New(r)
      BY <3>2 DEF ReserveFlowAction, Reserves
    <3>. QED
      BY <1>2, <3>1, <3>2, ReceiptSteps
  <2>2. ASSUME NEW r \in Receipts, Old(r)
        PROVE  /\ actionReceipts[r].epoch \in Nat
               /\ actionReceipts[r].epoch <= capabilityEpoch
               /\ actionReceipts[r].epoch = capabilityEpoch =>
                    actionReceipts[r].step = FlowCapabilityScope.step
    BY <1>2, <2>2 DEF EpochIdentifiesScope, TypeOK, Receipt
  <2>. SUFFICES ASSUME NEW r \in Receipts, actionReceipts'[r].status # "none"
                PROVE  /\ actionReceipts'[r].epoch <= capabilityEpoch'
                       /\ actionReceipts'[r].epoch = capabilityEpoch' =>
                            actionReceipts'[r].step = FlowCapabilityScope'.step
                       /\ \A x \in Receipts :
                            /\ actionReceipts'[x].status # "none"
                            /\ actionReceipts'[x].epoch = actionReceipts'[r].epoch
                            => actionReceipts'[x].step = actionReceipts'[r].step
    BY DEF EpochIdentifiesScope
  <2>3. \/ UNCHANGED flowVars
        \/ capabilityEpoch' = capabilityEpoch + 1
    BY <1>2, EpochSteps
  <2>4. UNCHANGED flowVars => /\ capabilityEpoch' = capabilityEpoch
                              /\ FlowCapabilityScope' = FlowCapabilityScope
    BY ScopeUnchanged DEF flowVars
  <2>5. capabilityEpoch \in Nat
    BY <1>2 DEF TypeOK
  <2>6. /\ actionReceipts'[r].epoch <= capabilityEpoch'
        /\ actionReceipts'[r].epoch = capabilityEpoch' =>
             actionReceipts'[r].step = FlowCapabilityScope'.step
    <3>1. CASE New(r)
      BY <2>4, <2>5, <3>1
    <3>2. CASE Old(r)
      <4>. HIDE DEF Old
      <4>1. /\ actionReceipts[r].epoch \in Nat
            /\ actionReceipts[r].epoch <= capabilityEpoch
            /\ actionReceipts[r].epoch = capabilityEpoch =>
                 actionReceipts[r].step = FlowCapabilityScope.step
        BY <2>2, <3>2
      <4>2. /\ actionReceipts'[r].step = actionReceipts[r].step
            /\ actionReceipts'[r].epoch = actionReceipts[r].epoch
        BY <3>2 DEF Old
      <4>. QED
        BY <2>3, <2>4, <2>5, <4>1, <4>2
    <3>. QED
      BY <2>1, <3>1, <3>2
  <2>7. ASSUME NEW x \in Receipts, actionReceipts'[x].status # "none",
               actionReceipts'[x].epoch = actionReceipts'[r].epoch
        PROVE  actionReceipts'[x].step = actionReceipts'[r].step
    <3>1. CASE Old(r) /\ Old(x)
      BY <1>2, <2>7, <3>1 DEF EpochIdentifiesScope
    <3>2. CASE New(r) /\ New(x)
      BY <3>2
    <3>3. CASE Old(r) /\ New(x)
      BY <2>2, <2>7, <3>3
    <3>4. CASE New(r) /\ Old(x)
      BY <2>2, <2>7, <3>4
    <3>. QED
      BY <2>1, <2>7, <3>1, <3>2, <3>3, <3>4
  <2>. QED
    BY <2>6, <2>7
<1>. QED
  BY <1>1, <1>2, TypeCorrect, PTL DEF Spec

------------------------------------------------------------------------------
(* A key without a step belongs to a policy whose key spans the call. *)
LEMMA StepFreeKeyIsCallScoped ==
    ASSUME TypeOK, NEW r \in Receipts, NEW t \in Tools, NEW a \in Args,
           ActionIdempotencyKey(r, t, a).step = None
    PROVE  CallScoped(t)
<1>1. FlowCapabilityScope.step \in Scopes
  BY KeyType
<1>2. FlowCapabilityScope.step # None
  BY <1>1, NameAssumption DEF Scopes
<1>. DEFINE scope == FlowCapabilityScope
<1>. HIDE DEF scope
<1>3. ASSUME ~CallScoped(t)
      PROVE  ActionIdempotencyKey(r, t, a).step = scope.step
  BY <1>3 DEF CallScoped, CallModes, ActionIdempotencyKey, NoKey, scope
<1>. QED
  BY <1>2, <1>3 DEF scope

(* A call-scoped key admits one receipt per call, until a failure releases it. *)
THEOREM CallScopedKeyOnce == Spec => []CallScopedKeyAdmittedOnce
<1>1. Init => CallScopedKeyAdmittedOnce
  BY DEF Init, CallScopedKeyAdmittedOnce, Admitted, NoReceipt
<1>2. ASSUME TypeOK, CallScopedKeyAdmittedOnce, [Next]_vars PROVE CallScopedKeyAdmittedOnce'
  <2>. DEFINE Old(r) == Admitted(r) /\ actionReceipts'[r].key = actionReceipts[r].key
              New(r) == \E t \in Tools, a \in Args :
                          /\ \A x \in Receipts \ {r} : actionReceipts'[x] = actionReceipts[x]
                          /\ actionReceipts'[r].key = ActionIdempotencyKey(r, t, a)
                          /\ Existing(r, t, a) = {}
  <2>1. ASSUME NEW r \in Receipts, Admitted(r)' PROVE Old(r) \/ New(r)
    <3>1. Evolves(actionReceipts[r], actionReceipts'[r]) => Old(r)
      BY <2>1 DEF Evolves, SameIdentity, Admitted
    <3>2. ASSUME NEW t \in Tools, NEW a \in Args, NEW e \in 0 .. capabilityEpoch,
                 ReserveFlowAction(r, t, a, e), Reserves(r, t, a)
          PROVE  New(r)
      BY <1>2, <3>2, ReservationFields DEF ReserveFlowAction, Admissible, Reserves
    <3>. QED
      BY <1>2, <3>1, <3>2, ReceiptSteps
  <2>2. ASSUME NEW r \in Receipts, NEW x \in Receipts, r # x, New(r), Admitted(x)',
               actionReceipts'[r].key = actionReceipts'[x].key, actionReceipts'[r].key.step = None
        PROVE  FALSE
    <3>1. PICK t \in Tools, a \in Args :
            /\ actionReceipts'[x] = actionReceipts[x]
            /\ actionReceipts'[r].key = ActionIdempotencyKey(r, t, a)
            /\ Existing(r, t, a) = {}
      BY <2>2, Zenon
    <3>2. CallScoped(t)
      BY <1>2, <2>2, <3>1, StepFreeKeyIsCallScoped
    <3>3. x \in Existing(r, t, a)
      BY <2>2, <3>1, <3>2 DEF Existing, Admitted
    <3>. QED
      BY <3>1, <3>3
  <2>. SUFFICES ASSUME NEW r \in Receipts, NEW x \in Receipts, Admitted(r)', Admitted(x)',
                       actionReceipts'[r].key = actionReceipts'[x].key,
                       actionReceipts'[r].key.step = None, r # x
                PROVE  FALSE
    BY DEF CallScopedKeyAdmittedOnce
  <2>3. CASE Old(r) /\ Old(x)
    BY <1>2, <2>3, Zenon DEF CallScopedKeyAdmittedOnce
  <2>. HIDE DEF New
  <2>. QED
    BY <2>1, <2>2, <2>3
<1>. QED
  BY <1>1, <1>2, TypeCorrect, PTL DEF Spec

------------------------------------------------------------------------------
(* A step is entered, and stays completed, only below completed ancestors. *)
THEOREM AncestorsStayCompleted == Spec => []AncestorsCompleted
<1>1. Init => AncestorsCompleted
  BY DEF Init, AncestorsCompleted, StepActive
<1>2. ASSUME TypeOK, AncestorsCompleted, [Next]_vars PROVE AncestorsCompleted'
  <2>1. CASE UNCHANGED flowVars
    BY <1>2, <2>1 DEF flowVars, AncestorsCompleted, StepActive
  <2>2. ASSUME NEW n \in Nodes, SelectFlowTopic(n) PROVE AncestorsCompleted'
    BY <1>2, <2>2 DEF SelectFlowTopic, AncestorsCompleted, StepActive
  <2>3. ASSUME NEW s \in Steps, EnterFlowStep(s) PROVE AncestorsCompleted'
    <3>1. /\ Ancestors[s] \subseteq completedSteps
          /\ currentStep' = s
          /\ completedSteps' = {c \in completedSteps : ~InSubtree(c, s)}
      BY <2>3 DEF EnterFlowStep
    <3>2. Ancestors[s] \subseteq completedSteps'
      BY <1>2, <3>1, PathAssumption, FlowAssumption DEF InSubtree, TypeOK
    <3>3. ASSUME NEW c \in completedSteps' PROVE Ancestors[c] \subseteq completedSteps'
      BY <1>2, <3>1, <3>3, PathAssumption, FlowAssumption DEF InSubtree, TypeOK, AncestorsCompleted
    <3>. QED
      BY <3>1, <3>2, <3>3 DEF AncestorsCompleted
  <2>4. ASSUME NEW v \in Values \cup {None}, CompleteFlowStep(v) PROVE AncestorsCompleted'
    <3>1. /\ Ancestors[currentStep] \subseteq completedSteps
          /\ completedSteps' = completedSteps \cup {currentStep}
          /\ currentStep' \in {None, currentStep}
      BY <1>2, <2>4 DEF CompleteFlowStep, AncestorsCompleted
    <3>. QED
      BY <1>2, <3>1 DEF AncestorsCompleted, StepActive
  <2>. QED
    BY <1>2, <2>1, <2>2, <2>3, <2>4, FlowSteps
<1>. QED
  BY <1>1, <1>2, TypeCorrect, PTL DEF Spec

------------------------------------------------------------------------------
(* The bound output of a completed step is the result of a succeeded receipt. *)
THEOREM BoundOutputsComeFromReceipts == Spec => []BoundOutputsAreReceipts
<1>. DEFINE Evidence(x, s) == /\ x.status = "succeeded" /\ x.step = s
                              /\ x.tool = Binding[s] /\ x.result # None
<1>1. Init => BoundOutputsAreReceipts
  BY DEF Init, BoundOutputsAreReceipts
<1>2. ASSUME TypeOK, BoundOutputsAreReceipts, [Next]_vars PROVE BoundOutputsAreReceipts'
  <2>1. ASSUME NEW r \in Receipts, NEW s, Evidence(actionReceipts[r], s)
        PROVE  Evidence(actionReceipts'[r],
                        s) /\ actionReceipts'[r].result = actionReceipts[r].result
    <3>1. Evolves(actionReceipts[r], actionReceipts'[r])
      BY <1>2, <2>1, ReceiptSteps, Zenon DEF ReserveFlowAction, Admissible
    <3>. QED
      BY <2>1, <3>1 DEF Evolves, SameIdentity
  <2>2. ASSUME NEW s \in Steps, s \in completedSteps, Binding[s] # None,
               outputs'[s] = outputs[s]
        PROVE  \E r \in Receipts : Evidence(actionReceipts'[r], s) /\ actionReceipts'[r].result = outputs'[s].value
    <3>1. PICK r \in Receipts : Evidence(actionReceipts[r],
                                         s) /\ actionReceipts[r].result = outputs[s].value
      BY <1>2, <2>2 DEF BoundOutputsAreReceipts
    <3>. QED
      BY <2>1, <2>2, <3>1
  <2>3. ASSUME NEW v \in Values \cup {None}, CompleteFlowStep(v), Binding[currentStep] # None
        PROVE  \E r \in Receipts : /\ Evidence(actionReceipts'[r], currentStep)
                                   /\ actionReceipts'[r].result = outputs'[currentStep].value
    <3>1. PICK o \in Values \cup {None} :
            /\ VerifiedOutput(currentStep, v, o)
            /\ outputs' = [outputs EXCEPT ![currentStep] = Output(o)]
      BY <2>3, Zenon DEF CompleteFlowStep
    <3>2. PICK r \in Receipts : Evidence(actionReceipts[r],
                                         currentStep) /\ actionReceipts[r].result = o
      <4>1. PICK r \in EvidenceFor(currentStep) : /\ actionReceipts[r].result # None
                                                  /\ o = actionReceipts[r].result
        BY <2>3, <3>1 DEF VerifiedOutput
      <4>. QED
        BY <4>1 DEF EvidenceFor
    <3>3. Evidence(actionReceipts'[r], currentStep) /\ actionReceipts'[r].result = o
      BY <2>1, <3>2
    <3>4. outputs'[currentStep].value = o
      BY <1>2, <2>3, <3>1 DEF CompleteFlowStep, StepActive, TypeOK, Output
    <3>. QED
      BY <3>3, <3>4
  <2>. SUFFICES ASSUME NEW s \in completedSteps', Binding[s] # None
                PROVE  \E r \in Receipts : Evidence(actionReceipts'[r], s) /\ actionReceipts'[r].result = outputs'[s].value
    BY DEF BoundOutputsAreReceipts
  <2>. HIDE DEF Evidence
  <2>4. CASE UNCHANGED flowVars
    BY <1>2, <2>2, <2>4 DEF flowVars, TypeOK
  <2>5. ASSUME NEW n \in Nodes, SelectFlowTopic(n)
        PROVE  s \in Steps /\ s \in completedSteps /\ outputs'[s] = outputs[s]
    BY <1>2, <2>5 DEF SelectFlowTopic, TypeOK
  <2>6. ASSUME NEW p \in Steps, EnterFlowStep(p)
        PROVE  s \in Steps /\ s \in completedSteps /\ outputs'[s] = outputs[s]
    BY <1>2, <2>6 DEF EnterFlowStep, TypeOK
  <2>7. ASSUME NEW v \in Values \cup {None}, CompleteFlowStep(v)
        PROVE  s = currentStep \/ (s \in Steps /\ s \in completedSteps /\ outputs'[s] = outputs[s])
    <3>1. \E o : /\ completedSteps' = completedSteps \cup {currentStep}
                 /\ outputs' = [outputs EXCEPT ![currentStep] = o]
      BY <2>7, Zenon DEF CompleteFlowStep
    <3>. QED
      BY <1>2, <3>1 DEF TypeOK
  <2>. QED
    BY <1>2, <2>2, <2>3, <2>4, <2>5, <2>6, <2>7, FlowSteps
<1>. QED
  BY <1>1, <1>2, TypeCorrect, PTL DEF Spec
==============================================================================
