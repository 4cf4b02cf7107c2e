------------------------ MODULE FlowStateStoreProofs -------------------------
(* Proofs about the durable side of Flow v2: every step of the store is a step
   of the flow runtime, so the theorems about the runtime hold of the stored
   state; the two copies of a receipt agree; an invocation is sent once. *)
EXTENDS FlowStateStore, FlowRuntimeProofs

(* The time the provers have for a step that names none itself. *)
USE SMTT(60), ZenonT(60)

Deliveries == {"not_sent", "unknown", "rejected", "committed"}

(* Row y has these fields. *)
IsRow(y, st, own, live, disp, del, prf, key) ==
    /\ y.status = st /\ y.owner = own /\ y.live = live /\ y.dispatched = disp
    /\ y.delivery = del /\ y.proof = prf /\ y.key = key

(* The UPDATE statements on flow_action_receipts, by the fields they set. *)
LEMMA StatusUpdate ==
    ASSUME ledger \in [Receipts -> Row], NEW r \in Receipts, NEW s \in Statuses,
           NEW d \in Deliveries,
           ledger' = [ledger EXCEPT ![r].status = s, ![r].delivery = d]
    PROVE  /\ ledger' \in [Receipts -> Row]
           /\ \A x \in Receipts \ {r} : ledger'[x] = ledger[x]
           /\ IsRow(ledger'[r], s, ledger[r].owner, ledger[r].live, ledger[r].dispatched, d,
                    ledger[r].proof, ledger[r].key)
<1>. DEFINE x == ledger[r]
            y == [x EXCEPT !.status = s, !.delivery = d]
<1>1. /\ y \in Row
      /\ IsRow(y, s, x.owner, x.live, x.dispatched, d, x.proof, x.key)
  <2>1. x \in Row
    OBVIOUS
  <2>. HIDE DEF x
  <2>. QED
    BY <2>1, Zenon DEF Row, IsRow, Deliveries
<1>2. ledger' = [ledger EXCEPT ![r] = y]
  BY Zenon
<1>. HIDE DEF y
<1>. QED
  BY <1>1, <1>2, Zenon

(* A reservation changes hands. *)
LEMMA OwnerUpdate ==
    ASSUME ledger \in [Receipts -> Row], NEW r \in Receipts, NEW w \in Workers,
           ledger' = [ledger EXCEPT ![r].owner = w, ![r].live = TRUE]
    PROVE  /\ ledger' \in [Receipts -> Row]
           /\ \A x \in Receipts \ {r} : ledger'[x] = ledger[x]
           /\ IsRow(ledger'[r], ledger[r].status, w, TRUE, ledger[r].dispatched,
                    ledger[r].delivery, ledger[r].proof, ledger[r].key)
<1>. DEFINE x == ledger[r]
            y == [x EXCEPT !.owner = w, !.live = TRUE]
<1>1. /\ y \in Row
      /\ IsRow(y, x.status, w, TRUE, x.dispatched, x.delivery, x.proof, x.key)
  <2>1. x \in Row
    OBVIOUS
  <2>. HIDE DEF x
  <2>. QED
    BY <2>1, Zenon DEF Row, IsRow
<1>2. ledger' = [ledger EXCEPT ![r] = y]
  BY Zenon
<1>. HIDE DEF y
<1>. QED
  BY <1>1, <1>2, Zenon

(* The dispatch permit. *)
LEMMA PermitUpdate ==
    ASSUME ledger \in [Receipts -> Row], NEW r \in Receipts,
           ledger' = [ledger EXCEPT ![r].dispatched = TRUE, ![r].delivery = "unknown"]
    PROVE  /\ ledger' \in [Receipts -> Row]
           /\ \A x \in Receipts \ {r} : ledger'[x] = ledger[x]
           /\ IsRow(ledger'[r], ledger[r].status, ledger[r].owner, ledger[r].live, TRUE,
                    "unknown", ledger[r].proof, ledger[r].key)
<1>. DEFINE x == ledger[r]
            y == [x EXCEPT !.dispatched = TRUE, !.delivery = "unknown"]
<1>1. /\ y \in Row
      /\ IsRow(y, x.status, x.owner, x.live, TRUE, "unknown", x.proof, x.key)
  <2>1. x \in Row
    OBVIOUS
  <2>. HIDE DEF x
  <2>. QED
    BY <2>1, Zenon DEF Row, IsRow
<1>2. ledger' = [ledger EXCEPT ![r] = y]
  BY Zenon
<1>. HIDE DEF y
<1>. QED
  BY <1>1, <1>2, Zenon

(* Resolution by proof. *)
LEMMA ProofUpdate ==
    ASSUME ledger \in [Receipts -> Row], NEW r \in Receipts, NEW s \in Statuses,
           NEW d \in Deliveries,
           ledger' = [ledger EXCEPT ![r].status = s, ![r].delivery = d, ![r].proof = TRUE]
    PROVE  /\ ledger' \in [Receipts -> Row]
           /\ \A x \in Receipts \ {r} : ledger'[x] = ledger[x]
           /\ IsRow(ledger'[r], s, ledger[r].owner, ledger[r].live, ledger[r].dispatched, d, TRUE,
                    ledger[r].key)
<1>. DEFINE x == ledger[r]
            y == [x EXCEPT !.status = s, !.delivery = d, !.proof = TRUE]
<1>1. /\ y \in Row
      /\ IsRow(y, s, x.owner, x.live, x.dispatched, d, TRUE, x.key)
  <2>1. x \in Row
    OBVIOUS
  <2>. HIDE DEF x
  <2>. QED
    BY <2>1, Zenon DEF Row, IsRow, Deliveries
<1>2. ledger' = [ledger EXCEPT ![r] = y]
  BY Zenon
<1>. HIDE DEF y
<1>. QED
  BY <1>1, <1>2, ZenonT(40)

(* The dispatch lease runs out. *)
LEMMA LeaseUpdate ==
    ASSUME ledger \in [Receipts -> Row], NEW r \in Receipts,
           ledger' = [ledger EXCEPT ![r].live = FALSE]
    PROVE  /\ ledger' \in [Receipts -> Row]
           /\ \A x \in Receipts \ {r} : ledger'[x] = ledger[x]
           /\ IsRow(ledger'[r], ledger[r].status, ledger[r].owner, FALSE, ledger[r].dispatched,
                    ledger[r].delivery, ledger[r].proof, ledger[r].key)
<1>. DEFINE x == ledger[r]
            y == [x EXCEPT !.live = FALSE]
<1>1. /\ y \in Row
      /\ IsRow(y, x.status, x.owner, FALSE, x.dispatched, x.delivery, x.proof, x.key)
  <2>1. x \in Row
    OBVIOUS
  <2>. HIDE DEF x
  <2>. QED
    BY <2>1, Zenon DEF Row, IsRow
<1>2. ledger' = [ledger EXCEPT ![r] = y]
  BY Zenon
<1>. HIDE DEF y
<1>. QED
  BY <1>1, <1>2, Zenon

(* The INSERT of a new reservation. *)
LEMMA RowInsert ==
    ASSUME ledger \in [Receipts -> Row], NEW r \in Receipts, NEW w \in Workers, NEW k \in Key,
           ledger' = [ledger EXCEPT ![r] = [NoRow EXCEPT !.status = "reserved", !.owner = w,
                                            !.live = TRUE, !.key = k]]
    PROVE  /\ ledger' \in [Receipts -> Row]
           /\ \A x \in Receipts \ {r} : ledger'[x] = ledger[x]
           /\ IsRow(ledger'[r], "reserved", w, TRUE, FALSE, "not_sent", FALSE, k)
<1>. DEFINE y == [NoRow EXCEPT !.status = "reserved", !.owner = w, !.live = TRUE, !.key = k]
<1>1. /\ y \in Row
      /\ IsRow(y, "reserved", w, TRUE, FALSE, "not_sent", FALSE, k)
  BY Zenon DEF Row, NoRow, IsRow, Statuses
<1>. HIDE DEF y
<1>2. ledger' = [ledger EXCEPT ![r] = y]
  BY DEF y
<1>. QED
  BY <1>1, <1>2, Zenon

(* The recovery of the stale rows. *)
LEMMA RowsRecovered ==
    ASSUME ledger \in [Receipts -> Row], NEW S \in SUBSET Receipts,
           ledger' = [r \in Receipts |-> IF r \in S THEN [ledger[r] EXCEPT !.status = "indeterminate", !.delivery = "unknown"]
                                              ELSE ledger[r]]
    PROVE  /\ ledger' \in [Receipts -> Row]
           /\ \A x \in Receipts \ S : ledger'[x] = ledger[x]
           /\ \A x \in S : IsRow(ledger'[x], "indeterminate", ledger[x].owner, ledger[x].live,
                                 ledger[x].dispatched,
                                 "unknown", ledger[x].proof, ledger[x].key)
<1>1. ASSUME NEW x \in Row
      PROVE  LET y == [x EXCEPT !.status = "indeterminate", !.delivery = "unknown"]
             IN  /\ y \in Row
                 /\ IsRow(y, "indeterminate", x.owner, x.live, x.dispatched, "unknown", x.proof,
                          x.key)
  BY <1>1, Zenon DEF Row, IsRow, Statuses
<1>. QED
  BY <1>1, Zenon

------------------------------------------------------------------------------
(* What each request has captured at each of its positions. *)
CapturedBy(x) ==
    /\ x.pc # "idle" => x.inv \in Receipts /\ x.tool \in Tools /\ x.args \in Args
    /\ x.pc \in {"reserved", "denied", "permitted", "waiting", "answered"} => x.receipt \in Receipts
    /\ x.pc = "answered" => x.answer \in Answers
Captured ==
    /\ \A w \in Workers : CapturedBy(exec[w])
    /\ \A p \in Proofs : proofs[p].finding \in Findings => proofs[p].receipt \in Receipts

(* The ways a transaction changes the flow state and the ledger together. *)
Settles(r, o, d, v) ==
    /\ o \in {"succeeded", "failed", "indeterminate"} /\ d \in Deliveries
    /\ v \in Values \cup {None}
    /\ o = "succeeded" \/ v = None
    /\ SettleFlowAction(r, o, v)
    /\ ledger' = [ledger EXCEPT ![r].status = o, ![r].delivery = d]
Permits(r) ==
    /\ MarkFlowActionDispatchStarted(r)
    /\ ledger' = [ledger EXCEPT ![r].dispatched = TRUE, ![r].delivery = "unknown"]
Reclaims(w, r) ==
    /\ UNCHANGED vars
    /\ ledger' = [ledger EXCEPT ![r].owner = w, ![r].live = TRUE]
Expires(r) ==
    /\ UNCHANGED vars
    /\ ledger' = [ledger EXCEPT ![r].live = FALSE]
ProvesAbsent(r) ==
    /\ ProveIndeterminateFlowActionAbsent(r)
    /\ ledger' = [ledger EXCEPT ![r].status = "failed", ![r].delivery = "rejected",
                  ![r].proof = TRUE]
Promotes(r, v) ==
    /\ PromoteIndeterminateFlowAction(r, v)
    /\ ledger' = [ledger EXCEPT ![r].status = "succeeded", ![r].delivery = "committed",
                  ![r].proof = TRUE]

(* A settlement writes both copies or neither. *)
LEMMA SettleBoth ==
    ASSUME NEW w, Held(w) \in Receipts, NEW v \in Values \cup {None},
           NEW o \in {"succeeded", "failed", "indeterminate"}, NEW d \in Deliveries,
           o = "succeeded" \/ v = None, Settle(w, o, d, v)
    PROVE  UNCHANGED <<vars, ledger>> \/ Settles(Held(w), o, d, v)
  BY DEF Settle, Settles

(* The outcomes run_action settles. *)
LEMMA Outcomes ==
    ASSUME NEW t, NEW answer \in Answers
    PROVE  /\ OutcomeOf(t, answer) \in {"succeeded", "failed", "indeterminate"}
           /\ DeliveryOf(OutcomeOf(t, answer)) \in Deliveries
  BY DEF OutcomeOf, DeliveryOf, Answers, Deliveries

(* What the transactions of one request do. *)
LEMMA WorkerTransactions ==
    ASSUME Captured, NEW w \in Workers, WorkerStep(w)
    PROVE  \/ UNCHANGED <<vars, ledger>>
           \/ ReserveNew(w)
           \/ \E r \in Receipts : \E o, d, v : Settles(r, o, d, v)
           \/ \E r \in Receipts : Permits(r)
           \/ \E r \in Receipts : Reclaims(w, r)
<1>1. ASSUME \/ \E r \in Receipts, t \in Tools, a \in Args : RunAction(w, r, t, a)
             \/ ReserveRefused(w) \/ ReplayAnswered(w) \/ DispatchDenied(w) \/ Dispatch(w)
             \/ \E answer \in Answers : DispatchAnswered(w, answer)
      PROVE  UNCHANGED <<vars, ledger>>
  BY <1>1, Zenon DEF RunAction, ReserveRefused, ReplayAnswered, DispatchDenied, Dispatch, DispatchAnswered
<1>2. ASSUME ReplayAbandoned(w) PROVE \E r \in Receipts : \E o, d, v : Settles(r, o, d, v)
  <2>1. PICK x \in Receipts :
          /\ SettleFlowAction(x, "indeterminate", None)
          /\ ledger' = [ledger EXCEPT ![x].status = "indeterminate", ![x].delivery = "unknown"]
    BY <1>2, Zenon DEF Captured, CapturedBy, ReplayAbandoned, Replayed, ReplayedReceipts, Existing
  <2>. QED
    BY <2>1, Zenon DEF Settles, Deliveries
<1>3. ASSUME ReplayReclaimed(w) PROVE \E r \in Receipts : Reclaims(w, r)
  BY <1>3, Zenon DEF Captured, CapturedBy, ReplayReclaimed, Replayed, ReplayedReceipts, Existing, Reclaims
<1>4. ASSUME RejectBeforeDispatch(w)
      PROVE  UNCHANGED <<vars, ledger>> \/ \E r \in Receipts : \E o, d, v : Settles(r, o, d, v)
  <2>1. Held(w) \in Receipts
    BY <1>4 DEF Captured, CapturedBy, RejectBeforeDispatch, Held
  <2>2. Settle(w, "failed", "not_sent", None)
    BY <1>4 DEF RejectBeforeDispatch
  <2>. QED
    BY <2>1, <2>2, SettleBoth DEF Deliveries
<1>5. ASSUME DispatchPermitted(w) PROVE \E r \in Receipts : Permits(r)
  <2>1. Held(w) \in Receipts
    BY <1>5 DEF Captured, CapturedBy, DispatchPermitted, Held
  <2>. QED
    BY <1>5, <2>1, Zenon DEF DispatchPermitted, Permits
<1>6. ASSUME NEW v \in Values \cup {None}, SettleOutcome(w, v)
      PROVE  UNCHANGED <<vars, ledger>> \/ \E r \in Receipts : \E o, d, x : Settles(r, o, d, x)
  <2>. DEFINE o == OutcomeOf(exec[w].tool, exec[w].answer)
  <2>1. Held(w) \in Receipts /\ exec[w].answer \in Answers
    BY <1>6 DEF Captured, CapturedBy, SettleOutcome, Held
  <2>2. o \in {"succeeded", "failed", "indeterminate"} /\ DeliveryOf(o) \in Deliveries
    BY <2>1, Outcomes
  <2>3. (o = "succeeded" \/ v = None) /\ Settle(w, o, DeliveryOf(o), v)
    BY <1>6 DEF SettleOutcome
  <2>. HIDE DEF o
  <2>. QED
    BY <2>1, <2>2, <2>3, SettleBoth
<1>. QED
  BY <1>1, <1>2, <1>3, <1>4, <1>5, <1>6 DEF WorkerStep

(* What any step does to the two copies. *)
LEMMA Transactions ==
    ASSUME Captured, [StoreNext]_allVars
    PROVE  \/ UNCHANGED <<vars, ledger>>
           \/ FlowControl
           \/ \E w \in Workers : ReserveNew(w)
           \/ \E r \in Receipts : \E o, d, v : Settles(r, o, d, v)
           \/ \E r \in Receipts : Permits(r)
           \/ \E w \in Workers, r \in Receipts : Reclaims(w, r)
           \/ \E r \in Receipts : Expires(r)
           \/ RecoverStaleFlowActionsAtomic
           \/ \E r \in Receipts : ProvesAbsent(r)
           \/ \E r \in Receipts, v \in Values \cup {None} : Promotes(r, v)
<1>1. ASSUME \/ UNCHANGED allVars
             \/ \E r \in Receipts : IntegrationStep(r)
             \/ \E r \in Receipts : PrepareAtLimit(r)
             \/ EndCall
      PROVE  UNCHANGED <<vars, ledger>>
  BY <1>1, Zenon DEF allVars, storeVars, IntegrationStep, Apply, Refuse, Lose, PrepareAtLimit, EndCall
<1>2. ASSUME NEW p \in Proofs, ReconcilerStep(p)
      PROVE  \/ UNCHANGED <<vars, ledger>>
             \/ \E r \in Receipts : ProvesAbsent(r)
             \/ \E r \in Receipts, v \in Values \cup {None} : Promotes(r, v)
  <2>1. ASSUME \/ \E r \in Receipts : PrepareActionReconciliation(p, r)
               \/ \E finding \in Findings : Query(p, finding)
               \/ FinishOverrun(p) \/ FinishError(p) \/ FinishMismatch(p) \/ ProofLeaseExpires(p)
        PROVE  UNCHANGED <<vars, ledger>>
    BY <2>1, Zenon DEF PrepareActionReconciliation, Query, FinishOverrun, FinishError, FinishMismatch,
       ProofLeaseExpires
  <2>2. ASSUME FinishAbsent(p) PROVE \E r \in Receipts : ProvesAbsent(r)
    <3>1. proofs[p].receipt \in Receipts
      BY <2>2 DEF FinishAbsent, Captured, Findings
    <3>. QED
      BY <2>2, <3>1, Zenon DEF FinishAbsent, ProvesAbsent
  <2>3. ASSUME NEW v \in Values \cup {None}, FinishCommitted(p, v)
        PROVE  \E r \in Receipts : Promotes(r, v)
    <3>1. proofs[p].receipt \in Receipts
      BY <2>3 DEF FinishCommitted, Captured, Findings
    <3>. QED
      BY <2>3, <3>1, Zenon DEF FinishCommitted, Promotes
  <2>. QED
    BY <1>2, <2>1, <2>2, <2>3 DEF ReconcilerStep
<1>3. ASSUME NEW r \in Receipts, DispatchLeaseExpires(r) PROVE Expires(r)
  BY <1>3, Zenon DEF DispatchLeaseExpires, Expires
<1>4. StoreNext \/ UNCHANGED allVars
  OBVIOUS
<1>. QED
  BY <1>1, <1>2, <1>3, <1>4, WorkerTransactions DEF StoreNext

------------------------------------------------------------------------------
(* Every step of the store is a step of the flow runtime or leaves it alone. *)
LEMMA StoreStepsAreFlowSteps ==
    ASSUME TypeOK, Captured, [StoreNext]_allVars
    PROVE  [Next]_vars
<1>1. ASSUME FlowControl PROVE Next
  BY <1>1 DEF FlowControl, Next
<1>2. ASSUME NEW w \in Workers, ReserveNew(w) PROVE Next
  <2>1. /\ exec[w].inv \in Receipts /\ exec[w].tool \in Tools /\ exec[w].args \in Args
        /\ ReserveFlowAction(exec[w].inv, exec[w].tool, exec[w].args, exec[w].epoch)
    BY <1>2 DEF ReserveNew, Captured, CapturedBy
  <2>2. exec[w].epoch \in 0 .. capabilityEpoch
    BY <2>1 DEF ReserveFlowAction, Admissible, Grantable, TypeOK
  <2>. QED
    BY <2>1, <2>2 DEF Next
<1>3. ASSUME NEW r \in Receipts, NEW o, NEW d, NEW v, Settles(r, o, d, v) PROVE Next
  <2>1. CASE o = "succeeded"
    BY <1>3, <2>1 DEF Settles, Next
  <2>2. CASE o # "succeeded"
    BY <1>3, <2>2 DEF Settles, Next
  <2>. QED
    BY <2>1, <2>2
<1>4. ASSUME NEW r \in Receipts, Permits(r) PROVE Next
  BY <1>4 DEF Permits, Next
<1>5. ASSUME RecoverStaleFlowActionsAtomic PROVE Next
  <2>1. StaleRows \in SUBSET Receipts
    BY DEF StaleRows
  <2>. QED
    BY <1>5, <2>1, Zenon DEF RecoverStaleFlowActionsAtomic, Next
<1>6. ASSUME NEW r \in Receipts, ProvesAbsent(r) PROVE Next
  BY <1>6 DEF ProvesAbsent, Next
<1>7. ASSUME NEW r \in Receipts, NEW v \in Values \cup {None}, Promotes(r, v) PROVE Next
  BY <1>7 DEF Promotes, Next
<1>8. ASSUME \/ UNCHANGED <<vars, ledger>>
             \/ \E w \in Workers, r \in Receipts : Reclaims(w, r)
             \/ \E r \in Receipts : Expires(r)
      PROVE  UNCHANGED vars
  BY <1>8, Zenon DEF Reclaims, Expires
<1>. QED
  BY <1>1, <1>2, <1>3, <1>4, <1>5, <1>6, <1>7, <1>8, Transactions

------------------------------------------------------------------------------
(* Types.  One lemma per variable. *)

(* A request moves on with what it captured. *)
LEMMA ExecutionSteps ==
    ASSUME TypeOK, StoreTypeOK, Captured, [StoreNext]_allVars
    PROVE  /\ exec' \in [Workers -> Execution]
           /\ \A w \in Workers : CapturedBy(exec'[w])
<1>1. /\ exec \in [Workers -> Execution]
      /\ \A x \in Workers : CapturedBy(exec[x])
  BY DEF StoreTypeOK, Captured
<1>2. CASE UNCHANGED exec
  BY <1>1, <1>2
<1>3. ASSUME NEW q \in Workers, WorkerStep(q)
      PROVE  exec' \in [Workers -> Execution] /\ \A w \in Workers : CapturedBy(exec'[w])
  <2>0. exec[q] \in Execution /\ CapturedBy(exec[q])
    BY <1>1
  <2>1. ASSUME NEW y \in Execution, CapturedBy(y), exec' = [exec EXCEPT ![q] = y]
        PROVE  exec' \in [Workers -> Execution] /\ \A w \in Workers : CapturedBy(exec'[w])
    BY <1>1, <2>1
  <2>2. ASSUME NEW r \in Receipts, NEW t \in Tools, NEW a \in Args, RunAction(q, r, t, a)
        PROVE  exec' \in [Workers -> Execution] /\ \A w \in Workers : CapturedBy(exec'[w])
    <3>. DEFINE y == [NoExecution EXCEPT !.pc = "verified", !.inv = r, !.tool = t,
                                         !.args = a, !.epoch = capabilityEpoch]
    <3>1. y \in Execution /\ CapturedBy(y)
      BY Zenon DEF NoExecution, Execution, CapturedBy, PCs, TypeOK
    <3>2. exec' = [exec EXCEPT ![q] = y]
      BY <2>2 DEF RunAction
    <3>. QED
      BY <2>1, <3>1, <3>2, Zenon
  <2>3. ASSUME NEW pc \in PCs, Goto(q, pc), exec[q].pc # "idle",
               pc \in {"denied", "permitted", "waiting"} => exec[q].receipt \in Receipts,
               pc \notin {"reserved", "answered"}
        PROVE  exec' \in [Workers -> Execution] /\ \A w \in Workers : CapturedBy(exec'[w])
    <3>. DEFINE y == [exec[q] EXCEPT !.pc = pc]
    <3>1. y \in Execution /\ CapturedBy(y)
      BY <2>0, <2>3 DEF Execution, CapturedBy
    <3>2. exec' = [exec EXCEPT ![q] = y]
      BY <2>3 DEF Goto
    <3>. QED
      BY <2>1, <3>1, <3>2, Zenon
  <2>4. ASSUME NEW r \in Receipts, exec[q].pc = "verified",
               exec' = [exec EXCEPT ![q].pc = "reserved", ![q].receipt = r]
        PROVE  exec' \in [Workers -> Execution] /\ \A w \in Workers : CapturedBy(exec'[w])
    <3>. DEFINE y == [exec[q] EXCEPT !.pc = "reserved", !.receipt = r]
    <3>1. y \in Execution /\ CapturedBy(y)
      BY <2>0, <2>4, Zenon DEF Execution, CapturedBy, PCs
    <3>2. exec' = [exec EXCEPT ![q] = y]
      BY <2>4, Zenon
    <3>. QED
      BY <2>1, <3>1, <3>2, Zenon
  <2>5. ASSUME NEW answer \in Answers, DispatchAnswered(q, answer)
        PROVE  exec' \in [Workers -> Execution] /\ \A w \in Workers : CapturedBy(exec'[w])
    <3>. DEFINE y == [exec[q] EXCEPT !.pc = "answered", !.answer = answer]
    <3>1. y \in Execution /\ CapturedBy(y)
      BY <2>0, <2>5, Zenon DEF DispatchAnswered, Execution, CapturedBy, PCs
    <3>2. exec' = [exec EXCEPT ![q] = y]
      BY <2>5, Zenon DEF DispatchAnswered
    <3>. QED
      BY <2>1, <3>1, <3>2, Zenon
  <2>6. ASSUME ReserveNew(q) \/ ReplayReclaimed(q)
        PROVE  \E r \in Receipts : /\ exec[q].pc = "verified"
                                   /\ exec' = [exec EXCEPT ![q].pc = "reserved", ![q].receipt = r]
    BY <2>0, <2>6, Zenon DEF ReserveNew, ReplayReclaimed, CapturedBy, Replayed, ReplayedReceipts, Existing
  <2>7. ASSUME \/ ReserveRefused(q) \/ ReplayAnswered(q) \/ ReplayAbandoned(q)
               \/ RejectBeforeDispatch(q) \/ \E v \in Values \cup {None} : SettleOutcome(q, v)
        PROVE  Goto(q, "done") /\ exec[q].pc # "idle"
    BY <2>7 DEF ReserveRefused, ReplayAnswered, ReplayAbandoned, RejectBeforeDispatch, SettleOutcome
  <2>8. ASSUME DispatchPermitted(q) \/ DispatchDenied(q) \/ Dispatch(q)
        PROVE  /\ exec[q].pc \in {"reserved", "permitted"}
               /\ \E pc \in {"permitted", "denied", "waiting", "done"} : Goto(q, pc)
    BY <2>8 DEF DispatchPermitted, DispatchDenied, Dispatch
  <2>9. ASSUME DispatchPermitted(q) \/ DispatchDenied(q) \/ Dispatch(q)
        PROVE  exec' \in [Workers -> Execution] /\ \A w \in Workers : CapturedBy(exec'[w])
    BY <2>0, <2>3, <2>8, <2>9 DEF CapturedBy, PCs
  <2>10. ASSUME Goto(q, "done"), exec[q].pc # "idle"
         PROVE  exec' \in [Workers -> Execution] /\ \A w \in Workers : CapturedBy(exec'[w])
    BY <2>3, <2>10 DEF PCs
  <2>. QED
    BY <1>3, <2>2, <2>4, <2>5, <2>6, <2>7, <2>9, <2>10 DEF WorkerStep
<1>4. ASSUME NEW p \in Proofs, ReconcilerStep(p) PROVE UNCHANGED exec
  BY <1>4, Zenon DEF ReconcilerStep, PrepareActionReconciliation, Query, FinishOverrun, FinishError,
     FinishMismatch, FinishAbsent, FinishCommitted, ProofLeaseExpires
<1>5. ASSUME \/ UNCHANGED allVars
             \/ \E r \in Receipts : IntegrationStep(r) \/ DispatchLeaseExpires(r) \/ PrepareAtLimit(r)
             \/ RecoverStaleFlowActionsAtomic \/ EndCall \/ FlowControl
      PROVE  UNCHANGED exec
  BY <1>5, Zenon DEF allVars, storeVars, IntegrationStep, Apply, Refuse, Lose, DispatchLeaseExpires,
     PrepareAtLimit, RecoverStaleFlowActionsAtomic, EndCall, FlowControl
<1>6. StoreNext \/ UNCHANGED allVars
  OBVIOUS
<1>. QED
  BY <1>2, <1>3, <1>4, <1>5, <1>6 DEF StoreNext

(* An attempt is recorded with the receipt it is about. *)
LEMMA ProofSteps ==
    ASSUME StoreTypeOK, [StoreNext]_allVars
    PROVE  /\ proofs' \in [Proofs -> Proof]
           /\ (\A p \in Proofs : proofs[p].finding \in Findings => proofs[p].receipt \in Receipts) =>
              (\A p \in Proofs : proofs'[p].finding \in Findings => proofs'[p].receipt \in Receipts)
<1>. DEFINE Known(x) == x.finding \in Findings => x.receipt \in Receipts
            Goal == /\ proofs' \in [Proofs -> Proof]
                    /\ (\A p \in Proofs : Known(proofs[p])) => (\A p \in Proofs : Known(proofs'[p]))
<1>0. proofs \in [Proofs -> Proof]
  BY DEF StoreTypeOK
<1>1. ASSUME NEW P \in [Proofs -> Proof], NEW p \in Proofs, NEW y \in Proof, Known(y),
             \A q \in Proofs : Known(proofs[q]) => Known(P[q]),
             proofs' = [P EXCEPT ![p] = y]
      PROVE  Goal
  BY <1>1
<1>2. ASSUME NEW r
      PROVE  /\ Retired(r) \in [Proofs -> Proof]
             /\ \A q \in Proofs : Known(proofs[q]) => Known(Retired(r)[q])
  <2>1. ASSUME NEW x \in Proof
        PROVE  /\ [x EXCEPT !.status = "error"] \in Proof
               /\ [x EXCEPT !.status = "error"].finding = x.finding
               /\ [x EXCEPT !.status = "error"].receipt = x.receipt
    BY <2>1, Zenon DEF Proof, ProofStatuses
  <2>. QED
    BY <1>0, <2>1 DEF Retired
<1>3. ASSUME NEW p \in Proofs, NEW r \in Receipts, PrepareActionReconciliation(p, r) PROVE Goal
  <2>. DEFINE y == [NoProof EXCEPT !.status = "querying", !.receipt = r, !.live = TRUE]
  <2>1. y \in Proof /\ y.finding = "none"
    BY Zenon DEF NoProof, Proof, ProofStatuses
  <2>2. Known(y)
    BY <2>1 DEF Findings
  <2>3. proofs' = [Retired(r) EXCEPT ![p] = y]
    BY <1>3, Zenon DEF PrepareActionReconciliation
  <2>. HIDE DEF y
  <2>. QED
    BY <1>1, <1>2, <2>1, <2>2, <2>3
<1>4. ASSUME NEW r \in Receipts, PrepareAtLimit(r) PROVE Goal
  BY <1>2, <1>4 DEF PrepareAtLimit
<1>5. ASSUME NEW p \in Proofs, NEW to \in ProofStatuses, Close(p, to) PROVE Goal
  <2>. DEFINE x == proofs[p]
              y == [x EXCEPT !.status = to, !.finding = "finished"]
  <2>1. x \in Proof
    BY <1>0
  <2>2. y \in Proof /\ y.finding = "finished"
    <3>. HIDE DEF x
    <3>. QED  BY <2>1, Zenon DEF Proof
  <2>3. Known(y)
    BY <2>2 DEF Findings
  <2>4. proofs' = [proofs EXCEPT ![p] = y]
    BY <1>5, Zenon DEF Close
  <2>. HIDE DEF y
  <2>. QED
    BY <1>0, <1>1, <2>2, <2>3, <2>4
<1>6. ASSUME NEW p \in Proofs, NEW finding \in Findings, Query(p, finding) PROVE Goal
  <2>. DEFINE x == proofs[p]
              y == [x EXCEPT !.finding = finding]
  <2>1. x \in Proof
    BY <1>0
  <2>2. y \in Proof /\ y.receipt = x.receipt /\ x.receipt \in Receipts \cup {None}
    <3>. HIDE DEF x
    <3>. QED  BY <2>1, Zenon DEF Proof
  <2>3. Known(y)
    BY <1>6, <2>2 DEF Query
  <2>4. proofs' = [proofs EXCEPT ![p] = y]
    BY <1>6 DEF Query
  <2>. HIDE DEF y
  <2>. QED
    BY <1>0, <1>1, <2>2, <2>3, <2>4
<1>7. ASSUME NEW p \in Proofs, ProofLeaseExpires(p) PROVE Goal
  <2>. DEFINE x == proofs[p]
              y == [x EXCEPT !.live = FALSE]
  <2>1. x \in Proof
    BY <1>0
  <2>2. y \in Proof /\ y.receipt = x.receipt /\ y.finding = x.finding
    <3>. HIDE DEF x
    <3>. QED  BY <2>1, Zenon DEF Proof
  <2>3. proofs' = [proofs EXCEPT ![p] = y]
    BY <1>7, Zenon DEF ProofLeaseExpires
  <2>. HIDE DEF y
  <2>. QED
    BY <1>0, <2>2, <2>3
<1>8. ASSUME NEW p \in Proofs, ReconcilerStep(p) PROVE Goal
  <2>1. ASSUME \/ FinishOverrun(p) \/ FinishError(p) \/ FinishMismatch(p) \/ FinishAbsent(p)
               \/ \E v \in Values \cup {None} : FinishCommitted(p, v)
        PROVE  \E to \in ProofStatuses : Close(p, to)
    <3>1. proofs[p].status \in ProofStatuses
      BY <1>0 DEF Proof
    <3>. QED
      BY <2>1, <3>1, Zenon DEF FinishOverrun, FinishError, FinishMismatch, FinishAbsent,
         FinishCommitted,
         ProofStatuses
  <2>. HIDE DEF Goal
  <2>. QED
    BY <1>3, <1>5, <1>6, <1>7, <1>8, <2>1 DEF ReconcilerStep
<1>9. ASSUME NEW w \in Workers, WorkerStep(w) PROVE UNCHANGED proofs
  BY <1>9, Zenon DEF WorkerStep, RunAction, ReserveNew, ReserveRefused, ReplayAnswered, ReplayAbandoned,
     ReplayReclaimed, RejectBeforeDispatch, DispatchPermitted, DispatchDenied, Dispatch,
     DispatchAnswered, SettleOutcome
<1>10. ASSUME \/ UNCHANGED allVars
              \/ \E r \in Receipts : IntegrationStep(r) \/ DispatchLeaseExpires(r)
              \/ RecoverStaleFlowActionsAtomic \/ EndCall \/ FlowControl
       PROVE  UNCHANGED proofs
  BY <1>10, Zenon DEF allVars, storeVars, IntegrationStep, Apply, Refuse, Lose,
     DispatchLeaseExpires,
     RecoverStaleFlowActionsAtomic, EndCall, FlowControl
<1>11. StoreNext \/ UNCHANGED allVars
  OBVIOUS
<1>12. UNCHANGED proofs => Goal
  BY <1>0
<1>13. Goal
  <2>. HIDE DEF Goal
  <2>. QED
    BY <1>4, <1>8, <1>9, <1>10, <1>11, <1>12 DEF StoreNext
<1>. QED
  BY <1>13

(* The integration's side; only a dispatch adds to what was sent. *)
LEMMA DownstreamSteps ==
    ASSUME StoreTypeOK, Captured, [StoreNext]_allVars
    PROVE  /\ downstream' \in [Receipts -> Downstream]
           /\ \/ \A r \in Receipts : downstream'[r].sent = downstream[r].sent
              \/ \E w \in Workers :
                   /\ Dispatch(w)
                   /\ downstream'[Held(w)].sent = Append(downstream[Held(w)].sent, exec[w].args)
                   /\ \A r \in Receipts \ {Held(w)} : downstream'[r].sent = downstream[r].sent
<1>. DEFINE Kept == \A r \in Receipts : downstream'[r].sent = downstream[r].sent
<1>0. downstream \in [Receipts -> Downstream]
  BY DEF StoreTypeOK
<1>1. ASSUME NEW r \in Receipts, NEW y \in Downstream, downstream' = [downstream EXCEPT ![r] = y]
      PROVE  /\ downstream' \in [Receipts -> Downstream]
             /\ downstream'[r].sent = y.sent
             /\ \A x \in Receipts \ {r} : downstream'[x].sent = downstream[x].sent
  BY <1>0, <1>1
<1>2. ASSUME NEW w \in Workers, Dispatch(w)
      PROVE  /\ downstream' \in [Receipts -> Downstream]
             /\ downstream'[Held(w)].sent = Append(downstream[Held(w)].sent, exec[w].args)
             /\ \A r \in Receipts \ {Held(w)} : downstream'[r].sent = downstream[r].sent
  <2>. DEFINE r == Held(w)
              x == downstream[r]
              s == Append(x.sent, exec[w].args)
              y == [x EXCEPT !.sent = s, !.wire = "inflight"]
  <2>1. r \in Receipts /\ exec[w].args \in Args
    BY <1>2 DEF Dispatch, Captured, CapturedBy, Held
  <2>2. x \in Downstream
    BY <1>0, <2>1
  <2>3. s \in Seq(Args)
    <3>1. x.sent \in Seq(Args)
      BY <2>2, Zenon DEF Downstream
    <3>. QED
      BY <2>1, <3>1
  <2>4. y \in Downstream /\ y.sent = s
    <3>. HIDE DEF x, s
    <3>. QED  BY <2>2, <2>3, Zenon DEF Downstream
  <2>5. downstream' = [downstream EXCEPT ![r] = y]
    BY <1>2, Zenon DEF Dispatch
  <2>. HIDE DEF y
  <2>. QED
    BY <1>1, <2>1, <2>4, <2>5, Zenon
<1>3. ASSUME NEW r \in Receipts, IntegrationStep(r)
      PROVE  downstream' \in [Receipts -> Downstream] /\ Kept
  <2>. DEFINE x == downstream[r]
  <2>1. x \in Downstream
    BY <1>0
  <2>2. ASSUME NEW wire \in {"applied", "refused", "lost"}, NEW n \in Nat
        PROVE  LET y == [x EXCEPT !.wire = wire, !.effects = n]
                   z == [x EXCEPT !.wire = wire]
               IN  y \in Downstream /\ z \in Downstream /\ y.sent = x.sent /\ z.sent = x.sent
    <3>. HIDE DEF x
    <3>. QED  BY <2>1, <2>2, Zenon DEF Downstream
  <2>3. x.effects + 1 \in Nat
    <3>1. x.effects \in Nat
      BY <2>1, Zenon DEF Downstream
    <3>. QED
      BY <3>1
  <2>4. \/ downstream' = [downstream EXCEPT ![r] = [x EXCEPT !.wire = "applied",
                                                    !.effects = x.effects + 1]]
        \/ \E wire \in {"refused", "lost"} :
             downstream' = [downstream EXCEPT ![r] = [x EXCEPT !.wire = wire]]
    BY <1>3, ZenonT(40) DEF IntegrationStep, Apply, Refuse, Lose
  <2>5. PICK y \in Downstream : y.sent = x.sent /\ downstream' = [downstream EXCEPT ![r] = y]
    BY <2>2, <2>3, <2>4, Zenon
  <2>. QED
    BY <1>1, <2>5, Zenon
<1>4. ASSUME NEW p \in Proofs, NEW finding \in Findings, Query(p, finding)
      PROVE  downstream' \in [Receipts -> Downstream] /\ Kept
  <2>. DEFINE r == proofs[p].receipt
              x == downstream[r]
              b == x.fenced \/ finding = "absent"
              y == [x EXCEPT !.fenced = b]
  <2>1. r \in Receipts
    <3>1. proofs[p] \in Proof
      BY DEF StoreTypeOK
    <3>2. r \in Receipts \cup {None}
      BY <3>1, Zenon DEF Proof
    <3>. QED
      BY <1>4, <3>2 DEF Query
  <2>2. x \in Downstream
    BY <1>0, <2>1
  <2>3. b \in BOOLEAN
    BY Zenon
  <2>4. y \in Downstream /\ y.sent = x.sent
    <3>. HIDE DEF x, b
    <3>. QED  BY <2>2, <2>3, Zenon DEF Downstream
  <2>5. downstream' = [downstream EXCEPT ![r] = y]
    BY <1>4, Zenon DEF Query
  <2>. HIDE DEF y
  <2>. QED
    BY <1>1, <2>1, <2>4, <2>5, ZenonT(40)
<1>5. ASSUME NEW w \in Workers, WorkerStep(w), ~Dispatch(w) PROVE UNCHANGED downstream
  BY <1>5, Zenon DEF WorkerStep, RunAction, ReserveNew, ReserveRefused, ReplayAnswered, ReplayAbandoned,
     ReplayReclaimed, RejectBeforeDispatch, DispatchPermitted, DispatchDenied,
     DispatchAnswered, SettleOutcome
<1>6. ASSUME NEW p \in Proofs, ReconcilerStep(p), ~\E finding \in Findings : Query(p, finding)
      PROVE  UNCHANGED downstream
  BY <1>6, Zenon DEF ReconcilerStep, PrepareActionReconciliation, FinishOverrun, FinishError,
     FinishMismatch, FinishAbsent, FinishCommitted, ProofLeaseExpires
<1>7. ASSUME \/ UNCHANGED allVars
             \/ \E r \in Receipts : DispatchLeaseExpires(r) \/ PrepareAtLimit(r)
             \/ RecoverStaleFlowActionsAtomic \/ EndCall \/ FlowControl
      PROVE  UNCHANGED downstream
  BY <1>7, Zenon DEF allVars, storeVars, DispatchLeaseExpires, PrepareAtLimit,
     RecoverStaleFlowActionsAtomic, EndCall, FlowControl
<1>8. StoreNext \/ UNCHANGED allVars
  OBVIOUS
<1>9. UNCHANGED downstream => downstream' \in [Receipts -> Downstream] /\ Kept
  BY <1>0
<1>. QED
  <2>. HIDE DEF Kept
  <2>1. \/ \E w \in Workers : Dispatch(w)
        \/ downstream' \in [Receipts -> Downstream] /\ Kept
    BY <1>3, <1>4, <1>5, <1>6, <1>7, <1>8, <1>9 DEF StoreNext
  <2>. QED
    BY <1>2, <2>1 DEF Kept

------------------------------------------------------------------------------
(* The fields the two copies of a receipt share. *)
Shows(x, st, disp, prf, key) == x.status = st /\ x.dispatched = disp /\ x.proof = prf /\ x.key = key

(* What the receipt updates of the runtime do to those fields. *)
LEMMA SharedFields ==
    ASSUME NEW x \in Receipt
    PROVE  /\ Shows([x EXCEPT !.dispatched = TRUE], x.status, TRUE, x.proof, x.key)
           /\ Shows([x EXCEPT !.hot = FALSE], x.status, x.dispatched, x.proof, x.key)
           /\ \A st : /\ Shows([x EXCEPT !.status = st], st, x.dispatched, x.proof, x.key)
                      /\ Shows([x EXCEPT !.status = st, !.proof = TRUE], st, x.dispatched, TRUE,
                               x.key)
                      /\ \A v : /\ Shows([x EXCEPT !.status = st, !.result = v],
                                         st, x.dispatched, x.proof, x.key)
                                /\ Shows([x EXCEPT !.status = st, !.result = v, !.proof = TRUE],
                                         st, x.dispatched, TRUE, x.key)
  BY Zenon DEF Shows, Receipt

(* Row x and receipt y agree. *)
Agree(x, y) == Shows(x, y.status, y.dispatched, y.proof, y.key)

(* The ledger keeps its type and goes on agreeing with the embedded receipts. *)
LEMMA LedgerSteps ==
    ASSUME TypeOK, StoreTypeOK, Captured, [StoreNext]_allVars
    PROVE  /\ ledger' \in [Receipts -> Row]
           /\ \A q \in Receipts : Agree(ledger[q], actionReceipts[q]) =>
                                  Agree(ledger'[q], actionReceipts'[q])
<1>. DEFINE Goal == /\ ledger' \in [Receipts -> Row]
                    /\ \A q \in Receipts : Agree(ledger[q], actionReceipts[q]) =>
                                           Agree(ledger'[q], actionReceipts'[q])
<1>0. /\ ledger \in [Receipts -> Row]
      /\ actionReceipts \in [Receipts -> Receipt]
  BY DEF StoreTypeOK, TypeOK
<1>1. ASSUME NEW r \in Receipts, ledger' \in [Receipts -> Row],
             \A x \in Receipts \ {r} : ledger'[x] = ledger[x] /\ actionReceipts'[x] = actionReceipts[x],
             Agree(ledger[r], actionReceipts[r]) => Agree(ledger'[r], actionReceipts'[r])
      PROVE  Goal
  BY <1>1
<1>2. ASSUME NEW r \in Receipts, NEW y, actionReceipts' = [actionReceipts EXCEPT ![r] = y]
      PROVE  actionReceipts'[r] = y /\ \A x \in Receipts \ {r} : actionReceipts'[x] = actionReceipts[x]
  BY <1>0, <1>2
<1>3. ASSUME UNCHANGED <<vars, ledger>> PROVE Goal
  BY <1>0, <1>3 DEF vars
<1>4. ASSUME FlowControl PROVE Goal
  <2>1. UNCHANGED ledger
    BY <1>4 DEF FlowControl, storeVars
  <2>2. \/ UNCHANGED actionReceipts
        \/ \E s : actionReceipts' = CompactCompletedStepReceipts(s)
    BY <1>4, Zenon DEF FlowControl, SelectFlowTopic, EnterFlowStep, CompleteFlowStep
  <2>3. ASSUME NEW q \in Receipts
        PROVE  actionReceipts'[q] \in {actionReceipts[q], [actionReceipts[q] EXCEPT !.hot = FALSE]}
    BY <2>2, <2>3 DEF CompactCompletedStepReceipts
  <2>4. ASSUME NEW q \in Receipts, Agree(ledger[q], actionReceipts[q])
        PROVE  Agree(ledger[q], actionReceipts'[q])
    <3>1. Shows([actionReceipts[q] EXCEPT !.hot = FALSE], actionReceipts[q].status,
                actionReceipts[q].dispatched, actionReceipts[q].proof, actionReceipts[q].key)
      BY <1>0, SharedFields, Zenon
    <3>. DEFINE z == [actionReceipts[q] EXCEPT !.hot = FALSE]
    <3>2. CASE actionReceipts'[q] = z
      <4>. HIDE DEF z
      <4>. QED  BY <2>4, <3>1, <3>2, Zenon DEF Agree, Shows, z
    <3>. QED
      BY <2>3, <2>4, <3>2, Zenon
  <2>. QED
    BY <1>0, <2>1, <2>4
<1>5. ASSUME NEW w \in Workers, ReserveNew(w) PROVE Goal
  <2>. DEFINE r == exec[w].inv
              k == RequestedKey(w)
  <2>1. /\ r \in Receipts /\ exec[w].tool \in Tools /\ exec[w].args \in Args
        /\ ReserveFlowAction(r, exec[w].tool, exec[w].args, exec[w].epoch)
    BY <1>5 DEF ReserveNew, Captured, CapturedBy
  <2>2. k \in Key
    BY <2>1, KeyType DEF RequestedKey
  <2>3. /\ ledger' \in [Receipts -> Row]
        /\ \A x \in Receipts \ {r} : ledger'[x] = ledger[x]
        /\ IsRow(ledger'[r], "reserved", w, TRUE, FALSE, "not_sent", FALSE, k)
    <3>1. ledger' = [ledger EXCEPT ![r] = [NoRow EXCEPT !.status = "reserved", !.owner = w,
                                                         !.live = TRUE, !.key = k]]
      BY <1>5, Zenon DEF ReserveNew
    <3>. HIDE DEF r, k
    <3>. QED
      BY <1>0, <2>1, <2>2, <3>1, RowInsert, Zenon
  <2>4. /\ Reserves(r, exec[w].tool, exec[w].args)
        /\ \A x \in Receipts \ {r} : actionReceipts'[x] = actionReceipts[x]
    BY <2>1, ReservationFields
  <2>5. /\ actionReceipts'[r].status = "reserved" /\ ~actionReceipts'[r].dispatched
        /\ ~actionReceipts'[r].proof /\ actionReceipts'[r].key = k
    BY <2>4 DEF Reserves, IsReserved, RequestedKey
  <2>6. actionReceipts'[r].dispatched \in BOOLEAN /\ actionReceipts'[r].proof \in BOOLEAN
    <3>1. NewReceipt(r, exec[w].tool, exec[w].args) \in Receipt
      BY <2>1, NewReceiptType
    <3>2. actionReceipts'[r] = NewReceipt(r, exec[w].tool, exec[w].args)
      BY <1>0, <2>1 DEF ReserveFlowAction
    <3>. QED
      BY <3>1, <3>2, Zenon DEF Receipt
  <2>. HIDE DEF r, k
  <2>7. Agree(ledger'[r], actionReceipts'[r])
    BY <2>3, <2>5, <2>6, Zenon DEF Agree, Shows, IsRow
  <2>. QED
    BY <1>1, <2>1, <2>3, <2>4, <2>7
<1>6. ASSUME NEW r \in Receipts, NEW o, NEW d, NEW v, Settles(r, o, d, v) PROVE Goal
  <2>. DEFINE y == [actionReceipts[r] EXCEPT !.status = o, !.result = v]
  <2>1. /\ ledger' \in [Receipts -> Row]
        /\ \A x \in Receipts \ {r} : ledger'[x] = ledger[x]
        /\ IsRow(ledger'[r], o, ledger[r].owner, ledger[r].live, ledger[r].dispatched, d,
                 ledger[r].proof, ledger[r].key)
    <3>1. o \in Statuses /\ d \in Deliveries
      BY <1>6 DEF Settles, Statuses
    <3>2. ledger' = [ledger EXCEPT ![r].status = o, ![r].delivery = d]
      BY <1>6 DEF Settles
    <3>. QED
      BY <1>0, <3>1, <3>2, StatusUpdate, Zenon
  <2>2. actionReceipts' = [actionReceipts EXCEPT ![r] = y]
    BY <1>6, Zenon DEF Settles, SettleFlowAction
  <2>3. Shows(y, o, actionReceipts[r].dispatched, actionReceipts[r].proof, actionReceipts[r].key)
    BY <1>0, SharedFields, Zenon
  <2>. HIDE DEF y
  <2>4. Agree(ledger[r], actionReceipts[r]) => Agree(ledger'[r], y)
    BY <2>1, <2>3, Zenon DEF Agree, Shows, IsRow
  <2>. QED
    BY <1>1, <1>2, <2>1, <2>2, <2>4, ZenonT(120)
<1>7. ASSUME NEW r \in Receipts, Permits(r) PROVE Goal
  <2>. DEFINE y == [actionReceipts[r] EXCEPT !.dispatched = TRUE]
  <2>1. /\ ledger' \in [Receipts -> Row]
        /\ \A x \in Receipts \ {r} : ledger'[x] = ledger[x]
        /\ IsRow(ledger'[r], ledger[r].status, ledger[r].owner, ledger[r].live, TRUE, "unknown",
                 ledger[r].proof, ledger[r].key)
    <3>1. ledger' = [ledger EXCEPT ![r].dispatched = TRUE, ![r].delivery = "unknown"]
      BY <1>7, Zenon DEF Permits
    <3>. QED
      BY <1>0, <3>1, PermitUpdate, Zenon
  <2>2. actionReceipts' = [actionReceipts EXCEPT ![r] = y]
    BY <1>7, Zenon DEF Permits, MarkFlowActionDispatchStarted
  <2>3. Shows(y, actionReceipts[r].status, TRUE, actionReceipts[r].proof, actionReceipts[r].key)
    BY <1>0, SharedFields, Zenon
  <2>. HIDE DEF y
  <2>4. Agree(ledger[r], actionReceipts[r]) => Agree(ledger'[r], y)
    BY <2>1, <2>3, Zenon DEF Agree, Shows, IsRow
  <2>5. actionReceipts'[r] = y /\ \A x \in Receipts \ {r} : actionReceipts'[x] = actionReceipts[x]
    BY <1>2, <2>2, Zenon
  <2>6. ledger' \in [Receipts -> Row] /\ \A x \in Receipts \ {r} : ledger'[x] = ledger[x]
    BY <2>1
  <2>. QED
    BY <1>1, <2>4, <2>5, <2>6
<1>8. ASSUME NEW w \in Workers, NEW r \in Receipts, Reclaims(w, r) PROVE Goal
  <2>1. /\ ledger' \in [Receipts -> Row]
        /\ \A x \in Receipts \ {r} : ledger'[x] = ledger[x]
        /\ IsRow(ledger'[r], ledger[r].status, w, TRUE, ledger[r].dispatched, ledger[r].delivery,
                 ledger[r].proof, ledger[r].key)
    <3>1. ledger' = [ledger EXCEPT ![r].owner = w, ![r].live = TRUE]
      BY <1>8, Zenon DEF Reclaims
    <3>. QED
      BY <1>0, <3>1, OwnerUpdate, Zenon
  <2>2. actionReceipts' = actionReceipts
    BY <1>8, Zenon DEF Reclaims, vars
  <2>3. Agree(ledger[r], actionReceipts[r]) => Agree(ledger'[r], actionReceipts[r])
    BY <2>1, Zenon DEF Agree, Shows, IsRow
  <2>. QED
    BY <1>1, <2>1, <2>2, <2>3
<1>9. ASSUME NEW r \in Receipts, Expires(r) PROVE Goal
  <2>1. /\ ledger' \in [Receipts -> Row]
        /\ \A x \in Receipts \ {r} : ledger'[x] = ledger[x]
        /\ IsRow(ledger'[r], ledger[r].status, ledger[r].owner, FALSE, ledger[r].dispatched,
                 ledger[r].delivery, ledger[r].proof, ledger[r].key)
    <3>1. ledger' = [ledger EXCEPT ![r].live = FALSE]
      BY <1>9, Zenon DEF Expires
    <3>. QED
      BY <1>0, <3>1, LeaseUpdate, ZenonT(40)
  <2>2. actionReceipts' = actionReceipts
    BY <1>9, Zenon DEF Expires, vars
  <2>3. Agree(ledger[r], actionReceipts[r]) => Agree(ledger'[r], actionReceipts[r])
    BY <2>1, Zenon DEF Agree, Shows, IsRow
  <2>. QED
    BY <1>1, <2>1, <2>2, <2>3
<1>10. ASSUME RecoverStaleFlowActionsAtomic PROVE Goal
  <2>1. /\ StaleRows \in SUBSET Receipts
        /\ \A r \in StaleRows : Stale(r)
        /\ ledger' = [r \in Receipts |->
                        IF r \in StaleRows
                        THEN [ledger[r] EXCEPT !.status = "indeterminate", !.delivery = "unknown"]
                        ELSE ledger[r]]
        /\ actionReceipts' = [r \in Receipts |->
                                IF r \in StaleRows /\ Stale(r)
                                THEN [actionReceipts[r] EXCEPT !.status = "indeterminate"]
                                ELSE actionReceipts[r]]
    BY <1>10, ZenonT(40) DEF RecoverStaleFlowActionsAtomic, StaleRows, MarkStaleDispatchedActionsIndeterminate
  <2>2. /\ ledger' \in [Receipts -> Row]
        /\ \A x \in Receipts \ StaleRows : ledger'[x] = ledger[x]
        /\ \A x \in StaleRows : IsRow(ledger'[x], "indeterminate", ledger[x].owner, ledger[x].live,
                                      ledger[x].dispatched, "unknown", ledger[x].proof,
                                      ledger[x].key)
    BY <1>0, <2>1, RowsRecovered, Zenon
  <2>3. ASSUME NEW q \in StaleRows, Agree(ledger[q], actionReceipts[q])
        PROVE  Agree(ledger'[q], actionReceipts'[q])
    <3>. DEFINE y == [actionReceipts[q] EXCEPT !.status = "indeterminate"]
    <3>1. actionReceipts'[q] = y /\ actionReceipts[q] \in Receipt
      BY <1>0, <2>1, Zenon
    <3>2. Shows(y, "indeterminate", actionReceipts[q].dispatched, actionReceipts[q].proof,
                actionReceipts[q].key)
      BY <3>1, SharedFields, Zenon
    <3>. HIDE DEF y
    <3>. QED
      BY <2>2, <2>3, <3>1, <3>2, Zenon DEF Agree, Shows, IsRow
  <2>4. \A q \in Receipts \ StaleRows : actionReceipts'[q] = actionReceipts[q]
    BY <2>1, ZenonT(40)
  <2>. QED
    BY <2>1, <2>2, <2>3, <2>4, Zenon
<1>11. ASSUME NEW r \in Receipts, ProvesAbsent(r) PROVE Goal
  <2>. DEFINE y == [actionReceipts[r] EXCEPT !.status = "failed", !.proof = TRUE]
  <2>1. /\ ledger' \in [Receipts -> Row]
        /\ \A x \in Receipts \ {r} : ledger'[x] = ledger[x]
        /\ IsRow(ledger'[r], "failed", ledger[r].owner, ledger[r].live, ledger[r].dispatched,
                 "rejected", TRUE, ledger[r].key)
    <3>1. ledger' = [ledger EXCEPT ![r].status = "failed", ![r].delivery = "rejected",
                     ![r].proof = TRUE]
      BY <1>11, Zenon DEF ProvesAbsent
    <3>. QED
      BY <1>0, <3>1, ProofUpdate, Zenon DEF Statuses, Deliveries
  <2>2. actionReceipts' = [actionReceipts EXCEPT ![r] = y]
    BY <1>11, Zenon DEF ProvesAbsent, ProveIndeterminateFlowActionAbsent
  <2>3. Shows(y, "failed", actionReceipts[r].dispatched, TRUE, actionReceipts[r].key)
    BY <1>0, SharedFields, Zenon
  <2>. HIDE DEF y
  <2>4. Agree(ledger[r], actionReceipts[r]) => Agree(ledger'[r], y)
    BY <2>1, <2>3, Zenon DEF Agree, Shows, IsRow
  <2>. QED
    BY <1>1, <1>2, <2>1, <2>2, <2>4, ZenonT(120)
<1>12. ASSUME NEW r \in Receipts, NEW v \in Values \cup {None}, Promotes(r, v) PROVE Goal
  <2>. DEFINE y == [actionReceipts[r] EXCEPT !.status = "succeeded", !.result = v, !.proof = TRUE]
  <2>1. /\ ledger' \in [Receipts -> Row]
        /\ \A x \in Receipts \ {r} : ledger'[x] = ledger[x]
        /\ IsRow(ledger'[r], "succeeded", ledger[r].owner, ledger[r].live, ledger[r].dispatched,
                 "committed", TRUE, ledger[r].key)
    <3>1. ledger' = [ledger EXCEPT ![r].status = "succeeded", ![r].delivery = "committed",
                     ![r].proof = TRUE]
      BY <1>12, Zenon DEF Promotes
    <3>. QED
      BY <1>0, <3>1, ProofUpdate, Zenon DEF Statuses, Deliveries
  <2>2. actionReceipts' = [actionReceipts EXCEPT ![r] = y]
    BY <1>12, Zenon DEF Promotes, PromoteIndeterminateFlowAction
  <2>3. Shows(y, "succeeded", actionReceipts[r].dispatched, TRUE, actionReceipts[r].key)
    BY <1>0, SharedFields, Zenon
  <2>. HIDE DEF y
  <2>4. Agree(ledger[r], actionReceipts[r]) => Agree(ledger'[r], y)
    BY <2>1, <2>3, Zenon DEF Agree, Shows, IsRow
  <2>. QED
    BY <1>1, <1>2, <2>1, <2>2, <2>4, ZenonT(40)
<1>13. Goal
  <2>. HIDE DEF Goal
  <2>. QED
    BY <1>3, <1>4, <1>5, <1>6, <1>7, <1>8, <1>9, <1>10, <1>11, <1>12, Transactions
<1>. QED
  BY <1>13

------------------------------------------------------------------------------
(* The inductive invariant of the store. *)
StoreInv == TypeOK /\ StoreTypeOK /\ Captured /\ LedgerAgrees

(* It holds initially. *)
LEMMA StoreInvInit == StoreInit => StoreInv
<1>. SUFFICES ASSUME StoreInit PROVE StoreInv
  OBVIOUS
<1>1. TypeOK
  BY FlowAssumption DEF StoreInit, Init, TypeOK, NoOutput, NoReceipt, Receipt, NoKey, Key,
     Statuses, Scopes
<1>2. NoRow \in Row /\ NoRequest \in Downstream /\ NoProof \in Proof /\ NoExecution \in Execution
  <2>1. <<>> \in Seq(Args)
    OBVIOUS
  <2>2. NoKey \in Key
    BY DEF NoKey, Key
  <2>3. NoRow \in Row
    BY <2>2, Zenon DEF NoRow, Row, Statuses
  <2>4. NoRequest \in Downstream
    BY <2>1, Zenon DEF NoRequest, Downstream
  <2>5. NoProof \in Proof
    BY DEF NoProof, Proof, ProofStatuses
  <2>6. NoExecution \in Execution
    BY DEF NoExecution, Execution, PCs
  <2>. QED
    BY <2>3, <2>4, <2>5, <2>6
<1>3. StoreTypeOK
  BY <1>2 DEF StoreInit, StoreTypeOK
<1>4. Captured
  BY DEF StoreInit, Captured, CapturedBy, NoExecution, NoProof, Findings
<1>5. LedgerAgrees
  <2>. SUFFICES ASSUME NEW r \in Receipts
                PROVE  /\ ledger[r].status = actionReceipts[r].status
                       /\ ledger[r].dispatched = actionReceipts[r].dispatched
                       /\ ledger[r].proof = actionReceipts[r].proof
                       /\ ledger[r].key = actionReceipts[r].key
    BY DEF LedgerAgrees
  <2>1. ledger[r] = NoRow /\ actionReceipts[r] = NoReceipt
    BY DEF StoreInit, Init
  <2>2. Shows(NoRow, "none", FALSE, FALSE, NoKey)
    BY Zenon DEF NoRow, Shows
  <2>3. Shows(NoReceipt, "none", FALSE, FALSE, NoKey)
    BY Zenon DEF NoReceipt, Shows
  <2>. QED
    BY <2>1, <2>2, <2>3, Zenon DEF Shows
<1>. QED
  BY <1>1, <1>3, <1>4, <1>5 DEF StoreInv

(* Every step of the store keeps it. *)
LEMMA StoreInvStep == StoreInv /\ [StoreNext]_allVars => StoreInv'
<1>. SUFFICES ASSUME TypeOK, StoreTypeOK, Captured, LedgerAgrees, [StoreNext]_allVars
              PROVE  StoreInv'
  BY DEF StoreInv
<1>1. TypeOK'
  BY StoreStepsAreFlowSteps, TypeStep
<1>2. callActive' \in BOOLEAN
  <2>1. callActive' = callActive \/ callActive' = FALSE
    <3>1. ASSUME NEW w \in Workers, WorkerStep(w) PROVE UNCHANGED callActive
      BY <3>1, Zenon DEF WorkerStep, RunAction, ReserveNew, ReserveRefused, ReplayAnswered,
         ReplayAbandoned, ReplayReclaimed, RejectBeforeDispatch, DispatchPermitted, DispatchDenied,
         Dispatch, DispatchAnswered, SettleOutcome
    <3>2. ASSUME NEW p \in Proofs, ReconcilerStep(p) PROVE UNCHANGED callActive
      BY <3>2, Zenon DEF ReconcilerStep, PrepareActionReconciliation, Query, FinishOverrun,
         FinishError,
         FinishMismatch, FinishAbsent, FinishCommitted, ProofLeaseExpires
    <3>3. ASSUME \/ UNCHANGED allVars
                 \/ \E r \in Receipts : IntegrationStep(r) \/ DispatchLeaseExpires(r) \/ PrepareAtLimit(r)
                 \/ RecoverStaleFlowActionsAtomic \/ FlowControl
          PROVE  UNCHANGED callActive
      BY <3>3, Zenon DEF allVars, storeVars, IntegrationStep, Apply, Refuse, Lose,
         DispatchLeaseExpires,
         PrepareAtLimit, RecoverStaleFlowActionsAtomic, FlowControl
    <3>4. EndCall => callActive' = FALSE
      BY Zenon DEF EndCall
    <3>5. StoreNext \/ UNCHANGED allVars
      OBVIOUS
    <3>. QED
      BY <3>1, <3>2, <3>3, <3>4, <3>5, Zenon DEF StoreNext
  <2>. QED
    BY <2>1, Zenon DEF StoreTypeOK
<1>3. StoreTypeOK'
  <2>1. ledger' \in [Receipts -> Row]
    BY LedgerSteps, Zenon
  <2>2. exec' \in [Workers -> Execution]
    BY ExecutionSteps, Zenon
  <2>3. downstream' \in [Receipts -> Downstream]
    BY DownstreamSteps, Zenon
  <2>4. proofs' \in [Proofs -> Proof]
    BY ProofSteps, Zenon
  <2>. QED
    BY <1>2, <2>1, <2>2, <2>3, <2>4, Zenon DEF StoreTypeOK
<1>4. Captured'
  <2>1. \A w \in Workers : CapturedBy(exec'[w])
    BY ExecutionSteps, Zenon
  <2>2. \A p \in Proofs : proofs'[p].finding \in Findings => proofs'[p].receipt \in Receipts
    BY ProofSteps, Zenon DEF Captured
  <2>. QED
    BY <2>1, <2>2, Zenon DEF Captured, CapturedBy
<1>5. LedgerAgrees'
  BY LedgerSteps DEF LedgerAgrees, Agree, Shows
<1>. QED
  BY <1>1, <1>3, <1>4, <1>5 DEF StoreInv

(* The tables, the workers and the integration keep their types, and the two
   copies of a receipt agree in every state. *)
LEMMA StoreInvariant == StoreSpec => []StoreInv
  BY StoreInvInit, StoreInvStep, PTL DEF StoreSpec

(* StoreTypeOK: the transactions of flow-state-store.ts keep the types of the
   tables, whatever order they come in. *)
THEOREM StoreTypeCorrect == StoreSpec => []StoreTypeOK
<1>1. StoreInv => StoreTypeOK
  BY DEF StoreInv
<1>. QED
  BY <1>1, StoreInvariant, PTL

(* LedgerAgrees: the row of a receipt and the receipt embedded in the flow
   state agree after every transaction. *)
THEOREM CopiesAgree == StoreSpec => []LedgerAgrees
<1>1. StoreInv => LedgerAgrees
  BY DEF StoreInv
<1>. QED
  BY <1>1, StoreInvariant, PTL

(* The durable store implements the pure state machine: each transaction is one
   of its functions or leaves the flow state alone. *)
THEOREM StoreImplementsFlowRuntime == StoreSpec => ImplementsFlowRuntime
<1>1. StoreInit => Init
  BY DEF StoreInit
<1>2. StoreInv /\ [StoreNext]_allVars => [Next]_vars
  BY StoreStepsAreFlowSteps DEF StoreInv
<1>. QED
  BY <1>1, <1>2, StoreInvariant, PTL DEF StoreSpec, Spec, ImplementsFlowRuntime

(* So what holds of the state machine holds of the stored state: it always
   passes its schema, an unresolved action freezes its step, an epoch is one
   scope, and a call-scoped key admits one receipt. *)
THEOREM StoredStateSafe ==
    StoreSpec => [](/\ PersistedStateIsValid
                    /\ UnresolvedFreezesStep
                    /\ EpochIdentifiesScope
                    /\ CallScopedKeyAdmittedOnce)
  BY StoreImplementsFlowRuntime, PersistedStateValid, UnresolvedFreezes, EpochIsOneScope,
     CallScopedKeyOnce, PTL DEF ImplementsFlowRuntime

------------------------------------------------------------------------------
(* At-most-once dispatch.  What was sent was permitted, and a permit is given
   once: a worker that holds one has sent nothing yet, and holds it alone. *)
DispatchInv ==
    /\ AtMostOnceDispatch
    /\ \A r \in Receipts : downstream[r].sent # <<>> => ledger[r].dispatched
    /\ \A w \in Workers : exec[w].pc = "permitted" =>
         /\ ledger[Held(w)].dispatched
         /\ downstream[Held(w)].sent = <<>>
         /\ \A q \in Workers : exec[q].pc = "permitted" /\ Held(q) = Held(w) => q = w

(* Once dispatched, a receipt stays so: the insert of a reservation finds no row. *)
LEMMA DispatchIsKept ==
    ASSUME StoreInv, ReceiptsWellFormed, [StoreNext]_allVars, NEW r \in Receipts,
           ledger[r].dispatched
    PROVE  ledger'[r].dispatched
<1>1. /\ TypeOK /\ LedgerAgrees /\ LedgerAgrees' /\ [Next]_vars
  BY StoreInvStep, StoreStepsAreFlowSteps DEF StoreInv
<1>2. actionReceipts[r].dispatched
  BY <1>1 DEF LedgerAgrees
<1>3. actionReceipts'[r].dispatched
  <2>1. CASE Evolves(actionReceipts[r], actionReceipts'[r])
    BY <1>2, <2>1 DEF Evolves
  <2>2. ~\E t \in Tools, a \in Args, e \in 0 .. capabilityEpoch : ReserveFlowAction(r, t, a, e)
    BY <1>2, ZenonT(40) DEF ReserveFlowAction, Admissible, ReceiptsWellFormed, WellFormed
  <2>. QED
    BY <1>1, <2>1, <2>2, ReceiptSteps
<1>. QED
  BY <1>1, <1>3 DEF LedgerAgrees

(* A worker comes to hold a permit in DispatchPermitted only. *)
LEMMA PermitSteps ==
    ASSUME StoreInv, [StoreNext]_allVars, NEW w \in Workers, exec'[w].pc = "permitted"
    PROVE  \/ exec[w].pc = "permitted" /\ exec'[w].receipt = exec[w].receipt /\ ~Dispatch(w)
           \/ /\ DispatchPermitted(w)
              /\ exec'[w].receipt = exec[w].receipt
              /\ \A q \in Workers \ {w} : exec'[q] = exec[q]
<1>0. exec \in [Workers -> Execution] /\ \A q \in Workers : CapturedBy(exec[q])
  BY DEF StoreInv, StoreTypeOK, Captured
<1>1. ASSUME NEW q \in Workers, WorkerStep(q), q # w PROVE exec'[w] = exec[w]
  BY <1>0, <1>1, ZenonT(40) DEF WorkerStep, RunAction, ReserveNew, ReserveRefused, ReplayAnswered,
     ReplayAbandoned, ReplayReclaimed, RejectBeforeDispatch, DispatchPermitted, DispatchDenied,
     Dispatch, DispatchAnswered, SettleOutcome, Goto
<1>2. ASSUME WorkerStep(w) PROVE DispatchPermitted(w)
  <2>1. ASSUME \E r \in Receipts, t \in Tools, a \in Args : RunAction(w, r, t, a) PROVE FALSE
    BY <1>0, <2>1 DEF RunAction, NoExecution
  <2>2. ASSUME \/ ReserveRefused(w) \/ ReplayAnswered(w) \/ ReplayAbandoned(w)
               \/ RejectBeforeDispatch(w) \/ DispatchDenied(w) \/ Dispatch(w)
               \/ \E v \in Values \cup {None} : SettleOutcome(w, v)
        PROVE  FALSE
    <3>1. \E pc \in {"done", "denied", "waiting"} : Goto(w, pc)
      BY <2>2 DEF ReserveRefused, ReplayAnswered, ReplayAbandoned, RejectBeforeDispatch,
         DispatchDenied, Dispatch, SettleOutcome
    <3>. QED
      BY <1>0, <3>1 DEF Goto, Execution
  <2>3. ASSUME \/ ReserveNew(w) \/ ReplayReclaimed(w)
               \/ \E answer \in Answers : DispatchAnswered(w, answer)
        PROVE  FALSE
    <3>1. \/ \E x : exec' = [exec EXCEPT ![w].pc = "reserved", ![w].receipt = x]
          \/ \E x : exec' = [exec EXCEPT ![w].pc = "answered", ![w].answer = x]
      BY <2>3, Zenon DEF ReserveNew, ReplayReclaimed, DispatchAnswered
    <3>2. exec'[w].pc \in {"reserved", "answered"}
      BY <1>0, <3>1 DEF Execution
    <3>. QED
      BY <3>2
  <2>. QED
    BY <1>2, <2>1, <2>2, <2>3 DEF WorkerStep
<1>3. ASSUME DispatchPermitted(w)
      PROVE  exec'[w].receipt = exec[w].receipt /\ \A q \in Workers \ {w} : exec'[q] = exec[q]
  BY <1>0, <1>3 DEF DispatchPermitted, Goto, Execution
<1>4. ASSUME NEW p \in Proofs, ReconcilerStep(p) PROVE UNCHANGED exec
  BY <1>4, Zenon DEF ReconcilerStep, PrepareActionReconciliation, Query, FinishOverrun, FinishError,
     FinishMismatch, FinishAbsent, FinishCommitted, ProofLeaseExpires
<1>5. ASSUME \/ UNCHANGED allVars
             \/ \E r \in Receipts : IntegrationStep(r) \/ DispatchLeaseExpires(r) \/ PrepareAtLimit(r)
             \/ RecoverStaleFlowActionsAtomic \/ EndCall \/ FlowControl
      PROVE  UNCHANGED exec
  BY <1>5, Zenon DEF allVars, storeVars, IntegrationStep, Apply, Refuse, Lose, DispatchLeaseExpires,
     PrepareAtLimit, RecoverStaleFlowActionsAtomic, EndCall, FlowControl
<1>6. StoreNext \/ UNCHANGED allVars
  OBVIOUS
<1>7. exec'[w] = exec[w] \/ DispatchPermitted(w)
  BY <1>1, <1>2, <1>4, <1>5, <1>6 DEF StoreNext
<1>8. ASSUME Dispatch(w) PROVE FALSE
  BY <1>0, <1>8 DEF Dispatch, Goto, Execution
<1>. QED
  BY <1>3, <1>7, <1>8

(* Every step keeps DispatchInv. *)
LEMMA DispatchInvStep ==
    ASSUME StoreInv, ReceiptsWellFormed, DispatchInv, [StoreNext]_allVars
    PROVE  DispatchInv'
<1>0. /\ \A r \in Receipts : downstream[r].sent \in Seq(Args)
      /\ \A w \in Workers : exec[w].pc = "permitted" => Held(w) \in Receipts /\ exec[w].args \in Args
      /\ \A w \in Workers : exec'[w].pc = "permitted" => exec'[w].receipt \in Receipts
  <2>1. /\ downstream \in [Receipts -> Downstream]
        /\ \A w \in Workers : CapturedBy(exec[w])
        /\ \A w \in Workers : CapturedBy(exec'[w])
    BY StoreInvStep DEF StoreInv, StoreTypeOK, Captured
  <2>2. ASSUME NEW x \in Downstream PROVE x.sent \in Seq(Args)
    BY <2>2, Zenon DEF Downstream
  <2>. QED
    BY <2>1, <2>2 DEF CapturedBy, Held
<1>1. \/ \A r \in Receipts : downstream'[r].sent = downstream[r].sent
      \/ \E w \in Workers :
           /\ Dispatch(w)
           /\ downstream'[Held(w)].sent = Append(downstream[Held(w)].sent, exec[w].args)
           /\ \A r \in Receipts \ {Held(w)} : downstream'[r].sent = downstream[r].sent
  BY DownstreamSteps DEF StoreInv
<1>2. AtMostOnceDispatch'
  <2>. SUFFICES ASSUME NEW r \in Receipts PROVE Len(downstream'[r].sent) <= 1
    BY DEF AtMostOnceDispatch
  <2>1. CASE downstream'[r].sent = downstream[r].sent
    BY <2>1 DEF DispatchInv, AtMostOnceDispatch
  <2>2. ASSUME NEW w \in Workers, Dispatch(w), Held(w) = r,
               downstream'[r].sent = Append(downstream[r].sent, exec[w].args)
        PROVE  Len(downstream'[r].sent) <= 1
    <3>1. downstream[r].sent = <<>> /\ exec[w].args \in Args
      BY <1>0, <2>2 DEF Dispatch, DispatchInv
    <3>2. Len(Append(<<>>, exec[w].args)) = 1
      BY <3>1
    <3>. QED
      BY <2>2, <3>1, <3>2
  <2>. QED
    BY <1>1, <2>1, <2>2
<1>3. ASSUME NEW r \in Receipts, downstream'[r].sent # <<>> PROVE ledger'[r].dispatched
  <2>1. CASE downstream'[r].sent = downstream[r].sent
    BY <1>3, <2>1, DispatchIsKept DEF DispatchInv
  <2>2. ASSUME NEW w \in Workers, Dispatch(w), Held(w) = r PROVE ledger[r].dispatched
    BY <2>2 DEF Dispatch, DispatchInv
  <2>. QED
    BY <1>1, <2>1, <2>2, DispatchIsKept
<1>4. ASSUME NEW w \in Workers, exec'[w].pc = "permitted"
      PROVE  /\ ledger'[exec'[w].receipt].dispatched
             /\ downstream'[exec'[w].receipt].sent = <<>>
             /\ \A q \in Workers :
                  exec'[q].pc = "permitted" /\ exec'[q].receipt = exec'[w].receipt => q = w
  <2>. DEFINE r == exec'[w].receipt
  <2>0. r \in Receipts
    BY <1>0, <1>4
  <2>1. ASSUME NEW q \in Workers, DispatchPermitted(q)
        PROVE  /\ ~ledger[Held(q)].dispatched
               /\ ledger'[Held(q)].dispatched
               /\ UNCHANGED downstream
               /\ Held(q) \in Receipts
    <3>1. /\ ~ledger[Held(q)].dispatched
          /\ UNCHANGED downstream
      BY <2>1, Zenon DEF DispatchPermitted
    <3>2. Held(q) \in Receipts
      BY <2>1 DEF DispatchPermitted, StoreInv, Captured, CapturedBy, Held
    <3>3. ledger' = [ledger EXCEPT ![Held(q)].dispatched = TRUE, ![Held(q)].delivery = "unknown"]
      BY <2>1, Zenon DEF DispatchPermitted
    <3>4. ledger \in [Receipts -> Row]
      BY DEF StoreInv, StoreTypeOK
    <3>5. ledger'[Held(q)].dispatched = TRUE
      <4>. DEFINE h == Held(q)
      <4>1. IsRow(ledger'[h], ledger[h].status, ledger[h].owner, ledger[h].live, TRUE, "unknown",
                  ledger[h].proof, ledger[h].key)
        <5>. HIDE DEF h
        <5>. QED  BY <3>2, <3>3, <3>4, PermitUpdate, ZenonT(40) DEF h
      <4>. QED
        BY <4>1, Zenon DEF IsRow
    <3>. QED
      BY <3>1, <3>2, <3>5
  <2>2. ASSUME NEW q \in Workers, Dispatch(q), Held(q) = r, ~DispatchPermitted(w) PROVE FALSE
    <3>1. exec[w].pc = "permitted" /\ Held(w) = r /\ ~Dispatch(w)
      BY <1>4, <2>2, PermitSteps DEF Held
    <3>. QED
      BY <2>2, <3>1, ZenonT(40) DEF Dispatch, DispatchInv
  <2>3. CASE DispatchPermitted(w)
    <3>1. Held(w) = r /\ \A q \in Workers \ {w} : exec'[q] = exec[q]
      <4>1. exec[w].pc # "permitted"
        BY <2>3 DEF DispatchPermitted
      <4>. QED
        BY <1>4, <2>3, <4>1, PermitSteps DEF Held
    <3>2. ~ledger[r].dispatched /\ ledger'[r].dispatched /\ UNCHANGED downstream
      BY <2>1, <2>3, <3>1
    <3>3. downstream[r].sent = <<>>
      BY <2>0, <3>2 DEF DispatchInv
    <3>4. ASSUME NEW q \in Workers \ {w}, exec'[q].pc = "permitted",
                 exec'[q].receipt = r PROVE FALSE
      BY <3>1, <3>2, <3>4 DEF DispatchInv, Held
    <3>. QED
      BY <3>2, <3>3, <3>4
  <2>4. CASE ~DispatchPermitted(w)
    <3>1. exec[w].pc = "permitted" /\ Held(w) = r
      BY <1>4, <2>4, PermitSteps DEF Held
    <3>2. ledger'[r].dispatched
      BY <2>0, <3>1, DispatchIsKept DEF DispatchInv
    <3>3. downstream'[r].sent = downstream[r].sent
      BY <1>1, <2>0, <2>2, <2>4
    <3>4. ASSUME NEW q \in Workers, exec'[q].pc = "permitted", exec'[q].receipt = r PROVE q = w
      <4>1. ~DispatchPermitted(q) \/ exec[q].receipt # r
        BY <2>1, <3>1 DEF DispatchInv, Held
      <4>. QED
        BY <3>1, <3>4, <4>1, PermitSteps DEF DispatchInv, Held
    <3>. QED
      BY <3>1, <3>2, <3>3, <3>4 DEF DispatchInv
  <2>. QED
    BY <2>3, <2>4
<1>. QED
  BY <1>2, <1>3, <1>4 DEF DispatchInv, Held

(* AtMostOnceDispatch: however workers reclaim, stall or die, and whatever
   leases expire, one invocation is sent at most once. *)
THEOREM DispatchedAtMostOnce == StoreSpec => []AtMostOnceDispatch
<1>1. StoreInit => DispatchInv
  BY DEF StoreInit, DispatchInv, AtMostOnceDispatch, NoRequest, NoExecution
<1>2. StoreInv /\ ReceiptsWellFormed /\ DispatchInv /\ [StoreNext]_allVars => DispatchInv'
  BY DispatchInvStep
<1>3. DispatchInv => AtMostOnceDispatch
  BY DEF DispatchInv
<1>. QED
  BY <1>1, <1>2, <1>3, StoreInvariant, StoreImplementsFlowRuntime, ReceiptsStayWellFormed, PTL
     DEF StoreSpec, ImplementsFlowRuntime
==============================================================================
