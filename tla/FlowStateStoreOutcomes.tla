----------------------- MODULE FlowStateStoreOutcomes ------------------------
(* Proofs that what the store records of its actions is true.  A request is
   sent once (FlowStateStoreProofs), so what became of it is final; an answer,
   the finding of a reconciliation proof and a settled receipt each say what
   became of it, and each of them stays true. *)
EXTENDS FlowStateStoreProofs, FiniteSetTheorems

(* The time the provers have for a step that names none itself. *)
USE SMTT(60), ZenonT(60)

(* The integration's side of one invocation. *)
WireHonest(d) ==
    /\ d.wire = "idle" <=> d.sent = <<>>
    /\ d.effects = IF d.wire = "applied" THEN 1 ELSE 0
    /\ d.fenced => d.wire # "applied"

Holding == {"reserved", "denied", "permitted", "waiting", "answered"}

(* What a worker knows of the receipt c it holds and of the request d behind it. *)
Knows(x, c, d) ==
    /\ c.status # "none" /\ c.tool = x.tool
    /\ x.pc = "answered" => /\ x.answer = "succeeded" => d.wire = "applied"
                            /\ x.answer = "rejected" => d.wire = "refused"

(* What a read-back query found. *)
Found(p, d) ==
    /\ p.finding = "committed" => d.wire = "applied"
    /\ p.finding = "absent" => d.fenced

(* What a settled receipt says. *)
SettledTruly(c, d) ==
    c.tool \notin ReadOnly =>
        /\ c.status = "succeeded" => d.wire = "applied"
        /\ c.status = "failed" => ~c.dispatched \/ d.wire = "refused" \/ d.fenced

TruthInv ==
    /\ \A r \in Receipts : WireHonest(downstream[r])
    /\ \A w \in Workers : exec[w].pc \in Holding =>
                            Knows(exec[w], actionReceipts[Held(w)], downstream[Held(w)])
    /\ \A p \in Proofs : proofs[p].finding \in {"committed", "absent"} =>
                           Found(proofs[p], downstream[proofs[p].receipt])
    /\ \A r \in Receipts : SettledTruly(actionReceipts[r], downstream[r])

(* The keys name the tools of their receipts. *)
KeysNameTools ==
    \A r \in Receipts :
        actionReceipts[r].key.tool = IF actionReceipts[r].status = "none" THEN None
                                                                        ELSE actionReceipts[r].tool

------------------------------------------------------------------------------
(* Requests.  What became of a request does not change, and a fence stays. *)
Later(x, y) ==
    /\ x.wire \in {"applied", "refused"} => y.wire = x.wire
    /\ x.fenced => y.fenced

IsRequest(y, sent, wire, effects, fenced) ==
    y.sent = sent /\ y.wire = wire /\ y.effects = effects /\ y.fenced = fenced

(* The steps that touch the integration's side. *)
LEMMA RequestCases ==
    ASSUME [StoreNext]_allVars
    PROVE  \/ UNCHANGED downstream
           \/ \E w \in Workers : Dispatch(w)
           \/ \E r \in Receipts : IntegrationStep(r)
           \/ \E p \in Proofs, finding \in Findings : Query(p, finding)
<1>1. ASSUME NEW w \in Workers, WorkerStep(w), ~Dispatch(w) PROVE UNCHANGED downstream
  BY <1>1, ZenonT(60) DEF WorkerStep, RunAction, ReserveNew, ReserveRefused, ReplayAnswered, ReplayAbandoned,
     ReplayReclaimed, RejectBeforeDispatch, DispatchPermitted, DispatchDenied,
     DispatchAnswered, SettleOutcome
<1>2. ASSUME NEW p \in Proofs, ReconcilerStep(p), ~\E finding \in Findings : Query(p, finding)
      PROVE  UNCHANGED downstream
  BY <1>2, ZenonT(60) DEF ReconcilerStep, PrepareActionReconciliation, FinishOverrun, FinishError,
     FinishMismatch, FinishAbsent, FinishCommitted, ProofLeaseExpires
<1>3. ASSUME \/ UNCHANGED allVars
             \/ \E r \in Receipts : DispatchLeaseExpires(r) \/ PrepareAtLimit(r)
             \/ RecoverStaleFlowActionsAtomic \/ EndCall \/ FlowControl
      PROVE  UNCHANGED downstream
  BY <1>3, ZenonT(60) DEF allVars, storeVars, DispatchLeaseExpires, PrepareAtLimit,
     RecoverStaleFlowActionsAtomic, EndCall, FlowControl
<1>4. StoreNext \/ UNCHANGED allVars
  OBVIOUS
<1>. QED
  BY <1>1, <1>2, <1>3, <1>4 DEF StoreNext

(* The updates of a request by the fields they set. *)
LEMMA RequestUpdate ==
    ASSUME NEW x \in Downstream, NEW s, NEW b, NEW n
    PROVE  /\ IsRequest([x EXCEPT !.sent = s, !.wire = "inflight"], s, "inflight", x.effects, x.fenced)
           /\ IsRequest([x EXCEPT !.wire = "applied", !.effects = n], x.sent, "applied", n, x.fenced)
           /\ IsRequest([x EXCEPT !.wire = "refused"], x.sent, "refused", x.effects, x.fenced)
           /\ IsRequest([x EXCEPT !.wire = "lost"], x.sent, "lost", x.effects, x.fenced)
           /\ IsRequest([x EXCEPT !.fenced = b], x.sent, x.wire, x.effects, b)
  BY ZenonT(60) DEF Downstream, IsRequest

(* Every step keeps the requests honest and their fates final. *)
LEMMA RequestSteps ==
    ASSUME StoreInv, DispatchInv, \A r \in Receipts : WireHonest(downstream[r]),
           [StoreNext]_allVars
    PROVE  \A r \in Receipts : WireHonest(downstream'[r]) /\ Later(downstream[r], downstream'[r])
<1>. DEFINE Goal(x, y) == WireHonest(y) /\ Later(x, y)
<1>0. /\ downstream \in [Receipts -> Downstream]
      /\ \A r \in Receipts : Goal(downstream[r], downstream[r])
  BY DEF StoreInv, StoreTypeOK, Later
<1>1. ASSUME NEW q \in Receipts, NEW y, downstream' = [downstream EXCEPT ![q] = y],
             Goal(downstream[q], y)
      PROVE  \A r \in Receipts : Goal(downstream[r], downstream'[r])
  <2>. HIDE DEF Goal
  <2>. QED
    BY <1>0, <1>1
<1>2. ASSUME NEW w \in Workers, Dispatch(w)
      PROVE  \A r \in Receipts : Goal(downstream[r], downstream'[r])
  <2>. DEFINE q == Held(w)
              x == downstream[q]
              s == Append(x.sent, exec[w].args)
              y == [x EXCEPT !.sent = s, !.wire = "inflight"]
  <2>1. q \in Receipts /\ exec[w].args \in Args /\ x.sent = <<>>
    BY <1>2 DEF Dispatch, StoreInv, Captured, CapturedBy, Held, DispatchInv
  <2>2. x \in Downstream /\ WireHonest(x)
    BY <1>0, <2>1
  <2>3. s # <<>>
    BY <2>1
  <2>4. IsRequest(y, s, "inflight", x.effects, x.fenced)
    <3>. HIDE DEF x, s
    <3>. QED  BY <2>2, RequestUpdate, ZenonT(60)
  <2>5. downstream' = [downstream EXCEPT ![q] = y]
    BY <1>2, ZenonT(60) DEF Dispatch
  <2>. HIDE DEF y
  <2>6. x.wire = "idle" /\ x.effects = 0
    BY <2>1, <2>2 DEF WireHonest
  <2>7. Goal(x, y)
    <3>. HIDE DEF x, s
    <3>. QED  BY <2>3, <2>4, <2>6 DEF IsRequest, WireHonest, Later
  <2>. QED
    BY <1>1, <2>1, <2>5, <2>7, ZenonT(60)
<1>3. ASSUME NEW q \in Receipts, IntegrationStep(q)
      PROVE  \A r \in Receipts : Goal(downstream[r], downstream'[r])
  <2>. DEFINE x == downstream[q]
  <2>1. x \in Downstream /\ WireHonest(x) /\ x.wire = "inflight"
    BY <1>0, <1>3 DEF IntegrationStep, Apply, Refuse, Lose
  <2>2. CASE Apply(q)
    <3>. DEFINE y == [x EXCEPT !.wire = "applied", !.effects = x.effects + 1]
    <3>1. downstream' = [downstream EXCEPT ![q] = y]
      BY <2>2, ZenonT(60) DEF Apply
    <3>2. IsRequest(y, x.sent, "applied", x.effects + 1, x.fenced) /\ ~x.fenced /\ x.effects = 0
      <4>1. ~x.fenced /\ x.effects = 0
        BY <2>1, <2>2 DEF Apply, WireHonest
      <4>. HIDE DEF x
      <4>. QED  BY <2>1, <4>1, RequestUpdate, ZenonT(60)
    <3>. HIDE DEF y
    <3>3. Goal(x, y)
      <4>. HIDE DEF x
      <4>. QED  BY <2>1, <3>2 DEF IsRequest, WireHonest, Later
    <3>. QED
      BY <1>1, <3>1, <3>3, ZenonT(60)
  <2>3. CASE Refuse(q)
    <3>. DEFINE y == [x EXCEPT !.wire = "refused"]
    <3>1. downstream' = [downstream EXCEPT ![q] = y]
      BY <2>3, ZenonT(60) DEF Refuse
    <3>2. IsRequest(y, x.sent, "refused", x.effects, x.fenced)
      <4>. HIDE DEF x
      <4>. QED  BY <2>1, RequestUpdate, ZenonT(60)
    <3>. HIDE DEF y
    <3>3. Goal(x, y)
      <4>. HIDE DEF x
      <4>. QED  BY <2>1, <3>2 DEF IsRequest, WireHonest, Later
    <3>. QED
      BY <1>1, <3>1, <3>3, ZenonT(60)
  <2>4. CASE Lose(q)
    <3>. DEFINE y == [x EXCEPT !.wire = "lost"]
    <3>1. downstream' = [downstream EXCEPT ![q] = y]
      BY <2>4, ZenonT(60) DEF Lose
    <3>2. IsRequest(y, x.sent, "lost", x.effects, x.fenced)
      <4>. HIDE DEF x
      <4>. QED  BY <2>1, RequestUpdate, ZenonT(60)
    <3>. HIDE DEF y
    <3>3. Goal(x, y)
      <4>. HIDE DEF x
      <4>. QED  BY <2>1, <3>2 DEF IsRequest, WireHonest, Later
    <3>. QED
      BY <1>1, <3>1, <3>3, ZenonT(60)
  <2>. HIDE DEF Goal
  <2>. QED
    BY <1>3, <2>2, <2>3, <2>4 DEF IntegrationStep
<1>4. ASSUME NEW p \in Proofs, NEW finding \in Findings, Query(p, finding)
      PROVE  \A r \in Receipts : Goal(downstream[r], downstream'[r])
  <2>. DEFINE q == proofs[p].receipt
              x == downstream[q]
              b == x.fenced \/ finding = "absent"
              y == [x EXCEPT !.fenced = b]
  <2>1. q \in Receipts
    <3>1. proofs[p] \in Proof
      BY DEF StoreInv, StoreTypeOK
    <3>2. q \in Receipts \cup {None}
      BY <3>1, ZenonT(60) DEF Proof
    <3>. QED
      BY <1>4, <3>2 DEF Query
  <2>2. x \in Downstream /\ WireHonest(x)
    BY <1>0, <2>1
  <2>3. IsRequest(y, x.sent, x.wire, x.effects, b)
    <3>. HIDE DEF x, b
    <3>. QED  BY <2>2, RequestUpdate, ZenonT(60)
  <2>4. downstream' = [downstream EXCEPT ![q] = y]
    BY <1>4, ZenonT(60) DEF Query
  <2>5. finding = "absent" => x.effects = 0
    BY <1>4 DEF Query
  <2>6. b = TRUE => x.fenced \/ finding = "absent"
    BY ZenonT(60)
  <2>7. x.fenced => b = TRUE
    BY ZenonT(60)
  <2>. HIDE DEF y, b
  <2>8. Goal(x, y)
    <3>. HIDE DEF x
    <3>1. WireHonest(y)
      <4>1. y.fenced => x.fenced \/ finding = "absent"
        BY <2>3, <2>6, ZenonT(60) DEF IsRequest, b
      <4>. QED
        BY <2>2, <2>3, <2>5, <4>1 DEF IsRequest, WireHonest
    <3>2. Later(x, y)
      BY <2>3, <2>7, ZenonT(60) DEF IsRequest, Later
    <3>. QED
      BY <3>1, <3>2
  <2>. QED
    BY <1>1, <2>1, <2>4, <2>8, ZenonT(60)
<1>5. UNCHANGED downstream => \A r \in Receipts : Goal(downstream[r], downstream'[r])
  BY <1>0, ZenonT(60)
<1>. QED
  <2>. HIDE DEF Goal
  <2>1. \A r \in Receipts : Goal(downstream[r], downstream'[r])
    BY <1>2, <1>3, <1>4, <1>5, RequestCases
  <2>. QED
    BY <2>1 DEF Goal

------------------------------------------------------------------------------
(* Workers. *)

(* How a worker comes to be where it is. *)
LEMMA WorkerMoves ==
    ASSUME StoreInv, [StoreNext]_allVars, NEW w \in Workers, exec'[w].pc \in Holding
    PROVE  \/ exec'[w] = exec[w]
           \/ /\ exec[w].pc \in Holding /\ exec'[w].pc # "answered"
              /\ exec'[w].tool = exec[w].tool /\ exec'[w].receipt = exec[w].receipt
           \/ /\ exec[w].pc = "waiting"
              /\ exec'[w].tool = exec[w].tool /\ exec'[w].receipt = exec[w].receipt
              /\ DispatchAnswered(w, exec'[w].answer)
           \/ /\ exec'[w].pc = "reserved" /\ exec'[w].tool = exec[w].tool
              /\ exec[w].pc = "verified"
              /\ \/ ReserveNew(w) /\ exec'[w].receipt = exec[w].inv
                 \/ /\ exec'[w].receipt \in Replayed(w) /\ ledger[exec'[w].receipt].status = "reserved"
                    /\ UNCHANGED vars
<1>0. exec \in [Workers -> Execution] /\ exec[w] \in Execution
  BY DEF StoreInv, StoreTypeOK
<1>. DEFINE Stays == exec'[w] = exec[w]
<1>1. ASSUME NEW q \in Workers, WorkerStep(q), q # w PROVE Stays
  BY <1>0, <1>1, ZenonT(40) DEF WorkerStep, RunAction, ReserveNew, ReserveRefused, ReplayAnswered,
     ReplayAbandoned, ReplayReclaimed, RejectBeforeDispatch, DispatchPermitted, DispatchDenied,
     Dispatch, DispatchAnswered, SettleOutcome, Goto
<1>2. ASSUME NEW pc, Goto(w, pc)
      PROVE  /\ exec'[w].pc = pc
             /\ exec'[w].tool = exec[w].tool /\ exec'[w].receipt = exec[w].receipt
  <2>. DEFINE x == exec[w]
              y == [x EXCEPT !.pc = pc]
  <2>1. y.pc = pc /\ y.tool = x.tool /\ y.receipt = x.receipt
    <3>1. x \in Execution
      BY <1>0
    <3>. HIDE DEF x
    <3>. QED  BY <3>1, ZenonT(60) DEF Execution
  <2>2. exec' = [exec EXCEPT ![w] = y]
    BY <1>2, ZenonT(60) DEF Goto
  <2>. HIDE DEF y
  <2>. QED
    BY <1>0, <2>1, <2>2
<1>3. ASSUME NEW r \in Receipts, NEW t \in Tools, NEW a \in Args, RunAction(w, r, t, a) PROVE FALSE
  BY <1>0, <1>3 DEF RunAction, NoExecution, Holding
<1>4. ASSUME \/ ReserveRefused(w) \/ ReplayAnswered(w) \/ ReplayAbandoned(w)
             \/ RejectBeforeDispatch(w) \/ \E v \in Values \cup {None} : SettleOutcome(w, v)
      PROVE  FALSE
  <2>1. Goto(w, "done")
    BY <1>4, ZenonT(60) DEF ReserveRefused, ReplayAnswered, ReplayAbandoned, RejectBeforeDispatch, SettleOutcome
  <2>. QED
    BY <1>2, <2>1 DEF Holding
<1>5. ASSUME DispatchPermitted(w) \/ DispatchDenied(w) \/ Dispatch(w)
      PROVE  /\ exec[w].pc \in Holding /\ exec'[w].pc # "answered"
             /\ exec'[w].tool = exec[w].tool /\ exec'[w].receipt = exec[w].receipt
  <2>1. PICK pc \in {"permitted", "denied", "done", "waiting"} : Goto(w, pc)
    BY <1>5 DEF DispatchPermitted, DispatchDenied, Dispatch
  <2>2. exec[w].pc \in Holding
    BY <1>5 DEF DispatchPermitted, DispatchDenied, Dispatch, Holding
  <2>. QED
    BY <1>2, <2>1, <2>2
<1>6. ASSUME NEW answer \in Answers, DispatchAnswered(w, answer)
      PROVE  /\ exec[w].pc = "waiting" /\ exec'[w].answer = answer
             /\ exec'[w].tool = exec[w].tool /\ exec'[w].receipt = exec[w].receipt
  <2>. DEFINE x == exec[w]
              y == [x EXCEPT !.pc = "answered", !.answer = answer]
  <2>1. y.answer = answer /\ y.tool = x.tool /\ y.receipt = x.receipt
    <3>1. x \in Execution
      BY <1>0
    <3>. HIDE DEF x
    <3>. QED  BY <3>1, ZenonT(60) DEF Execution
  <2>2. exec' = [exec EXCEPT ![w] = y] /\ exec[w].pc = "waiting"
    BY <1>6, ZenonT(60) DEF DispatchAnswered
  <2>. HIDE DEF y
  <2>. QED
    BY <1>0, <2>1, <2>2
<1>7. ASSUME NEW r, exec' = [exec EXCEPT ![w].pc = "reserved", ![w].receipt = r]
      PROVE  exec'[w].pc = "reserved" /\ exec'[w].tool = exec[w].tool /\ exec'[w].receipt = r
  <2>. DEFINE x == exec[w]
              y == [x EXCEPT !.pc = "reserved", !.receipt = r]
  <2>1. y.pc = "reserved" /\ y.tool = x.tool /\ y.receipt = r
    <3>1. x \in Execution
      BY <1>0
    <3>. HIDE DEF x
    <3>. QED  BY <3>1, ZenonT(60) DEF Execution
  <2>2. exec' = [exec EXCEPT ![w] = y]
    BY <1>7, ZenonT(60)
  <2>. HIDE DEF y
  <2>. QED
    BY <1>0, <2>1, <2>2
<1>8. ASSUME ReserveNew(w)
      PROVE  /\ exec'[w].pc = "reserved" /\ exec'[w].tool = exec[w].tool
             /\ exec[w].pc = "verified" /\ exec'[w].receipt = exec[w].inv
  <2>1. exec' = [exec EXCEPT ![w].pc = "reserved", ![w].receipt = exec[w].inv] /\ exec[w].pc = "verified"
    BY <1>8, ZenonT(60) DEF ReserveNew
  <2>. QED
    BY <1>7, <2>1, ZenonT(60)
<1>9. ASSUME ReplayReclaimed(w)
      PROVE  /\ exec'[w].pc = "reserved" /\ exec'[w].tool = exec[w].tool
             /\ exec[w].pc = "verified"
             /\ exec'[w].receipt \in Replayed(w) /\ ledger[exec'[w].receipt].status = "reserved"
             /\ UNCHANGED vars
  <2>1. PICK x \in Replayed(w) : /\ ledger[x].status = "reserved"
                                 /\ exec' = [exec EXCEPT ![w].pc = "reserved", ![w].receipt = x]
    BY <1>9, ZenonT(60) DEF ReplayReclaimed
  <2>2. UNCHANGED vars /\ exec[w].pc = "verified"
    BY <1>9, ZenonT(60) DEF ReplayReclaimed
  <2>. QED
    BY <1>7, <2>1, <2>2, ZenonT(60)
<1>10. ASSUME NEW p \in Proofs, ReconcilerStep(p) PROVE Stays
  BY <1>10, ZenonT(60) DEF ReconcilerStep, PrepareActionReconciliation, Query, FinishOverrun, FinishError,
     FinishMismatch, FinishAbsent, FinishCommitted, ProofLeaseExpires
<1>11. ASSUME \/ UNCHANGED allVars
              \/ \E r \in Receipts : IntegrationStep(r) \/ DispatchLeaseExpires(r) \/ PrepareAtLimit(r)
              \/ RecoverStaleFlowActionsAtomic \/ EndCall \/ FlowControl
       PROVE  Stays
  BY <1>11, ZenonT(60) DEF allVars, storeVars, IntegrationStep, Apply, Refuse, Lose, DispatchLeaseExpires,
     PrepareAtLimit, RecoverStaleFlowActionsAtomic, EndCall, FlowControl
<1>12. StoreNext \/ UNCHANGED allVars
  OBVIOUS
<1>13. Stays \/ WorkerStep(w)
  <2>. HIDE DEF Stays
  <2>. QED
    BY <1>1, <1>10, <1>11, <1>12 DEF StoreNext
<1>14. CASE \E answer \in Answers : DispatchAnswered(w, answer)
  BY <1>6, <1>14, ZenonT(60)
<1>. QED
  BY <1>3, <1>4, <1>5, <1>8, <1>9, <1>13, <1>14, ZenonT(60) DEF WorkerStep

(* A receipt that exists keeps its identity. *)
LEMMA ReceiptKept ==
    ASSUME StoreInv, [StoreNext]_allVars, NEW r \in Receipts, actionReceipts[r].status # "none"
    PROVE  /\ actionReceipts'[r].tool = actionReceipts[r].tool
           /\ actionReceipts'[r].status # "none"
           /\ Evolves(actionReceipts[r], actionReceipts'[r])
<1>1. TypeOK /\ [Next]_vars
  BY StoreStepsAreFlowSteps DEF StoreInv
<1>2. Evolves(actionReceipts[r], actionReceipts'[r])
  <2>1. ~\E t \in Tools, a \in Args, e \in 0 .. capabilityEpoch : ReserveFlowAction(r, t, a, e)
    BY ZenonT(40) DEF ReserveFlowAction, Admissible
  <2>. QED
    BY <1>1, <2>1, ReceiptSteps
<1>. QED
  BY <1>2 DEF Evolves, SameIdentity

(* The key of a tool's action names the tool. *)
LEMMA KeyTool ==
    ASSUME NEW r, NEW t, NEW a
    PROVE  ActionIdempotencyKey(r, t, a).tool = t
  BY DEF ActionIdempotencyKey, NoKey

(* A worker's replayed receipt is of the worker's tool. *)
LEMMA ReplayedTool ==
    ASSUME KeysNameTools, NEW w \in Workers, NEW x \in Replayed(w), actionReceipts[x].status # "none"
    PROVE  x \in Receipts => actionReceipts[x].tool = exec[w].tool
  BY KeyTool DEF Replayed, ReplayedReceipts, Existing, KeysNameTools

(* Every step keeps what the workers know true. *)
LEMMA KnowledgeSteps ==
    ASSUME StoreInv, DispatchInv, TruthInv, KeysNameTools, [StoreNext]_allVars,
           NEW w \in Workers, exec'[w].pc \in Holding
    PROVE  Knows(exec'[w], actionReceipts'[exec'[w].receipt], downstream'[exec'[w].receipt])
<1>0. /\ \A q \in Workers : CapturedBy(exec[q]) /\ CapturedBy(exec'[q])
      /\ LedgerAgrees /\ TypeOK
      /\ \A r \in Receipts : Later(downstream[r], downstream'[r])
  BY StoreInvStep, RequestSteps DEF StoreInv, Captured, TruthInv
<1>1. CASE exec'[w] = exec[w]
  <2>. DEFINE r == exec[w].receipt
  <2>1. /\ exec[w].pc \in Holding /\ r \in Receipts
        /\ Knows(exec[w], actionReceipts[r], downstream[r])
    BY <1>0, <1>1 DEF TruthInv, Held, CapturedBy, Holding
  <2>2. /\ actionReceipts'[r].tool = actionReceipts[r].tool /\ actionReceipts'[r].status # "none"
        /\ Later(downstream[r], downstream'[r])
    BY <1>0, <2>1, ReceiptKept DEF Knows
  <2>. HIDE DEF r
  <2>3. Knows(exec[w], actionReceipts'[r], downstream'[r])
    BY <2>1, <2>2 DEF Knows, Later
  <2>. QED
    BY <1>1, <2>3 DEF r
<1>2. CASE /\ exec[w].pc \in Holding /\ exec'[w].pc # "answered"
           /\ exec'[w].tool = exec[w].tool /\ exec'[w].receipt = exec[w].receipt
  <2>1. exec[w].receipt \in Receipts /\ Knows(exec[w], actionReceipts[exec[w].receipt], downstream[exec[w].receipt])
    BY <1>0, <1>2 DEF TruthInv, Held, CapturedBy, Holding
  <2>. QED
    BY <1>2, <2>1, ReceiptKept DEF Knows
<1>3. CASE /\ exec[w].pc = "waiting"
           /\ exec'[w].tool = exec[w].tool /\ exec'[w].receipt = exec[w].receipt
           /\ DispatchAnswered(w, exec'[w].answer)
  <2>1. exec[w].receipt \in Receipts /\ Knows(exec[w], actionReceipts[exec[w].receipt], downstream[exec[w].receipt])
    BY <1>0, <1>3 DEF TruthInv, Held, CapturedBy, Holding
  <2>2. /\ exec'[w].answer = "succeeded" => downstream[exec[w].receipt].wire = "applied"
        /\ exec'[w].answer = "rejected" => downstream[exec[w].receipt].wire = "refused"
        /\ downstream' = downstream
    BY <1>3, ZenonT(60) DEF DispatchAnswered, Held
  <2>. QED
    BY <1>3, <2>1, <2>2, ReceiptKept DEF Knows
<1>4. CASE /\ exec'[w].pc = "reserved" /\ exec'[w].tool = exec[w].tool
           /\ ReserveNew(w) /\ exec'[w].receipt = exec[w].inv
  <2>. DEFINE r == exec[w].inv
  <2>1. /\ r \in Receipts /\ exec[w].tool \in Tools /\ exec[w].args \in Args
        /\ ReserveFlowAction(r, exec[w].tool, exec[w].args, exec[w].epoch)
    BY <1>0, <1>4 DEF ReserveNew, CapturedBy
  <2>2. Reserves(r, exec[w].tool, exec[w].args)
    BY <1>0, <2>1, ReservationFields
  <2>3. actionReceipts'[r].status = "reserved" /\ actionReceipts'[r].tool = exec[w].tool
    BY <2>2 DEF Reserves, IsReserved
  <2>. QED
    BY <1>4, <2>3 DEF Knows
<1>5. CASE /\ exec'[w].pc = "reserved" /\ exec'[w].tool = exec[w].tool
           /\ exec'[w].receipt \in Replayed(w) /\ ledger[exec'[w].receipt].status = "reserved"
           /\ UNCHANGED vars
  <2>1. exec'[w].receipt \in Receipts
    BY <1>0, <1>5 DEF CapturedBy
  <2>2. actionReceipts[exec'[w].receipt].status = "reserved"
    BY <1>0, <1>5, <2>1 DEF LedgerAgrees
  <2>3. actionReceipts[exec'[w].receipt].tool = exec[w].tool
    BY <1>5, <2>1, <2>2, ReplayedTool
  <2>4. actionReceipts' = actionReceipts
    BY <1>5 DEF vars
  <2>. QED
    BY <1>5, <2>2, <2>3, <2>4 DEF Knows
<1>. QED
  BY <1>1, <1>2, <1>3, <1>4, <1>5, WorkerMoves

------------------------------------------------------------------------------
(* Reconcilers. *)

(* A proof: its row and the process behind it, by their fields. *)
IsProof(y, st, r, live, found) == y.status = st /\ y.receipt = r /\ y.live = live /\ y.finding = found

LEMMA ProofUpdates ==
    ASSUME NEW x \in Proof, NEW st, NEW f
    PROVE  /\ IsProof([x EXCEPT !.status = "error"], "error", x.receipt, x.live, x.finding)
           /\ IsProof([x EXCEPT !.status = st, !.finding = "finished"], st, x.receipt, x.live, "finished")
           /\ IsProof([x EXCEPT !.finding = f], x.status, x.receipt, x.live, f)
           /\ IsProof([x EXCEPT !.live = FALSE], x.status, x.receipt, FALSE, x.finding)
  BY ZenonT(60) DEF Proof, IsProof

(* What a step does to one proof: nothing; it starts, is retired, finds
   something, loses its lease or is closed. *)
ProofMove(p) ==
    LET x == proofs[p]
        y == proofs'[p]
    IN  \/ y = x
        \/ \E r \in Receipts : /\ PrepareActionReconciliation(p, r)
                               /\ IsProof(y, "querying", r, TRUE, "none")
        \/ /\ x.status = "querying"
           /\ IsProof(y, "error", x.receipt, x.live, x.finding)
        \/ \E f \in Findings : Query(p, f) /\ IsProof(y, x.status, x.receipt, x.live, f)
        \/ IsProof(y, x.status, x.receipt, FALSE, x.finding)
        \/ \E to \in ProofStatuses :
             /\ IsProof(y, to, x.receipt, x.live, "finished")
             /\ \/ to = x.status
                \/ x.status = "querying" /\ to \in {"error", "mismatch"}
                \/ FinishAbsent(p) /\ to = "absent"
                \/ (\E v \in Values \cup {None} : FinishCommitted(p, v)) /\ to = "committed"

LEMMA ProofMoves ==
    ASSUME StoreInv, [StoreNext]_allVars, NEW p \in Proofs
    PROVE  ProofMove(p)
<1>0. proofs \in [Proofs -> Proof] /\ proofs[p] \in Proof
  BY DEF StoreInv, StoreTypeOK
<1>1. proofs'[p] = proofs[p] => ProofMove(p)
  BY ZenonT(60) DEF ProofMove
<1>2. ASSUME NEW r \in Receipts
      PROVE  \/ Retired(r)[p] = proofs[p]
             \/ /\ proofs[p].status = "querying"
                /\ IsProof(Retired(r)[p], "error", proofs[p].receipt, proofs[p].live, proofs[p].finding)
  <2>1. CASE p \in Querying(r)
    <3>1. Retired(r)[p] = [proofs[p] EXCEPT !.status = "error"]
      BY <2>1, ZenonT(60) DEF Retired
    <3>2. proofs[p].status = "querying"
      BY <2>1 DEF Querying
    <3>. DEFINE y == [proofs[p] EXCEPT !.status = "error"]
    <3>3. IsProof(y, "error", proofs[p].receipt, proofs[p].live, proofs[p].finding)
      BY <1>0, ProofUpdates, ZenonT(60)
    <3>. HIDE DEF y
    <3>. QED  BY <3>1, <3>2, <3>3, ZenonT(60) DEF y
  <2>2. CASE p \notin Querying(r)
    BY <2>2, ZenonT(60) DEF Retired
  <2>. QED
    BY <2>1, <2>2
<1>3. ASSUME NEW q \in Proofs, NEW r \in Receipts, PrepareActionReconciliation(q, r)
      PROVE  ProofMove(p)
  <2>. DEFINE y == [NoProof EXCEPT !.status = "querying", !.receipt = r, !.live = TRUE]
  <2>1. IsProof(y, "querying", r, TRUE, "none")
    BY ZenonT(60) DEF NoProof, IsProof
  <2>2. proofs' = [Retired(r) EXCEPT ![q] = y] /\ p \in DOMAIN Retired(r)
    BY <1>3, ZenonT(60) DEF PrepareActionReconciliation, Retired
  <2>. HIDE DEF y
  <2>3. CASE p = q
    <3>1. proofs'[p] = y
      BY <2>2, <2>3, ZenonT(60)
    <3>. QED
      BY <1>3, <2>1, <2>3, <3>1, ZenonT(60) DEF ProofMove
  <2>4. CASE p # q
    <3>1. proofs'[p] = Retired(r)[p]
      BY <2>2, <2>4, ZenonT(60)
    <3>. QED
      BY <1>2, <3>1, ZenonT(60) DEF ProofMove
  <2>. QED
    BY <2>3, <2>4
<1>4. ASSUME NEW r \in Receipts, PrepareAtLimit(r) PROVE ProofMove(p)
  <2>1. proofs'[p] = Retired(r)[p]
    BY <1>4, ZenonT(60) DEF PrepareAtLimit
  <2>. QED
    BY <1>2, <2>1, ZenonT(60) DEF ProofMove
<1>5. ASSUME NEW q \in Proofs, NEW to, Close(q, to), p # q PROVE proofs'[p] = proofs[p]
  BY <1>0, <1>5, ZenonT(60) DEF Close
<1>6. ASSUME NEW to \in ProofStatuses, Close(p, to)
      PROVE  IsProof(proofs'[p], to, proofs[p].receipt, proofs[p].live, "finished")
  <2>. DEFINE x == proofs[p]
              y == [x EXCEPT !.status = to, !.finding = "finished"]
  <2>1. IsProof(y, to, x.receipt, x.live, "finished")
    <3>1. x \in Proof
      BY <1>0
    <3>. HIDE DEF x
    <3>. QED  BY <3>1, ProofUpdates, ZenonT(60)
  <2>2. proofs' = [proofs EXCEPT ![p] = y]
    BY <1>6, ZenonT(60) DEF Close
  <2>. HIDE DEF y
  <2>3. proofs'[p] = y
    BY <1>0, <2>2, ZenonT(60)
  <2>. QED
    BY <2>1, <2>3, ZenonT(60)
<1>7. ASSUME NEW q \in Proofs, \/ FinishOverrun(q) \/ FinishError(q) \/ FinishMismatch(q)
                               \/ FinishAbsent(q)
                               \/ \E v \in Values \cup {None} : FinishCommitted(q, v)
      PROVE  ProofMove(p)
  <2>1. proofs[q].status \in ProofStatuses
    <3>1. proofs[q] \in Proof
      BY <1>0
    <3>. QED
      BY <3>1, ZenonT(60) DEF Proof
  <2>2. PICK to \in ProofStatuses :
          /\ Close(q, to)
          /\ \/ to = proofs[q].status
             \/ proofs[q].status = "querying" /\ to \in {"error", "mismatch"}
             \/ FinishAbsent(q) /\ to = "absent"
             \/ (\E v \in Values \cup {None} : FinishCommitted(q, v)) /\ to = "committed"
    <3>1. {"error", "mismatch", "absent", "committed"} \subseteq ProofStatuses
      BY DEF ProofStatuses
    <3>2. CASE FinishOverrun(q)
      BY <2>1, <3>2, ZenonT(60) DEF FinishOverrun
    <3>3. CASE FinishError(q)
      BY <3>1, <3>3, ZenonT(60) DEF FinishError
    <3>4. CASE FinishMismatch(q)
      BY <3>1, <3>4, ZenonT(60) DEF FinishMismatch
    <3>5. FinishAbsent(q) => Close(q, "absent")
      BY ZenonT(60) DEF FinishAbsent
    <3>6. (\E v \in Values \cup {None} : FinishCommitted(q, v)) => Close(q, "committed")
      BY ZenonT(60) DEF FinishCommitted
    <3>. QED
      BY <1>7, <3>1, <3>2, <3>3, <3>4, <3>5, <3>6, ZenonT(60)
  <2>3. CASE p # q
    BY <1>1, <1>5, <2>2, <2>3
  <2>4. CASE p = q
    <3>1. IsProof(proofs'[p], to, proofs[p].receipt, proofs[p].live, "finished")
      BY <1>6, <2>2, <2>4
    <3>. QED
      BY <2>2, <2>4, <3>1, ZenonT(60) DEF ProofMove
  <2>. QED
    BY <2>3, <2>4
<1>8. ASSUME NEW q \in Proofs, NEW f \in Findings, Query(q, f) PROVE ProofMove(p)
  <2>. DEFINE x == proofs[q]
              y == [x EXCEPT !.finding = f]
  <2>1. IsProof(y, x.status, x.receipt, x.live, f)
    <3>1. x \in Proof
      BY <1>0
    <3>. HIDE DEF x
    <3>. QED  BY <3>1, ProofUpdates, ZenonT(60)
  <2>2. proofs' = [proofs EXCEPT ![q] = y]
    BY <1>8, ZenonT(60) DEF Query
  <2>. HIDE DEF y
  <2>3. proofs'[q] = y /\ (p # q => proofs'[p] = proofs[p])
    BY <1>0, <2>2, ZenonT(60)
  <2>. QED
    BY <1>1, <1>8, <2>1, <2>3, ZenonT(60) DEF ProofMove
<1>9. ASSUME NEW q \in Proofs, ProofLeaseExpires(q) PROVE ProofMove(p)
  <2>. DEFINE x == proofs[q]
              y == [x EXCEPT !.live = FALSE]
  <2>1. IsProof(y, x.status, x.receipt, FALSE, x.finding)
    <3>1. x \in Proof
      BY <1>0
    <3>. HIDE DEF x
    <3>. QED  BY <3>1, ProofUpdates, ZenonT(60)
  <2>2. proofs' = [proofs EXCEPT ![q] = y]
    BY <1>9, ZenonT(60) DEF ProofLeaseExpires
  <2>. HIDE DEF y
  <2>3. proofs'[q] = y /\ (p # q => proofs'[p] = proofs[p])
    BY <1>0, <2>2, ZenonT(60)
  <2>. QED
    BY <1>1, <1>9, <2>1, <2>3, ZenonT(60) DEF ProofMove
<1>10. ASSUME NEW w \in Workers, WorkerStep(w) PROVE UNCHANGED proofs
  BY <1>10, ZenonT(60) DEF WorkerStep, RunAction, ReserveNew, ReserveRefused, ReplayAnswered, ReplayAbandoned,
     ReplayReclaimed, RejectBeforeDispatch, DispatchPermitted, DispatchDenied, Dispatch,
     DispatchAnswered, SettleOutcome
<1>11. ASSUME \/ UNCHANGED allVars
              \/ \E r \in Receipts : IntegrationStep(r) \/ DispatchLeaseExpires(r)
              \/ RecoverStaleFlowActionsAtomic \/ EndCall \/ FlowControl
       PROVE  UNCHANGED proofs
  BY <1>11, ZenonT(60) DEF allVars, storeVars, IntegrationStep, Apply, Refuse, Lose,
     DispatchLeaseExpires,
     RecoverStaleFlowActionsAtomic, EndCall, FlowControl
<1>12. StoreNext \/ UNCHANGED allVars
  OBVIOUS
<1>. QED
  BY <1>1, <1>3, <1>4, <1>7, <1>8, <1>9, <1>10, <1>11, <1>12 DEF StoreNext, ReconcilerStep

(* Every step keeps what the queries found true. *)
LEMMA FindingSteps ==
    ASSUME StoreInv, DispatchInv, TruthInv, [StoreNext]_allVars, NEW p \in Proofs,
           proofs'[p].finding \in {"committed", "absent"}
    PROVE  Found(proofs'[p], downstream'[proofs'[p].receipt])
<1>0. /\ Captured' /\ \A r \in Receipts : Later(downstream[r], downstream'[r]) /\ WireHonest(downstream[r])
      /\ downstream \in [Receipts -> Downstream]
  BY StoreInvStep, RequestSteps DEF StoreInv, TruthInv, StoreTypeOK
<1>. DEFINE r == proofs[p].receipt
<1>1. ASSUME proofs'[p].finding = proofs[p].finding, proofs'[p].receipt = r
      PROVE  Found(proofs'[p], downstream'[proofs'[p].receipt])
  <2>1. r \in Receipts
    BY <1>0, <1>1 DEF Captured, Findings
  <2>2. Found(proofs[p], downstream[r])
    BY <1>1 DEF TruthInv
  <2>3. Later(downstream[r], downstream'[r])
    BY <1>0, <2>1
  <2>. QED
    BY <1>1, <2>2, <2>3 DEF Found, Later
<1>2. ASSUME NEW f \in Findings, Query(p, f), proofs'[p].finding = f, proofs'[p].receipt = r
      PROVE  Found(proofs'[p], downstream'[proofs'[p].receipt])
  <2>1. r \in Receipts
    BY <1>0, <1>2 DEF Captured
  <2>2. f = "committed" => downstream'[r].wire = "applied"
    BY <1>0, <1>2, <2>1 DEF Query, WireHonest, Later
  <2>3. f = "absent" => downstream'[r].fenced
    <3>. DEFINE x == downstream[r]
                b == x.fenced \/ f = "absent"
                y == [x EXCEPT !.fenced = b]
    <3>1. IsRequest(y, x.sent, x.wire, x.effects, b)
      <4>1. x \in Downstream
        BY <1>0, <2>1
      <4>. HIDE DEF x, b
      <4>. QED  BY <4>1, RequestUpdate, ZenonT(60)
    <3>2. downstream' = [downstream EXCEPT ![r] = y]
      BY <1>2, ZenonT(60) DEF Query
    <3>3. f = "absent" => b
      BY ZenonT(60)
    <3>. HIDE DEF y, b
    <3>4. downstream'[r] = y
      BY <1>0, <2>1, <3>2, ZenonT(60)
    <3>. QED
      BY <3>1, <3>3, <3>4, ZenonT(60) DEF IsRequest
  <2>. QED
    BY <1>2, <2>2, <2>3 DEF Found
<1>3. ASSUME NEW q, NEW l, NEW s, NEW f, IsProof(proofs'[p], s, q, l, f), f \in {"none", "finished"}
      PROVE  FALSE
  BY <1>3 DEF IsProof
<1>4. ASSUME NEW s, NEW l, NEW f, IsProof(proofs'[p], s, r, l, f)
      PROVE  proofs'[p].receipt = r /\ proofs'[p].finding = f
  BY <1>4, ZenonT(60) DEF IsProof
<1>5. ProofMove(p)
  BY ProofMoves
<1>6. CASE proofs'[p] = proofs[p]
  BY <1>1, <1>6
<1>7. CASE \E s, l : IsProof(proofs'[p], s, r, l, proofs[p].finding)
  BY <1>1, <1>4, <1>7, ZenonT(60)
<1>8. CASE \E f \in Findings : \E s, l : Query(p, f) /\ IsProof(proofs'[p], s, r, l, f)
  BY <1>2, <1>4, <1>8, ZenonT(60)
<1>9. CASE \E q, l, s : IsProof(proofs'[p], s, q, l, "none") \/ IsProof(proofs'[p], s, q, l, "finished")
  BY <1>3, <1>9, ZenonT(60)
<1>. QED
  BY <1>5, <1>6, <1>7, <1>8, <1>9, ZenonT(60) DEF ProofMove

------------------------------------------------------------------------------
(* Settlements. *)

(* The transactions that resolve a receipt. *)
Resolution(r) ==
    \/ /\ ledger[r].status = "reserved" /\ ~ledger[r].dispatched
       /\ ledger'[r].status = "failed" /\ ~ledger'[r].dispatched
    \/ \E w \in Workers : /\ exec[w].pc = "answered" /\ Held(w) = r
                          /\ ledger[r].status = "reserved"
                          /\ ledger'[r].status = OutcomeOf(exec[w].tool, exec[w].answer)
    \/ \E p \in Proofs : /\ FinishAbsent(p)
                         /\ proofs[p].receipt = r /\ proofs[p].finding = "absent"
                         /\ ledger'[r].status = "failed"
    \/ \E p \in Proofs, v \in Values \cup {None} :
                         /\ FinishCommitted(p, v)
                         /\ proofs[p].receipt = r /\ proofs[p].finding = "committed"
                         /\ ledger'[r].status = "succeeded"

LEMMA Resolutions ==
    ASSUME StoreInv, [StoreNext]_allVars, NEW r \in Receipts,
           ledger'[r].status \in {"succeeded", "failed"}, ledger'[r].status # ledger[r].status
    PROVE  Resolution(r)
<1>0. /\ ledger \in [Receipts -> Row] /\ TypeOK
      /\ \A w \in Workers : CapturedBy(exec[w])
      /\ \A p \in Proofs : proofs[p].finding \in Findings => proofs[p].receipt \in Receipts
  BY DEF StoreInv, StoreTypeOK, Captured
<1>1. ASSUME UNCHANGED ledger PROVE FALSE
  BY <1>1
<1>2. ASSUME NEW q \in Receipts, NEW s \in Statuses, NEW d \in Deliveries,
             ledger' = [ledger EXCEPT ![q].status = s, ![q].delivery = d]
      PROVE  q = r /\ ledger'[r].status = s /\ ledger'[r].dispatched = ledger[r].dispatched
  <2>1. /\ \A x \in Receipts \ {q} : ledger'[x] = ledger[x]
        /\ IsRow(ledger'[q], s, ledger[q].owner, ledger[q].live, ledger[q].dispatched, d,
                 ledger[q].proof, ledger[q].key)
    BY <1>0, <1>2, StatusUpdate, ZenonT(60)
  <2>2. q = r
    BY <2>1
  <2>. QED
    BY <2>1, <2>2, ZenonT(60) DEF IsRow
<1>3. ASSUME NEW w \in Workers, RejectBeforeDispatch(w) PROVE Resolution(r)
  <2>1. Held(w) \in Receipts /\ Settle(w, "failed", "not_sent", None)
    BY <1>0, <1>3 DEF RejectBeforeDispatch, CapturedBy, Held
  <2>2. /\ ~ledger[Held(w)].dispatched /\ ledger[Held(w)].status = "reserved"
        /\ ledger' = [ledger EXCEPT ![Held(w)].status = "failed", ![Held(w)].delivery = "not_sent"]
    <3>1. ~UNCHANGED <<vars, ledger>>
      BY <1>1
    <3>. QED
      BY <2>1, <3>1 DEF Settle
  <2>3. Held(w) = r /\ ledger'[r].status = "failed" /\ ledger'[r].dispatched = ledger[r].dispatched
    BY <1>2, <2>1, <2>2, ZenonT(60) DEF Statuses, Deliveries
  <2>. QED
    BY <2>2, <2>3, ZenonT(60) DEF Resolution
<1>4. ASSUME NEW w \in Workers, NEW v \in Values \cup {None}, SettleOutcome(w, v) PROVE Resolution(r)
  <2>. DEFINE o == OutcomeOf(exec[w].tool, exec[w].answer)
  <2>1. /\ Held(w) \in Receipts /\ exec[w].pc = "answered" /\ exec[w].answer \in Answers
        /\ Settle(w, o, DeliveryOf(o), v)
    BY <1>0, <1>4 DEF SettleOutcome, CapturedBy, Held
  <2>2. o \in {"succeeded", "failed", "indeterminate"} /\ DeliveryOf(o) \in Deliveries
    BY <2>1, Outcomes
  <2>. HIDE DEF o
  <2>3. /\ ledger[Held(w)].status = "reserved"
        /\ ledger' = [ledger EXCEPT ![Held(w)].status = o, ![Held(w)].delivery = DeliveryOf(o)]
    <3>1. ~UNCHANGED <<vars, ledger>>
      BY <1>1
    <3>. QED
      BY <2>1, <3>1, ZenonT(60) DEF Settle
  <2>4. o \in Statuses
    BY <2>2 DEF Statuses
  <2>5. Held(w) = r /\ ledger'[r].status = o
    BY <1>2, <2>1, <2>2, <2>3, <2>4, ZenonT(60)
  <2>. QED
    BY <2>1, <2>3, <2>5, ZenonT(60) DEF Resolution, o
<1>5. ASSUME NEW w \in Workers, ReplayAbandoned(w) PROVE FALSE
  <2>1. PICK x \in Receipts :
          ledger' = [ledger EXCEPT ![x].status = "indeterminate", ![x].delivery = "unknown"]
    BY <1>0, <1>5, ZenonT(60) DEF CapturedBy, ReplayAbandoned, Replayed, ReplayedReceipts, Existing
  <2>2. ledger'[r].status = "indeterminate"
    BY <1>2, <2>1, ZenonT(60) DEF Statuses, Deliveries
  <2>. QED
    BY <2>2
<1>6. ASSUME NEW w \in Workers, ReserveNew(w) PROVE FALSE
  <2>. DEFINE q == exec[w].inv
              k == RequestedKey(w)
  <2>1. q \in Receipts /\ exec[w].tool \in Tools /\ exec[w].args \in Args
    BY <1>0, <1>6 DEF ReserveNew, CapturedBy
  <2>2. k \in Key
    BY <1>0, <2>1, KeyType DEF RequestedKey
  <2>3. ledger' = [ledger EXCEPT ![q] = [NoRow EXCEPT !.status = "reserved", !.owner = w,
                                                      !.live = TRUE, !.key = k]]
    BY <1>6, ZenonT(60) DEF ReserveNew
  <2>. HIDE DEF q, k
  <2>4. /\ \A x \in Receipts \ {q} : ledger'[x] = ledger[x]
        /\ IsRow(ledger'[q], "reserved", w, TRUE, FALSE, "not_sent", FALSE, k)
    BY <1>0, <2>1, <2>2, <2>3, RowInsert, ZenonT(60)
  <2>. QED
    BY <2>4 DEF IsRow
<1>7. ASSUME NEW w \in Workers, DispatchPermitted(w) PROVE FALSE
  <2>. DEFINE q == Held(w)
  <2>1. q \in Receipts
    BY <1>0, <1>7 DEF DispatchPermitted, CapturedBy, Held
  <2>2. ledger' = [ledger EXCEPT ![q].dispatched = TRUE, ![q].delivery = "unknown"]
    BY <1>7, ZenonT(60) DEF DispatchPermitted
  <2>. HIDE DEF q
  <2>3. /\ \A x \in Receipts \ {q} : ledger'[x] = ledger[x]
        /\ IsRow(ledger'[q], ledger[q].status, ledger[q].owner, ledger[q].live, TRUE,
                 "unknown", ledger[q].proof, ledger[q].key)
    BY <1>0, <2>1, <2>2, PermitUpdate, ZenonT(60)
  <2>. QED
    BY <2>3 DEF IsRow
<1>8. ASSUME NEW w \in Workers, ReplayReclaimed(w) PROVE FALSE
  <2>1. PICK q \in Receipts : ledger' = [ledger EXCEPT ![q].owner = w, ![q].live = TRUE]
    BY <1>0, <1>8, ZenonT(60) DEF CapturedBy, ReplayReclaimed, Replayed, ReplayedReceipts, Existing
  <2>2. /\ \A x \in Receipts \ {q} : ledger'[x] = ledger[x]
        /\ IsRow(ledger'[q], ledger[q].status, w, TRUE, ledger[q].dispatched,
                 ledger[q].delivery, ledger[q].proof, ledger[q].key)
    BY <1>0, <2>1, OwnerUpdate, ZenonT(60)
  <2>. QED
    BY <2>2 DEF IsRow
<1>9. ASSUME NEW q \in Receipts, DispatchLeaseExpires(q) PROVE FALSE
  <2>1. ledger' = [ledger EXCEPT ![q].live = FALSE]
    BY <1>9, ZenonT(60) DEF DispatchLeaseExpires
  <2>2. /\ \A x \in Receipts \ {q} : ledger'[x] = ledger[x]
        /\ IsRow(ledger'[q], ledger[q].status, ledger[q].owner, FALSE, ledger[q].dispatched,
                 ledger[q].delivery, ledger[q].proof, ledger[q].key)
    BY <1>0, <2>1, LeaseUpdate, ZenonT(40)
  <2>. QED
    BY <2>2 DEF IsRow
<1>10. ASSUME RecoverStaleFlowActionsAtomic PROVE FALSE
  <2>1. /\ StaleRows \in SUBSET Receipts
        /\ ledger' = [q \in Receipts |->
                        IF q \in StaleRows
                        THEN [ledger[q] EXCEPT !.status = "indeterminate", !.delivery = "unknown"]
                        ELSE ledger[q]]
    BY <1>10, ZenonT(40) DEF RecoverStaleFlowActionsAtomic, StaleRows
  <2>2. /\ \A x \in Receipts \ StaleRows : ledger'[x] = ledger[x]
        /\ \A x \in StaleRows : IsRow(ledger'[x], "indeterminate", ledger[x].owner, ledger[x].live,
                                      ledger[x].dispatched, "unknown", ledger[x].proof,
                                      ledger[x].key)
    BY <1>0, <2>1, RowsRecovered, ZenonT(60)
  <2>. QED
    BY <2>2 DEF IsRow
<1>11. ASSUME NEW q \in Receipts, NEW s \in {"succeeded", "failed"}, NEW d \in Deliveries,
              ledger' = [ledger EXCEPT ![q].status = s, ![q].delivery = d, ![q].proof = TRUE]
       PROVE  q = r /\ ledger'[r].status = s
  <2>1. s \in Statuses
    BY DEF Statuses
  <2>2. /\ \A x \in Receipts \ {q} : ledger'[x] = ledger[x]
        /\ IsRow(ledger'[q], s, ledger[q].owner, ledger[q].live, ledger[q].dispatched, d, TRUE,
                 ledger[q].key)
    BY <1>0, <1>11, <2>1, ProofUpdate, ZenonT(60)
  <2>. QED
    BY <2>2 DEF IsRow
<1>12. ASSUME NEW p \in Proofs, FinishAbsent(p) PROVE Resolution(r)
  <2>1. /\ proofs[p].receipt \in Receipts /\ proofs[p].finding = "absent"
    BY <1>0, <1>12 DEF FinishAbsent, Findings
  <2>2. ledger' = [ledger EXCEPT ![proofs[p].receipt].status = "failed",
                                 ![proofs[p].receipt].delivery = "rejected",
                                 ![proofs[p].receipt].proof = TRUE]
    BY <1>12, ZenonT(60) DEF FinishAbsent
  <2>3. proofs[p].receipt = r /\ ledger'[r].status = "failed"
    BY <1>11, <2>1, <2>2, ZenonT(60) DEF Deliveries
  <2>. QED
    BY <1>12, <2>1, <2>3, ZenonT(60) DEF Resolution
<1>13. ASSUME NEW p \in Proofs, NEW v \in Values \cup {None}, FinishCommitted(p, v)
       PROVE  Resolution(r)
  <2>1. /\ proofs[p].receipt \in Receipts /\ proofs[p].finding = "committed"
    BY <1>0, <1>13 DEF FinishCommitted, Findings
  <2>2. ledger' = [ledger EXCEPT ![proofs[p].receipt].status = "succeeded",
                                 ![proofs[p].receipt].delivery = "committed",
                                 ![proofs[p].receipt].proof = TRUE]
    BY <1>13, ZenonT(60) DEF FinishCommitted
  <2>3. proofs[p].receipt = r /\ ledger'[r].status = "succeeded"
    BY <1>11, <2>1, <2>2, ZenonT(60) DEF Deliveries
  <2>. QED
    BY <1>13, <2>1, <2>3, ZenonT(60) DEF Resolution
<1>14. ASSUME NEW w \in Workers,
              \/ \E q \in Receipts, t \in Tools, a \in Args : RunAction(w, q, t, a)
              \/ ReserveRefused(w) \/ ReplayAnswered(w) \/ DispatchDenied(w) \/ Dispatch(w)
              \/ \E answer \in Answers : DispatchAnswered(w, answer)
       PROVE  UNCHANGED ledger
  BY <1>14, ZenonT(60) DEF RunAction, ReserveRefused, ReplayAnswered, DispatchDenied, Dispatch, DispatchAnswered
<1>15. ASSUME NEW p \in Proofs,
              \/ \E q \in Receipts : PrepareActionReconciliation(p, q)
              \/ \E finding \in Findings : Query(p, finding)
              \/ FinishOverrun(p) \/ FinishError(p) \/ FinishMismatch(p) \/ ProofLeaseExpires(p)
       PROVE  UNCHANGED ledger
  BY <1>15, ZenonT(60) DEF PrepareActionReconciliation, Query, FinishOverrun, FinishError, FinishMismatch,
     ProofLeaseExpires
<1>16. ASSUME \/ UNCHANGED allVars
              \/ \E q \in Receipts : IntegrationStep(q) \/ PrepareAtLimit(q)
              \/ EndCall \/ FlowControl
       PROVE  UNCHANGED ledger
  BY <1>16, ZenonT(60) DEF allVars, storeVars, IntegrationStep, Apply, Refuse, Lose, PrepareAtLimit,
     EndCall, FlowControl
<1>17. StoreNext \/ UNCHANGED allVars
  OBVIOUS
<1>18. ASSUME NEW w \in Workers, WorkerStep(w) PROVE Resolution(r)
  BY <1>1, <1>3, <1>4, <1>5, <1>6, <1>7, <1>8, <1>14, <1>18 DEF WorkerStep
<1>19. ASSUME NEW p \in Proofs, ReconcilerStep(p) PROVE Resolution(r)
  BY <1>1, <1>12, <1>13, <1>15, <1>19 DEF ReconcilerStep
<1>. QED
  BY <1>1, <1>9, <1>10, <1>16, <1>17, <1>18, <1>19 DEF StoreNext

(* Every step keeps the settled receipts true. *)
LEMMA SettlementSteps ==
    ASSUME StoreInv, DispatchInv, TruthInv, ReceiptsWellFormed, [StoreNext]_allVars,
           NEW r \in Receipts
    PROVE  SettledTruly(actionReceipts'[r], downstream'[r])
<1>. DEFINE c == actionReceipts[r]
            e == actionReceipts'[r]
            d == downstream'[r]
<1>0. /\ LedgerAgrees /\ LedgerAgrees' /\ TypeOK /\ [Next]_vars
      /\ Later(downstream[r], d)
      /\ \A w \in Workers : CapturedBy(exec[w])
      /\ ledger \in [Receipts -> Row] /\ ledger' \in [Receipts -> Row]
  BY StoreInvStep, RequestSteps, StoreStepsAreFlowSteps DEF StoreInv, TruthInv, StoreTypeOK, Captured
<1>1. /\ ledger[r].status = c.status /\ ledger'[r].status = e.status
      /\ ledger[r].dispatched = c.dispatched /\ ledger'[r].dispatched = e.dispatched
  BY <1>0 DEF LedgerAgrees
<1>. SUFFICES ASSUME e.tool \notin ReadOnly, e.status \in {"succeeded", "failed"}
              PROVE  /\ e.status = "succeeded" => d.wire = "applied"
                     /\ e.status = "failed" => ~e.dispatched \/ d.wire = "refused" \/ d.fenced
  BY DEF SettledTruly
<1>2. c.status # "none" /\ Evolves(c, e) /\ e.tool = c.tool
  <2>1. CASE Evolves(c, e)
    BY <2>1 DEF Evolves, SameIdentity
  <2>2. ASSUME NEW t, NEW a, Reserves(r, t, a) PROVE FALSE
    BY <2>2 DEF Reserves, IsReserved
  <2>. QED
    BY <1>0, <2>1, <2>2, ReceiptSteps
<1>3. CASE e.status = c.status
  <2>1. SettledTruly(c, downstream[r])
    BY DEF TruthInv
  <2>2. e.status = "failed" /\ ~c.dispatched => ~e.dispatched
    BY <1>2, <1>3 DEF Evolves
  <2>. QED
    BY <1>0, <1>2, <1>3, <2>1, <2>2 DEF SettledTruly, Later
<1>4. CASE e.status # c.status
  <2>1. Resolution(r)
    BY <1>1, <1>4, Resolutions
  <2>2. CASE ~ledger[r].dispatched /\ ledger'[r].status = "failed" /\ ~ledger'[r].dispatched
    BY <1>1, <2>2
  <2>3. ASSUME NEW w \in Workers, exec[w].pc = "answered", Held(w) = r,
               ledger'[r].status = OutcomeOf(exec[w].tool, exec[w].answer)
        PROVE  /\ e.status = "succeeded" => d.wire = "applied"
               /\ e.status = "failed" => d.wire = "refused"
    <3>1. Knows(exec[w], c, downstream[r]) /\ exec[w].answer \in Answers
      BY <1>0, <2>3 DEF TruthInv, Holding, CapturedBy
    <3>2. exec[w].tool \notin ReadOnly
      BY <1>2, <3>1 DEF Knows
    <3>3. /\ e.status = "succeeded" => exec[w].answer = "succeeded"
          /\ e.status = "failed" => exec[w].answer = "rejected"
      BY <1>1, <2>3, <3>1, <3>2 DEF OutcomeOf, Answers
    <3>. QED
      BY <1>0, <2>3, <3>1, <3>3 DEF Knows, Later
  <2>4. ASSUME NEW p \in Proofs, proofs[p].receipt = r, proofs[p].finding = "absent"
        PROVE  d.fenced
    BY <1>0, <2>4 DEF TruthInv, Found, Later
  <2>5. ASSUME NEW p \in Proofs, proofs[p].receipt = r, proofs[p].finding = "committed"
        PROVE  d.wire = "applied"
    BY <1>0, <2>5 DEF TruthInv, Found, Later
  <2>. QED
    BY <1>1, <2>1, <2>2, <2>3, <2>4, <2>5 DEF Resolution
<1>. QED
  BY <1>3, <1>4

------------------------------------------------------------------------------
(* The keys of the receipts name their tools throughout. *)
LEMMA KeysStayNamed == Spec => []KeysNameTools
<1>1. Init => KeysNameTools
  <2>1. NoReceipt.key.tool = None /\ NoReceipt.status = "none"
    BY ZenonT(60) DEF NoReceipt, NoKey
  <2>2. Init => \A r \in Receipts : actionReceipts[r] = NoReceipt
    BY ZenonT(60) DEF Init
  <2>. QED
    BY <2>1, <2>2, ZenonT(60) DEF KeysNameTools
<1>2. ASSUME TypeOK, KeysNameTools, [Next]_vars PROVE KeysNameTools'
  <2>. SUFFICES ASSUME NEW r \in Receipts
                PROVE  actionReceipts'[r].key.tool = IF actionReceipts'[r].status = "none" THEN None
                                                     ELSE actionReceipts'[r].tool
    BY DEF KeysNameTools
  <2>1. CASE Evolves(actionReceipts[r], actionReceipts'[r])
    BY <1>2, <2>1 DEF Evolves, SameIdentity, KeysNameTools
  <2>2. ASSUME NEW t, NEW a, Reserves(r, t, a)
        PROVE  actionReceipts'[r].key.tool = actionReceipts'[r].tool /\ actionReceipts'[r].status = "reserved"
    BY <2>2, KeyTool DEF Reserves, IsReserved
  <2>. QED
    BY <1>2, <2>1, <2>2, ReceiptSteps
<1>. QED
  BY <1>1, <1>2, TypeCorrect, PTL DEF Spec

(* What the store knows of what became of its requests stays true. *)
LEMMA TruthInvariant == StoreSpec => [](StoreInv /\ DispatchInv /\ TruthInv)
<1>1. StoreInit => DispatchInv /\ TruthInv
  <2>. SUFFICES ASSUME StoreInit PROVE DispatchInv /\ TruthInv
    BY ZenonT(60)
  <2>1. /\ \A r \in Receipts : downstream[r] = NoRequest /\ actionReceipts[r] = NoReceipt
        /\ \A w \in Workers : exec[w] = NoExecution
        /\ \A p \in Proofs : proofs[p] = NoProof
    BY ZenonT(60) DEF StoreInit, Init
  <2>2. /\ NoRequest.sent = <<>> /\ NoRequest.wire = "idle" /\ NoRequest.effects = 0
        /\ ~NoRequest.fenced /\ NoExecution.pc = "idle" /\ NoProof.finding = "none"
        /\ NoReceipt.status = "none"
    BY ZenonT(60) DEF NoRequest, NoExecution, NoProof, NoReceipt
  <2>3. Len(<<>>) <= 1
    OBVIOUS
  <2>4. AtMostOnceDispatch
    BY <2>1, <2>2, <2>3, ZenonT(60) DEF AtMostOnceDispatch
  <2>5. DispatchInv
    BY <2>1, <2>2, <2>4, ZenonT(60) DEF DispatchInv
  <2>6. TruthInv
    BY <2>1, <2>2, ZenonT(60) DEF TruthInv, WireHonest, Holding, SettledTruly
  <2>. QED
    BY <2>5, <2>6, ZenonT(60)
<1>2. /\ StoreInv /\ ReceiptsWellFormed /\ KeysNameTools /\ DispatchInv /\ TruthInv
      /\ [StoreNext]_allVars
      => DispatchInv' /\ TruthInv'
  <2>. SUFFICES ASSUME StoreInv, ReceiptsWellFormed, KeysNameTools, DispatchInv, TruthInv,
                       [StoreNext]_allVars
                PROVE  DispatchInv' /\ TruthInv'
    OBVIOUS
  <2>1. DispatchInv'
    BY DispatchInvStep
  <2>2. \A r \in Receipts : WireHonest(downstream'[r])
    BY RequestSteps DEF TruthInv
  <2>3. \A w \in Workers : exec'[w].pc \in Holding =>
          Knows(exec'[w], actionReceipts'[exec'[w].receipt], downstream'[exec'[w].receipt])
    BY KnowledgeSteps
  <2>4. \A p \in Proofs : proofs'[p].finding \in {"committed", "absent"} =>
          Found(proofs'[p], downstream'[proofs'[p].receipt])
    BY FindingSteps
  <2>5. \A r \in Receipts : SettledTruly(actionReceipts'[r], downstream'[r])
    BY SettlementSteps
  <2>. QED
    BY <2>1, <2>2, <2>3, <2>4, <2>5 DEF TruthInv, Held
<1>. QED
  BY <1>1, <1>2, StoreInvariant, StoreImplementsFlowRuntime, ReceiptsStayWellFormed, KeysStayNamed, PTL
     DEF StoreSpec, ImplementsFlowRuntime

(* OutcomeIsTrue: a receipt of an action with effects that says succeeded was
   applied once, one that says failed was not applied and never will be. *)
THEOREM RecordedOutcomesAreTrue == StoreSpec => []OutcomeIsTrue
<1>1. ASSUME StoreInv, DispatchInv, TruthInv PROVE OutcomeIsTrue
  <2>. SUFFICES ASSUME NEW r \in Receipts, actionReceipts[r].tool \notin ReadOnly
                PROVE  /\ actionReceipts[r].status = "succeeded" => downstream[r].effects = 1
                       /\ actionReceipts[r].status = "failed" => downstream[r].effects = 0
    BY DEF OutcomeIsTrue
  <2>1. WireHonest(downstream[r]) /\ SettledTruly(actionReceipts[r], downstream[r])
    BY <1>1 DEF TruthInv
  <2>2. ~actionReceipts[r].dispatched => downstream[r].sent = <<>>
    BY <1>1 DEF DispatchInv, StoreInv, LedgerAgrees
  <2>. QED
    BY <2>1, <2>2 DEF WireHonest, SettledTruly
<1>. QED
  BY <1>1, TruthInvariant, PTL

(* KeyTakesEffectOnce: whatever is retried after a failure, a call-scoped key
   of an action with effects takes effect once in a call. *)
THEOREM CallScopedKeyTakesEffectOnce == StoreSpec => []KeyTakesEffectOnce
<1>1. ASSUME StoreInv, DispatchInv, TruthInv, KeysNameTools, CallScopedKeyAdmittedOnce, OutcomeIsTrue
      PROVE  KeyTakesEffectOnce
  <2>. SUFFICES ASSUME NEW r \in Receipts, NEW x \in Receipts, r # x,
                       actionReceipts[r].key = actionReceipts[x].key,
                       actionReceipts[r].tool \notin ReadOnly,
                       actionReceipts[r].key.tool # None, actionReceipts[r].key.step = None
                PROVE  downstream[r].effects + downstream[x].effects <= 1
    BY DEF KeyTakesEffectOnce
  <2>1. /\ actionReceipts[r].status # "none" /\ actionReceipts[x].status # "none"
        /\ actionReceipts[r].tool = actionReceipts[x].tool
    BY <1>1 DEF KeysNameTools
  <2>2. actionReceipts[r].status = "failed" \/ actionReceipts[x].status = "failed"
    <3>1. actionReceipts[r].status \in Statuses /\ actionReceipts[x].status \in Statuses
      BY <1>1 DEF StoreInv, TypeOK, Receipt
    <3>. QED
      BY <1>1, <2>1, <3>1 DEF CallScopedKeyAdmittedOnce, Admitted, Statuses
  <2>3. downstream[r].effects \in {0, 1} /\ downstream[x].effects \in {0, 1}
    BY <1>1 DEF TruthInv, WireHonest
  <2>4. downstream[r].effects = 0 \/ downstream[x].effects = 0
    BY <1>1, <2>1, <2>2 DEF OutcomeIsTrue
  <2>. QED
    BY <2>3, <2>4
<1>. QED
  BY <1>1, TruthInvariant, RecordedOutcomesAreTrue, StoreImplementsFlowRuntime, KeysStayNamed,
     CallScopedKeyOnce, PTL DEF ImplementsFlowRuntime

------------------------------------------------------------------------------
(* Reconciliation proofs.  Stated over proofs, so that it is inductive: an
   attempt queries alone, and a decided attempt is the one its row rests on. *)
Decided(x) == x.status \in {"committed", "absent"}
AttemptsInv ==
    /\ \A p, q \in Proofs :
         /\ proofs[p].status = "querying" /\ proofs[q].status = "querying"
         /\ proofs[p].receipt = proofs[q].receipt
         => p = q
    /\ \A p \in Proofs : Decided(proofs[p]) =>
         /\ proofs[p].receipt \in Receipts
         /\ ledger[proofs[p].receipt].proof
         /\ ledger[proofs[p].receipt].status =
              IF proofs[p].status = "committed" THEN "succeeded" ELSE "failed"
    /\ \A p, q \in Proofs :
         /\ Decided(proofs[p]) /\ Decided(proofs[q])
         /\ proofs[p].receipt = proofs[q].receipt
         => p = q
    /\ \A r \in Receipts : ledger[r].proof =>
         \E p \in Proofs : proofs[p].receipt = r /\ Decided(proofs[p])

(* An attempt that decides a receipt closes, and no other one moves. *)
LEMMA Decisions ==
    ASSUME StoreInv, NEW p \in Proofs,
           FinishAbsent(p) \/ \E v \in Values \cup {None} : FinishCommitted(p, v)
    PROVE  LET r == proofs[p].receipt
           IN  /\ r \in Receipts /\ proofs[p].status = "querying" /\ ~ledger[r].proof
               /\ proofs'[p].receipt = r /\ ledger'[r].proof
               /\ Decided(proofs'[p])
               /\ ledger'[r].status =
                    IF proofs'[p].status = "committed" THEN "succeeded" ELSE "failed"
               /\ \A q \in Proofs \ {p} : proofs'[q] = proofs[q]
               /\ \A x \in Receipts \ {r} : ledger'[x] = ledger[x]
<1>. DEFINE r == proofs[p].receipt
<1>0. /\ proofs \in [Proofs -> Proof] /\ proofs[p] \in Proof /\ ledger \in [Receipts -> Row]
      /\ \A q \in Proofs : proofs[q].finding \in Findings => proofs[q].receipt \in Receipts
  BY DEF StoreInv, StoreTypeOK, Captured
<1>1. /\ proofs[p].finding \in Findings /\ proofs[p].status = "querying" /\ ~ledger[r].proof
  BY ZenonT(60) DEF FinishAbsent, FinishCommitted, Findings, Authoritative
<1>2. r \in Receipts
  BY <1>0, <1>1
<1>3. ASSUME NEW to \in ProofStatuses, Close(p, to)
      PROVE  /\ proofs'[p].status = to /\ proofs'[p].receipt = r
             /\ \A q \in Proofs \ {p} : proofs'[q] = proofs[q]
  <2>. DEFINE x == proofs[p]
              y == [x EXCEPT !.status = to, !.finding = "finished"]
  <2>1. IsProof(y, to, x.receipt, x.live, "finished")
    <3>1. x \in Proof
      BY <1>0
    <3>. HIDE DEF x
    <3>. QED  BY <3>1, ProofUpdates, ZenonT(60)
  <2>2. proofs' = [proofs EXCEPT ![p] = y]
    BY <1>3, ZenonT(60) DEF Close
  <2>. HIDE DEF y
  <2>3. proofs'[p] = y /\ \A q \in Proofs \ {p} : proofs'[q] = proofs[q]
    BY <1>0, <2>2, ZenonT(60)
  <2>. QED
    BY <2>1, <2>3, ZenonT(60) DEF IsProof
<1>4. ASSUME NEW s \in {"succeeded", "failed"}, NEW d \in Deliveries,
             ledger' = [ledger EXCEPT ![r].status = s, ![r].delivery = d, ![r].proof = TRUE]
      PROVE  /\ ledger'[r].status = s /\ ledger'[r].proof = TRUE
             /\ \A x \in Receipts \ {r} : ledger'[x] = ledger[x]
  <2>1. s \in Statuses
    BY DEF Statuses
  <2>. HIDE DEF r
  <2>2. /\ \A x \in Receipts \ {r} : ledger'[x] = ledger[x]
        /\ IsRow(ledger'[r], s, ledger[r].owner, ledger[r].live, ledger[r].dispatched, d, TRUE,
                 ledger[r].key)
    BY <1>0, <1>2, <1>4, <2>1, ProofUpdate, ZenonT(60)
  <2>. QED
    BY <2>2, ZenonT(60) DEF IsRow
<1>5. CASE FinishAbsent(p)
  <2>1. /\ proofs'[p].status = "absent" /\ proofs'[p].receipt = r
        /\ \A q \in Proofs \ {p} : proofs'[q] = proofs[q]
    <3>1. Close(p, "absent") /\ "absent" \in ProofStatuses
      BY <1>5, ZenonT(60) DEF FinishAbsent, ProofStatuses
    <3>. QED
      BY <1>3, <3>1, ZenonT(60)
  <2>2. /\ ledger'[r].status = "failed" /\ ledger'[r].proof = TRUE
        /\ \A x \in Receipts \ {r} : ledger'[x] = ledger[x]
    <3>1. ledger' = [ledger EXCEPT ![r].status = "failed", ![r].delivery = "rejected", ![r].proof = TRUE]
      BY <1>5, ZenonT(60) DEF FinishAbsent
    <3>. QED
      BY <1>4, <3>1, ZenonT(60) DEF Deliveries
  <2>. QED
    BY <1>1, <1>2, <2>1, <2>2 DEF Decided
<1>6. ASSUME NEW v \in Values \cup {None}, FinishCommitted(p, v)
      PROVE  /\ proofs'[p].status = "committed" /\ proofs'[p].receipt = r
             /\ \A q \in Proofs \ {p} : proofs'[q] = proofs[q]
             /\ ledger'[r].status = "succeeded" /\ ledger'[r].proof = TRUE
             /\ \A x \in Receipts \ {r} : ledger'[x] = ledger[x]
  <2>1. Close(p, "committed") /\ "committed" \in ProofStatuses
    BY <1>6, ZenonT(60) DEF FinishCommitted, ProofStatuses
  <2>2. ledger' = [ledger EXCEPT ![r].status = "succeeded", ![r].delivery = "committed", ![r].proof = TRUE]
    BY <1>6, ZenonT(60) DEF FinishCommitted
  <2>. QED
    BY <1>3, <1>4, <2>1, <2>2, ZenonT(60) DEF Deliveries
<1>7. CASE \E v \in Values \cup {None} : FinishCommitted(p, v)
  BY <1>1, <1>2, <1>6, <1>7, ZenonT(60) DEF Decided
<1>. QED
  BY <1>5, <1>7

(* Who decides. *)
Decides(p) == FinishAbsent(p) \/ \E v \in Values \cup {None} : FinishCommitted(p, v)

LEMMA DecidedRow ==
    ASSUME StoreInv, NEW p \in Proofs, Decides(p)
    PROVE  /\ proofs'[p].receipt \in Receipts
           /\ proofs'[p].receipt = proofs[p].receipt
           /\ ~ledger[proofs[p].receipt].proof
           /\ ledger'[proofs'[p].receipt].proof
           /\ ledger'[proofs'[p].receipt].status =
                IF proofs'[p].status = "committed" THEN "succeeded" ELSE "failed"
           /\ Decided(proofs'[p])
           /\ \A q \in Proofs \ {p} : proofs'[q] = proofs[q]
<1>. DEFINE r == proofs[p].receipt
<1>1. FinishAbsent(p) \/ \E v \in Values \cup {None} : FinishCommitted(p, v)
  BY DEF Decides
<1>2. /\ r \in Receipts /\ ~ledger[r].proof
      /\ proofs'[p].receipt = r /\ ledger'[r].proof
      /\ Decided(proofs'[p])
      /\ ledger'[r].status = IF proofs'[p].status = "committed" THEN "succeeded" ELSE "failed"
      /\ \A q \in Proofs \ {p} : proofs'[q] = proofs[q]
  BY <1>1, Decisions, ZenonT(60)
<1>. QED
  BY <1>2, ZenonT(40)

(* A row's proof flag is set by a decision and never cleared; a row with a
   proof keeps its status. *)
LEMMA ProofFlagSteps ==
    ASSUME StoreInv, ReceiptsWellFormed, [StoreNext]_allVars, NEW r \in Receipts
    PROVE  /\ ledger[r].proof => ledger'[r].proof /\ ledger'[r].status = ledger[r].status
           /\ ~ledger[r].proof /\ ledger'[r].proof =>
                \E p \in Proofs : Decides(p) /\ proofs[p].receipt = r
<1>. DEFINE c == actionReceipts[r]
            e == actionReceipts'[r]
<1>0. LedgerAgrees /\ LedgerAgrees' /\ TypeOK /\ [Next]_vars
  BY StoreInvStep, StoreStepsAreFlowSteps DEF StoreInv
<1>1. /\ ledger[r].status = c.status /\ ledger'[r].status = e.status
      /\ ledger[r].proof = c.proof /\ ledger'[r].proof = e.proof
      /\ WellFormed(c)
  BY <1>0 DEF LedgerAgrees, ReceiptsWellFormed
<1>2. CASE c.status = "none"
  <2>1. ~c.proof
    BY <1>1, <1>2 DEF WellFormed
  <2>2. CASE Evolves(c, e)
    BY <1>1, <1>2, <2>1, <2>2 DEF Evolves
  <2>3. ASSUME NEW t, NEW a, Reserves(r, t, a) PROVE ~e.proof
    BY <2>3 DEF Reserves, IsReserved
  <2>. QED
    BY <1>0, <1>1, <2>1, <2>2, <2>3, ReceiptSteps
<1>3. CASE c.status # "none"
  <2>1. Evolves(c, e)
    BY <1>3, ReceiptKept
  <2>2. CASE e.status = c.status /\ e.proof = c.proof
    BY <1>1, <2>2
  <2>3. CASE c.status = "reserved" /\ e.proof = c.proof
    BY <1>1, <2>3 DEF WellFormed
  <2>4. CASE c.status = "indeterminate" /\ e.status \in {"succeeded", "failed"}
    <3>1. Resolution(r)
      BY <1>1, <2>4, Resolutions
    <3>2. ~c.proof
      BY <1>1, <2>4 DEF WellFormed
    <3>3. \E p \in Proofs : Decides(p) /\ proofs[p].receipt = r
      BY <1>1, <2>4, <3>1 DEF Resolution, Decides
    <3>. QED
      BY <1>1, <3>2, <3>3
  <2>. QED
    BY <2>1, <2>2, <2>3, <2>4 DEF Evolves
<1>. QED
  BY <1>2, <1>3

(* Attempts keep their receipts; a decided one keeps its decision; an attempt
   that is querying was, or is being prepared. *)
LEMMA AttemptSteps ==
    ASSUME StoreInv, [StoreNext]_allVars, NEW p \in Proofs
    PROVE  /\ Decided(proofs[p]) => proofs'[p].status = proofs[p].status /\ proofs'[p].receipt = proofs[p].receipt
           /\ Decided(proofs'[p]) /\ ~Decided(proofs[p]) => Decides(p)
           /\ proofs'[p].status = "querying" =>
                \/ proofs[p].status = "querying" /\ proofs'[p].receipt = proofs[p].receipt
                \/ \E r \in Receipts : PrepareActionReconciliation(p, r) /\ proofs'[p].receipt = r
<1>1. ProofMove(p)
  BY ProofMoves
<1>2. Decides(p) => proofs[p].status = "querying"
  BY DEF Decides, FinishAbsent, FinishCommitted
<1>3. ASSUME NEW r \in Receipts, PrepareActionReconciliation(p, r) PROVE proofs[p].status = "none"
  BY <1>3 DEF PrepareActionReconciliation
<1>. QED
  BY <1>1, <1>2, <1>3 DEF ProofMove, IsProof, Decided, Decides

(* Every step keeps AttemptsInv. *)
LEMMA AttemptsStep ==
    ASSUME StoreInv, ReceiptsWellFormed, AttemptsInv, [StoreNext]_allVars
    PROVE  AttemptsInv'
<1>1. ASSUME NEW p \in Proofs, NEW q \in Proofs, p # q,
             proofs'[p].status = "querying", proofs'[q].status = "querying",
             proofs'[p].receipt = proofs'[q].receipt
      PROVE  FALSE
  <2>1. ASSUME NEW x \in Proofs, NEW y \in Proofs, x # y, NEW r \in Receipts,
               PrepareActionReconciliation(x, r), proofs'[y].status = "querying", proofs'[y].receipt = r
        PROVE  FALSE
    <3>1. proofs' = [Retired(r) EXCEPT ![x] = [NoProof EXCEPT !.status = "querying", !.receipt = r,
                                                              !.live = TRUE]]
      BY <2>1, ZenonT(60) DEF PrepareActionReconciliation
    <3>2. proofs'[y] = Retired(r)[y]
      BY <2>1, <3>1, ZenonT(60) DEF Retired
    <3>3. CASE y \in Querying(r)
      <4>1. Retired(r)[y] = [proofs[y] EXCEPT !.status = "error"] /\ proofs[y] \in Proof
        BY <3>3, ZenonT(60) DEF Retired, StoreInv, StoreTypeOK
      <4>2. [proofs[y] EXCEPT !.status = "error"].status = "error"
        BY <4>1, ZenonT(60) DEF Proof
      <4>. QED
        BY <2>1, <3>2, <4>1, <4>2
    <3>4. CASE y \notin Querying(r)
      BY <2>1, <3>2, <3>4 DEF Retired, Querying, ProofsOf
    <3>. QED
      BY <3>3, <3>4
  <2>. QED
    <3>1. \A x \in {p, q} :
            \/ proofs[x].status = "querying" /\ proofs'[x].receipt = proofs[x].receipt
            \/ \E r \in Receipts : PrepareActionReconciliation(x, r) /\ proofs'[x].receipt = r
      BY <1>1, AttemptSteps, ZenonT(60)
    <3>2. \A x \in {p, q} : proofs[x].status = "querying" /\ proofs'[x].receipt = proofs[x].receipt
      BY <1>1, <2>1, <3>1, ZenonT(40)
    <3>. QED
      BY <1>1, <3>2 DEF AttemptsInv
<1>2. ASSUME NEW p \in Proofs, Decided(proofs'[p])
      PROVE  /\ proofs'[p].receipt \in Receipts
             /\ ledger'[proofs'[p].receipt].proof
             /\ ledger'[proofs'[p].receipt].status =
                  IF proofs'[p].status = "committed" THEN "succeeded" ELSE "failed"
  <2>1. CASE Decided(proofs[p])
    <3>1. /\ proofs[p].receipt \in Receipts
          /\ ledger[proofs[p].receipt].proof
          /\ ledger[proofs[p].receipt].status =
               IF proofs[p].status = "committed" THEN "succeeded" ELSE "failed"
      BY <2>1, ZenonT(60) DEF AttemptsInv
    <3>2. proofs'[p].status = proofs[p].status /\ proofs'[p].receipt = proofs[p].receipt
      BY <2>1, AttemptSteps, ZenonT(60)
    <3>3. /\ ledger'[proofs[p].receipt].proof
          /\ ledger'[proofs[p].receipt].status = ledger[proofs[p].receipt].status
      BY <3>1, ProofFlagSteps, ZenonT(60)
    <3>. QED
      BY <3>1, <3>2, <3>3, ZenonT(60)
  <2>2. CASE ~Decided(proofs[p])
    <3>1. Decides(p)
      BY <1>2, <2>2, AttemptSteps
    <3>. QED
      BY <3>1, DecidedRow, ZenonT(40)
  <2>. QED
    BY <2>1, <2>2
<1>3. ASSUME NEW p \in Proofs, NEW q \in Proofs, p # q, Decided(proofs'[p]), Decided(proofs'[q]),
             proofs'[p].receipt = proofs'[q].receipt
      PROVE  FALSE
  <2>1. ASSUME NEW x \in Proofs, NEW y \in Proofs, x # y, Decides(x), Decided(proofs'[y]),
               proofs'[x].receipt = proofs'[y].receipt
        PROVE  FALSE
    <3>1. /\ ~ledger[proofs[x].receipt].proof /\ proofs'[x].receipt = proofs[x].receipt
          /\ \A z \in Proofs \ {x} : proofs'[z] = proofs[z]
      BY <2>1, DecidedRow, ZenonT(60)
    <3>2. y \in Proofs \ {x}
      BY <2>1, ZenonT(60)
    <3>. QED
      BY <2>1, <3>1, <3>2, ZenonT(60) DEF AttemptsInv
  <2>2. Decided(proofs[p]) /\ Decided(proofs[q])
    BY <1>3, <2>1, AttemptSteps
  <2>. QED
    BY <1>3, <2>2, AttemptSteps DEF AttemptsInv
<1>4. ASSUME NEW r \in Receipts, ledger'[r].proof
      PROVE  \E p \in Proofs : proofs'[p].receipt = r /\ Decided(proofs'[p])
  <2>1. CASE ledger[r].proof
    <3>1. PICK p \in Proofs : proofs[p].receipt = r /\ Decided(proofs[p])
      BY <2>1 DEF AttemptsInv
    <3>2. proofs'[p].status = proofs[p].status /\ proofs'[p].receipt = r
      BY <3>1, AttemptSteps
    <3>. QED
      BY <3>1, <3>2 DEF Decided
  <2>2. CASE ~ledger[r].proof
    <3>1. PICK p \in Proofs : Decides(p) /\ proofs[p].receipt = r
      BY <1>4, <2>2, ProofFlagSteps
    <3>. QED
      BY <3>1, DecidedRow
  <2>. QED
    BY <2>1, <2>2
<1>5. \A p, q \in Proofs :
        /\ proofs'[p].status = "querying" /\ proofs'[q].status = "querying"
        /\ proofs'[p].receipt = proofs'[q].receipt
        => p = q
  BY <1>1, ZenonT(60)
<1>6. \A p, q \in Proofs :
        /\ Decided(proofs'[p]) /\ Decided(proofs'[q])
        /\ proofs'[p].receipt = proofs'[q].receipt
        => p = q
  BY <1>3, ZenonT(60)
<1>7. \A r \in Receipts : ledger'[r].proof =>
        \E p \in Proofs : proofs'[p].receipt = r /\ Decided(proofs'[p])
  BY <1>4, ZenonT(60)
<1>. QED
  BY <1>2, <1>5, <1>6, <1>7, ZenonT(60) DEF AttemptsInv, Decided

(* OneAuthoritativeProof: attempts to reconcile a receipt never overlap, and a
   receipt resolved by proof rests on exactly one decided attempt. *)
THEOREM ProofsAreAuthoritative == StoreSpec => []OneAuthoritativeProof
<1>1. StoreInit => AttemptsInv
  <2>1. StoreInit => /\ \A r \in Receipts : ledger[r] = NoRow
                     /\ \A p \in Proofs : proofs[p] = NoProof
    BY ZenonT(60) DEF StoreInit
  <2>2. NoProof.status = "none" /\ ~NoRow.proof
    BY ZenonT(60) DEF NoProof, NoRow
  <2>. QED
    BY <2>1, <2>2, ZenonT(60) DEF AttemptsInv, Decided
<1>2. StoreInv /\ ReceiptsWellFormed /\ AttemptsInv /\ [StoreNext]_allVars => AttemptsInv'
  BY AttemptsStep
<1>3. ASSUME AttemptsInv PROVE OneAuthoritativeProof
  <2>. SUFFICES ASSUME NEW r \in Receipts
                PROVE  /\ Cardinality(Querying(r)) <= 1
                       /\ LET decided == {p \in ProofsOf(r) : proofs[p].status \in {"committed", "absent"}}
                          IN  /\ Cardinality(decided) = IF ledger[r].proof THEN 1 ELSE 0
                              /\ \A p \in decided :
                                   ledger[r].status = IF proofs[p].status = "committed" THEN "succeeded" ELSE "failed"
    BY DEF OneAuthoritativeProof
  <2>. DEFINE decided == {p \in ProofsOf(r) : proofs[p].status \in {"committed", "absent"}}
  <2>1. Cardinality(Querying(r)) <= 1
    <3>1. CASE Querying(r) = {}
      BY <3>1, FS_EmptySet
    <3>2. ASSUME NEW p \in Querying(r) PROVE Cardinality(Querying(r)) = 1
      <4>1. ASSUME NEW q \in Querying(r) PROVE q = p
        <5>1. \A x \in Querying(r) : /\ x \in Proofs /\ proofs[x].receipt = r
                                     /\ proofs[x].status = "querying"
          BY ZenonT(60) DEF Querying, ProofsOf
        <5>. QED
          BY <1>3, <3>2, <4>1, <5>1, ZenonT(60) DEF AttemptsInv
      <4>2. Querying(r) = {p}
        BY <3>2, <4>1, ZenonT(60)
      <4>. QED
        BY <4>2, FS_Singleton, ZenonT(60)
    <3>. QED
      BY <3>1, <3>2
  <2>2. ASSUME NEW p \in decided
        PROVE  /\ ledger[r].proof /\ decided = {p}
               /\ ledger[r].status = IF proofs[p].status = "committed" THEN "succeeded" ELSE "failed"
    <3>1. p \in Proofs /\ proofs[p].receipt = r /\ Decided(proofs[p])
      BY <2>2, ZenonT(60) DEF Decided, ProofsOf
    <3>2. ASSUME NEW q \in decided PROVE q = p
      BY <1>3, <3>1, <3>2, ZenonT(60) DEF AttemptsInv, Decided, ProofsOf
    <3>3. decided = {p}
      BY <2>2, <3>2, ZenonT(60)
    <3>. QED
      BY <1>3, <3>1, <3>3, ZenonT(60) DEF AttemptsInv
  <2>3. ledger[r].proof => decided # {}
    BY <1>3 DEF AttemptsInv, Decided, ProofsOf
  <2>. HIDE DEF decided
  <2>4. Cardinality(decided) = IF ledger[r].proof THEN 1 ELSE 0
    <3>1. CASE decided = {}
      BY <2>3, <3>1, FS_EmptySet
    <3>2. ASSUME NEW p \in decided PROVE Cardinality(decided) = 1 /\ ledger[r].proof
      BY <2>2, <3>2, FS_Singleton, ZenonT(60)
    <3>. QED
      BY <3>1, <3>2
  <2>. QED
    BY <2>1, <2>2, <2>4 DEF decided
<1>. QED
  BY <1>1, <1>2, <1>3, StoreInvariant, StoreImplementsFlowRuntime, ReceiptsStayWellFormed, PTL
     DEF StoreSpec, ImplementsFlowRuntime
==============================================================================
