--------------------------- MODULE FlowStateStore ----------------------------
(***************************************************************************)
(* The durable side of Flow v2: web/lib/flow-state-store.ts, the run_action *)
(* and reconcile_action handlers of web/lib/mcp.ts, and the tables they     *)
(* write (migrations 008, 012, 026).                                        *)
(*                                                                          *)
(* A receipt lives twice, embedded in the flow state (actionReceipts) and   *)
(* as a row of flow_action_receipts (ledger).  Each transaction holds the   *)
(* row lock of the call's flow state and is one action here; between two    *)
(* transactions a worker may be overtaken by any other, or die: nothing     *)
(* makes a worker take its next step.                                       *)
(***************************************************************************)
EXTENDS FlowRuntime, Sequences

CONSTANTS
    Workers,         \* executions of run_action, each with an ownerToken of its own
    Proofs,          \* identities of reconciliation proofs
    ReadOnly,        \* tools pinned with the effect "read"
    Remote,          \* tools of an external MCP server
    Reconcilable,    \* tools with a pinned read-back contract
    MaxProofAttempts \* maxProofAttempts of that contract

(* What the pinned tool contracts guarantee of these sets. *)
ASSUME StoreAssumption ==
    /\ ReadOnly \subseteq Tools
    /\ Remote \subseteq Tools
    /\ Reconcilable \subseteq Tools \ ReadOnly
    /\ MaxProofAttempts \in Nat
    /\ None \notin Workers

VARIABLES
    callActive,  \* calls.status = 'active'
    ledger,      \* flow_action_receipts, per receipt identity
    exec,        \* where each worker is, and what it captured
    downstream,  \* the integration's side of each invocation (external)
    proofs       \* flow_action_reconciliation_proofs, and the process behind each

storeVars == <<callActive, ledger, exec, downstream, proofs>>
allVars == <<vars, storeVars>>

------------------------------------------------------------------------------
(* "live" is dispatch_lease_expires_at > now(). *)
Row == [status : Statuses, owner : Workers \cup {None}, live : BOOLEAN, dispatched : BOOLEAN,
        delivery : {"not_sent", "unknown", "rejected", "committed"}, proof : BOOLEAN, key : Key]
NoRow == [status |-> "none", owner |-> None, live |-> FALSE, dispatched |-> FALSE,
          delivery |-> "not_sent", proof |-> FALSE, key |-> NoKey]

PCs == {"idle", "verified", "reserved", "denied", "permitted", "waiting", "answered", "done"}
Answers == {"succeeded", "rejected", "error"}
Execution == [pc : PCs, inv : Receipts \cup {None}, tool : Tools \cup {None}, args : Args \cup {None},
              epoch : Nat, receipt : Receipts \cup {None}, answer : Answers \cup {None}]
NoExecution == [pc |-> "idle", inv |-> None, tool |-> None, args |-> None, epoch |-> 0,
                receipt |-> None, answer |-> None]

Downstream == [sent : Seq(Args), wire : {"idle", "inflight", "applied", "refused", "lost"},
               effects : Nat, fenced : BOOLEAN]
NoRequest == [sent |-> <<>>, wire |-> "idle", effects |-> 0, fenced |-> FALSE]

ProofStatuses == {"none", "querying", "committed", "absent", "mismatch", "error"}
Findings == {"committed", "absent", "mismatch", "invalid"}
Proof == [status : ProofStatuses, receipt : Receipts \cup {None}, live : BOOLEAN,
          finding : Findings \cup {"none", "finished"}]
NoProof == [status |-> "none", receipt |-> None, live |-> FALSE, finding |-> "none"]

StoreInit ==
    /\ Init
    /\ callActive = TRUE
    /\ ledger = [r \in Receipts |-> NoRow]
    /\ exec = [w \in Workers |-> NoExecution]
    /\ downstream = [r \in Receipts |-> NoRequest]
    /\ proofs = [p \in Proofs |-> NoProof]

(* The receipt worker w holds, and the move of w to a program counter. *)
Held(w) == exec[w].receipt
Goto(w, pc) == exec' = [exec EXCEPT ![w].pc = pc]

------------------------------------------------------------------------------
(* run_action. *)

(* The handler reads the state without the lock and verifies the grant
   against it; the epoch it saw travels with the request. *)
RunAction(w, r, t, a) ==
    /\ exec[w].pc = "idle"
    /\ t \in GrantedTools
    /\ exec' = [exec EXCEPT ![w] = [NoExecution EXCEPT !.pc = "verified", !.inv = r, !.tool = t,
                                                       !.args = a, !.epoch = capabilityEpoch]]
    /\ UNCHANGED <<vars, callActive, ledger, downstream, proofs>>

(* uq_flow_action_receipts_admitted_key. *)
KeyTaken(key) == \E x \in Receipts : /\ ledger[x].status \notin {"none", "failed"}
                                     /\ ledger[x].key = key

CanReserve(w) == Admissible(exec[w].inv, exec[w].tool, exec[w].args, exec[w].epoch)
Replayed(w) == ReplayedReceipts(exec[w].inv, exec[w].tool, exec[w].args, exec[w].epoch)
RequestedKey(w) == ActionIdempotencyKey(exec[w].inv, exec[w].tool, exec[w].args)

(* reserveFlowActionAtomic, a new reservation: state and row commit together. *)
ReserveNew(w) ==
    LET r == exec[w].inv
    IN  /\ exec[w].pc = "verified"
        /\ callActive
        /\ ReserveFlowAction(r, exec[w].tool, exec[w].args, exec[w].epoch)
        /\ ~KeyTaken(RequestedKey(w))
        /\ ledger' = [ledger EXCEPT ![r] = [NoRow EXCEPT !.status = "reserved", !.owner = w,
                                                         !.live = TRUE, !.key = RequestedKey(w)]]
        /\ exec' = [exec EXCEPT ![w].pc = "reserved", ![w].receipt = r]
        /\ UNCHANGED <<callActive, downstream, proofs>>

(* The call is over, the runtime refuses, or the insert meets the unique index
   and the transaction rolls back. *)
ReserveRefused(w) ==
    /\ exec[w].pc = "verified"
    /\ \/ ~callActive
       \/ ~CanReserve(w) /\ Replayed(w) = {}
       \/ CanReserve(w) /\ KeyTaken(RequestedKey(w))
    /\ Goto(w, "done")
    /\ UNCHANGED <<vars, callActive, ledger, downstream, proofs>>

(* A replay is answered from the receipt: its outcome, or "pending" while its
   owner's lease lives. *)
ReplayAnswered(w) ==
    /\ exec[w].pc = "verified"
    /\ callActive
    /\ \E x \in Replayed(w) : ledger[x].status # "reserved" \/ ledger[x].live
    /\ Goto(w, "done")
    /\ UNCHANGED <<vars, callActive, ledger, downstream, proofs>>

(* A replay of a reservation whose owner died after the dispatch boundary. *)
ReplayAbandoned(w) ==
    /\ exec[w].pc = "verified"
    /\ callActive
    /\ \E x \in Replayed(w) :
         /\ ledger[x].status = "reserved" /\ ~ledger[x].live /\ ledger[x].dispatched
         /\ SettleFlowAction(x, "indeterminate", None)
         /\ ledger' = [ledger EXCEPT ![x].status = "indeterminate", ![x].delivery = "unknown"]
    /\ Goto(w, "done")
    /\ UNCHANGED <<callActive, downstream, proofs>>

(* A replay of a reservation whose owner died before it: w becomes the owner
   and goes on with the receipt it found, and with its own arguments. *)
ReplayReclaimed(w) ==
    /\ exec[w].pc = "verified"
    /\ callActive
    /\ \E x \in Replayed(w) :
         /\ ledger[x].status = "reserved" /\ ~ledger[x].live /\ ~ledger[x].dispatched
         /\ ledger' = [ledger EXCEPT ![x].owner = w, ![x].live = TRUE]
         /\ exec' = [exec EXCEPT ![w].pc = "reserved", ![w].receipt = x]
    /\ UNCHANGED <<vars, callActive, downstream, proofs>>

(* Mutant: the ledger is settled and the embedded receipt is not. *)
MutantSettle(w, outcome, delivery, v) ==
    IF ledger[Held(w)].owner = w /\ ledger[Held(w)].status = "reserved"
    THEN /\ ledger' = [ledger EXCEPT ![Held(w)].status = outcome, ![Held(w)].delivery = delivery]
         /\ UNCHANGED vars
    ELSE UNCHANGED <<vars, ledger>>

(* Mutant: the last settlement wins. *)
MutantLateSettle(w, outcome, delivery, v) ==
    /\ actionReceipts' = [actionReceipts EXCEPT ![Held(w)].status = outcome, ![Held(w)].result = v]
    /\ ledger' = [ledger EXCEPT ![Held(w)].status = outcome, ![Held(w)].delivery = delivery]
    /\ UNCHANGED flowVars

(* settleFlowActionAtomic: the owner of a reserved receipt settles it; for
   anyone else, and for a receipt already settled, nothing is written. *)
Settle(w, outcome, delivery, v) ==
    LET r == Held(w)
    IN  IF /\ ledger[r].owner = w
           /\ ledger[r].status = "reserved"
           /\ IF outcome = "failed" THEN ledger[r].dispatched <=> delivery = "rejected"
                                    ELSE ledger[r].dispatched
        THEN /\ SettleFlowAction(r, outcome, v)
             /\ ledger' = [ledger EXCEPT ![r].status = outcome, ![r].delivery = delivery]
        ELSE UNCHANGED <<vars, ledger>>

(* The preflight rejects, or the dispatch permit was denied. *)
RejectBeforeDispatch(w) ==
    /\ exec[w].pc \in {"reserved", "denied"}
    /\ Settle(w, "failed", "not_sent", None)
    /\ Goto(w, "done")
    /\ UNCHANGED <<callActive, downstream, proofs>>

(* markFlowActionDispatchStartedAtomic, the permit. *)
DispatchPermitted(w) ==
    LET r == Held(w)
    IN  /\ exec[w].pc = "reserved"
        /\ callActive
        /\ ledger[r].owner = w
        /\ ledger[r].status = "reserved" /\ ~ledger[r].dispatched
        /\ ledger[r].live
        /\ MarkFlowActionDispatchStarted(r)
        /\ ledger' = [ledger EXCEPT ![r].dispatched = TRUE, ![r].delivery = "unknown"]
        /\ Goto(w, "permitted")
        /\ UNCHANGED <<callActive, downstream, proofs>>

(* The permit is denied; unless the boundary was already crossed, run_action
   then settles the receipt as not sent. *)
DispatchDenied(w) ==
    LET r == Held(w)
        owned == callActive /\ ledger[r].owner = w
        crossed == ledger[r].status # "reserved" \/ ledger[r].dispatched
    IN  /\ exec[w].pc = "reserved"
        /\ ~owned \/ crossed \/ ~ledger[r].live
        /\ Goto(w, IF owned /\ crossed THEN "done" ELSE "denied")
        /\ UNCHANGED <<vars, callActive, ledger, downstream, proofs>>

(* dispatch: the request leaves with the worker's arguments. *)
Dispatch(w) ==
    /\ exec[w].pc = "permitted"
    /\ downstream' = [downstream EXCEPT ![Held(w)].sent = Append(@, exec[w].args),
                                        ![Held(w)].wire = "inflight"]
    /\ Goto(w, "waiting")
    /\ UNCHANGED <<vars, callActive, ledger, proofs>>

(* Mutant: an error is retried at once instead of being settled. *)
MutantDispatchAnswered(w, answer) ==
    /\ exec[w].pc = "waiting"
    /\ answer = "succeeded" => downstream[Held(w)].wire = "applied"
    /\ answer = "rejected" => downstream[Held(w)].wire = "refused"
    /\ exec' = [exec EXCEPT ![w].pc = IF answer = "error" THEN "permitted" ELSE "answered",
                            ![w].answer = answer]
    /\ UNCHANGED <<vars, callActive, ledger, downstream, proofs>>

(* What the worker sees: an acknowledged success or rejection, or an error,
   which says nothing (an exception, a timeout, an unrecognised outcome). *)
DispatchAnswered(w, answer) ==
    /\ exec[w].pc = "waiting"
    /\ answer = "succeeded" => downstream[Held(w)].wire = "applied"
    /\ answer = "rejected" => downstream[Held(w)].wire = "refused"
    /\ exec' = [exec EXCEPT ![w].pc = "answered", ![w].answer = answer]
    /\ UNCHANGED <<vars, callActive, ledger, downstream, proofs>>

(* Mutant: an error without an acknowledgement counts as a rejection. *)
MutantOutcomeOf(t, answer) == IF answer = "succeeded" THEN "succeeded" ELSE "failed"

(* The outcome run_action settles: an error of a read-only action had no
   effect, of any other action it is ambiguous; the success of a remote
   action that is not read-only is no terminal evidence. *)
OutcomeOf(t, answer) ==
    CASE answer = "rejected" -> "failed"
      [] answer = "error" -> IF t \in ReadOnly THEN "failed" ELSE "indeterminate"
      [] OTHER -> IF t \in Remote \ ReadOnly THEN "indeterminate" ELSE "succeeded"
DeliveryOf(outcome) ==
    CASE outcome = "succeeded" -> "committed"
      [] outcome = "failed" -> "rejected"
      [] OTHER -> "unknown"

SettleOutcome(w, v) ==
    LET outcome == OutcomeOf(exec[w].tool, exec[w].answer)
    IN  /\ exec[w].pc = "answered"
        /\ v # None => outcome = "succeeded"
        /\ Settle(w, outcome, DeliveryOf(outcome), v)
        /\ Goto(w, "done")
        /\ UNCHANGED <<callActive, downstream, proofs>>

------------------------------------------------------------------------------
(* The integration behind a tool (external).  A request arrives once, is
   refused or is lost; an invocation it has declared absent stays refused. *)
Apply(r) ==
    /\ downstream[r].wire = "inflight"
    /\ ~downstream[r].fenced
    /\ downstream' = [downstream EXCEPT ![r].wire = "applied", ![r].effects = @ + 1]
    /\ UNCHANGED <<vars, callActive, ledger, exec, proofs>>
Refuse(r) ==
    /\ downstream[r].wire = "inflight"
    /\ downstream' = [downstream EXCEPT ![r].wire = "refused"]
    /\ UNCHANGED <<vars, callActive, ledger, exec, proofs>>
Lose(r) ==
    /\ downstream[r].wire = "inflight"
    /\ downstream' = [downstream EXCEPT ![r].wire = "lost"]
    /\ UNCHANGED <<vars, callActive, ledger, exec, proofs>>

(* Sixty seconds pass. *)
DispatchLeaseExpires(r) ==
    /\ ledger[r].status = "reserved"
    /\ ledger[r].live
    /\ ledger' = [ledger EXCEPT ![r].live = FALSE]
    /\ UNCHANGED <<vars, callActive, exec, downstream, proofs>>

StaleRows == {r \in Receipts : ledger[r].status = "reserved" /\ ledger[r].dispatched /\ ~ledger[r].live}

RecoverStaleFlowActionsAtomic ==
    /\ StaleRows # {}
    /\ \A r \in StaleRows : Stale(r)
    /\ MarkStaleDispatchedActionsIndeterminate(StaleRows)
    /\ ledger' = [r \in Receipts |->
                    IF r \in StaleRows
                    THEN [ledger[r] EXCEPT !.status = "indeterminate", !.delivery = "unknown"]
                    ELSE ledger[r]]
    /\ UNCHANGED <<callActive, exec, downstream, proofs>>

(* The call leaves 'active': the end route, a provider webhook or the bridge. *)
EndCall ==
    /\ callActive
    /\ callActive' = FALSE
    /\ UNCHANGED <<vars, ledger, exec, downstream, proofs>>

(* classify, enter_step and complete_step. *)
FlowControl ==
    /\ \/ \E n \in Nodes : SelectFlowTopic(n)
       \/ \E s \in Steps : EnterFlowStep(s)
       \/ \E v \in Values \cup {None} : CompleteFlowStep(v)
    /\ UNCHANGED storeVars

------------------------------------------------------------------------------
(* reconcile_action. *)
ProofsOf(r) == {p \in Proofs : proofs[p].receipt = r}
Querying(r) == {p \in ProofsOf(r) : proofs[p].status = "querying"}

(* An expired owner of the proof is retired before another attempt. *)
Retired(r) == [p \in Proofs |-> IF p \in Querying(r) THEN [proofs[p] EXCEPT !.status = "error"]
                                                     ELSE proofs[p]]

Reconciles(r) ==
    /\ actionReceipts[r].status = "indeterminate"
    /\ actionReceipts[r].dispatched
    /\ actionReceipts[r].tool \in Reconcilable
    /\ callActive
    /\ ledger[r].status = "indeterminate" /\ ledger[r].dispatched /\ ~ledger[r].proof
    /\ \A p \in Querying(r) : ~proofs[p].live

PrepareActionReconciliation(p, r) ==
    /\ Reconciles(r)
    /\ proofs[p].status = "none"
    /\ Cardinality(ProofsOf(r)) < MaxProofAttempts
    /\ proofs' = [Retired(r) EXCEPT ![p] = [NoProof EXCEPT !.status = "querying", !.receipt = r,
                                                          !.live = TRUE]]
    /\ UNCHANGED <<vars, callActive, ledger, exec, downstream>>

(* At the attempt limit the expired owner is retired and nothing starts. *)
PrepareAtLimit(r) ==
    /\ Reconciles(r)
    /\ Querying(r) # {}
    /\ Cardinality(ProofsOf(r)) >= MaxProofAttempts
    /\ proofs' = Retired(r)
    /\ UNCHANGED <<vars, callActive, ledger, exec, downstream>>

(* Mutant: an invocation the integration has not seen yet, or has applied, is
   declared absent whenever the proof predicates do not match. *)
MutantQuery(p, finding) ==
    /\ proofs[p].receipt # None
    /\ proofs[p].finding = "none"
    /\ finding = "committed" => downstream[proofs[p].receipt].effects > 0
    /\ proofs' = [proofs EXCEPT ![p].finding = IF finding = "mismatch" THEN "absent" ELSE finding]
    /\ UNCHANGED <<vars, callActive, ledger, exec, downstream>>

(* The read-back query and what evaluateReconciliationProof makes of the
   answer.  "committed" and "absent" are authoritative: an invocation found
   absent is never applied afterwards. "invalid" is also a failed query. *)
Query(p, finding) ==
    LET r == proofs[p].receipt
    IN  /\ r # None
        /\ proofs[p].finding = "none"
        /\ finding = "committed" => downstream[r].effects > 0
        /\ finding = "absent" => downstream[r].effects = 0
        /\ proofs' = [proofs EXCEPT ![p].finding = finding]
        /\ downstream' = [downstream EXCEPT ![r].fenced = @ \/ finding = "absent"]
        /\ UNCHANGED <<vars, callActive, ledger, exec>>

(* The transaction may still use what the query found. *)
Authoritative(p) ==
    LET r == proofs[p].receipt
    IN  /\ proofs[p].live
        /\ callActive
        /\ ledger[r].status = "indeterminate" /\ ~ledger[r].proof

Close(p, to) == proofs' = [proofs EXCEPT ![p].status = to, ![p].finding = "finished"]

(* Someone else retired the proof: nothing is written. *)
FinishOverrun(p) ==
    /\ proofs[p].finding \in Findings
    /\ proofs[p].status # "querying"
    /\ Close(p, proofs[p].status)
    /\ UNCHANGED <<vars, callActive, ledger, exec, downstream>>

FinishError(p) ==
    /\ proofs[p].finding \in Findings
    /\ proofs[p].status = "querying"
    /\ proofs[p].finding = "invalid" \/ ~Authoritative(p)
    /\ Close(p, "error")
    /\ UNCHANGED <<vars, callActive, ledger, exec, downstream>>

FinishMismatch(p) ==
    /\ proofs[p].finding = "mismatch"
    /\ proofs[p].status = "querying"
    /\ Authoritative(p)
    /\ Close(p, "mismatch")
    /\ UNCHANGED <<vars, callActive, ledger, exec, downstream>>

FinishAbsent(p) ==
    LET r == proofs[p].receipt
    IN  /\ proofs[p].finding = "absent"
        /\ proofs[p].status = "querying"
        /\ Authoritative(p)
        /\ ProveIndeterminateFlowActionAbsent(r)
        /\ ledger' = [ledger EXCEPT ![r].status = "failed", ![r].delivery = "rejected",
                                    ![r].proof = TRUE]
        /\ Close(p, "absent")
        /\ UNCHANGED <<callActive, exec, downstream>>

FinishCommitted(p, v) ==
    LET r == proofs[p].receipt
    IN  /\ proofs[p].finding = "committed"
        /\ proofs[p].status = "querying"
        /\ Authoritative(p)
        /\ PromoteIndeterminateFlowAction(r, v)
        /\ ledger' = [ledger EXCEPT ![r].status = "succeeded", ![r].delivery = "committed",
                                    ![r].proof = TRUE]
        /\ Close(p, "committed")
        /\ UNCHANGED <<callActive, exec, downstream>>

ProofLeaseExpires(p) ==
    /\ proofs[p].status = "querying"
    /\ proofs[p].live
    /\ proofs' = [proofs EXCEPT ![p].live = FALSE]
    /\ UNCHANGED <<vars, callActive, ledger, exec, downstream>>

------------------------------------------------------------------------------
WorkerStep(w) ==
    \/ \E r \in Receipts, t \in Tools, a \in Args : RunAction(w, r, t, a)
    \/ ReserveNew(w) \/ ReserveRefused(w)
    \/ ReplayAnswered(w) \/ ReplayAbandoned(w) \/ ReplayReclaimed(w)
    \/ RejectBeforeDispatch(w)
    \/ DispatchPermitted(w) \/ DispatchDenied(w) \/ Dispatch(w)
    \/ \E answer \in Answers : DispatchAnswered(w, answer)
    \/ \E v \in Values \cup {None} : SettleOutcome(w, v)

IntegrationStep(r) == Apply(r) \/ Refuse(r) \/ Lose(r)

ReconcilerStep(p) ==
    \/ \E r \in Receipts : PrepareActionReconciliation(p, r)
    \/ \E finding \in Findings : Query(p, finding)
    \/ FinishOverrun(p) \/ FinishError(p) \/ FinishMismatch(p) \/ FinishAbsent(p)
    \/ \E v \in Values \cup {None} : FinishCommitted(p, v)
    \/ ProofLeaseExpires(p)

StoreNext ==
    \/ \E w \in Workers : WorkerStep(w)
    \/ \E r \in Receipts : IntegrationStep(r)
    \/ \E r \in Receipts : DispatchLeaseExpires(r)
    \/ \E r \in Receipts : PrepareAtLimit(r)
    \/ \E p \in Proofs : ReconcilerStep(p)
    \/ RecoverStaleFlowActionsAtomic
    \/ EndCall
    \/ FlowControl

StoreSpec == StoreInit /\ [][StoreNext]_allVars

------------------------------------------------------------------------------
(* Properties. *)

(* Types of the tables, of the workers and of the integration. *)
StoreTypeOK ==
    /\ callActive \in BOOLEAN
    /\ ledger \in [Receipts -> Row]
    /\ exec \in [Workers -> Execution]
    /\ downstream \in [Receipts -> Downstream]
    /\ proofs \in [Proofs -> Proof]

(* The embedded receipt and its ledger row never disagree; recovery and
   reconciliation throw FlowStateCorruptionError or receipt_state_mismatch
   when they do. *)
LedgerAgrees ==
    \A r \in Receipts :
        /\ ledger[r].status = actionReceipts[r].status
        /\ ledger[r].dispatched = actionReceipts[r].dispatched
        /\ ledger[r].proof = actionReceipts[r].proof
        /\ ledger[r].key = actionReceipts[r].key

(* The durable store implements the pure state machine: every transaction of
   every execution, replay, recovery or reconciliation is one of the functions
   of flow-runtime.ts applied to the stored state, or leaves it alone. *)
ImplementsFlowRuntime == Spec

(* docs/flow-v2.md:127: at-most-once dispatch.  Whatever workers reclaim,
   retry, stall or die, one invocation is sent at most once. *)
AtMostOnceDispatch == \A r \in Receipts : Len(downstream[r].sent) <= 1

(* A settled receipt of an action with effects tells the truth: a success was
   applied, a failure was not and never will be. *)
OutcomeIsTrue ==
    \A r \in Receipts : actionReceipts[r].tool \notin ReadOnly =>
        /\ actionReceipts[r].status = "succeeded" => downstream[r].effects = 1
        /\ actionReceipts[r].status = "failed" => downstream[r].effects = 0

(* A call-scoped action takes effect at most once per key and call, across
   receipts: retries after a failure included. *)
KeyTakesEffectOnce ==
    \A r, x \in Receipts :
        /\ r # x
        /\ actionReceipts[r].key = actionReceipts[x].key
        /\ actionReceipts[r].tool \notin ReadOnly
        /\ actionReceipts[r].key.tool # None /\ actionReceipts[r].key.step = None
        => downstream[r].effects + downstream[x].effects <= 1

(* flow_action_reconciliation_proofs: one attempt at a time queries for a
   receipt, and a receipt resolved by proof has exactly one authoritative
   proof, which says what the receipt says. *)
OneAuthoritativeProof ==
    \A r \in Receipts :
        /\ Cardinality(Querying(r)) <= 1
        /\ LET decided == {p \in ProofsOf(r) : proofs[p].status \in {"committed", "absent"}}
           IN  /\ Cardinality(decided) = IF ledger[r].proof THEN 1 ELSE 0
               /\ \A p \in decided :
                    ledger[r].status = IF proofs[p].status = "committed" THEN "succeeded" ELSE "failed"

(* flow-state-store.ts:489: after the boundary "a crash is always recovered as
   indeterminate".  A dispatched receipt does not stay reserved, whatever
   becomes of its worker. *)
DispatchedIsResolved ==
    \A r \in Receipts :
        (ledger[r].status = "reserved" /\ ledger[r].dispatched) ~> (ledger[r].status # "reserved")

------------------------------------------------------------------------------
(* What the repository says and the code does not do. *)

(* flow-runtime.ts:554: "Only the owner of a newly persisted reservation may
   dispatch the side effect."  So what is dispatched is what was persisted: a
   request carries the arguments its receipt is the evidence of. *)
ReceiptRecordsWhatWasSent ==
    \A r \in Receipts : \A i \in 1 .. Len(downstream[r].sent) :
        downstream[r].sent[i] = actionReceipts[r].args
==============================================================================
