----------------------------- MODULE FlowRuntime -----------------------------
(***************************************************************************)
(* The deterministic Flow v2 state machine of web/lib/flow-runtime.ts: the *)
(* durable position of a call in its flow, the capability epoch that every *)
(* grant is bound to, and the action receipts embedded in that state.      *)
(*                                                                         *)
(* The code keeps one immutable FlowExecutionState per call and computes   *)
(* the next one with pure functions.  Each function is an action here: the *)
(* error returns of the function are its guard, the patch it builds is its *)
(* effect.  withLockedFlowState (flow-state-store.ts) runs every one of    *)
(* them under the row lock of the call, so a function call is one step.    *)
(***************************************************************************)
EXTENDS Naturals, FiniteSets

CONSTANTS
    Nodes,          \* topic and fallback nodes of the flow
    Fallbacks,      \* the nodes of kind "fallback"
    Steps,          \* absolute step paths
    NodeOf,         \* the node a step belongs to
    Ancestors,      \* the proper ancestors of a step
    EntryFlag,      \* step.entry: "unset", "true" or "false"
    Transitions,    \* step.transitions: target and the outputs that match
    OnFailure,      \* step.on_failure, or None
    MaxAttempts,    \* step.max_attempts
    MaxStepEntries, \* flow.max_step_entries, 0 when the flow sets none
    Checkpointed,   \* the steps with checkpoint: true
    RequiresOutput, \* the steps whose output is in required_outputs
    Binding,        \* the tool whose receipt authors the output, or None
    Tools, AlwaysTools, NodeTools, StepTools,
    StepPolicy,     \* step.action_policies, per step and tool
    AlwaysPolicy,   \* alwaysActionPolicies, per tool
    Values,         \* values of a step's output
    Args,           \* hashes of action arguments
    Receipts,       \* receipt identities, one per provider tool call
    MaxReceipts,    \* MAX_FLOW_ACTION_RECEIPTS_PER_CALL
    MaxEpoch,       \* bound of the model: capability epochs explored
    None            \* null or undefined

(* The idempotency modes of a policy, and the ones whose key spans the call. *)
Modes == {"none", "per_step", "per_arguments", "per_call", "per_call_arguments"}
CallModes == {"per_call", "per_call_arguments"}

(* max is 0 when the policy sets no max_calls. *)
Policy == [mode : Modes, max : Nat]

(* What flowCapabilityScope can name: a step, "$flow.<node>", or the flow's phase. *)
Scopes == Steps \cup Nodes \cup {"routing", "completed"}

ASSUME FlowAssumption ==
    /\ Fallbacks \subseteq Nodes
    /\ NodeOf \in [Steps -> Nodes]
    /\ Ancestors \in [Steps -> SUBSET Steps]
    /\ EntryFlag \in [Steps -> {"unset", "true", "false"}]
    /\ Transitions \in [Steps -> SUBSET [to : Steps, when : SUBSET (Values \cup {None})]]
    /\ OnFailure \in [Steps -> Steps \cup {None}]
    /\ MaxAttempts \in [Steps -> Nat \ {0}]
    /\ MaxStepEntries \in Nat
    /\ Checkpointed \subseteq Steps
    /\ RequiresOutput \subseteq Steps
    /\ Binding \in [Steps -> Tools \cup {None}]
    /\ AlwaysTools \subseteq Tools
    /\ NodeTools \in [Nodes -> SUBSET Tools]
    /\ StepTools \in [Steps -> SUBSET Tools]
    /\ StepPolicy \in [Steps -> [Tools -> Policy \cup {None}]]
    /\ AlwaysPolicy \in [Tools -> Policy \cup {None}]
    /\ MaxReceipts \in Nat
    /\ MaxEpoch \in Nat

(* Paths form a forest: no step is its own ancestor, and the ancestors of an
   ancestor are ancestors. *)
ASSUME PathAssumption ==
    \A s \in Steps : /\ s \notin Ancestors[s]
                     /\ \A p \in Ancestors[s] : Ancestors[p] \subseteq Ancestors[s]

(* Names of different things differ. *)
ASSUME NameAssumption ==
    /\ Steps \cap (Nodes \cup {"routing", "completed", None}) = {}
    /\ None \notin Nodes \cup Tools \cup Args \cup Values \cup Receipts \cup Policy
    /\ None \notin {"routing", "completed"}

VARIABLES
    status,          \* "routing", "active" or "completed" ("failed" is never assigned)
    nodeId,          \* the selected node, or None
    currentStep,     \* the step last entered, or None
    completedSteps,
    stepEntries,
    attempts,        \* consecutive attempts of each step, 0 when absent
    outputs,         \* per completed step its output; NoOutput when there is no record
    checkpoints,     \* the steps with a checkpoint
    capabilityEpoch,
    actionReceipts   \* per receipt identity; NoReceipt when there is none

flowVars == <<status, nodeId, currentStep, completedSteps, stepEntries, attempts,
              outputs, checkpoints, capabilityEpoch>>
vars == <<status, nodeId, currentStep, completedSteps, stepEntries, attempts,
          outputs, checkpoints, capabilityEpoch, actionReceipts>>

------------------------------------------------------------------------------
(* Receipts.  The arguments are known by their hash only; a result is the
   value a binding would read from it, None when the path is missing.
   "hot" says that the payloads are still in the hot state, which
   compactCompletedStepReceipts ends. *)
Statuses == {"none", "reserved", "succeeded", "failed", "indeterminate"}
Key == [tool : Tools \cup {None}, args : Args \cup {None}, step : Scopes \cup {None},
        attempt : Nat, id : Receipts \cup {None}]
Receipt == [status : Statuses, step : Scopes, tool : Tools \cup {None}, args : Args \cup {None},
            epoch : Nat, key : Key, dispatched : BOOLEAN, result : Values \cup {None},
            proof : BOOLEAN, hot : BOOLEAN]
NoKey == [tool |-> None, args |-> None, step |-> None, attempt |-> 0, id |-> None]
NoReceipt == [status |-> "none", step |-> "routing", tool |-> None, args |-> None, epoch |-> 0,
              key |-> NoKey, dispatched |-> FALSE, result |-> None, proof |-> FALSE, hot |-> TRUE]

(* A step without an output record. *)
NoOutput == [value |-> None, present |-> FALSE]
Output(v) == [value |-> v, present |-> TRUE]

Admitted(r) == actionReceipts[r].status \in {"reserved", "succeeded", "indeterminate"}
Unresolved(r) == actionReceipts[r].status \in {"reserved", "indeterminate"}

(* Mutant: an indeterminate receipt is taken for a settled one. *)
MutantPendingEvidence(s) ==
    {r \in Receipts : actionReceipts[r].step = s /\ actionReceipts[r].status = "reserved"}

(* The receipts that keep step s from being completed, retried or left. *)
PendingEvidence(s) == {r \in Receipts : actionReceipts[r].step = s /\ Unresolved(r)}

------------------------------------------------------------------------------
(* The flow graph. *)
Finished == status = "completed"
StepActive == currentStep # None /\ currentStep \notin completedSteps

DirectChildren(s) == {c \in Steps : Ancestors[c] = Ancestors[s] \cup {s}}
InSubtree(c, s) == c = s \/ s \in Ancestors[c]

TopicEntryStepPaths(n) ==
    LET roots == {s \in Steps : NodeOf[s] = n /\ Ancestors[s] = {}}
        targets == {t.to : t \in UNION {Transitions[s] : s \in Steps}}
                      \cup {OnFailure[s] : s \in Steps}
    IN  IF \E s \in roots : EntryFlag[s] # "unset"
        THEN {s \in roots : EntryFlag[s] = "true"}
        ELSE roots \ targets

SuccessfulNextSteps(s, output) ==
    DirectChildren(s) \cup {t.to : t \in {u \in Transitions[s] : output.value \in u.when}}

AllowedStepPaths(completed, outs) ==
    IF Finished \/ nodeId = None \/ nodeId \in Fallbacks THEN {}
    ELSE IF currentStep = None THEN TopicEntryStepPaths(nodeId)
    ELSE IF currentStep \in completed THEN SuccessfulNextSteps(currentStep, outs[currentStep])
    ELSE IF attempts[currentStep] >= MaxAttempts[currentStep]
         THEN {OnFailure[currentStep]} \ {None}
    ELSE {}

FlowCapabilityScope ==
    IF StepActive THEN [step |-> currentStep, attempt |-> attempts[currentStep]]
    ELSE IF Finished THEN [step |-> "completed", attempt |-> 0]
    ELSE IF nodeId # None THEN [step |-> nodeId, attempt |-> 0]
    ELSE [step |-> "routing", attempt |-> 0]

GrantedTools ==
    AlwaysTools
      \cup (IF Finished \/ nodeId = None THEN {} ELSE NodeTools[nodeId])
      \cup (IF Finished \/ ~StepActive THEN {}
            ELSE UNION {StepTools[s] : s \in Ancestors[currentStep] \cup {currentStep}})

------------------------------------------------------------------------------
Init ==
    /\ status = "routing"
    /\ nodeId = None
    /\ currentStep = None
    /\ completedSteps = {}
    /\ stepEntries = 0
    /\ attempts = [s \in Steps |-> 0]
    /\ outputs = [s \in Steps |-> NoOutput]
    /\ checkpoints = {}
    /\ capabilityEpoch = 0
    /\ actionReceipts = [r \in Receipts |-> NoReceipt]

(* Mutant: a transition keeps the grants of the state it leaves. *)
MutantUpdateCapabilities == UNCHANGED capabilityEpoch
UpdateCapabilities ==
    /\ capabilityEpoch < MaxEpoch
    /\ capabilityEpoch' = capabilityEpoch + 1

SelectFlowTopic(n) ==
    /\ ~Finished
    /\ n \in Fallbacks \/ TopicEntryStepPaths(n) # {}
    /\ ~(status = "active" /\ nodeId = n)
    /\ status = "active" => /\ ~StepActive
                            /\ currentStep # None =>
                                 AllowedStepPaths(completedSteps, outputs) = {}
    /\ UpdateCapabilities
    /\ status' = "active"
    /\ nodeId' = n
    /\ currentStep' = None
    /\ UNCHANGED <<completedSteps, stepEntries, attempts, outputs, checkpoints, actionReceipts>>

(* A retry of the active step counts an attempt; a transition back to a
   completed step starts over with the first one. *)
EnterFlowStep(s) ==
    LET allowed == AllowedStepPaths(completedSteps, outputs)
        isRetry == currentStep = s /\ s \notin completedSteps
        attempt == IF isRetry THEN attempts[s] + 1 ELSE 1
    IN  /\ ~Finished
        /\ StepActive => PendingEvidence(currentStep) = {}
        /\ NodeOf[s] = nodeId \/ s \in allowed
        /\ isRetry \/ s \in allowed
        /\ Ancestors[s] \subseteq completedSteps
        /\ attempt <= MaxAttempts[s]
        /\ MaxStepEntries = 0 \/ stepEntries + 1 <= MaxStepEntries
        /\ UpdateCapabilities
        /\ status' = "active"
        /\ nodeId' = NodeOf[s]
        /\ currentStep' = s
        /\ completedSteps' = {c \in completedSteps : ~InSubtree(c, s)}
        /\ stepEntries' = stepEntries + 1
        /\ attempts' = [attempts EXCEPT ![s] = attempt]
        /\ outputs' = [c \in Steps |-> IF InSubtree(c, s) THEN NoOutput ELSE outputs[c]]
        /\ checkpoints' = {c \in checkpoints : ~InSubtree(c, s)}
        /\ UNCHANGED actionReceipts

------------------------------------------------------------------------------
(* Completion. *)

(* The succeeded receipts a binding of step s may read. *)
EvidenceFor(s) ==
    LET policy == StepPolicy[s][Binding[s]]
        callScoped == policy # None /\ policy.mode \in CallModes
    IN  {r \in Receipts : /\ actionReceipts[r].status = "succeeded"
                          /\ actionReceipts[r].step = s
                          /\ actionReceipts[r].tool = Binding[s]
                          /\ actionReceipts[r].epoch = capabilityEpoch \/ callScoped}

(* verifiedOutputs: o is the output recorded when the model supplies v. A
   bound output is the result of the one receipt that is evidence for it; a
   compacted receipt has no result left to read. *)
VerifiedOutput(s, v, o) ==
    IF Binding[s] = None THEN o = v
    ELSE \E r \in EvidenceFor(s) :
           /\ EvidenceFor(s) = {r}
           /\ actionReceipts[r].hot
           /\ actionReceipts[r].result # None
           /\ o = actionReceipts[r].result
           /\ v \in {None, o}

CompactCompletedStepReceipts(s) ==
    [r \in Receipts |->
        IF actionReceipts[r].step = s /\ actionReceipts[r].status \in {"succeeded", "failed"}
        THEN [actionReceipts[r] EXCEPT !.hot = FALSE]
        ELSE actionReceipts[r]]

(* v is the value the model supplies for the output, None when it omits it. *)
CompleteFlowStep(v) ==
    /\ StepActive
    /\ PendingEvidence(currentStep) = {}
    /\ \E o \in Values \cup {None} :
         LET completed == completedSteps \cup {currentStep}
             outs == [outputs EXCEPT ![currentStep] = Output(o)]
         IN  /\ VerifiedOutput(currentStep, v, o)
             /\ currentStep \in RequiresOutput => o # None
             /\ UpdateCapabilities
             /\ completedSteps' = completed
             /\ outputs' = outs
             /\ checkpoints' = checkpoints \cup ({currentStep} \cap Checkpointed)
             /\ actionReceipts' = CompactCompletedStepReceipts(currentStep)
             /\ IF AllowedStepPaths(completed, outs) = {}
                THEN status' = "completed" /\ currentStep' = None
                ELSE UNCHANGED <<status, currentStep>>
             /\ UNCHANGED <<nodeId, stepEntries, attempts>>

------------------------------------------------------------------------------
(* Action receipts. *)
PolicyFor(t) ==
    IF StepActive /\ StepPolicy[currentStep][t] # None
    THEN StepPolicy[currentStep][t] ELSE AlwaysPolicy[t]
ModeOf(t) == IF PolicyFor(t) = None THEN "none" ELSE PolicyFor(t).mode
CallScoped(t) == ModeOf(t) \in CallModes

(* The semantic key: the fields its mode hashes, None for the others. *)
ActionIdempotencyKey(r, t, a) ==
    LET scope == FlowCapabilityScope
    IN  CASE ModeOf(t) = "per_call" -> [NoKey EXCEPT !.tool = t]
          [] ModeOf(t) = "per_call_arguments" -> [NoKey EXCEPT !.tool = t, !.args = a]
          [] ModeOf(t) = "per_step" ->
               [NoKey EXCEPT !.tool = t, !.step = scope.step, !.attempt = scope.attempt]
          [] ModeOf(t) = "per_arguments" ->
               [NoKey EXCEPT !.tool = t, !.step = scope.step, !.attempt = scope.attempt, !.args = a]
          [] OTHER -> [NoKey EXCEPT !.tool = t, !.step = scope.step, !.id = r]

Existing(r, t, a) ==
    {x \in Receipts : /\ Admitted(x)
                      /\ CallScoped(t) \/ actionReceipts[x].epoch = capabilityEpoch
                      /\ actionReceipts[x].key = ActionIdempotencyKey(r, t, a)}

AdmittedCalls(t) ==
    {x \in Receipts : /\ Admitted(x)
                      /\ actionReceipts[x].tool = t
                      /\ CallScoped(t) \/ /\ actionReceipts[x].epoch = capabilityEpoch
                                          /\ actionReceipts[x].step = FlowCapabilityScope.step}

WithinCallLimit(t) ==
    PolicyFor(t) # None =>
      PolicyFor(t).max = 0 \/ Cardinality(AdmittedCalls(t)) < PolicyFor(t).max

(* A request that passes the epoch and grant checks that come first. *)
Grantable(t, e) == e = capabilityEpoch /\ t \in GrantedTools

NewReceipt(r, t, a) ==
    [NoReceipt EXCEPT !.status = "reserved", !.step = FlowCapabilityScope.step, !.tool = t,
                      !.args = a, !.epoch = capabilityEpoch, !.key = ActionIdempotencyKey(r, t, a)]

(* The identity is new, no admitted receipt has the key, and neither limit is
   reached. *)
Admissible(r, t, a, e) ==
    /\ Grantable(t, e)
    /\ actionReceipts[r].status = "none"
    /\ Existing(r, t, a) = {}
    /\ WithinCallLimit(t)
    /\ Cardinality({x \in Receipts : actionReceipts[x].status # "none"}) < MaxReceipts

(* reserveFlowAction when it grants execution. *)
ReserveFlowAction(r, t, a, e) ==
    /\ Admissible(r, t, a, e)
    /\ actionReceipts' = [actionReceipts EXCEPT ![r] = NewReceipt(r, t, a)]
    /\ UNCHANGED flowVars

(* reserveFlowAction when it replays: the receipts it may answer with. An
   identity replayed with other semantics is an error and answers nothing. *)
ReplayedReceipts(r, t, a, e) ==
    IF ~Grantable(t, e) THEN {}
    ELSE IF actionReceipts[r].status # "none"
    THEN {x \in {r} : /\ actionReceipts[x].tool = t
                      /\ actionReceipts[x].args = a
                      /\ actionReceipts[x].step = FlowCapabilityScope.step}
    ELSE Existing(r, t, a)

MarkFlowActionDispatchStarted(r) ==
    /\ actionReceipts[r].status = "reserved"
    /\ ~actionReceipts[r].dispatched
    /\ actionReceipts' = [actionReceipts EXCEPT ![r].dispatched = TRUE]
    /\ UNCHANGED flowVars

(* Mutant: an outcome is accepted before the dispatch boundary. *)
MutantSettleFlowAction(r, outcome, v) ==
    /\ actionReceipts[r].status = "reserved"
    /\ actionReceipts' = [actionReceipts EXCEPT ![r].status = outcome, ![r].result = v]
    /\ UNCHANGED flowVars

(* v is the result of a success, None otherwise. *)
SettleFlowAction(r, outcome, v) ==
    /\ actionReceipts[r].status = "reserved"
    /\ outcome = "failed" \/ actionReceipts[r].dispatched
    /\ actionReceipts' = [actionReceipts EXCEPT ![r].status = outcome, ![r].result = v]
    /\ UNCHANGED flowVars

PromoteIndeterminateFlowAction(r, v) ==
    /\ actionReceipts[r].status = "indeterminate"
    /\ actionReceipts[r].dispatched
    /\ actionReceipts' = [actionReceipts EXCEPT ![r].status = "succeeded", ![r].result = v,
                                                ![r].proof = TRUE]
    /\ UNCHANGED flowVars

ProveIndeterminateFlowActionAbsent(r) ==
    /\ actionReceipts[r].status = "indeterminate"
    /\ actionReceipts[r].dispatched
    /\ actionReceipts' = [actionReceipts EXCEPT ![r].status = "failed", ![r].proof = TRUE]
    /\ UNCHANGED flowVars

(* Mutant: recovery forgets that a receipt may have settled. *)
MutantStale(r) == actionReceipts[r].dispatched
Stale(r) == actionReceipts[r].status = "reserved" /\ actionReceipts[r].dispatched

MarkStaleDispatchedActionsIndeterminate(ids) ==
    /\ \E r \in ids : Stale(r)
    /\ actionReceipts' = [r \in Receipts |->
                            IF r \in ids /\ Stale(r)
                            THEN [actionReceipts[r] EXCEPT !.status = "indeterminate"]
                            ELSE actionReceipts[r]]
    /\ UNCHANGED flowVars

------------------------------------------------------------------------------
Next ==
    \/ \E n \in Nodes : SelectFlowTopic(n)
    \/ \E s \in Steps : EnterFlowStep(s)
    \/ \E v \in Values \cup {None} : CompleteFlowStep(v)
    \/ \E r \in Receipts, t \in Tools, a \in Args, e \in 0 .. capabilityEpoch :
         ReserveFlowAction(r, t, a, e)
    \/ \E r \in Receipts : MarkFlowActionDispatchStarted(r)
    \/ \E r \in Receipts, v \in Values \cup {None} : SettleFlowAction(r, "succeeded", v)
    \/ \E r \in Receipts, outcome \in {"failed", "indeterminate"} : SettleFlowAction(r, outcome, None)
    \/ \E r \in Receipts, v \in Values \cup {None} : PromoteIndeterminateFlowAction(r, v)
    \/ \E r \in Receipts : ProveIndeterminateFlowActionAbsent(r)
    \/ \E ids \in SUBSET Receipts : MarkStaleDispatchedActionsIndeterminate(ids)

Spec == Init /\ [][Next]_vars

------------------------------------------------------------------------------
(* Properties. *)

(* Types of the durable state (FlowExecutionStateSchema). *)
TypeOK ==
    /\ status \in {"routing", "active", "completed"}
    /\ nodeId \in Nodes \cup {None}
    /\ currentStep \in Steps \cup {None}
    /\ completedSteps \subseteq Steps
    /\ stepEntries \in Nat
    /\ attempts \in [Steps -> Nat]
    /\ outputs \in [Steps -> [value : Values \cup {None}, present : BOOLEAN]]
    /\ checkpoints \subseteq Steps
    /\ capabilityEpoch \in Nat
    /\ actionReceipts \in [Receipts -> Receipt]

(* Every state a mutation produces passes the cross-field rules of
   FlowExecutionStateSchema, which withLockedFlowState parses before it
   persists: a state that broke one would roll back the mutation for ever. *)
PersistedStateIsValid ==
    /\ status = "routing" => nodeId = None /\ currentStep = None
    /\ status = "active" => nodeId # None
    /\ status = "completed" => currentStep = None
    /\ \A s \in Steps : s \in completedSteps <=> outputs[s].present
    /\ checkpoints \subseteq completedSteps
    /\ \A r \in Receipts :
         LET receipt == actionReceipts[r]
         IN  /\ receipt.status \in {"succeeded", "indeterminate"} => receipt.dispatched
             /\ ~receipt.hot => receipt.status \in {"succeeded", "failed"}
             /\ receipt.proof => receipt.status \in {"succeeded", "failed"}
             /\ receipt.proof /\ receipt.status = "failed" => receipt.result = None

(* An action admitted inside a step is resolved before the call can leave,
   retry or complete that step, and no grant changes in the meantime. *)
UnresolvedFreezesStep ==
    \A r \in Receipts : Unresolved(r) /\ actionReceipts[r].step \in Steps =>
        /\ StepActive
        /\ actionReceipts[r].step = currentStep
        /\ actionReceipts[r].epoch = capabilityEpoch

(* A call-scoped key admits one receipt per call, whatever steps, retries and
   cycles it is requested from; only a failed one releases the key. *)
CallScopedKeyAdmittedOnce ==
    \A r, x \in Receipts :
        /\ Admitted(r) /\ Admitted(x)
        /\ actionReceipts[r].key = actionReceipts[x].key
        /\ actionReceipts[r].key.step = None
        => r = x

(* A step is entered, and stays completed, only below completed ancestors: the
   tools it inherits from them were earned. *)
AncestorsCompleted ==
    /\ StepActive => Ancestors[currentStep] \subseteq completedSteps
    /\ \A s \in completedSteps : Ancestors[s] \subseteq completedSteps

(* The output of a completed step that is bound to a tool is the result of a
   succeeded receipt of that tool, reserved in that step. *)
BoundOutputsAreReceipts ==
    \A s \in completedSteps : Binding[s] # None =>
        \E r \in Receipts : /\ actionReceipts[r].status = "succeeded"
                            /\ actionReceipts[r].step = s
                            /\ actionReceipts[r].tool = Binding[s]
                            /\ actionReceipts[r].result = outputs[s].value
                            /\ actionReceipts[r].result # None

(* One capability epoch is one scope: all receipts admitted in an epoch belong
   to the same scope, and the current epoch to the current one.  So a grant
   never outlives the position it was minted for, and the call limit of a
   step-scoped policy never counts receipts of another step. *)
EpochIdentifiesScope ==
    \A r \in Receipts : actionReceipts[r].status # "none" =>
        /\ actionReceipts[r].epoch <= capabilityEpoch
        /\ actionReceipts[r].epoch = capabilityEpoch =>
             actionReceipts[r].step = FlowCapabilityScope.step
        /\ \A x \in Receipts :
             /\ actionReceipts[x].status # "none"
             /\ actionReceipts[x].epoch = actionReceipts[r].epoch
             => actionReceipts[x].step = actionReceipts[r].step

ReceiptLifecycle ==
    \A r \in Receipts :
      LET old == actionReceipts[r]
          new == actionReceipts'[r]
      IN  /\ old.status \in {"succeeded", "failed"} =>
               new.status = old.status /\ new.result = old.result
          /\ old.status = "indeterminate" /\ new.status # "indeterminate" => new.proof
          /\ old.dispatched => new.dispatched
          /\ old.status # "none" => /\ new.key = old.key
                                    /\ new.epoch = old.epoch

(* A resolved receipt keeps its outcome for ever; an indeterminate one is only
   resolved with a proof; the dispatch boundary is never taken back. *)
ReceiptsKeepTheirOutcome == [][ReceiptLifecycle]_vars
==============================================================================
