--------------------------- MODULE McpInvocations ----------------------------
(***************************************************************************)
(* Replay admission of provider tool calls: callActiveCapability of          *)
(* web/lib/mcp.ts over web/lib/mcp-invocation-store.ts and the database      *)
(* functions of migrations 022 and 028.                                      *)
(*                                                                           *)
(* A database function is one step.  Between them requests of the same call  *)
(* interleave, and any of them may die: nothing makes it take its next step. *)
(***************************************************************************)
EXTENDS Integers, FiniteSets, FiniteSetsExt

CONSTANTS
    Invocations,   \* providerInvocationId
    Inputs,        \* logical name, arguments and expected catalog of a request
    Recoverable,   \* inputs that launch a task: recoverExpired is given
    Requests,      \* executions of callActiveCapability, each with its ownerToken
    ArgumentBytes, \* size of an input
    Reserve,       \* bytes set aside for a result that is not there yet (512)
    LargeBytes,    \* size of a result that may not fit into the quota
    MaxReceipts, MaxWindow, MaxArgumentBytes, MaxBytes, \* limits of a call (028)
    None

(* Every result is small, "large" (within the row's limit) or "huge". *)
Results == {"ok", "large", "error", "unknown"}
Outputs == {"ok", "large", "huge", "error"}
Answers == Results \cup {"conflict", "pending", "rejected", "failed"}
Size(v) == IF v = "large" THEN LargeBytes ELSE 1

(* The limits are numbers, and only some inputs are launches of a task. *)
ASSUME InvocationAssumption ==
    /\ Recoverable \subseteq Inputs
    /\ ArgumentBytes \in Nat /\ Reserve \in Nat \ {0} /\ LargeBytes \in Nat
    /\ MaxReceipts \in Nat /\ MaxWindow \in Nat /\ MaxArgumentBytes \in Nat /\ MaxBytes \in Nat
    /\ None \notin Inputs \cup Requests \cup Invocations \cup Answers

VARIABLES
    receipts, \* mcp_tool_invocation_receipts
    quota,    \* mcp_call_invocation_quotas of the call
    request,  \* where each execution is and what it holds
    effects   \* how often the tool behind an invocation took effect

vars == <<receipts, quota, request, effects>>

Receipt == [status : {"none", "executing", "completed", "indeterminate"}, owner : Requests \cup {None},
            input : Inputs \cup {None}, live : BOOLEAN, result : Results \cup {None}]
NoReceipt == [status |-> "none", owner |-> None, input |-> None, live |-> FALSE, result |-> None]
Quota == [receipts : Nat, arguments : Nat, results : Nat, window : Nat, old : BOOLEAN]
Pcs == {"idle", "waiting", "recovering", "recovered", "reload", "quarantine", "reread", "running",
        "settling", "fallback", "resettling", "refallback", "done"}
Request == [pc : Pcs, inv : Invocations \cup {None}, input : Inputs \cup {None},
            output : Outputs \cup {"unknown", None}, answer : Answers \cup {None}]
NoRequest == [pc |-> "idle", inv |-> None, input |-> None, output |-> None, answer |-> None]

Init ==
    /\ receipts = [i \in Invocations |-> NoReceipt]
    /\ quota = [receipts |-> 0, arguments |-> 0, results |-> 0, window |-> 0, old |-> FALSE]
    /\ request = [q \in Requests |-> NoRequest]
    /\ effects = [i \in Invocations |-> 0]

Goto(q, pc) == request' = [request EXCEPT ![q].pc = pc]
Answer(q, a) == request' = [request EXCEPT ![q].pc = "done", ![q].answer = a]
Mine(q) == receipts[request[q].inv]
Terminal(i) == receipts[i].status \in {"completed", "indeterminate"}

------------------------------------------------------------------------------
(* admit_mcp_tool_invocation and admitMcpToolInvocation. *)

(* The window of the rate limit starts again with the first admission after it. *)
Window == IF quota.old THEN 0 ELSE quota.window
(* Mutant: nothing is set aside for the result. *)
MutantWithinQuota ==
    /\ Window < MaxWindow
    /\ quota.receipts < MaxReceipts
    /\ quota.arguments + ArgumentBytes <= MaxArgumentBytes
    /\ quota.arguments + ArgumentBytes + quota.results <= MaxBytes
WithinQuota ==
    /\ Window < MaxWindow
    /\ quota.receipts < MaxReceipts
    /\ quota.arguments + ArgumentBytes <= MaxArgumentBytes
    /\ quota.arguments + ArgumentBytes + quota.results + Reserve <= MaxBytes

(* Mutant: the identity is charged and inserted whether it exists or not. *)
MutantFresh(i) == TRUE
Fresh(i) == receipts[i].status = "none"

(* A new identity is charged and inserted in one transaction. *)
Insert(q, i, input) ==
    /\ Fresh(i)
    /\ WithinQuota
    /\ quota' = [receipts |-> quota.receipts + 1, arguments |-> quota.arguments + ArgumentBytes,
                 results |-> quota.results + Reserve, window |-> Window + 1, old |-> FALSE]
    /\ receipts' = [receipts EXCEPT ![i] = [status |-> "executing", owner |-> q, input |-> input,
                                            live |-> TRUE, result |-> None]]
    /\ UNCHANGED effects

Started(i, input) == [NoRequest EXCEPT !.inv = i, !.input = input]

Admit(q, i, input) ==
    /\ request[q].pc = "idle"
    /\ Insert(q, i, input)
    /\ request' = [request EXCEPT ![q] = [Started(i, input) EXCEPT !.pc = "running"]]

(* The insert commits and its answer is lost: the request fails, and the
   receipt stays behind without anyone who would execute it. *)
AdmitLost(q, i, input) ==
    /\ request[q].pc = "idle"
    /\ Insert(q, i, input)
    /\ request' = [request EXCEPT ![q] = [Started(i, input) EXCEPT !.pc = "done", !.answer = "failed"]]

AdmitRejected(q, i, input) ==
    /\ request[q].pc = "idle"
    /\ Fresh(i)
    /\ ~WithinQuota
    /\ request' = [request EXCEPT ![q] = [Started(i, input) EXCEPT !.pc = "done", !.answer = "rejected"]]
    /\ UNCHANGED <<receipts, quota, effects>>

(* What a replay is told of the receipt it finds; None while it executes. *)
Replay(i, input) ==
    IF receipts[i].input # input THEN "conflict"
    ELSE IF Terminal(i) THEN receipts[i].result
    ELSE None

AdmitReplay(q, i, input) ==
    /\ request[q].pc = "idle"
    /\ ~Fresh(i)
    /\ request' = [request EXCEPT ![q] =
         IF Replay(i, input) = None THEN [Started(i, input) EXCEPT !.pc = "waiting"]
         ELSE [Started(i, input) EXCEPT !.pc = "done", !.answer = Replay(i, input)]]
    /\ UNCHANGED <<receipts, quota, effects>>

(* One poll that finds the outcome, or fails; polls that find none change nothing. *)
Poll(q) ==
    /\ request[q].pc = "waiting"
    /\ \/ /\ Replay(request[q].inv, request[q].input) # None
          /\ Answer(q, Replay(request[q].inv, request[q].input))
       \/ Answer(q, "failed")
    /\ UNCHANGED <<receipts, quota, effects>>

(* The wait ends.  Whether the lease has expired is asked of the process's own
   clock first, of the database when it settles. *)
WaitEnds(q) ==
    /\ request[q].pc = "waiting"
    /\ \/ request[q].input \in Recoverable /\ Goto(q, "recovering")
       \/ Goto(q, "quarantine")
    /\ UNCHANGED <<receipts, quota, effects>>

(* Mutant: the expired receipt alone is taken as proof. *)
MutantProven(i) == receipts[i].status = "executing"
(* The durable evidence of the launch that reconcileIndeterminateGovernedLaunchTask asks for. *)
Proven(i) == effects[i] > 0

(* recoverExpired proves that the task was launched, finds no such proof, or fails. *)
Recover(q) ==
    /\ request[q].pc = "recovering"
    /\ \/ Proven(request[q].inv) /\ Goto(q, "recovered")
       \/ Goto(q, "quarantine")
       \/ Answer(q, "pending")
    /\ UNCHANGED <<receipts, quota, effects>>

------------------------------------------------------------------------------
(* settle_mcp_tool_invocation. *)

Fits(v) ==
    /\ quota.results + Size(v) - Reserve >= 0
    /\ quota.arguments + quota.results + Size(v) - Reserve <= MaxBytes

Record(i, status, v) ==
    /\ receipts' = [receipts EXCEPT ![i].status = status, ![i].result = v]
    /\ quota' = [quota EXCEPT !.results = @ + Size(v) - Reserve]

(* Mutant: only the request that was admitted may settle an expired receipt. *)
Expired(q) == Mine(q).status = "executing" /\ ~Mine(q).live

(* settleRecoveredExpired; a failure, of the settlement or of its answer, leaves it pending. *)
SettleRecovered(q) ==
    /\ request[q].pc = "recovered"
    /\ \/ /\ Expired(q) /\ Fits("ok")
          /\ Record(request[q].inv, "completed", "ok")
          /\ \E a \in {"ok", "pending"} : Answer(q, a)
       \/ ~Expired(q) /\ Goto(q, "reload") /\ UNCHANGED <<receipts, quota>>
       \/ Answer(q, "pending") /\ UNCHANGED <<receipts, quota>>
    /\ UNCHANGED effects

(* loadReceipt after a settlement that changed nothing. *)
Reload(q) ==
    /\ request[q].pc \in {"reload", "reread"}
    /\ \/ Terminal(request[q].inv) /\ Answer(q, Mine(q).result)
       \/ ~Terminal(request[q].inv) /\ request[q].pc = "reload" /\ Goto(q, "quarantine")
       \/ ~Terminal(request[q].inv) /\ request[q].pc = "reread" /\ Answer(q, "pending")
    /\ UNCHANGED <<receipts, quota, effects>>

(* quarantineExpired; a failure of the settlement or of its answer fails the request. *)
Quarantine(q) ==
    /\ request[q].pc = "quarantine"
    /\ \/ /\ Expired(q) /\ Fits("unknown")
          /\ Record(request[q].inv, "indeterminate", "unknown")
          /\ \E a \in {"unknown", "failed"} : Answer(q, a)
       \/ ~Expired(q) /\ Goto(q, "reread") /\ UNCHANGED <<receipts, quota>>
    /\ UNCHANGED effects

QuarantineFails(q) ==
    /\ request[q].pc = "quarantine"
    /\ Answer(q, "failed")
    /\ UNCHANGED <<receipts, quota, effects>>

------------------------------------------------------------------------------
(* The owner. *)

(* dispatch, or a refusal before it.  What it throws becomes an error. *)
Run(q) ==
    /\ request[q].pc = "running"
    /\ \/ UNCHANGED effects /\ request' = [request EXCEPT ![q].pc = "settling", ![q].output = "error"]
       \/ /\ effects' = [effects EXCEPT ![request[q].inv] = @ + 1]
          /\ \E v \in Outputs : request' = [request EXCEPT ![q].pc = "settling", ![q].output = v]
    /\ UNCHANGED <<receipts, quota>>

(* settleMcpToolInvocation replaces what is too large for a row. *)
Wire(v) == IF v = "huge" THEN "unknown" ELSE v
StatusOf(q) == IF request[q].pc = "settling" /\ request[q].output # "huge" THEN "completed"
               ELSE "indeterminate"
Settling == {"settling", "fallback", "resettling", "refallback"}
Owns(q) == Mine(q).status = "executing" /\ Mine(q).owner = q

(* Mutant: the owner's result is told although another one is recorded. *)
MutantTold(q) == Wire(request[q].output)
Told(q) == Mine(q).result

Settle(q) ==
    /\ request[q].pc \in Settling
    /\ LET v == Wire(request[q].output)
       IN  \/ /\ Owns(q) /\ Fits(v)
              /\ Record(request[q].inv, StatusOf(q), v)
              /\ Answer(q, v)
           \/ /\ Owns(q) /\ ~Fits(v)
              /\ request' = [request EXCEPT ![q].output = "unknown", ![q].pc =
                               CASE @ = "settling" -> "fallback" [] @ = "fallback" -> "resettling"
                                 [] @ = "resettling" -> "refallback" [] OTHER -> "done"]
              /\ UNCHANGED <<receipts, quota>>
           \/ ~Owns(q) /\ Answer(q, Told(q)) /\ UNCHANGED <<receipts, quota>>
    /\ UNCHANGED effects

(* A settlement fails at the connection, before or after it committed.  The
   handler settles once more as indeterminate, then gives up. *)
SettleFails(q) ==
    /\ request[q].pc \in Settling
    /\ \/ UNCHANGED <<receipts, quota>>
       \/ LET v == Wire(request[q].output)
          IN  Owns(q) /\ Fits(v) /\ Record(request[q].inv, StatusOf(q), v)
    /\ IF request[q].pc \in {"settling", "fallback"}
       THEN request' = [request EXCEPT ![q].pc = "resettling", ![q].output = "unknown"]
       ELSE Answer(q, "unknown")
    /\ UNCHANGED effects

------------------------------------------------------------------------------
LeaseExpires(i) ==
    /\ receipts[i].status = "executing" /\ receipts[i].live
    /\ receipts' = [receipts EXCEPT ![i].live = FALSE]
    /\ UNCHANGED <<quota, request, effects>>

MinutePasses ==
    /\ ~quota.old
    /\ quota' = [quota EXCEPT !.old = TRUE]
    /\ UNCHANGED <<receipts, request, effects>>

ReplayStep(q) == Poll(q) \/ WaitEnds(q) \/ Recover(q) \/ SettleRecovered(q) \/ Reload(q) \/ Quarantine(q)
                 \/ QuarantineFails(q)
OwnerStep(q) == Run(q) \/ Settle(q) \/ SettleFails(q)
AdmissionStep(q) ==
    \E i \in Invocations, input \in Inputs :
        \/ Admit(q, i, input) \/ AdmitLost(q, i, input)
        \/ AdmitRejected(q, i, input) \/ AdmitReplay(q, i, input)

Next ==
    \/ \E q \in Requests : AdmissionStep(q) \/ ReplayStep(q) \/ OwnerStep(q)
    \/ \E i \in Invocations : LeaseExpires(i)
    \/ MinutePasses

Spec == Init /\ [][Next]_vars

------------------------------------------------------------------------------
(* Type invariant. *)
TypeOK ==
    /\ receipts \in [Invocations -> Receipt]
    /\ quota \in Quota
    /\ request \in [Requests -> Request]
    /\ effects \in [Invocations -> Nat]

(* However often a provider repeats a tool call, in whatever order its copies are
   admitted, wait, take over an expired receipt or settle, the tool behind it
   takes effect at most once. *)
AtMostOneEffect == \A i \in Invocations : effects[i] <= 1

(* A definite result that any request was told, the owner's own included, is the
   recorded one and was asked for with the same input: a slow owner whose receipt
   was quarantined does not tell its own result. *)
ToldIsRecorded ==
    \A q \in Requests : request[q].answer \in {"ok", "large", "error"} =>
        LET r == receipts[request[q].inv]
        IN  r.status = "completed" /\ r.result = request[q].answer /\ r.input = request[q].input

(* A success is recorded, by the owner or by a recovery, only of a tool that took effect. *)
SuccessIsReal ==
    \A i \in Invocations : receipts[i].result \in {"ok", "large"} => effects[i] > 0

(* The sums the quota row keeps. *)
Charged(i) == CASE receipts[i].status = "none" -> 0
                [] receipts[i].status = "executing" -> Reserve
                [] OTHER -> Size(receipts[i].result)
Kept == {i \in Invocations : receipts[i].status # "none"}

(* The call's quota row agrees with its receipts whichever request settled them,
   and stays within its limits. *)
QuotaMatches ==
    /\ quota.receipts = Cardinality(Kept)
    /\ quota.arguments = ArgumentBytes * Cardinality(Kept)
    /\ quota.results = MapThenSumSet(Charged, Invocations)
    /\ quota.receipts <= MaxReceipts
    /\ quota.arguments + quota.results <= MaxBytes

(* What was admitted can be settled: the replacement for a result that does not
   fit always fits, so that no receipt is stuck for want of quota. *)
AlwaysSettleable == \A i \in Invocations : receipts[i].status = "executing" => Fits("unknown")

(* The quota of migration 028: its row agrees with the receipts of the call and
   keeps the limits, and it always leaves room to settle what was admitted. *)
QuotaIsSound == QuotaMatches /\ AlwaysSettleable

KeepsTerminal == \A i \in Invocations : Terminal(i) => receipts'[i] = receipts[i]

(* A recorded outcome is never changed (the lifecycle trigger of migration 022),
   neither by a late owner nor by a request that took the receipt over. *)
TerminalIsFinal == [][KeepsTerminal]_vars

(* A replay that still waits when the lease has expired, of a call that is not a
   launch of a task, leaves the receipt settled or fails: it is not told "pending" for ever. *)
ExpiredIsSettled ==
    \A q \in Requests, i \in Invocations :
        (request[q].pc = "waiting" /\ request[q].inv = i /\ ~receipts[i].live)
            ~> \/ Terminal(i)
               \/ request[q].answer = "failed"
               \/ request[q].answer = "pending" /\ request[q].input \in Recoverable

(* How the receipts are read as work with a durable identity. *)
PhaseOf(i) == CASE receipts[i].status = "none" -> "new" [] Terminal(i) -> "recorded" [] OTHER -> "admitted"
OutcomeOf(i) == IF receipts[i].status \in {"none", "executing"} THEN "open"
                ELSE IF receipts[i].result \in {"ok", "large"} THEN "applied" ELSE "unknown"
Acted(i) == effects[i] > 0

Once == INSTANCE AtMostOnce WITH
    Ids <- Invocations,
    phase <- [i \in Invocations |-> PhaseOf(i)],
    outcome <- [i \in Invocations |-> OutcomeOf(i)],
    acted <- [i \in Invocations |-> Acted(i)]
OnceStarts == Once!OnceInit
OnceSteps == [Once!OnceNext]_(Once!onceVars)

(* The receipts implement the abstract promise: admitted before they act, acting
   once, an outcome recorded once and true. *)
ImplementsAtMostOnce == OnceStarts /\ [][OnceSteps]_vars
==============================================================================
