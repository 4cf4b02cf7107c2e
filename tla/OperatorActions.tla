--------------------------- MODULE OperatorActions ---------------------------
(***************************************************************************)
(* The funded actions of an operator, from the proposal of the model to    *)
(* the receipt the operator reads.  A proposal is shown on the card of a   *)
(* browser tab; confirming it sends one POST, whose handler approves the   *)
(* proposal, reserves an execution, marks it as dispatching, dispatches    *)
(* the action, settles the execution and publishes the receipt.  Every one *)
(* of these is a transaction or a call of its own: two tabs may be at it   *)
(* for one proposal, the provider may not answer, a status callback may    *)
(* come between, a statement may fail with its effect committed, and the   *)
(* handler may die.  A card without an answer reads the execution with     *)
(* PUT requests, a few times.                                              *)
(*                                                                         *)
(* The dispatch of a call is one step here: OutboundDispatch and           *)
(* CallStatus have its inside.                                             *)
(***************************************************************************)
EXTENDS Integers, FiniteSets, FiniteSetsExt

CONSTANTS
  Proposals,
  Tabs,
  Shows,          \* the proposal whose card a tab shows
  Capability,     \* the capability of a proposal
  Units,          \* its estimated units
  Targets,        \* the targets of a campaign
  Limit,          \* daily_action_limit of the policy
  MaxPerHour,     \* MAX_PENDING_PROPOSALS_PER_HOUR
  Hour, Lifetime, Day,   \* the three periods, in ticks of the clock
  Horizon,        \* the last tick
  MaxReads,       \* the PUT requests of a card
  Faults,         \* whether statements fail and handlers die
  Revocable       \* whether sessions end and roles or policies change

Capabilities ==
  {"send", "place_call", "schedule_call", "provision_phone_number",
   "run_campaign"}

ActionsAssumption ==
  /\ Shows \in [Tabs -> Proposals]
  /\ Capability \in [Proposals -> Capabilities]
  /\ Units \in [Proposals -> Nat \ {0}]
  /\ Targets \in [Proposals -> Nat]
  /\ {Limit, MaxPerHour, Hour, Lifetime, Day, Horizon} \subseteq Nat
  /\ MaxReads \in Nat \ {0}
  /\ {Faults, Revocable} \subseteq BOOLEAN

VARIABLES
  clock,
  may,         \* whether the session lives, and the role and policy allow
  approval,    \* operator_action_approvals
  execution,   \* operator_action_executions
  effect,      \* what became of the action outside
  agent,       \* the number column of the agent, and who reserved it
  handler,     \* the POST handler a tab started
  reader,      \* the PUT handler a tab started
  card,        \* OperatorActionApprovalCard
  chat         \* the system message of an execution in the thread

vars == <<clock, may, approval, execution, effect, agent, handler, reader,
          card, chat>>

(* What a settled execution holds, and what is published of it. *)
Results == {"rejected", "accepted", "delivered", "terminal_failure", "provisioned"}

PublicReceipts == Results \cup {"indeterminate"}

NoToken == "no token"

Free == "free"

Owned == "owned"

TERMINAL_STATUSES == {"accepted", "delivered", "succeeded", "rejected", "indeterminate"}

(* browserReceiptFromSucceededResult: the status a result is shown with. *)
StatusOf(result) ==
  CASE result \in {"rejected", "terminal_failure"} -> "rejected"
    [] result = "provisioned" -> "succeeded"
    [] OTHER -> result

Init ==
  /\ clock = 0
  /\ may = [session |-> TRUE, granted |-> TRUE]
  /\ approval = [p \in Proposals |->
       [made |-> FALSE, at |-> 0, token |-> NoToken, consumed |-> FALSE,
        display |-> FALSE]]
  /\ execution = [p \in Proposals |->
       [status |-> "none", at |-> 0, result |-> "none", receipt |-> "none"]]
  /\ effect = [p \in Proposals |-> [crossed |-> 0, truth |-> "none", known |-> FALSE]]
  /\ agent = Free
  /\ handler = [t \in Tabs |-> [pc |-> "idle", value |-> "none"]]
  /\ reader = [t \in Tabs |-> "idle"]
  /\ card = [t \in Tabs |-> [status |-> "absent", reads |-> 0, display |-> "loading"]]
  /\ chat = [p \in Proposals |-> "none"]

Expired(p) == approval[p].at + Lifetime <= clock

Scrubbed ==
  [p \in Proposals |->
     [approval[p] EXCEPT !.display = @ /\ ~ (approval[p].made /\ Expired(p))]]

(* proposeOperatorAction: the limit spans capabilities, under one lock. *)
Recent == {p \in Proposals : approval[p].made /\ approval[p].at >= clock - Hour}

Propose(p) ==
  /\ ~ approval[p].made /\ may.granted
  /\ Cardinality(Recent) < MaxPerHour
  /\ approval' = [Scrubbed EXCEPT
       ![p].made = TRUE, ![p].at = clock,
       ![p].display = Capability[p] = "run_campaign"]
  /\ card' = [t \in Tabs |->
       IF Shows[t] = p THEN [card[t] EXCEPT !.status = "pending"] ELSE card[t]]
  /\ UNCHANGED <<clock, may, execution, effect, agent, handler, reader, chat>>

(***************************************************************************)
(* The card.                                                               *)
(***************************************************************************)
(* The display route hands out the targets of a campaign for review. *)
Displays(p) ==
  /\ may.session /\ may.granted
  /\ approval[p].token = NoToken /\ ~ approval[p].consumed /\ ~ Expired(p)
  /\ approval[p].display /\ Units[p] = Targets[p]

LoadDisplay(t) ==
  /\ Capability[Shows[t]] = "run_campaign"
  /\ card[t].status = "pending" /\ card[t].display = "loading"
  /\ card' = [card EXCEPT ![t].display =
       IF Displays(Shows[t]) THEN "ready" ELSE "unavailable"]
  /\ UNCHANGED <<clock, may, approval, execution, effect, agent, handler,
                 reader, chat>>

(***************************************************************************)
(* approve: one POST.  Whether a proposal has expired the card decides by  *)
(* the clock of the browser, which is not the clock here.                  *)
(***************************************************************************)
Confirm(t) ==
  /\ card[t].status = "pending"
  /\ Capability[Shows[t]] = "run_campaign" => card[t].display = "ready"
  /\ card' = [card EXCEPT ![t].status = "approving"]
  /\ handler' = [handler EXCEPT ![t].pc = "approve"]
  /\ UNCHANGED <<clock, may, approval, execution, effect, agent, reader, chat>>

(* The answer to the POST, if the card still waits for it. *)
AfterPost(c, answer) ==
  IF c.status # "approving" \/ c.reads > 0 THEN c
  ELSE IF answer = "ambiguous" THEN [c EXCEPT !.reads = 1]
  ELSE [c EXCEPT !.status = answer]

Answers(t, answer) ==
  /\ handler' = [handler EXCEPT ![t] = [pc |-> "done", value |-> "none"]]
  /\ \E heard \in {answer, "ambiguous"} :
       card' = [card EXCEPT ![t] = AfterPost(@, heard)]

(* reconcileOperatorActionStatus: the answer to a PUT. *)
AfterPut(c, answer) ==
  IF c.status # "approving" THEN c
  ELSE IF answer # "again" THEN [c EXCEPT !.status = answer]
  ELSE IF c.reads = MaxReads THEN [c EXCEPT !.status = "indeterminate"]
  ELSE [c EXCEPT !.reads = @ + 1]

(* The connection of the POST breaks while its handler goes on. *)
ConnectionLost(t) ==
  /\ card[t].status = "approving" /\ card[t].reads = 0
  /\ card' = [card EXCEPT ![t].reads = 1]
  /\ UNCHANGED <<clock, may, approval, execution, effect, agent, handler,
                 reader, chat>>

(* The card is unmounted: it publishes nothing any more. *)
Leave(t) ==
  /\ card[t].status \in {"pending", "approving"}
  /\ card' = [card EXCEPT ![t].status = "left"]
  /\ UNCHANGED <<clock, may, approval, execution, effect, agent, handler,
                 reader, chat>>

(***************************************************************************)
(* The POST handler.                                                       *)
(***************************************************************************)
At(t, pc) == handler[t].pc = pc

Goes(t, pc, value) ==
  /\ handler' = [handler EXCEPT ![t] = [pc |-> pc, value |-> value]]
  /\ UNCHANGED card

(* A statement is done, or fails: without its effect or after its commit. *)
Fails(effects, rest) == Faults /\ (effects \/ rest)

IssueToken(t) == approval' = [approval EXCEPT ![Shows[t]].token = t]

(***************************************************************************)
(* approveOperatorActionProposal.  An execution that has settled is        *)
(* replayed, any other is not touched; else the token is issued once.      *)
(***************************************************************************)
MayReplay(p) == execution[p].status = "succeeded"

MayIssue(p) ==
  execution[p].status = "none" /\ ~ Expired(p) /\ approval[p].token = NoToken

Approve(t) ==
  LET p == Shows[t]
  IN  /\ At(t, "approve")
      /\ \/ /\ ~ (may.session /\ may.granted)
            /\ Answers(t, "rejected") /\ UNCHANGED approval
         \/ /\ may.session /\ may.granted /\ MayReplay(p)
            /\ Goes(t, "reserve", "replay") /\ UNCHANGED approval
         \/ /\ may.session /\ may.granted /\ MayIssue(p)
            /\ Goes(t, "reserve", "token") /\ IssueToken(t)
         \/ /\ may.session /\ may.granted /\ ~ MayReplay(p) /\ ~ MayIssue(p)
            /\ Answers(t, IF execution[p].status = "none" /\ Expired(p)
                            THEN "rejected" ELSE "ambiguous")
            /\ UNCHANGED approval
         \/ /\ Fails(MayIssue(p) /\ IssueToken(t), UNCHANGED approval)
            /\ \E answer \in {"rejected", "ambiguous"} : Answers(t, answer)
      /\ UNCHANGED <<clock, may, execution, effect, agent, reader, chat>>

(***************************************************************************)
(* The dispatcher of the capability parses the arguments and makes the     *)
(* quote anew, which may throw; then reserveAction.  What a capability     *)
(* spends in a day is limited in the same way as its units.                *)
(***************************************************************************)
UnitsSince(time, q) ==
  LET counted == {p \in Proposals :
                    /\ execution[p].status # "none" /\ execution[p].at >= time
                    /\ Capability[p] = Capability[q]}
  IN  MapThenSumSet(LAMBDA p : Units[p], counted)

(* The reservation forgets that the approval may have expired since. *)
MutantMayReserve(t, p) ==
  /\ handler[t].value = "token"
  /\ UnitsSince(clock - Day, p) + Units[p] <= Limit
  /\ approval[p].token = t /\ ~ approval[p].consumed

MayReserve(t, p) ==
  /\ handler[t].value = "token"
  /\ UnitsSince(clock - Day, p) + Units[p] <= Limit
  /\ approval[p].token = t /\ ~ approval[p].consumed /\ ~ Expired(p)

TakeReservation(p) ==
  /\ execution' = [execution EXCEPT ![p].status = "reserved", ![p].at = clock]
  /\ approval' = [approval EXCEPT ![p].consumed = TRUE, ![p].display = FALSE]

Reserve(t) ==
  LET p == Shows[t]
      fresh == may.granted /\ execution[p].status = "none" /\ MayReserve(t, p)
  IN  /\ At(t, "reserve")
      /\ \/ Answers(t, "ambiguous") /\ UNCHANGED <<approval, execution>>
         \/ /\ ~ may.granted \/ execution[p].status = "none"
            /\ ~ fresh
            /\ Answers(t, "rejected") /\ UNCHANGED <<approval, execution>>
         \/ /\ may.granted /\ execution[p].status = "succeeded"
            /\ Goes(t, "persist", execution[p].result)
            /\ UNCHANGED <<approval, execution>>
         \/ /\ fresh /\ TakeReservation(p) /\ Goes(t, "mark", "none")
         \/ /\ Fails(fresh /\ TakeReservation(p), UNCHANGED <<approval, execution>>)
            /\ Answers(t, "rejected")
      /\ UNCHANGED <<clock, may, effect, agent, reader, chat>>

SetStatus(p, status) == execution' = [execution EXCEPT ![p].status = status]

(* markDispatching *)
Mark(t) ==
  LET p == Shows[t]
      marks == execution[p].status = "reserved" /\ SetStatus(p, "dispatching")
  IN  /\ At(t, "mark")
      /\ \/ marks /\ Goes(t, "dispatch", "none")
         \/ Fails(marks, UNCHANGED execution) /\ Answers(t, "ambiguous")
      /\ UNCHANGED <<clock, may, approval, effect, agent, reader, chat>>

(***************************************************************************)
(* dispatchApprovedOperatorAction.  The request crosses to the provider,   *)
(* or to the table of scheduled calls, which takes it or refuses it, and   *)
(* the handler is told or is not; or it never gets there.  What is told is *)
(* settled, and what is thrown is not known.                               *)
(***************************************************************************)
Crosses(p, truth, told) ==
  effect' = [effect EXCEPT
    ![p] = [crossed |-> @.crossed + (IF truth = "none" THEN 0 ELSE 1),
            truth |-> truth, known |-> told]]

Thrown == {"none", "refused", "accepted"}

Dispatches(t, capability, answered, thrown) ==
  /\ At(t, "dispatch") /\ Capability[Shows[t]] = capability
  /\ \/ \E truth \in answered :
          /\ Crosses(Shows[t], truth, TRUE)
          /\ Goes(t, "settle", IF truth = "accepted" THEN "accepted" ELSE "rejected")
     \/ \E truth \in thrown :
          Crosses(Shows[t], truth, FALSE) /\ Goes(t, "unsure", "none")
  /\ UNCHANGED <<clock, may, approval, execution, agent, reader, chat>>

(* Of an email or a message a refusal of the provider is thrown. *)
DispatchSend(t) == Dispatches(t, "send", {"none", "accepted"}, Thrown)

(***************************************************************************)
(* A call is rejected when its runtime has changed, its row is not made or *)
(* claimed, originateCall refuses or the provider does; it is not known    *)
(* when the request may have been sent, or when a row cannot be released.  *)
(***************************************************************************)
DispatchImmediateCall(t) ==
  Dispatches(t, "place_call", {"none", "refused", "accepted"}, Thrown)

(* The row of a scheduled call, and the rows of a campaign. *)
DispatchScheduledCall(t) ==
  Dispatches(t, "schedule_call", {"none", "accepted"}, {"none", "accepted"})

DispatchCampaign(t) ==
  Dispatches(t, "run_campaign", {"accepted"}, {"none", "accepted"})

(* dispatchNumberProvision: reserve the agent, buy, attach the number. *)
TakeAgent(t) ==
  LET p == Shows[t]
  IN  /\ At(t, "dispatch") /\ Capability[p] = "provision_phone_number"
      /\ \/ /\ agent = Free /\ agent' = p /\ Goes(t, "buy", "none")
         \/ /\ agent # Free /\ UNCHANGED agent /\ Goes(t, "settle", "rejected")
         \/ /\ Fails(agent = Free /\ agent' = p, UNCHANGED agent)
            /\ Goes(t, "unsure", "none")
      /\ UNCHANGED <<clock, may, approval, execution, effect, reader, chat>>

Buy(t) ==
  /\ At(t, "buy")
  /\ \E truth \in {"none", "refused", "accepted"}, told \in BOOLEAN :
       /\ Crosses(Shows[t], truth, told)
       /\ Goes(t, IF told /\ truth = "accepted" THEN "attach" ELSE "unsure", "none")
  /\ UNCHANGED <<clock, may, approval, execution, agent, reader, chat>>

Attach(t) ==
  LET attaches == agent = Shows[t] /\ agent' = Owned
  IN  /\ At(t, "attach")
      /\ \/ attaches /\ Goes(t, "settle", "provisioned")
         \/ Fails(attaches, UNCHANGED agent) /\ Goes(t, "unsure", "none")
      /\ UNCHANGED <<clock, may, approval, execution, effect, reader, chat>>

(***************************************************************************)
(* settleSucceeded.  For a call it takes over the receipt of the terminal  *)
(* callback, unless the callback commits after its snapshot.               *)
(***************************************************************************)
Merged(p, value) ==
  {value} \cup (IF value = "accepted" /\ Capability[p] = "place_call"
                  THEN {effect[p].truth} ELSE {})

Settle(t) ==
  LET p == Shows[t]
      settles ==
        /\ execution[p].status = "dispatching"
        /\ \E result \in Merged(p, handler[t].value) :
             execution' = [execution EXCEPT ![p].status = "succeeded",
                                            ![p].result = result]
  IN  /\ At(t, "settle")
      /\ \/ settles /\ Goes(t, "persist", handler[t].value)
         \/ Fails(settles, UNCHANGED execution) /\ Goes(t, "unsure", "none")
      /\ UNCHANGED <<clock, may, approval, effect, agent, reader, chat>>

(* settleIndeterminate: what it cannot write it leaves. *)
Unsure(t) ==
  LET p == Shows[t]
  IN  /\ At(t, "unsure")
      /\ \/ execution[p].status = "dispatching" /\ SetStatus(p, "indeterminate")
         \/ execution[p].status # "dispatching" /\ UNCHANGED execution
         \/ Faults /\ UNCHANGED execution
      /\ Goes(t, "persist", "indeterminate")
      /\ UNCHANGED <<clock, may, approval, effect, agent, reader, chat>>

(***************************************************************************)
(* persistCanonicalModelReceipt: the first receipt of a settled execution  *)
(* stays, and goes to the thread once.                                     *)
(***************************************************************************)
MayPublish(p, receipt) ==
  /\ execution[p].status \in {"succeeded", "indeterminate"}
  /\ execution[p].receipt \in {"none", receipt}

Publish(p, receipt) ==
  /\ MayPublish(p, receipt)
  /\ execution' = [execution EXCEPT ![p].receipt = receipt]
  /\ \/ chat' = [chat EXCEPT ![p] = IF @ = "none" THEN receipt ELSE @]
     \/ Faults /\ UNCHANGED chat

Persist(t) ==
  LET p == Shows[t]
      value == handler[t].value
  IN  /\ At(t, "persist")
      /\ \/ /\ Publish(p, value)
            /\ Answers(t, IF value = "indeterminate" THEN "ambiguous"
                            ELSE StatusOf(value))
         \/ /\ ~ MayPublish(p, value) \/ Faults
            /\ UNCHANGED <<execution, chat>> /\ Answers(t, "ambiguous")
      /\ UNCHANGED <<clock, may, approval, effect, agent, reader>>

(* The handler dies, at the latest after maxDuration. *)
Crash(t) ==
  /\ Faults /\ handler[t].pc \notin {"idle", "done"}
  /\ Answers(t, "ambiguous")
  /\ UNCHANGED <<clock, may, approval, execution, effect, agent, reader, chat>>

(***************************************************************************)
(* The PUT handler: a read of the execution, then its receipt.             *)
(***************************************************************************)
Hears(t, answer) ==
  /\ \E heard \in {answer, "again"} : card' = [card EXCEPT ![t] = AfterPut(@, heard)]
  /\ reader' = [reader EXCEPT ![t] = "idle"]

Read(t) ==
  LET e == execution[Shows[t]]
  IN  /\ card[t].status = "approving" /\ card[t].reads > 0 /\ reader[t] = "idle"
      /\ \/ ~ (may.session /\ may.granted) /\ Hears(t, "rejected")
         \/ /\ may.session /\ may.granted
            /\ e.status \notin {"succeeded", "indeterminate"} /\ Hears(t, "again")
         \/ /\ may.session /\ may.granted
            /\ e.status \in {"succeeded", "indeterminate"}
            /\ reader' = [reader EXCEPT ![t] =
                 IF e.status = "succeeded" THEN e.result ELSE "indeterminate"]
            /\ UNCHANGED card
      /\ UNCHANGED <<clock, may, approval, execution, effect, agent, handler, chat>>

ReadPublishes(t) ==
  LET p == Shows[t]
  IN  /\ reader[t] # "idle"
      /\ \/ Publish(p, reader[t]) /\ Hears(t, StatusOf(reader[t]))
         \/ /\ ~ MayPublish(p, reader[t]) \/ Faults
            /\ UNCHANGED <<execution, chat>> /\ Hears(t, "again")
      /\ UNCHANGED <<clock, may, approval, effect, agent, handler>>

(***************************************************************************)
(* The rest of the system.                                                 *)
(***************************************************************************)
(* The terminal status callback of a call whose identity is on its row. *)
Callback(p) ==
  /\ Capability[p] = "place_call"
  /\ effect[p].truth = "accepted" /\ effect[p].known
  /\ \E end \in {"delivered", "terminal_failure"} :
       /\ effect' = [effect EXCEPT ![p].truth = end]
       /\ execution' = [execution EXCEPT ![p].result =
            IF execution[p].status = "succeeded" /\ @ = "accepted" THEN end ELSE @]
  /\ UNCHANGED <<clock, may, approval, agent, handler, reader, card, chat>>

(* sweepExpiredOperatorPrivateDisplays, of the scheduler's every minute. *)
Sweep ==
  /\ approval' = Scrubbed
  /\ approval' # approval
  /\ UNCHANGED <<clock, may, execution, effect, agent, handler, reader, card, chat>>

(* A turn of runOperator sweeps, and republishes what the thread misses. *)
Turn ==
  /\ may.session
  /\ approval' = Scrubbed
  /\ chat' = [p \in Proposals |->
       IF chat[p] = "none" THEN execution[p].receipt ELSE chat[p]]
  /\ UNCHANGED <<clock, may, execution, effect, agent, handler, reader, card>>

ChangeAuthority ==
  /\ Revocable
  /\ may' \in [session : BOOLEAN, granted : BOOLEAN]
  /\ UNCHANGED <<clock, approval, execution, effect, agent, handler, reader,
                 card, chat>>

Tick ==
  /\ clock < Horizon
  /\ clock' = clock + 1
  /\ UNCHANGED <<may, approval, execution, effect, agent, handler, reader,
                 card, chat>>

HandlerStep(t) ==
  \/ Approve(t) \/ Reserve(t) \/ Mark(t)
  \/ DispatchSend(t) \/ DispatchImmediateCall(t)
  \/ DispatchScheduledCall(t) \/ DispatchCampaign(t)
  \/ TakeAgent(t) \/ Buy(t) \/ Attach(t)
  \/ Settle(t) \/ Unsure(t) \/ Persist(t)

Next ==
  \/ \E p \in Proposals : Propose(p) \/ Callback(p)
  \/ \E t \in Tabs :
       \/ LoadDisplay(t) \/ Confirm(t) \/ ConnectionLost(t) \/ Leave(t)
       \/ HandlerStep(t) \/ Crash(t) \/ Read(t) \/ ReadPublishes(t)
  \/ Sweep \/ Turn \/ ChangeAuthority \/ Tick

Spec == Init /\ [][Next]_vars

(***************************************************************************)
(* Handlers go on until they die, PUT requests are answered or lost, and   *)
(* the scheduler sweeps every minute.                                      *)
(***************************************************************************)
LiveSpec ==
  /\ Spec
  /\ \A t \in Tabs :
       /\ WF_vars(HandlerStep(t))
       /\ WF_vars(Read(t) \/ ReadPublishes(t))
  /\ WF_vars(Sweep)

-----------------------------------------------------------------------------
Truths == {"none", "refused", "accepted", "delivered", "terminal_failure"}

(* Every variable has its type. *)
TypeOK ==
  /\ clock \in 0 .. Horizon
  /\ may \in [session : BOOLEAN, granted : BOOLEAN]
  /\ approval \in [Proposals ->
       [made : BOOLEAN, at : 0 .. Horizon, token : Tabs \cup {NoToken},
        consumed : BOOLEAN, display : BOOLEAN]]
  /\ execution \in [Proposals ->
       [status : {"none", "reserved", "dispatching", "succeeded", "indeterminate"},
        at : 0 .. Horizon, result : Results \cup {"none"},
        receipt : PublicReceipts \cup {"none"}]]
  /\ effect \in [Proposals -> [crossed : Nat, truth : Truths, known : BOOLEAN]]
  /\ agent \in Proposals \cup {Free, Owned}
  /\ handler \in [Tabs ->
       [pc : {"idle", "approve", "reserve", "mark", "dispatch", "buy", "attach",
              "settle", "unsure", "persist", "done"},
        value : PublicReceipts \cup {"none", "token", "replay"}]]
  /\ reader \in [Tabs -> PublicReceipts \cup {"idle"}]
  /\ card \in [Tabs ->
       [status : TERMINAL_STATUSES \cup {"absent", "pending", "approving", "left"},
        reads : 0 .. MaxReads, display : {"loading", "ready", "unavailable"}]]
  /\ chat \in [Proposals -> PublicReceipts \cup {"none"}]

(* What a report says of an action, against what became of it outside. *)
Agrees(report, truth) ==
  CASE report \in {"rejected"} -> truth \in {"none", "refused"}
    [] report \in {"accepted", "provisioned", "succeeded"} ->
         truth \in {"accepted", "delivered", "terminal_failure"}
    [] report \in {"delivered", "terminal_failure"} -> truth = report
    [] OTHER -> TRUE

(***************************************************************************)
(* A proposal crosses to the provider at most once, however many tabs      *)
(* confirm it and wherever their handlers fail, and only when its own      *)
(* execution was reserved from an approval.                                *)
(***************************************************************************)
AtMostOneCrossing ==
  \A p \in Proposals :
    /\ effect[p].crossed <= 1
    /\ effect[p].crossed = 1 => approval[p].consumed

(***************************************************************************)
(* What is recorded and told is true: the result and the receipt of an     *)
(* execution, the message in the thread and the card name an outcome only  *)
(* if it is the one outside, else they say that it is not known; the       *)
(* thread has the receipt.  (A call that ended badly is shown as rejected.)*)
(***************************************************************************)
ReportsAreTrue ==
  /\ \A p \in Proposals :
       /\ \A report \in {execution[p].result, execution[p].receipt} :
            Agrees(report, effect[p].truth)
       /\ chat[p] \in {"none", execution[p].receipt}
  /\ \A t \in Tabs :
       card[t].status \in {"accepted", "delivered", "succeeded"} =>
         Agrees(card[t].status, effect[Shows[t]].truth)

(***************************************************************************)
(* A card that says rejected is right for good: nothing was and nothing    *)
(* will be done for its proposal, although another tab may hold the token  *)
(* of it.  The reservation looks at the expiry again, under the lock, so   *)
(* that an expired proposal cannot be dispatched after the refusal.  It    *)
(* takes sessions and rights that last, and statements that do not fail.   *)
(***************************************************************************)
RejectedIsFinal ==
  \A t \in Tabs :
    card[t].status = "rejected" =>
      effect[Shows[t]].truth \in {"none", "refused", "terminal_failure"}

(***************************************************************************)
(* The reservations of a capability within any period of a day stay within *)
(* the limit of its policy.                                                *)
(***************************************************************************)
QuotaHolds ==
  \A q \in Proposals, start \in 0 .. Horizon :
    LET within == {p \in Proposals :
                     /\ execution[p].status # "none"
                     /\ Capability[p] = Capability[q]
                     /\ execution[p].at \in start .. start + Day}
    IN  MapThenSumSet(LAMBDA p : Units[p], within) <= Limit

(***************************************************************************)
(* One agent gets one number: a purchase with an unknown outcome keeps the *)
(* agent reserved, so that no other proposal buys again.                   *)
(***************************************************************************)
OneNumber ==
  Cardinality({p \in Proposals :
                 /\ Capability[p] = "provision_phone_number"
                 /\ effect[p].crossed > 0}) <= 1

(* The private targets of a campaign are not kept once it is reserved. *)
DisplayIsShort ==
  \A p \in Proposals : approval[p].consumed => ~ approval[p].display

(***************************************************************************)
(* A confirmed card comes to a terminal status, or is left.                *)
(***************************************************************************)
CardsSettle ==
  \A t \in Tabs : card[t].status = "approving" ~> card[t].status # "approving"

(* The private targets of an expired proposal are swept. *)
DisplaysAreSwept ==
  \A p \in Proposals :
    approval[p].display /\ Expired(p) ~> ~ approval[p].display
=============================================================================
