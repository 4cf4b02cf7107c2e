----------------------------- MODULE MCOperator -----------------------------
(***************************************************************************)
(* What the web application does for an operator: the flow of a call with  *)
(* its durable store, a turn of the operator's assistant, the actions it   *)
(* proposes and the sends they fund, one instance of one of them to a      *)
(* behaviour.                                                              *)
(*                                                                         *)
(* The variable part says which instance a behaviour is about; that        *)
(* instance takes its steps and every other component rests in its initial *)
(* state. The flow and its store take their constants from the             *)
(* configuration: the part "flow" is the pure state machine on a flow with *)
(* every construct, "store" the durable store on a flow with one step.     *)
(***************************************************************************)
EXTENDS FlowStateStore, TLC

CONSTANTS
  Parts,        \* the instances a run explores
  v1, v2

(***************************************************************************)
(* The flow of the pure state machine has nesting, a cycle, a failure path *)
(* into another topic and a fallback.  "pay" is call-scoped and authors    *)
(* the output of "order"; "look" is step-scoped and granted in the child   *)
(* only.                                                                   *)
(***************************************************************************)
MCNodes == {"work", "desk", "help"}
MCFallbacks == {"help"}
MCSteps == {"order", "order.check", "escalate"}
MCNodeOf == [s \in MCSteps |-> IF s = "escalate" THEN "desk" ELSE "work"]
MCAncestors == [s \in MCSteps |-> IF s = "order.check" THEN {"order"} ELSE {}]
\* The child returns to its parent on "no"; everything else ends the flow.
MCTransitions ==
    [s \in MCSteps |-> IF s = "order.check" THEN {[to |-> "order", when |-> {"no"}]} ELSE {}]
\* "order" is the target of the cycle, so it is an entry by its flag only.
MCEntryFlag == [s \in MCSteps |-> IF s = "order" THEN "true" ELSE "unset"]
MCOnFailure == [s \in MCSteps |-> IF s = "order" THEN "escalate" ELSE None]
MCMaxAttempts == [s \in MCSteps |-> IF s = "order" THEN 2 ELSE 1]
MCCheckpointed == {"order", "order.check"}
MCRequiresOutput == {"order", "order.check"}
MCBinding == [s \in MCSteps |-> IF s = "order" THEN "pay" ELSE None]
MCTools == {"pay", "look"}
MCNodeTools == [n \in MCNodes |-> {}]
MCStepTools == [s \in MCSteps |-> CASE s = "order" -> {"pay"}
                                    [] s = "order.check" -> {"look"}
                                    [] OTHER -> {}]
MCStepPolicy ==
    [s \in MCSteps |-> [t \in MCTools |->
        CASE s = "order" /\ t = "pay" -> [mode |-> "per_call_arguments", max |-> 2]
          [] s = "order.check" /\ t = "look" -> [mode |-> "per_step", max |-> 1]
          [] OTHER -> None]]
MCAlwaysPolicy == [t \in MCTools |-> None]

(* The state machine alone: nothing happens in the store. *)
PureNext == Next /\ UNCHANGED storeVars

(***************************************************************************)
(* The flow of the store: one topic with one step, "order", that may be    *)
(* retried once.  "pay" charges once per call; workers and reconcilers     *)
(* contend for it.                                                         *)
(***************************************************************************)
AtOrder(value) == [s \in {"order"} |-> value]
OfPay(value) == [t \in {"pay"} |-> value]
OrderNode == AtOrder("work")
NoAncestors == AtOrder({})
NoFlag == AtOrder("unset")
NoTransitions == AtOrder({})
NoFailurePath == AtOrder(None)
TwoAttempts == AtOrder(2)
BoundToPay == AtOrder("pay")
NoNodeTools == [n \in {"work"} |-> {}]
PayGranted == AtOrder({"pay"})
PayPerCall == AtOrder(OfPay([mode |-> "per_call", max |-> 0]))
NeverAlways == OfPay(None)

(* One proposal of a capability, shown in every tab; or one to each tab. *)
Every(S, x) == [s \in S |-> x]

Itself(S) == [s \in S |-> s]

(***************************************************************************)
(* What deployments charge, and what is asked of them: messages on either  *)
(* side of a segment, calls on either side of a minute.                    *)
(***************************************************************************)
Deployment(account, unit, margin, cap, ttl, duration) ==
  [account |-> account, unit |-> unit, margin |-> margin, cap |-> cap,
   ttl |-> ttl, duration |-> duration]

Usd(whole, fraction) == [whole |-> whole, fraction |-> fraction]

Usual ==
  Deployment("k1", Usd(0, <<5>>), Usd(0, <<1>>), Usd(9, <<>>), 1, 120)

Dearer == [Usual EXCEPT !.unit = Usd(0, <<7>>), !.margin = Usd(0, <<>>)]

Others ==
  {[Usual EXCEPT !.account = "k2", !.ttl = 2, !.duration = 60],
   [Usual EXCEPT !.unit = Usd(0, <<4>>), !.margin = Usd(0, <<1, 5>>)],
   [Usual EXCEPT !.unit = Usd(0, <<4>>), !.margin = Usd(0, <<0, 5>>),
                 !.cap = Usd(1, <<5>>), !.duration = 61],
   [Usual EXCEPT !.unit = Usd(99, <<4>>), !.cap = Usd(1, <<5>>)]}

Message(basic, extended, other, astral) ==
  [kind |-> "sms_segment", seconds |-> 1, targets |-> 1,
   message |-> [basic |-> basic, extended |-> extended, other |-> other,
                astral |-> astral]]

Email == [Message(1, 0, 0, 0) EXCEPT !.kind = "email_send"]

Voice(seconds, targets) ==
  [Message(0, 0, 0, 0) EXCEPT !.kind = "voice_minute", !.seconds = seconds,
                              !.targets = targets]

EdgeMessages ==
  <<Message(304, 1, 0, 0), Message(60, 1, 3, 2), Message(305, 1, 0, 0),
    Message(66, 0, 2, 3)>>

(* The calls a sample of the assistant may ask for. *)
Pairs(kinds) ==
  {<<>>} \cup {<<k>> : k \in kinds} \cup {<<j, k>> : j \in kinds, k \in kinds}

VARIABLES
  part,        \* the instance this behaviour is about
  actionClock, may, approval, execution, effect, agent, handler, cardReader,
  card, chat,
  sendClock, env, quote, claimed, sentMessage, charge, worker, receipts,
  sendReader, store,
  turnClock, aborted, pc, round, batch, nextCall, turnStop, reserved, nested,
  due, fetched, ran, unanswered, shownTurn

actionsVars == <<actionClock, may, approval, execution, effect, agent,
  handler, cardReader, card, chat>>
sendsVars == <<sendClock, env, quote, claimed, sentMessage, charge, worker,
  receipts, sendReader, store>>
turnVars == <<turnClock, aborted, pc, round, batch, nextCall, turnStop,
  reserved, nested, due, fetched, ran, unanswered, shownTurn>>

all == <<part, allVars, actionsVars, sendsVars, turnVars>>

CampaignAction == INSTANCE OperatorActions WITH
  Proposals <- {"p"}, Tabs <- {"t1"}, Shows <- Every({"t1"}, "p"),
  Capability <- Every({"p"}, "run_campaign"), Units <- Every({"p"}, 2),
  Targets <- Every({"p"}, 2), Limit <- 2, MaxPerHour <- 2, Hour <- 1,
  Lifetime <- 1, Day <- 2, Horizon <- 2, MaxReads <- 2, Faults <- TRUE,
  Revocable <- TRUE, clock <- actionClock, reader <- cardReader

CallAction == INSTANCE OperatorActions WITH
  Proposals <- {"p"}, Tabs <- {v1, v2}, Shows <- Every({v1, v2}, "p"),
  Capability <- Every({"p"}, "place_call"), Units <- Every({"p"}, 1),
  Targets <- Every({"p"}, 0), Limit <- 1, MaxPerHour <- 2, Hour <- 1,
  Lifetime <- 1, Day <- 2, Horizon <- 1, MaxReads <- 1, Faults <- FALSE,
  Revocable <- FALSE, clock <- actionClock, reader <- cardReader

FailingCallAction == INSTANCE OperatorActions WITH
  Proposals <- {"p"}, Tabs <- {v1, v2}, Shows <- Every({v1, v2}, "p"),
  Capability <- Every({"p"}, "place_call"), Units <- Every({"p"}, 1),
  Targets <- Every({"p"}, 0), Limit <- 1, MaxPerHour <- 2, Hour <- 1,
  Lifetime <- 1, Day <- 2, Horizon <- 1, MaxReads <- 1, Faults <- TRUE,
  Revocable <- FALSE, clock <- actionClock, reader <- cardReader

ScheduleAction == INSTANCE OperatorActions WITH
  Proposals <- {"p"}, Tabs <- {v1, v2}, Shows <- Every({v1, v2}, "p"),
  Capability <- Every({"p"}, "schedule_call"), Units <- Every({"p"}, 1),
  Targets <- Every({"p"}, 0), Limit <- 1, MaxPerHour <- 2, Hour <- 1,
  Lifetime <- 1, Day <- 2, Horizon <- 2, MaxReads <- 1, Faults <- FALSE,
  Revocable <- FALSE, clock <- actionClock, reader <- cardReader

CampaignActions == INSTANCE OperatorActions WITH
  Proposals <- {"p"}, Tabs <- {v1, v2}, Shows <- Every({v1, v2}, "p"),
  Capability <- Every({"p"}, "run_campaign"), Units <- Every({"p"}, 2),
  Targets <- Every({"p"}, 2), Limit <- 2, MaxPerHour <- 2, Hour <- 1,
  Lifetime <- 1, Day <- 2, Horizon <- 1, MaxReads <- 1, Faults <- FALSE,
  Revocable <- FALSE, clock <- actionClock, reader <- cardReader

NumberActions == INSTANCE OperatorActions WITH
  Proposals <- {v1, v2}, Tabs <- {v1, v2}, Shows <- Itself({v1, v2}),
  Capability <- Every({v1, v2}, "provision_phone_number"),
  Units <- Every({v1, v2}, 1), Targets <- Every({v1, v2}, 0), Limit <- 2,
  MaxPerHour <- 2, Hour <- 1, Lifetime <- 1, Day <- 2, Horizon <- 1,
  MaxReads <- 1, Faults <- FALSE, Revocable <- FALSE, clock <- actionClock,
  reader <- cardReader

QuotaActions == INSTANCE OperatorActions WITH
  Proposals <- {"v1", "v2"}, Tabs <- {"v1", "v2"},
  Shows <- Itself({"v1", "v2"}), Capability <- Every({"v1", "v2"}, "send"),
  Units <- [p \in {"v1", "v2"} |-> IF p = "v1" THEN 1 ELSE 2],
  Targets <- Every({"v1", "v2"}, 0), Limit <- 2, MaxPerHour <- 2,
  Hour <- 1, Lifetime <- 1, Day <- 1, Horizon <- 2, MaxReads <- 1,
  Faults <- FALSE, Revocable <- FALSE, clock <- actionClock,
  reader <- cardReader

EdgeSends == INSTANCE FundedSends WITH
  Approvals <- 1 .. 4, Request <- EdgeMessages, Workers <- {"w"},
  Readers <- {}, Configurations <- {Usual},
  Contract <- "authoritative-read", FractionDigits <- 2, MaxSafe <- 2000,
  Horizon <- 1, clock <- sendClock, message <- sentMessage,
  reader <- sendReader

VoiceSends == INSTANCE FundedSends WITH
  Approvals <- 1 .. 2, Request <- <<Voice(61, 2), Voice(60, 1)>>,
  Workers <- {}, Readers <- {},
  Configurations <- {Usual, Dearer} \cup Others,
  Contract <- "verified-webhook-and-authoritative-read",
  FractionDigits <- 2, MaxSafe <- 2000, Horizon <- 2, clock <- sendClock,
  message <- sentMessage, reader <- sendReader

ContendedSends == INSTANCE FundedSends WITH
  Approvals <- 1 .. 2, Request <- <<Message(159, 1, 0, 0), Email>>,
  Workers <- {v1, v2}, Readers <- {"i"}, Configurations <- {Usual, Dearer},
  Contract <- "verified-webhook-and-authoritative-read",
  FractionDigits <- 2, MaxSafe <- 2000, Horizon <- 1, clock <- sendClock,
  message <- sentMessage, reader <- sendReader

ShortTurn == INSTANCE OperatorTurn WITH
  MaxProviderRequests <- 3, MaxBuilderRequests <- 2,
  MaxResearchRequests <- 2, MaxToolCalls <- 2,
  MaxReservedOutputTokens <- 9, BuilderTokens <- 2, ResearchTokens <- 1,
  RequestTimeout <- 2, OperationTimeout <- 3,
  Batches <- {<<>>, <<"funded">>, <<"plain">>, <<"research", "research">>},
  Horizon <- 3, clock <- turnClock, next <- nextCall, stop <- turnStop,
  shown <- shownTurn

Turn == INSTANCE OperatorTurn WITH
  MaxProviderRequests <- 3, MaxBuilderRequests <- 2,
  MaxResearchRequests <- 2, MaxToolCalls <- 3,
  MaxReservedOutputTokens <- 6, BuilderTokens <- 2, ResearchTokens <- 1,
  RequestTimeout <- 2, OperationTimeout <- 3,
  Batches <- Pairs({"plain", "research", "funded"})
             \cup {<<"plain", "research", "research">>},
  Horizon <- 4, clock <- turnClock, next <- nextCall, stop <- turnStop,
  shown <- shownTurn

ASSUME InstancesAreSound ==
  /\ CampaignAction!ActionsAssumption
  /\ CallAction!ActionsAssumption
  /\ FailingCallAction!ActionsAssumption
  /\ ScheduleAction!ActionsAssumption
  /\ CampaignActions!ActionsAssumption
  /\ NumberActions!ActionsAssumption
  /\ QuotaActions!ActionsAssumption
  /\ EdgeSends!SendsAssumption
  /\ VoiceSends!SendsAssumption
  /\ ContendedSends!SendsAssumption
  /\ ShortTurn!TurnAssumption
  /\ Turn!TurnAssumption

(***************************************************************************)
(* A component that is not the subject of a behaviour rests in its initial *)
(* state.                                                                  *)
(***************************************************************************)
SystemInit ==
  /\ part \in Parts
  /\ StoreInit
  /\ \/ part = "actions call" /\ CallAction!Init
     \/ part = "actions call fails" /\ FailingCallAction!Init
     \/ part = "actions schedule" /\ ScheduleAction!Init
     \/ part = "actions campaign" /\ CampaignActions!Init
     \/ part = "actions number" /\ NumberActions!Init
     \/ part = "actions quota" /\ QuotaActions!Init
     \/ part \notin {"actions call", "actions call fails", "actions schedule", "actions campaign", "actions number", "actions quota"} /\ CampaignAction!Init
  /\ \/ part = "sends voice" /\ VoiceSends!Init
     \/ part = "sends" /\ ContendedSends!Init
     \/ part \notin {"sends voice", "sends"} /\ EdgeSends!Init
  /\ \/ part = "turn" /\ Turn!Init
     \/ part # "turn" /\ ShortTurn!Init

FlowMoves ==
  /\ \/ part = "flow" /\ PureNext
     \/ part = "store" /\ StoreNext
  /\ UNCHANGED <<part, actionsVars, sendsVars, turnVars>>

ActionsMoves ==
  /\ \/ part = "actions end" /\ CampaignAction!Next
     \/ part = "actions call" /\ CallAction!Next
     \/ part = "actions call fails" /\ FailingCallAction!Next
     \/ part = "actions schedule" /\ ScheduleAction!Next
     \/ part = "actions campaign" /\ CampaignActions!Next
     \/ part = "actions number" /\ NumberActions!Next
     \/ part = "actions quota" /\ QuotaActions!Next
  /\ UNCHANGED <<part, allVars, sendsVars, turnVars>>

SendsMoves ==
  /\ \/ part = "sends messages" /\ EdgeSends!Next
     \/ part = "sends voice" /\ VoiceSends!Next
     \/ part = "sends" /\ ContendedSends!Next
  /\ UNCHANGED <<part, allVars, actionsVars, turnVars>>

TurnMoves ==
  /\ \/ part = "turn ends" /\ ShortTurn!Next
     \/ part = "turn" /\ Turn!Next
  /\ UNCHANGED <<part, allVars, actionsVars, sendsVars>>

SystemNext ==
  \/ FlowMoves
  \/ ActionsMoves
  \/ SendsMoves
  \/ TurnMoves

SystemSpec == SystemInit /\ [][SystemNext]_all

(***************************************************************************)
(* Time passes, and the gateway keeps being asked for the flow state,      *)
(* which recovers stale receipts first; no worker of the store has to take *)
(* a step. A handler of a confirmed action goes on until it dies, the      *)
(* browser's reads are answered or lost, and the scheduler sweeps. Every   *)
(* await of the assistant's loop settles, a request by its timer at the    *)
(* latest.                                                                 *)
(***************************************************************************)
SystemLiveSpec ==
  /\ SystemSpec
  /\ \A r \in Receipts :
       WF_allVars(part = "store" /\ DispatchLeaseExpires(r))
  /\ WF_allVars(part = "store" /\ RecoverStaleFlowActionsAtomic)
  /\ WF_actionsVars(part = "actions end" /\ CampaignAction!HandlerStep("t1"))
  /\ WF_actionsVars(/\ part = "actions end"
                    /\ \/ CampaignAction!Read("t1")
                       \/ CampaignAction!ReadPublishes("t1"))
  /\ WF_actionsVars(part = "actions end" /\ CampaignAction!Sweep)
  /\ WF_turnVars(part = "turn ends" /\ ShortTurn!Step)

-----------------------------------------------------------------------------
(***************************************************************************)
(* What an operator's assistant may spend, and what the operator is told   *)
(* of it. A confirmed action crosses to its provider once at most, within  *)
(* its quota, and what its card, its receipt and the thread say of it is   *)
(* true although two tabs confirm it, statements fail and handlers die     *)
(* (OperatorActions). A send is one that was quoted, approved and claimed, *)
(* costs no more than the quote, and what its receipts and its terminal    *)
(* state say is what the provider did (FundedSends). A turn stays within   *)
(* its budget, ends with the action it proposes, answers every call of the *)
(* model and shows nothing late (OperatorTurn).                            *)
(***************************************************************************)
ActionsAreSound ==
  /\ part = "actions call" =>
          /\ CallAction!TypeOK
          /\ CallAction!AtMostOneCrossing
          /\ CallAction!ReportsAreTrue
          /\ CallAction!RejectedIsFinal
  /\ part = "actions call fails" =>
          /\ FailingCallAction!AtMostOneCrossing
          /\ FailingCallAction!ReportsAreTrue
  /\ part = "actions schedule" =>
          /\ ScheduleAction!AtMostOneCrossing
          /\ ScheduleAction!ReportsAreTrue
          /\ ScheduleAction!RejectedIsFinal
  /\ part = "actions campaign" =>
          /\ CampaignActions!AtMostOneCrossing
          /\ CampaignActions!ReportsAreTrue
          /\ CampaignActions!RejectedIsFinal
          /\ CampaignActions!DisplayIsShort
  /\ part = "actions number" =>
          /\ NumberActions!AtMostOneCrossing
          /\ NumberActions!ReportsAreTrue
          /\ NumberActions!RejectedIsFinal
          /\ NumberActions!OneNumber
  /\ part = "actions quota" =>
          /\ QuotaActions!AtMostOneCrossing
          /\ QuotaActions!QuotaHolds
  /\ part = "sends messages" => EdgeSends!SendsAreFunded
  /\ part = "sends voice" =>
          /\ VoiceSends!TypeOK
          /\ VoiceSends!SendsAreFunded
  /\ part = "sends" =>
          /\ ContendedSends!SendsAreFunded
          /\ ContendedSends!ReceiptsAreTrue
          /\ ContendedSends!TerminalsAreTrue
  /\ part = "turn" =>
          /\ Turn!TypeOK
          /\ Turn!TurnStaysInBudget
          /\ Turn!ProposalEndsTurn
          /\ Turn!LateResultsAreHidden
          /\ Turn!CallsAreAnswered


Symmetry == Permutations({v1, v2})
=============================================================================
