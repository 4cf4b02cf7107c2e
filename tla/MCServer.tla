------------------------------ MODULE MCServer ------------------------------
(***************************************************************************)
(* The services of the web application: the receipts of tool invocations,  *)
(* the conversation log, the durable voice workers, the row of a call and  *)
(* the dispatch of outbound calls, side by side, one instance of one of    *)
(* them to a behaviour.                                                    *)
(*                                                                         *)
(* The variable part says which instance a behaviour is about; that        *)
(* instance takes its steps and every other component rests in its initial *)
(* state. Two instances of a component share its variables and differ in   *)
(* its constants.                                                          *)
(***************************************************************************)
EXTENDS McpInvocations, Sequences, TLC

CONSTANTS
  Parts,        \* the instances a run explores
  v1, v2, v3, v4

SharedWants == [o \in {"a", "b", "c"} |-> CASE o = "a" -> {"list"}
                                           [] o = "b" -> {"close"}
                                           [] o = "c" -> {"list", "call"}]

(***************************************************************************)
(* The events of the conversations: two goals, one fact, two workers.  In  *)
(* WorkerPlans two workers race for one place, and one result is delivered *)
(* twice while facts, policy and the goal change; in GoalPlans goals are   *)
(* replaced, suspended and resumed, and batches share an event.            *)
(***************************************************************************)
Deps(r) == [k \in {"k1"} |-> r]

Event(id, n, type) == [id |-> <<id, n>>, type |-> type]

Asserted == Event("assert", 1, "fact.asserted") @@ [key |-> "k1"]
Corrected == [type |-> "fact.corrected", key |-> "k1", revision |-> 2]
Advanced == Event("policy", 1, "policy.advanced") @@ [epoch |-> 1]
Spawned(w, n) ==
  Event("spawn", n, "worker.spawned")
    @@ [worker |-> w, goal |-> "g1", epoch |-> 0, deps |-> Deps(1)]
Delivered(n) ==
  Event("result", n, "worker.result_delivered")
    @@ [delivery |-> "d1", worker |-> "w1", goal |-> "g1", epoch |-> 0,
        deps |-> Deps(1)]
Finished ==
  Event("finish", 1, "worker.finished") @@ [worker |-> "w1", status |-> "failed"]
Stopped == Event("cancel", 1, "worker.cancelled") @@ [worker |-> "w2"]
OfGoal(n, type, goal) == Event("goal", n, type) @@ [goal |-> goal]
Opened ==
  Event("commit", 1, "commitment.opened") @@ [commitment |-> "c1", goal |-> "g1"]
Resolved == Event("commit", 2, "commitment.resolved") @@ [commitment |-> "c1"]
Advisory == Event("advisory", 1, "advisory.recorded")

WorkerPlans ==
  {<<Asserted, Spawned("w1", 1)>>, <<Corrected @@ [id |-> <<"correct", 1>>]>>,
   <<Advisory, Advanced>>, <<Spawned("w2", 2)>>, <<Delivered(1)>>,
   <<Delivered(2)>>, <<OfGoal(3, "goal.suspended", "g1")>>, <<Finished>>,
   <<Stopped>>}

GoalPlans ==
  LET activated == OfGoal(1, "goal.activated", "g2")
      completed == OfGoal(2, "goal.completed", "g2")
  IN  {<<activated>>, <<activated, completed>>,
       <<OfGoal(3, "goal.suspended", "g1")>>, <<OfGoal(4, "goal.resumed", "g1")>>,
       <<Opened, Resolved>>, <<Opened>>}

(* The durable workers start in a conversation with a goal and a fact. *)
HostEvents ==
  {Corrected, [type |-> "goal.suspended", goal |-> "g1"],
   [type |-> "goal.resumed", goal |-> "g1"]}

Kernel(workers, limit) == INSTANCE ConversationKernel WITH
  Goals <- {"g1"}, FactKeys <- {"k1"}, Commitments <- {}, Workers <- workers,
  Deliveries <- workers, MaxActiveWorkers <- limit

Opening(workers, limit) ==
  Kernel(workers, limit)!StateAt(
    <<[type |-> "goal.activated", goal |-> "g1"],
      [type |-> "fact.asserted", key |-> "k1"]>>, 2)

VARIABLES
  part,        \* the instance this behaviour is about
  log, kernel, flow, clients,
  conversation, head, at, jobs, inbox, runners, deliverers, inferences,
  row, leg, callbacks, emitted, copied, dispatcher, receipt, stream, ender,
  hangup,
  campaign, execution, book, launch, job, call, placed, dialer, work, crashes,
  session, handshakes, closes, ops, replies, server, registry, invocation

logVars == <<log, kernel, flow, clients>>
workersVars == <<conversation, head, at, jobs, inbox, runners, deliverers,
  inferences>>
callsVars == <<row, leg, callbacks, emitted, copied, dispatcher, receipt,
  stream, ender, hangup>>
outboundVars == <<campaign, execution, book, launch, job, call, placed,
  dialer, work, crashes>>
remoteVars == <<session, handshakes, closes, ops, replies, server, registry,
  invocation>>

all == <<part, vars, logVars, workersVars, callsVars, outboundVars,
  remoteVars>>

LogWorkers == INSTANCE ConversationLog WITH
  Goals <- {"g1", "g2"}, FactKeys <- {"k1"}, Commitments <- {"c1"},
  Workers <- {"w1", "w2"}, Deliveries <- {"d1"}, MaxActiveWorkers <- 1,
  Clients <- {v3, v4}, CallGoal <- "g1", Runtime <- "runtime",
  MaxAttempts <- 2, MaxLog <- 6, MaxRevision <- 1, Plans <- WorkerPlans

LogGoals == INSTANCE ConversationLog WITH
  Goals <- {"g1", "g2"}, FactKeys <- {"k1"}, Commitments <- {"c1"},
  Workers <- {"w1", "w2"}, Deliveries <- {"d1"}, MaxActiveWorkers <- 1,
  Clients <- {v3, v4}, CallGoal <- "g1", Runtime <- "runtime",
  MaxAttempts <- 2, MaxLog <- 4, MaxRevision <- 3, Plans <- GoalPlans

WorkersEnd == INSTANCE VoiceWorkers WITH
  Goals <- {"g1"}, FactKeys <- {"k1"}, Commitments <- {},
  Workers <- {"w1"}, Deliveries <- {"w1"}, MaxActiveWorkers <- 1,
  Runners <- {"r1", "r2"}, Deliverers <- {"d1"}, HostEvents <- HostEvents,
  Start <- Opening({"w1"}, 1), MaxExecutions <- 2, MaxDeliveries <- 2,
  MaxCancellations <- 1, MaxHead <- 2, kernel <- conversation

OneWorker == INSTANCE VoiceWorkers WITH
  Goals <- {"g1"}, FactKeys <- {"k1"}, Commitments <- {},
  Workers <- {"w1"}, Deliveries <- {"w1"}, MaxActiveWorkers <- 1,
  Runners <- {v1, v2}, Deliverers <- {v3, v4}, HostEvents <- HostEvents,
  Start <- Opening({"w1"}, 1), MaxExecutions <- 2, MaxDeliveries <- 2,
  MaxCancellations <- 1, MaxHead <- 4, kernel <- conversation

TwoWorkers == INSTANCE VoiceWorkers WITH
  Goals <- {"g1"}, FactKeys <- {"k1"}, Commitments <- {},
  Workers <- {"w1", "w2"}, Deliveries <- {"w1", "w2"},
  MaxActiveWorkers <- 2, Runners <- {v1}, Deliverers <- {v3, v4},
  HostEvents <- HostEvents, Start <- Opening({"w1", "w2"}, 2),
  MaxExecutions <- 1, MaxDeliveries <- 2, MaxCancellations <- 0,
  MaxHead <- 2, kernel <- conversation

CallSettles == INSTANCE CallStatus WITH
  SequenceForms <- {"numbered"}, Copies <- 0, Lossy <- FALSE,
  Inbound <- FALSE, execution <- receipt

Call == INSTANCE CallStatus WITH
  SequenceForms <- {"bare"}, Copies <- 0, Lossy <- TRUE, Inbound <- TRUE,
  execution <- receipt

RepeatedCall == INSTANCE CallStatus WITH
  SequenceForms <- {"numbered"}, Copies <- 1, Lossy <- TRUE,
  Inbound <- FALSE, execution <- receipt

CampaignEnds == INSTANCE OutboundDispatch WITH
  Jobs <- {"a"}, Kind <- [j \in {"a"} |-> "campaign"], Dialers <- {"d1"},
  MaxAttempts <- 3, MaxCrashes <- 1, SlowDialers <- FALSE

Campaign == INSTANCE OutboundDispatch WITH
  Jobs <- {v3, v4}, Kind <- [j \in {v3, v4} |-> "campaign"],
  Dialers <- {v1, v2}, MaxAttempts <- 1, MaxCrashes <- 0,
  SlowDialers <- TRUE

RetriedCampaign == INSTANCE OutboundDispatch WITH
  Jobs <- {"a"}, Kind <- [j \in {"a"} |-> "campaign"], Dialers <- {v1, v2},
  MaxAttempts <- 2, MaxCrashes <- 0, SlowDialers <- TRUE

RetriedSchedule == INSTANCE OutboundDispatch WITH
  Jobs <- {"b"}, Kind <- [j \in {"b"} |-> "scheduled"],
  Dialers <- {v1, v2}, MaxAttempts <- 2, MaxCrashes <- 0,
  SlowDialers <- TRUE

DirectCalls == INSTANCE OutboundDispatch WITH
  Jobs <- {"a", "b"},
  Kind <- [j \in {"a", "b"} |-> IF j = "a" THEN "immediate" ELSE "scheduled"],
  Dialers <- {v1, v2}, MaxAttempts <- 1, MaxCrashes <- 0,
  SlowDialers <- TRUE

RemoteEnds == INSTANCE RemoteMcp WITH
  Operations <- 1..4, Wants <- [o \in 1..4 |-> {}], Purposes <- {"invoke"},
  Tools <- {"t1", "t2"}, Approved <- {"t1"},
  Catalogs <- {{"t1"}, {"t1", "t2"}}, AllowList <- {"t1"},
  Restricted <- FALSE, MaxHandshakes <- 1, MaxCloses <- 1, MaxReplies <- 1,
  MaxResumptions <- 0, MaxNotices <- 1, client <- session,
  run <- invocation

StreamingRemote == INSTANCE RemoteMcp WITH
  Operations <- {v1, v2},
  Wants <- [o \in {v1, v2} |-> {"initialize", "list", "call", "close"}],
  Purposes <- {"none"}, Tools <- {"t1"}, Approved <- {"t1"},
  Catalogs <- {{"t1"}, {}}, AllowList <- {"t1"}, Restricted <- FALSE,
  MaxHandshakes <- 2, MaxCloses <- 1, MaxReplies <- 1, MaxResumptions <- 0,
  MaxNotices <- 2, client <- session, run <- invocation

PinnedRemote == INSTANCE RemoteMcp WITH
  Operations <- 1..4, Wants <- [o \in 1..4 |-> {}],
  Purposes <- {"register", "verify", "invoke"}, Tools <- {"t1", "t2"},
  Approved <- {"t1"}, Catalogs <- {{"t1"}, {"t1", "t2"}},
  AllowList <- {"t1"}, Restricted <- TRUE, MaxHandshakes <- 2,
  MaxCloses <- 1, MaxReplies <- 1, MaxResumptions <- 1, MaxNotices <- 2,
  client <- session, run <- invocation

OpenRemote == INSTANCE RemoteMcp WITH
  Operations <- 1..4, Wants <- [o \in 1..4 |-> {}],
  Purposes <- {"register", "verify", "invoke"}, Tools <- {"t1", "t2"},
  Approved <- {"t1"}, Catalogs <- {{"t1"}, {"t1", "t2"}},
  AllowList <- {"t1"}, Restricted <- FALSE, MaxHandshakes <- 2,
  MaxCloses <- 1, MaxReplies <- 1, MaxResumptions <- 1, MaxNotices <- 1,
  client <- session, run <- invocation

SharedRemote == INSTANCE RemoteMcp WITH
  Operations <- {"a", "b", "c"}, Wants <- SharedWants,
  Purposes <- {"none"}, Tools <- {"t1"}, Approved <- {"t1"},
  Catalogs <- {{"t1"}, {}}, AllowList <- {"t1"}, Restricted <- FALSE,
  MaxHandshakes <- 2, MaxCloses <- 1, MaxReplies <- 1, MaxResumptions <- 0,
  MaxNotices <- 0, client <- session, run <- invocation

ASSUME InstancesAreSound ==
  /\ LogWorkers!LogAssumption
  /\ LogWorkers!KernelAssumption
  /\ LogGoals!LogAssumption
  /\ LogGoals!KernelAssumption
  /\ WorkersEnd!WorkerAssumption
  /\ WorkersEnd!KernelAssumption
  /\ OneWorker!WorkerAssumption
  /\ OneWorker!KernelAssumption
  /\ TwoWorkers!WorkerAssumption
  /\ TwoWorkers!KernelAssumption
  /\ CallSettles!CallStatusAssumption
  /\ Call!CallStatusAssumption
  /\ RepeatedCall!CallStatusAssumption
  /\ CampaignEnds!OutboundAssumption
  /\ Campaign!OutboundAssumption
  /\ RetriedCampaign!OutboundAssumption
  /\ RetriedSchedule!OutboundAssumption
  /\ DirectCalls!OutboundAssumption
  /\ RemoteEnds!RemoteAssumption
  /\ StreamingRemote!RemoteAssumption
  /\ PinnedRemote!RemoteAssumption
  /\ OpenRemote!RemoteAssumption
  /\ SharedRemote!RemoteAssumption

(***************************************************************************)
(* A component that is not the subject of a behaviour rests in its initial *)
(* state.                                                                  *)
(***************************************************************************)
SystemInit ==
  /\ part \in Parts
  /\ Init
  /\ \/ part = "log goals" /\ LogGoals!Init
     \/ part # "log goals" /\ LogWorkers!Init
  /\ \/ part = "workers" /\ OneWorker!Init
     \/ part = "workers batch" /\ TwoWorkers!Init
     \/ part \notin {"workers", "workers batch"} /\ WorkersEnd!Init
  /\ \/ part = "call" /\ Call!Init
     \/ part = "call repeated" /\ RepeatedCall!Init
     \/ part \notin {"call", "call repeated"} /\ CallSettles!Init
  /\ \/ part = "campaign" /\ Campaign!Init
     \/ part = "campaign retried" /\ RetriedCampaign!Init
     \/ part = "scheduled retried" /\ RetriedSchedule!Init
     \/ part = "direct calls" /\ DirectCalls!Init
     \/ part \notin {"campaign", "campaign retried", "scheduled retried", "direct calls"} /\ CampaignEnds!Init
  /\ \/ part = "remote stream" /\ StreamingRemote!Init
     \/ part = "remote pinned" /\ PinnedRemote!Init
     \/ part = "remote open" /\ OpenRemote!Init
     \/ part = "remote shared" /\ SharedRemote!Init
     \/ part \notin {"remote stream", "remote pinned", "remote open", "remote shared"} /\ RemoteEnds!Init

ToolsMoves ==
  /\ part = "tools"
  /\ Next
  /\ UNCHANGED <<part, logVars, workersVars, callsVars, outboundVars,
                   remoteVars>>

LogMoves ==
  /\ \/ part = "log workers" /\ LogWorkers!Next
     \/ part = "log goals" /\ LogGoals!Next
  /\ UNCHANGED <<part, vars, workersVars, callsVars, outboundVars,
                   remoteVars>>

WorkersMoves ==
  /\ \/ part = "workers end" /\ WorkersEnd!Next
     \/ part = "workers" /\ OneWorker!Next
     \/ part = "workers batch" /\ TwoWorkers!Next
  /\ UNCHANGED <<part, vars, logVars, callsVars, outboundVars, remoteVars>>

CallsMoves ==
  /\ \/ part = "call settles" /\ CallSettles!Next
     \/ part = "call" /\ Call!Next
     \/ part = "call repeated" /\ RepeatedCall!Next
  /\ UNCHANGED <<part, vars, logVars, workersVars, outboundVars, remoteVars>>

OutboundMoves ==
  /\ \/ part = "campaign ends" /\ CampaignEnds!Next
     \/ part = "campaign" /\ Campaign!Next
     \/ part = "campaign retried" /\ RetriedCampaign!Next
     \/ part = "scheduled retried" /\ RetriedSchedule!Next
     \/ part = "direct calls" /\ DirectCalls!Next
  /\ UNCHANGED <<part, vars, logVars, workersVars, callsVars, remoteVars>>

RemoteMoves ==
  /\ \/ part = "remote ends" /\ RemoteEnds!Next
     \/ part = "remote stream" /\ StreamingRemote!Next
     \/ part = "remote pinned" /\ PinnedRemote!Next
     \/ part = "remote open" /\ OpenRemote!Next
     \/ part = "remote shared" /\ SharedRemote!Next
  /\ UNCHANGED <<part, vars, logVars, workersVars, callsVars, outboundVars>>

SystemNext ==
  \/ ToolsMoves
  \/ LogMoves
  \/ WorkersMoves
  \/ CallsMoves
  \/ OutboundMoves
  \/ RemoteMoves

SystemSpec == SystemInit /\ [][SystemNext]_all

(***************************************************************************)
(* A replay whose connection lasts goes on, while its owner may die. The   *)
(* cron drain offers every worker to a runner, a live runner goes on, and  *)
(* an abandoned lease ends. A leg of a call does not last for ever, the    *)
(* provider delivers what it emitted and originateCall runs to its end.    *)
(* The scheduler runs again and again, its process goes on until it is     *)
(* lost, time passes, and the provider reports the end of a leg it can     *)
(* name. A remote operation has a deadline, the event loop runs what is    *)
(* queued, and the runtime awaits what it started.                         *)
(***************************************************************************)
SystemLiveSpec ==
  /\ SystemSpec
  /\ \A q \in Requests :
       /\ WF_vars(part = "tools" /\ WaitEnds(q))
       /\ WF_vars(part = "tools" /\ Quarantine(q))
       /\ WF_vars(part = "tools" /\ Reload(q))
       /\ WF_vars(part = "tools" /\ Recover(q))
       /\ WF_vars(part = "tools" /\ SettleRecovered(q))
  /\ WF_workersVars(/\ part = "workers end"
                    /\ \E r \in {"r1", "r2"} : WorkersEnd!Claim(r, "w1"))
  /\ WF_workersVars(part = "workers end" /\ WorkersEnd!LeaseExpires("w1"))
  /\ \A r \in {"r1", "r2"} :
       WF_workersVars(part = "workers end" /\ WorkersEnd!RunnerStep(r))
  /\ WF_callsVars(part = "call settles" /\ CallSettles!LegEnds)
  /\ WF_callsVars(/\ part = "call settles"
                  /\ \E cb \in callbacks : CallSettles!StatusCallback(cb))
  /\ WF_callsVars(/\ part = "call settles"
                  /\ \/ CallSettles!PostAccepted \/ CallSettles!PostRejected
                     \/ CallSettles!PostUnknown)
  /\ WF_callsVars(/\ part = "call settles"
                  /\ \/ CallSettles!Stamp \/ CallSettles!StampFails
                     \/ CallSettles!Settle \/ CallSettles!RecordAcceptance)
  /\ WF_outboundVars(part = "campaign ends" /\ CampaignEnds!Dials("d1"))
  /\ WF_outboundVars(/\ part = "campaign ends"
                     /\ \/ CampaignEnds!LaunchPreflight
                        \/ CampaignEnds!LaunchMaterializes
                        \/ CampaignEnds!ExecutionSettles)
  /\ WF_outboundVars(part = "campaign ends" /\ CampaignEnds!Reconcile)
  /\ WF_outboundVars(part = "campaign ends" /\ CampaignEnds!Quarantine)
  /\ WF_outboundVars(part = "campaign ends" /\ CampaignEnds!DayPasses)
  /\ WF_outboundVars(part = "campaign ends" /\ CampaignEnds!LegEnds("a"))
  /\ WF_outboundVars(part = "campaign ends" /\ CampaignEnds!LeaseAges("a"))
  /\ \A o \in 1..4 :
       /\ WF_remoteVars(part = "remote ends" /\ RemoteEnds!LoopRuns(o))
       /\ WF_remoteVars(part = "remote ends" /\ RemoteEnds!Abort(o))
  /\ \A h \in {1} :
       WF_remoteVars(part = "remote ends" /\ RemoteEnds!HandshakeFails(h))
  /\ \A k \in {1} :
       WF_remoteVars(part = "remote ends" /\ RemoteEnds!CloseEnds(k))
  /\ WF_remoteVars(part = "remote ends" /\ RemoteEnds!RuntimeStep)

-----------------------------------------------------------------------------
(***************************************************************************)
(* The log of a conversation (ConversationLog): its state is what its      *)
(* events fold to, although every batch is validated against a log loaded  *)
(* earlier; the host is told only what is logged, at most one goal is      *)
(* active and the places of the workers are not exceeded; a delivery is    *)
(* accepted only while the facts, the policy and the goal it was computed  *)
(* from hold, and is decided once; checkpoints of the flow advance, and a  *)
(* route shows the flow it was made from.                                  *)
(***************************************************************************)
ConversationIsSound ==
  /\ [](/\ part = "log workers" =>
             /\ LogWorkers!TypeOK
             /\ LogWorkers!LogFolds
             /\ LogWorkers!WorkersBounded
             /\ LogWorkers!AcceptedIsFresh
        /\ part = "log goals" =>
             /\ LogGoals!ToldIsLogged
             /\ LogGoals!OneActiveGoal
             /\ LogGoals!CheckpointsAdvance
             /\ LogGoals!RouteShowsItsFlow)
  /\ [][part = "log workers" => LogWorkers!KeepsDecisions]_logVars


(***************************************************************************)
(* The row of a call (CallStatus), written by status callbacks in any      *)
(* order, by the dispatcher, the media stream and the end route: a         *)
(* terminal provider status closes it, a closed row has an end, a delivery *)
(* receipt is true, and the progress the provider reported never goes      *)
(* back.                                                                   *)
(***************************************************************************)
RowIsSound ==
  /\ [](/\ part = "call" =>
             /\ Call!TypeOK
             /\ Call!TerminalRankIsClosed
             /\ Call!ClosedHasEnd
             /\ Call!DeliveryReceiptIsTrue
        /\ part = "call repeated" =>
             /\ RepeatedCall!TypeOK
             /\ RepeatedCall!TerminalRankIsClosed
             /\ RepeatedCall!ClosedHasEnd
             /\ RepeatedCall!DeliveryReceiptIsTrue)
  /\ [][/\ part = "call" => Call!KeepsProgress
        /\ part = "call repeated" => RepeatedCall!KeepsProgress]_callsVars




Symmetry == Permutations({v1, v2}) \cup Permutations({v3, v4})
=============================================================================
