---------------------------- MODULE GatewayTurns ----------------------------
(***************************************************************************)
(* The coordinator that carries a provider's tool calls to the benchmark   *)
(* gateway during one realtime connection                                  *)
(* (lib/benchmark/lc4-development-gateway-bridge.ts), with the part of the *)
(* development adapter that records the conversation for the next          *)
(* connection (lib/benchmark/lc4-production-provider-adapter.ts).          *)
(*                                                                         *)
(* Tool batches arrive in event callbacks and are only admitted there;     *)
(* their work is chained on a promise queue.  An exchange ends by waiting  *)
(* for the queue and sealing what the opportunity collected.  Before a     *)
(* batch is admitted its cost in the next connection's replay envelope is  *)
(* projected, with the largest result each call may have.                  *)
(*                                                                         *)
(*   scope         the connection scope was bound after setup              *)
(*   context       the opportunity being exchanged                         *)
(*   turn          what the coordinator collected for it                   *)
(*   seen          native call identities of the connection                *)
(*   queue         admitted batches whose work is not finished             *)
(*   fatal         class of the first failure                              *)
(*   runs          how often the executor was invoked for each call        *)
(*   client        the realtime client: open, calls awaiting a result,     *)
(*                 continuations requested in this exchange                *)
(*   exchange      phase of the adapter's exchange                         *)
(*   conversation  turns retained for the next connection                  *)
(*   sealed        the last opportunity that was sealed                    *)
(***************************************************************************)
EXTENDS Integers, Sequences, FiniteSets, SequencesExt

CONSTANTS
  Calls,               \* native call identities
  Responses,           \* native response identities
  Gemini,              \* the provider is Gemini
  AnnouncesReadiness,  \* the client tells its listeners that it is ready
  Horizon,             \* opportunities of the connection
  MaxBatches,          \* LC4_DEV_MAX_TOOL_BATCHES_PER_OPPORTUNITY
  MaxRejected,         \* MAX_REJECTED_TOOL_BATCHES_PER_OPPORTUNITY
  MaxCalls,            \* LC4_DEV_MAX_TOOL_CALLS_PER_BATCH
  MaxTurns,            \* LC4_DEV_ROTATION_REPLAY_MAX_TURNS
  MaxBytes,            \* LC4_DEV_ROTATION_REPLAY_MAX_UTF8_BYTES
  TextBytes,           \* largest text of a turn and largest result
  MaxArguments,        \* LC4_DEV_MAX_REPLAY_MODEL_ARGUMENT_BYTES
  CallerBytes,         \* size of a caller turn
  RepairBytes          \* size of the largest repair turn

EnvelopeAssumption ==
  /\ {Horizon, MaxBatches, MaxCalls, TextBytes, MaxArguments} \subseteq Nat \ {0}
  /\ {MaxTurns, MaxBytes, MaxRejected} \subseteq Nat
  /\ CallerBytes \in 1..TextBytes /\ RepairBytes \in 1..TextBytes

VARIABLES
  scope, context, turn, seen, queue, fatal, runs, client, exchange,
  conversation, sealed

vars == <<scope, context, turn, seen, queue, fatal, runs, client, exchange,
          conversation, sealed>>

NoContext == [index |-> 0, phase |-> "none"]

NoSnapshot == [turns |-> 0, bytes |-> 0, caller |-> 0, repair |-> 0]

(***************************************************************************)
(* State of the coordinator between two opportunities.  "repair" is 0 when *)
(* no repair may follow.                                                   *)
(***************************************************************************)
FreshTurn ==
  [batch |-> 0, rejected |-> 0, receipts |-> <<>>, rejections |-> <<>>,
   replay |-> <<>>, responses |-> {}, snapshot |-> NoSnapshot,
   calls |-> 0, bytes |-> 0]

NothingSealed == [receipts |-> <<>>, rejections |-> <<>>, replay |-> <<>>,
                  batches |-> 0, continuations |-> 0]

Init ==
  /\ scope = "unbound"
  /\ context = NoContext
  /\ turn = FreshTurn
  /\ seen = {}
  /\ queue = <<>>
  /\ fatal = "none"
  /\ runs = [c \in Calls |-> 0]
  /\ client = [open |-> TRUE, pending |-> {}, continuations |-> 0]
  /\ exchange = [phase |-> "setup", index |-> 1, stage |-> "fresh"]
  /\ conversation = <<>>
  /\ sealed = NothingSealed

-----------------------------------------------------------------------------
(***************************************************************************)
(* A call of a batch: its identity, whether its semantic intent is one the *)
(* gateway admits, and the size of its arguments.                          *)
(***************************************************************************)
Candidate == [id : Calls, valid : BOOLEAN, args : 1..(MaxArguments + 1)]

SumOf(f(_), s) == FoldLeft(LAMBDA total, x : total + f(x), 0, s)

(***************************************************************************)
(* projectLc4DevRotationReplayEnvelopeAdmission.                           *)
(***************************************************************************)
Reserved(calls) == SumOf(LAMBDA c : c.args + TextBytes, calls)

RepairReserve(snapshot) ==
  IF snapshot.repair = 0 THEN [turns |-> 0, bytes |-> 0]
  ELSE [turns |-> 2, bytes |-> snapshot.repair + TextBytes]

Projection(snapshot, callCount, callBytes) ==
  [turns |-> snapshot.turns + 2 + RepairReserve(snapshot).turns + callCount,
   bytes |-> snapshot.bytes + snapshot.caller + TextBytes
               + RepairReserve(snapshot).bytes + callBytes]

FitsEnvelope(p) == p.turns <= MaxTurns /\ p.bytes <= MaxBytes

Admits(t, calls) ==
  /\ \A i \in DOMAIN calls : calls[i].args <= MaxArguments
  /\ FitsEnvelope(Projection(t.snapshot, t.calls + Len(calls),
                             t.bytes + Reserved(calls)))

(***************************************************************************)
(* #fail: the first failure is kept.                                       *)
(***************************************************************************)
Failed(class) == fatal' = IF fatal = "none" THEN class ELSE fatal

-----------------------------------------------------------------------------
(***************************************************************************)
(* Setup.  The bridge's listener passes every event to the coordinator,    *)
(* which asks for the connection scope before it looks at the event; the   *)
(* scope is bound only once the connection is ready.                       *)
(***************************************************************************)
SetupCompletes ==
  /\ scope = "unbound"
  /\ scope' = "bound"
  /\ exchange' = [exchange EXCEPT !.phase = "idle"]
  /\ IF AnnouncesReadiness THEN Failed("parse") ELSE UNCHANGED fatal
  /\ UNCHANGED <<context, turn, seen, queue, runs, client, conversation, sealed>>

(***************************************************************************)
(* beginOpportunity, with the adapter's snapshot of the retained           *)
(* conversation.  A refusal ends the exchange, and the runner ends the     *)
(* segment with it.                                                        *)
(***************************************************************************)
Retained == [turns |-> Len(conversation),
             bytes |-> SumOf(LAMBDA t : t.bytes, conversation)]

Snapshot(phase) ==
  [turns |-> Retained.turns, bytes |-> Retained.bytes,
   caller |-> IF phase = "canonical" THEN CallerBytes ELSE RepairBytes,
   repair |-> IF phase = "canonical" THEN RepairBytes ELSE 0]

MayBegin(phase) ==
  \/ phase = "canonical" /\ exchange.stage = "fresh" /\ exchange.index <= Horizon
  \/ phase = "repair" /\ exchange.stage = "answered"

BeginOpportunity(phase) ==
  LET snapshot == Snapshot(phase)
      fits == FitsEnvelope(Projection(snapshot, 0, 0))
      unsealed == context # NoContext \/ turn # FreshTurn
  IN  /\ exchange.phase = "idle"
      /\ MayBegin(phase)
      /\ IF fatal # "none" \/ unsealed \/ ~fits
         THEN /\ exchange' = [exchange EXCEPT !.phase = "failed"]
              /\ client' = [client EXCEPT !.open = FALSE]
              /\ IF fatal = "none" /\ ~unsealed
                 THEN Failed("parse") ELSE UNCHANGED fatal
              /\ UNCHANGED <<context, turn>>
         ELSE /\ context' = [index |-> exchange.index, phase |-> phase]
              /\ turn' = [turn EXCEPT !.snapshot = snapshot]
              /\ client' = [client EXCEPT !.continuations = 0]
              /\ exchange' = [exchange EXCEPT !.phase = "active"]
              /\ UNCHANGED fatal
      /\ UNCHANGED <<scope, seen, queue, runs, conversation, sealed>>

(***************************************************************************)
(* observe: a tool batch of the provider.  The client holds back a second  *)
(* batch while one awaits its results.  Identities of the calls that       *)
(* precede a repeated one stay recorded.                                   *)
(***************************************************************************)
Ids(calls) == {calls[i].id : i \in DOMAIN calls}

Repeats(calls, i) ==
  calls[i].id \in seen \cup {calls[j].id : j \in 1..(i - 1)}


SeenAfter(calls) ==
  seen \cup {calls[i].id : i \in {j \in DOMAIN calls :
                                    \A k \in 1..j : ~Repeats(calls, k)}}

RejectedBatch(calls) ==
  context.phase = "repair" \/ \E i \in DOMAIN calls : ~calls[i].valid

Refusal(calls, r) ==
  CASE scope = "unbound" -> "parse"
    [] scope # "unbound" /\ context = NoContext -> "provenance"
    [] OTHER ->
         CASE Len(calls) \notin 1..MaxCalls -> "provenance"
           [] Len(calls) \in 1..MaxCalls /\ ~Admits(turn, calls) -> "parse"
           [] OTHER -> IF \/ ~Gemini /\ r \in turn.responses
                          \/ turn.batch >= MaxBatches
                       THEN "provenance" ELSE "none"

Job(calls, r) ==
  [context |-> context, ordinal |-> turn.batch + 1, response |-> r,
   calls |-> calls, rejected |-> RejectedBatch(calls), outputs |-> <<>>,
   started |-> FALSE]

ToolBatch(calls, r) ==
  LET repeated == \E i \in DOMAIN calls : Repeats(calls, i)
      refused == turn.rejected + 1 > MaxRejected /\ RejectedBatch(calls)
  IN  /\ client.open /\ client.pending = {}
      /\ ~(exchange.phase = "finishing" /\ queue = <<>>)
      /\ client' = [client EXCEPT !.pending = Ids(calls)]
      /\ IF Refusal(calls, r) # "none"
         THEN Failed(Refusal(calls, r)) /\ UNCHANGED <<turn, seen, queue>>
         ELSE /\ seen' = SeenAfter(calls)
              /\ IF repeated
                 THEN Failed("provenance") /\ UNCHANGED <<turn, queue>>
                 ELSE /\ turn' = [turn EXCEPT
                           !.responses = @ \cup {r},
                           !.calls = @ + Len(calls),
                           !.bytes = @ + Reserved(calls),
                           !.batch = @ + 1,
                           !.rejected = IF RejectedBatch(calls) THEN @ + 1 ELSE @]
                      /\ IF refused
                         THEN Failed("provenance") /\ UNCHANGED queue
                         ELSE /\ queue' = Append(queue, Job(calls, r))
                              /\ UNCHANGED fatal
      /\ UNCHANGED <<scope, context, runs, exchange, conversation, sealed>>

-----------------------------------------------------------------------------
(***************************************************************************)
(* The queue: #executeBatch and #rejectBatch of its first job.  The fatal  *)
(* state is looked at before each call and before the delivery.            *)
(***************************************************************************)
Finished(job) == Len(job.outputs) = Len(job.calls)

StartCall ==
  /\ queue # <<>> /\ fatal = "none"
  /\ ~Head(queue).rejected /\ ~Head(queue).started /\ ~Finished(Head(queue))
  /\ runs' = [runs EXCEPT ![Head(queue).calls[Len(Head(queue).outputs) + 1].id] =
                            @ + 1]
  /\ queue' = [queue EXCEPT ![1].started = TRUE]
  /\ UNCHANGED <<scope, context, turn, seen, fatal, client, exchange,
                 conversation, sealed>>

(***************************************************************************)
(* The executor answers with a result of the given size, or fails          *)
(* (0 stands for an error or an outcome that does not replay the call).    *)
(***************************************************************************)
Receipt(job, i) == [batch |-> job.ordinal, at |-> i, id |-> job.calls[i].id]

CallReturns(bytes) ==
  LET job == Head(queue)
      at == Len(job.outputs) + 1
  IN  /\ queue # <<>> /\ job.started
      /\ IF bytes \notin 1..TextBytes
         THEN /\ Failed("execution")
              /\ queue' = Tail(queue)
              /\ UNCHANGED turn
         ELSE /\ queue' = [queue EXCEPT ![1].started = FALSE,
                                        ![1].outputs = Append(@, bytes)]
              /\ turn' = [turn EXCEPT !.receipts = Append(@, Receipt(job, at))]
              /\ UNCHANGED fatal
      /\ UNCHANGED <<scope, context, seen, runs, client, exchange, conversation,
                     sealed>>

JobAborts ==
  /\ queue # <<>> /\ fatal # "none" /\ ~Head(queue).started
  /\ queue' = Tail(queue)
  /\ UNCHANGED <<scope, context, turn, seen, fatal, runs, client, exchange,
                 conversation, sealed>>

(***************************************************************************)
(* #deliverToolContinuation: bind the control, submit every result without *)
(* a response, keep the batch for replay, and request one response.  Each  *)
(* call on the client may throw.                                           *)
(***************************************************************************)
Delivered(job, outputs) ==
  [ordinal |-> job.ordinal, rejected |-> job.rejected,
   calls |-> [i \in DOMAIN job.calls |->
                [id |-> job.calls[i].id, bytes |-> job.calls[i].args + outputs[i]]]]

Deliver(job, outputs, collected, outcome) ==
  /\ outcome # "refused" => client.open
  /\ queue' = Tail(queue)
  /\ CASE outcome = "refused" ->
            turn' = collected /\ Failed("delivery") /\ UNCHANGED client
       [] outcome = "no response" ->
            /\ turn' = [collected EXCEPT !.replay = Append(@, Delivered(job, outputs))]
            /\ client' = [client EXCEPT !.pending = {}]
            /\ Failed("delivery")
       [] outcome = "ok" ->
            /\ turn' = [collected EXCEPT !.replay = Append(@, Delivered(job, outputs))]
            /\ client' = [client EXCEPT !.pending = {}, !.continuations = @ + 1]
            /\ UNCHANGED fatal

DeliverBatch(outcome) ==
  /\ queue # <<>> /\ fatal = "none"
  /\ ~Head(queue).rejected /\ Finished(Head(queue))
  /\ Deliver(Head(queue), Head(queue).outputs, turn, outcome)
  /\ UNCHANGED <<scope, context, seen, runs, exchange, conversation, sealed>>

RejectBatch(outcome) ==
  LET job == Head(queue)
      noted == [turn EXCEPT !.rejections =
                  @ \o [i \in DOMAIN job.calls |-> Receipt(job, i)]]
  IN  /\ queue # <<>> /\ fatal = "none" /\ job.rejected
      /\ Deliver(job, [i \in DOMAIN job.calls |-> 1], noted, outcome)
      /\ UNCHANGED <<scope, context, seen, runs, exchange, conversation, sealed>>

-----------------------------------------------------------------------------
(***************************************************************************)
(* The exchange.  A response that is no tool response ends it; Gemini's    *)
(* client gives up a connection whose turn ends before its results.        *)
(***************************************************************************)
ResponseEnds ==
  /\ exchange.phase = "active" /\ client.open /\ fatal = "none"
  /\ Gemini => client.pending = {}
  /\ exchange' = [exchange EXCEPT !.phase = "finishing"]
  /\ UNCHANGED <<scope, context, turn, seen, queue, fatal, runs, client,
                 conversation, sealed>>

(***************************************************************************)
(* Timeout, abort, closed connection or failure of the coordinator: the    *)
(* segment is poisoned.  The coordinator is not told; its queue goes on.   *)
(***************************************************************************)
ExchangeFails ==
  /\ exchange.phase \in {"active", "finishing"}
  /\ exchange' = [exchange EXCEPT !.phase = "failed"]
  /\ client' = [client EXCEPT !.open = FALSE]
  /\ UNCHANGED <<scope, context, turn, seen, queue, fatal, runs, conversation,
                 sealed>>

(***************************************************************************)
(* finishOpportunityWithConversationReplay once its queue is done, and the *)
(* turns the adapter then retains: the caller, every call, the assistant.  *)
(***************************************************************************)
Turn(speaker, bytes) ==
  [speaker |-> speaker, index |-> context.index, phase |-> context.phase,
   bytes |-> bytes, batch |-> 0, at |-> 0, of |-> 0, rejected |-> FALSE]

ToolTurns(batch) ==
  [i \in DOMAIN batch.calls |->
     [Turn("tool", batch.calls[i].bytes) EXCEPT
        !.batch = batch.ordinal, !.at = i, !.of = Len(batch.calls),
        !.rejected = batch.rejected]]

TurnsOf(replay, said) ==
  <<Turn("caller", turn.snapshot.caller)>>
    \o FlattenSeq([i \in DOMAIN replay |-> ToolTurns(replay[i])])
    \o <<Turn("assistant", said)>>

Seal(said) ==
  /\ exchange.phase = "finishing" /\ queue = <<>> /\ fatal = "none"
  /\ sealed' = [receipts |-> turn.receipts, rejections |-> turn.rejections,
                replay |-> turn.replay, batches |-> turn.batch,
                continuations |-> client.continuations]
  /\ context' = NoContext
  /\ turn' = FreshTurn
  /\ IF said > TextBytes
     THEN /\ exchange' = [exchange EXCEPT !.phase = "failed"]
          /\ client' = [client EXCEPT !.open = FALSE]
          /\ UNCHANGED conversation
     ELSE /\ conversation' = conversation \o TurnsOf(turn.replay, said)
          /\ exchange' = [exchange EXCEPT
               !.phase = "idle",
               !.stage = IF context.phase = "canonical" THEN "answered"
                         ELSE "repaired"]
          /\ UNCHANGED client
  /\ UNCHANGED <<scope, seen, queue, fatal, runs>>
(***************************************************************************)
(* validateConversationTurns, when the next connection is opened: each     *)
(* opportunity is one canonical exchange and at most one repair in which   *)
(* every call was rejected, batches are complete and contiguous, and the   *)
(* whole fits the envelope.                                                *)
(***************************************************************************)
ExchangeTurns(turns, i, phase) ==
  SelectSeq(turns, LAMBDA t : t.index = i /\ t.phase = phase)

BatchesComplete(turns) ==
  \A i \in DOMAIN turns : turns[i].speaker = "tool" =>
    LET first == i - turns[i].at + 1
        last == first + turns[i].of - 1
    IN  /\ first >= 1 /\ last <= Len(turns)
        /\ \A j \in first..last :
             /\ turns[j].batch = turns[i].batch
             /\ turns[j].at = j - first + 1 /\ turns[j].of = turns[i].of
        /\ turns[i].batch <= MaxBatches /\ turns[i].of <= MaxCalls

ValidExchange(turns) ==
  /\ Len(turns) >= 2
  /\ turns[1].speaker = "caller" /\ turns[Len(turns)].speaker = "assistant"
  /\ \A i \in 2..(Len(turns) - 1) : turns[i].speaker = "tool"
  /\ BatchesComplete(turns)

Chronological(turns) ==
  \A i, j \in DOMAIN turns : i < j =>
    \/ turns[i].index < turns[j].index
    \/ turns[i].index = turns[j].index
         /\ (turns[i].phase = "repair" => turns[j].phase = "repair")

Validates(turns, through) ==
  /\ FitsEnvelope([turns |-> Len(turns),
                   bytes |-> SumOf(LAMBDA t : t.bytes, turns)])
  /\ Chronological(turns)
  /\ \A i \in 1..through :
       LET repair == ExchangeTurns(turns, i, "repair")
       IN  /\ ValidExchange(ExchangeTurns(turns, i, "canonical"))
           /\ repair # <<>> =>
                /\ ValidExchange(repair)
                /\ \A k \in DOMAIN repair :
                     repair[k].speaker = "tool" => repair[k].rejected

(***************************************************************************)
(* The opportunity is finalized; after the last one the connection is      *)
(* closed and the conversation is handed to the next.                      *)
(***************************************************************************)
Finalize ==
  /\ exchange.phase = "idle" /\ exchange.stage \in {"answered", "repaired"}
  /\ exchange' = IF exchange.index < Horizon
                 THEN [exchange EXCEPT !.index = @ + 1, !.stage = "fresh"]
                 ELSE [exchange EXCEPT
                         !.phase = IF Validates(conversation, Horizon)
                                   THEN "rotated" ELSE "refused"]
  /\ client' = IF exchange.index < Horizon THEN client
               ELSE [client EXCEPT !.open = FALSE]
  /\ UNCHANGED <<scope, context, turn, seen, queue, fatal, runs, conversation,
                 sealed>>

Stopped ==
  /\ exchange.phase \in {"failed", "rotated", "refused"}
  /\ UNCHANGED vars

(***************************************************************************)
(* Batches of the provider; one call too many stands for all longer ones,  *)
(* and a call whose arguments are too long for one that is malformed.      *)
(***************************************************************************)
Batches ==
  BoundedSeq(Candidate, MaxCalls)
    \cup {[i \in 1..(MaxCalls + 1) |-> c] : c \in Candidate}

Outcomes == {"ok", "refused", "no response"}

Next ==
  \/ SetupCompletes
  \/ \E phase \in {"canonical", "repair"} : BeginOpportunity(phase)
  \/ \E calls \in Batches, r \in Responses : ToolBatch(calls, r)
  \/ StartCall
  \/ \E bytes \in 0..(TextBytes + 1) : CallReturns(bytes)
  \/ JobAborts
  \/ \E o \in Outcomes : DeliverBatch(o)
  \/ \E o \in Outcomes : RejectBatch(o)
  \/ ResponseEnds
  \/ ExchangeFails
  \/ \E said \in 1..(TextBytes + 1) : Seal(said)
  \/ Finalize
  \/ Stopped

(***************************************************************************)
(* The queue goes on while the executor, which runs in the same process,   *)
(* answers; an exchange that waits for the queue goes on when it is done.  *)
(***************************************************************************)
Work ==
  \/ StartCall
  \/ \E bytes \in 0..(TextBytes + 1) : CallReturns(bytes)
  \/ JobAborts
  \/ \E o \in Outcomes : DeliverBatch(o)
  \/ \E o \in Outcomes : RejectBatch(o)

Ends ==
  \/ \E said \in 1..(TextBytes + 1) : Seal(said)
  \/ exchange.phase = "finishing" /\ fatal # "none" /\ ExchangeFails

Spec == Init /\ [][Next]_vars

-----------------------------------------------------------------------------
Receipts == Seq([batch : Nat, at : Nat, id : Calls])

(***************************************************************************)
(* The variables have their types, and a batch is only counted up to its   *)
(* limit.                                                                  *)
(***************************************************************************)
TypeOK ==
  /\ scope \in {"unbound", "bound"}
  /\ context \in [index : 1..Horizon, phase : {"canonical", "repair"}]
                   \cup {NoContext}
  /\ turn.batch \in 0..MaxBatches
  /\ turn.rejected \in 0..(MaxRejected + 1)
  /\ turn.receipts \in Receipts /\ turn.rejections \in Receipts
  /\ turn.responses \subseteq Responses
  /\ seen \subseteq Calls
  /\ \A i \in DOMAIN queue : Len(queue[i].outputs) <= Len(queue[i].calls)
  /\ fatal \in {"none", "parse", "provenance", "execution", "delivery"}
  /\ runs \in [Calls -> Nat]
  /\ client.open \in BOOLEAN /\ client.pending \subseteq Calls
  /\ exchange.phase \in {"setup", "idle", "active", "finishing", "failed",
                         "rotated", "refused"}
  /\ exchange.index \in 1..Horizon
  /\ exchange.stage \in {"fresh", "answered", "repaired"}

(***************************************************************************)
(* A native call identity reaches the executor at most once in the life of *)
(* a connection, whichever opportunity announces it again.                 *)
(***************************************************************************)
CallsRunOnce == \A c \in Calls : runs[c] <= 1

(***************************************************************************)
(* A batch with a member the gateway does not admit, and any batch of a    *)
(* repair, runs none of its calls ("rejects a mixed batch atomically       *)
(* before any valid sibling executes").                                    *)
(***************************************************************************)
RejectedNeverRuns ==
  /\ \A i \in DOMAIN turn.rejections : runs[turn.rejections[i].id] = 0
  /\ \A i \in DOMAIN queue :
       (\E c \in Ids(queue[i].calls) : runs[c] > 0) =>
         /\ queue[i].context.phase = "canonical"
         /\ \A k \in DOMAIN queue[i].calls : queue[i].calls[k].valid

(***************************************************************************)
(* What an exchange seals is complete: every admitted batch was answered   *)
(* with all its results and one continuation, in the order the provider    *)
(* announced them, and each call has its receipt or its rejection.         *)
(***************************************************************************)
ReplayOf(rejected) ==
  LET kept == SelectSeq(sealed.replay, LAMBDA b : b.rejected = rejected)
  IN  FlattenSeq([k \in DOMAIN kept |->
        [i \in DOMAIN kept[k].calls |->
           [batch |-> kept[k].ordinal, at |-> i, id |-> kept[k].calls[i].id]]])

SealedIsComplete ==
  /\ Len(sealed.replay) = sealed.batches
  /\ sealed.continuations = sealed.batches
  /\ \A k \in DOMAIN sealed.replay : sealed.replay[k].ordinal = k
  /\ sealed.receipts = ReplayOf(FALSE)
  /\ sealed.rejections = ReplayOf(TRUE)

(***************************************************************************)
(* A conversation that was exchanged within the projections is accepted by *)
(* the next connection ("makes a successful exchange no larger than the    *)
(* projection even though the result is not known until after dispatch").  *)
(***************************************************************************)
RotationIsAccepted == exchange.phase # "refused"

(***************************************************************************)
(* A repair after an answered canonical exchange is never refused for want *)
(* of room: its share was reserved when the canonical one began.           *)
(***************************************************************************)
RepairFits ==
  exchange.phase = "idle" /\ exchange.stage = "answered" =>
    FitsEnvelope(Projection(Snapshot("repair"), 0, 0))

(***************************************************************************)
(* An exchange that waits for the gateway's queue does not wait for ever.  *)
(***************************************************************************)
FinishingEnds == (exchange.phase = "finishing") ~> (exchange.phase # "finishing")

=============================================================================
