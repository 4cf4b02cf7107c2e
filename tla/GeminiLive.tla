----------------------------- MODULE GeminiLive -----------------------------
(***************************************************************************)
(* The client of Gemini's Live protocol (lib/realtime/client/              *)
(* gemini-live.ts, class GeminiLiveClient).  Gemini gives no identities to *)
(* its responses and acknowledges nothing but its setup, so the client     *)
(* derives causality itself: the end of an input activity or a tool        *)
(* response arms a generation trigger, and what the provider sends is      *)
(* bound to the trigger in force.                                          *)
(*                                                                         *)
(* The provider is arbitrary: it may send any message at any time, repeat  *)
(* and mix up tool calls, and deliver transcripts late, although the       *)
(* transcripts of one direction arrive in their order.  A message of a     *)
(* socket that was replaced is ignored (isCurrentConnection), so only the  *)
(* current connection appears.                                             *)
(***************************************************************************)
EXTENDS Integers, Sequences, FiniteSets, SequencesExt

CONSTANTS
  Calls,        \* identities of function calls
  MaxTracked,   \* maximumTrackedToolCallIdentities
  Internal,     \* the client executes the calls itself
  Hydration,    \* enableInitialHistoryHydration
  MaxEpochs,    \* bound on the connections
  MaxTurns,     \* bound on the caller's turns
  MaxFrames,    \* bound on the messages of the provider, transcripts apart
  MaxHeard      \* bound on its transcripts

SwitchesAssumption ==
  /\ Internal \in BOOLEAN /\ Hydration \in BOOLEAN
  /\ MaxTracked \in Nat /\ MaxEpochs \in Nat /\ MaxTurns \in Nat
  /\ MaxFrames \in Nat /\ MaxHeard \in Nat

VARIABLES
  client,    \* connection, input activity and pending preparations
  trigger,   \* generationTrigger and the response it is for
  tools,     \* the ledger of function calls
  speech,    \* what the client knows of the attribution of transcripts
  voice,     \* what the provider transcribed last, which it does not say
  wire,      \* what was sent on this connection
  events,    \* what listeners were told on this connection
  frames     \* messages of the provider so far

vars == <<client, trigger, tools, speech, voice, wire, events, frames>>

(***************************************************************************)
(* A function call is identified by the turn that caused it and its        *)
(* contents, here a number.                                                *)
(***************************************************************************)
NoPrint == [turn |-> 0, args |-> 0]

NewTools ==
  [print |-> [c \in Calls |-> NoPrint],   \* toolCallFingerprints
   batch |-> [c \in Calls |-> 0],         \* toolCallBatchKeys
   batches |-> 0,                         \* toolBatchCounter
   active |-> {},                         \* activeToolBatch
   pending |-> {},                        \* pendingToolCalls
   completed |-> {},                      \* completedToolResponses
   cancelled |-> {}]                      \* cancelledToolCallIds

NewTrigger == [phase |-> "none", turn |-> 0, response |-> 0, started |-> FALSE,
               finished |-> FALSE, interrupted |-> FALSE]

Init ==
  /\ client = [state |-> "idle", epoch |-> 0, socket |-> FALSE, setup |-> FALSE,
               hydrated |-> ~Hydration, open |-> FALSE, turn |-> 0,
               prepared |-> FALSE, control |-> FALSE, responses |-> 0,
               error |-> "none"]
  /\ trigger = NewTrigger
  /\ tools = NewTools
  /\ speech = [inUnsure |-> FALSE, inDone |-> TRUE, outUnsure |-> FALSE,
               outDone |-> TRUE]
  /\ voice = [input |-> 0, inputEnded |-> TRUE, output |-> 0, outputEnded |-> TRUE,
              heard |-> 0]
  /\ wire = <<>>
  /\ events = <<>>
  /\ frames = 0

Frame(type, calls) == [type |-> type, calls |-> calls]

Told(type, of, to, calls) ==
  [type |-> type, of |-> of, to |-> to, calls |-> calls]

Ready == client.state = "ready" /\ client.hydrated

(***************************************************************************)
(* abortPendingToolCalls.                                                  *)
(***************************************************************************)
Aborted(t) == [t EXCEPT !.pending = {}, !.active = {}]

(***************************************************************************)
(* connect: everything a provider identity is scoped to starts anew.       *)
(***************************************************************************)
Connect ==
  /\ client.state \in {"idle", "closed", "failed"}
  /\ client.epoch < MaxEpochs
  /\ client' = [client EXCEPT !.state = "connecting", !.epoch = @ + 1,
                              !.socket = TRUE, !.setup = FALSE,
                              !.hydrated = ~Hydration, !.error = "none"]
  /\ trigger' = NewTrigger
  /\ tools' = NewTools
  /\ wire' = <<>>
  /\ events' = <<>>
  /\ voice' = [voice EXCEPT !.input = client.turn, !.inputEnded = TRUE,
                            !.output = client.responses, !.outputEnded = TRUE]
  /\ UNCHANGED <<speech, frames>>

(***************************************************************************)
(* handleOpen: the setup is the only frame before its acknowledgement.     *)
(***************************************************************************)
HandleOpen ==
  /\ client.state = "connecting"
  /\ ~client.setup
  /\ client' = [client EXCEPT !.setup = TRUE]
  /\ wire' = Append(wire, Frame("setup", {}))
  /\ UNCHANGED <<trigger, tools, speech, voice, events, frames>>

HandleSetupComplete ==
  /\ client.state = "connecting"
  /\ client.setup
  /\ client' = [client EXCEPT !.state = "ready"]
  /\ UNCHANGED <<trigger, tools, speech, voice, wire, events, frames>>

(***************************************************************************)
(* The setup times out, or cannot be sent (failConnect).                   *)
(***************************************************************************)
FailConnect ==
  /\ client.state = "connecting"
  /\ client' = [client EXCEPT !.state = "failed", !.error = "setup"]
  /\ tools' = Aborted(tools)
  /\ UNCHANGED <<trigger, speech, voice, wire, events, frames>>

(***************************************************************************)
(* hydrateConversationHistory: once, as the first message.                 *)
(***************************************************************************)
Hydrate ==
  /\ client.state = "ready"
  /\ ~client.hydrated
  /\ client' = [client EXCEPT !.hydrated = TRUE]
  /\ wire' = Append(wire, Frame("history", {}))
  /\ UNCHANGED <<trigger, tools, speech, voice, events, frames>>

(***************************************************************************)
(* completeResponse for a response that is current and not finished.       *)
(***************************************************************************)
Unfinished == trigger.response # 0 /\ ~trigger.finished

Completion ==
  IF Unfinished
  THEN <<Told("completed", trigger.response, trigger.response, {})>>
  ELSE <<>>

Ended(t) == [t EXCEPT !.finished = TRUE,
                      !.phase = IF @ = "none" THEN @ ELSE "terminal"]

(***************************************************************************)
(* failActiveConnection: the response in progress fails with the           *)
(* connection, and the socket is closed, which is told by its own event.   *)
(***************************************************************************)
Fail(code) ==
  /\ client' = [client EXCEPT !.state = "failed", !.error = code]
  /\ tools' = Aborted(tools)
  /\ trigger' = IF Unfinished THEN Ended(trigger) ELSE trigger
  /\ events' = events \o Completion

(***************************************************************************)
(* handleClose.                                                            *)
(***************************************************************************)
HandleClose ==
  /\ client.socket
  /\ client' = [client EXCEPT !.state = IF @ = "failed" THEN @ ELSE "closed",
                              !.socket = FALSE, !.open = FALSE,
                              !.prepared = FALSE, !.control = FALSE]
  /\ tools' = Aborted(tools)
  /\ trigger' = IF Unfinished THEN Ended(trigger) ELSE trigger
  /\ events' = events \o Completion
  /\ UNCHANGED <<speech, voice, wire, frames>>

(***************************************************************************)
(* close, and the session limit, which ends the response as well.          *)
(***************************************************************************)
Closing == [client EXCEPT !.state = "closing", !.open = FALSE,
                          !.prepared = FALSE, !.control = FALSE]

Close ==
  /\ client.socket
  /\ client.state \notin {"closed", "closing"}
  /\ client' = Closing
  /\ tools' = Aborted(tools)
  /\ UNCHANGED <<trigger, speech, voice, wire, events, frames>>

EnforceSessionLimit ==
  /\ client.socket
  /\ client.setup
  /\ client.state \in {"connecting", "ready"}
  /\ client' = Closing
  /\ tools' = Aborted(tools)
  /\ trigger' = IF Unfinished THEN Ended(trigger) ELSE trigger
  /\ events' = events \o Completion
  /\ UNCHANGED <<speech, voice, wire, frames>>

-----------------------------------------------------------------------------
(***************************************************************************)
(* armGenerationTrigger: the end of an activity arms a new turn, a tool    *)
(* response the continuation of the one in force, each under an identity   *)
(* of its own.  The response only starts with the provider's first sign.   *)
(***************************************************************************)
Arm(phase, turn) ==
  [phase |-> phase, turn |-> turn, response |-> client.responses + 1,
   started |-> FALSE, finished |-> FALSE, interrupted |-> FALSE]

(***************************************************************************)
(* startActivity: not before the previous turn is terminal.                *)
(***************************************************************************)
MayStart == ~client.open /\ trigger.phase \in {"none", "terminal"}

HeardAnew(s) ==
  [s EXCEPT !.inUnsure = client.turn > 0 /\ ~s.inDone, !.inDone = FALSE]

StartActivity ==
  /\ Ready /\ MayStart
  /\ client.turn < MaxTurns
  /\ client' = [client EXCEPT !.open = TRUE, !.turn = @ + 1]
  /\ speech' = HeardAnew(speech)
  /\ wire' = Append(wire, Frame("start", {}))
  /\ UNCHANGED <<trigger, tools, voice, events, frames>>

(***************************************************************************)
(* appendInputAudio opens an activity where there is none.  Repeated audio *)
(* adds nothing to the model.                                              *)
(***************************************************************************)
AppendInputAudio ==
  /\ Ready
  /\ ~client.prepared
  /\ wire = <<>> \/ Last(wire).type # "audio"
  /\ \/ /\ client.open
        /\ wire' = Append(wire, Frame("audio", {}))
        /\ UNCHANGED <<client, speech>>
     \/ /\ MayStart
        /\ client.turn < MaxTurns
        /\ client' = [client EXCEPT !.open = TRUE, !.turn = @ + 1]
        /\ speech' = HeardAnew(speech)
        /\ wire' = wire \o <<Frame("start", {}), Frame("audio", {})>>
  /\ UNCHANGED <<trigger, tools, voice, events, frames>>

(***************************************************************************)
(* prepareResponse: context for the next response, within the activity.    *)
(***************************************************************************)
PrepareResponse ==
  /\ Ready
  /\ client.open /\ ~client.prepared
  /\ client' = [client EXCEPT !.prepared = TRUE]
  /\ wire' = Append(wire, Frame("text", {}))
  /\ UNCHANGED <<trigger, tools, speech, voice, events, frames>>

(***************************************************************************)
(* endActivity.  An activity is only open while no turn is in progress     *)
(* (TypeOK), so the trigger is never refused after the frame was sent.     *)
(***************************************************************************)
EndActivity ==
  /\ Ready
  /\ client.open
  /\ trigger.phase \in {"none", "terminal"}
  /\ client' = [client EXCEPT !.open = FALSE, !.prepared = FALSE,
                              !.responses = @ + 1]
  /\ trigger' = Arm("provider", client.turn)
  /\ wire' = Append(wire, Frame("end", {}))
  /\ UNCHANGED <<tools, speech, voice, events, frames>>

(***************************************************************************)
(* sendTextTurn: an activity that holds only text.                         *)
(***************************************************************************)
SendTextTurn ==
  /\ Ready
  /\ MayStart /\ ~client.prepared
  /\ client.turn < MaxTurns
  /\ client' = [client EXCEPT !.turn = @ + 1, !.responses = @ + 1]
  /\ speech' = HeardAnew(speech)
  /\ trigger' = Arm("provider", client.turn + 1)
  /\ wire' = wire \o <<Frame("start", {}), Frame("text", {}), Frame("end", {})>>
  /\ UNCHANGED <<tools, voice, events, frames>>

(***************************************************************************)
(* prepareToolContinuation: kept until the results are sent.               *)
(***************************************************************************)
PrepareToolContinuation ==
  /\ Ready
  /\ tools.active # {}
  /\ ~client.open /\ ~client.prepared /\ ~client.control
  /\ client' = [client EXCEPT !.control = TRUE]
  /\ UNCHANGED <<trigger, tools, speech, voice, wire, events, frames>>

(***************************************************************************)
(* The results of the calls still active, and the continuation they arm.   *)
(***************************************************************************)
Answered(t) == [t EXCEPT !.completed = @ \cup t.active, !.active = {}]

SendResults(t) ==
  /\ tools' = Answered(t)
  /\ wire' = Append(wire, Frame("tool", t.active))
  /\ trigger' = Arm("post", trigger.turn)

(***************************************************************************)
(* submitToolResults: exactly the calls of the active batch.  The send may *)
(* fail, which leaves its outcome unknown and ends the connection.         *)
(***************************************************************************)
SubmitToolResults ==
  /\ ~Internal
  /\ Ready
  /\ tools.active # {}
  /\ \/ /\ SendResults(tools)
        /\ client' = [client EXCEPT !.responses = @ + 1, !.control = FALSE]
        /\ UNCHANGED events
     \/ /\ Fail("tool_response_send_failed")
        /\ UNCHANGED wire
  /\ UNCHANGED <<speech, voice, frames>>

(***************************************************************************)
(* An executor returns (executeToolCall).  A call that was cancelled       *)
(* yields nothing.  With the last of a batch the results are sent, as long *)
(* as some call of it is still wanted (executeToolBatch).                  *)
(***************************************************************************)
ExecutorReturns(c) ==
  LET settled == [tools EXCEPT !.pending = @ \ {c},
                               !.completed = IF c \in tools.cancelled THEN @
                                             ELSE @ \cup {c}]
  IN  /\ Internal
      /\ client.state = "ready"
      /\ c \in tools.pending
      /\ IF settled.pending = {} /\ settled.active # {}
         THEN \/ /\ SendResults(settled)
                 /\ client' = [client EXCEPT !.responses = @ + 1]
                 /\ UNCHANGED events
              \/ /\ Fail("tool_response_send_failed")
                 /\ UNCHANGED wire
         ELSE /\ tools' = settled
              /\ UNCHANGED <<client, trigger, wire, events>>
      /\ UNCHANGED <<speech, voice, frames>>

-----------------------------------------------------------------------------
(***************************************************************************)
(* handleMessage on a ready connection.  What is malformed, mixed or       *)
(* repeats the setup fails the connection; resumption, goAway, usage and   *)
(* provider errors change nothing modelled here.                           *)
(***************************************************************************)
Arrives == client.state = "ready" /\ frames < MaxFrames /\ frames' = frames + 1

Invalid ==
  /\ Arrives
  /\ Fail("invalid_provider_message")
  /\ UNCHANGED <<speech, voice, wire>>

(***************************************************************************)
(* The socket fails (its error event), or an acknowledgement of the setup  *)
(* is not one.                                                             *)
(***************************************************************************)
TransportError ==
  /\ client.socket
  /\ client.state \in {"connecting", "ready"}
  /\ Fail("transport_error")
  /\ UNCHANGED <<speech, voice, wire, frames>>

PastTerminal == trigger.finished /\ trigger.phase = "terminal"

Triggered == trigger.phase \notin {"none", "terminal"}

(***************************************************************************)
(* ensureResponseStarted, for a trigger in force.                          *)
(***************************************************************************)
StartEvent ==
  IF trigger.started
  THEN <<>>
  ELSE <<Told("started", trigger.response, trigger.response, {})>>

Started == [trigger EXCEPT !.started = TRUE]

SpokenAnew ==
  IF trigger.started
  THEN speech
  ELSE [speech EXCEPT !.outUnsure = ~speech.outDone, !.outDone = FALSE]

(***************************************************************************)
(* handleServerContent with model content, audio for instance.             *)
(***************************************************************************)
ModelContent ==
  /\ Arrives
  /\ \/ /\ Triggered
        /\ trigger' = Started
        /\ speech' = SpokenAnew
        /\ events' = events \o StartEvent
                       \o <<Told("audio", trigger.response, trigger.response, {})>>
        /\ UNCHANGED <<client, tools>>
     \/ /\ ~Triggered
        /\ Fail("content_without_trigger")
        /\ UNCHANGED speech
  /\ UNCHANGED <<voice, wire>>

(***************************************************************************)
(* The interruption of a response, which is announced at once; the turn    *)
(* ends with its turnComplete.                                             *)
(***************************************************************************)
Interrupted ==
  /\ Arrives
  /\ \/ /\ Triggered
        /\ trigger' = [Started EXCEPT !.interrupted = TRUE]
        /\ speech' = SpokenAnew
        /\ events' = events \o StartEvent
                       \o <<Told("interrupted", trigger.response,
                                 trigger.response, {})>>
        /\ UNCHANGED <<client, tools>>
     \/ /\ ~Triggered
        /\ ~(PastTerminal /\ trigger.interrupted)
        /\ Fail("conflicting_post_terminal_metadata")
        /\ UNCHANGED speech
     \/ /\ PastTerminal /\ trigger.interrupted
        /\ UNCHANGED <<client, trigger, tools, speech, events>>
  /\ UNCHANGED <<voice, wire>>

(***************************************************************************)
(* turnComplete.  A blocking tool call must have been answered.  Once the  *)
(* response is terminal, a repetition is accepted unless it contradicts    *)
(* what the first one said.                                                *)
(***************************************************************************)
AwaitsResults == tools.active # {} \/ trigger.phase = "tool"

TurnComplete ==
  /\ Arrives
  /\ \/ /\ Triggered /\ ~AwaitsResults
        /\ trigger' = Ended(Started)
        /\ speech' = SpokenAnew
        /\ events' = events \o StartEvent \o Completion
        /\ UNCHANGED <<client, tools>>
     \/ /\ Triggered /\ AwaitsResults
        /\ Fail("turn_completed_before_tool_results")
        /\ UNCHANGED speech
     \/ /\ ~Triggered
        /\ Fail("conflicting_post_terminal_metadata")
        /\ UNCHANGED speech
     \/ /\ PastTerminal
        /\ UNCHANGED <<client, trigger, tools, speech, events>>
  /\ UNCHANGED <<voice, wire>>

(***************************************************************************)
(* handleTranscript.  The provider transcribes each direction in order,    *)
(* although late, and may never say that a transcript is finished; it does *)
(* not say what it transcribed (of).  The client attributes a fragment to  *)
(* the turn or response of the moment, unless the previous one may still   *)
(* be unfinished.                                                          *)
(***************************************************************************)
Transcribable(of, last, ended, newest) ==
  of \in last..newest /\ (of = last => ~ended)

InputTranscript(of, finished) ==
  /\ client.state = "ready" /\ voice.heard < MaxHeard
  /\ Transcribable(of, voice.input, voice.inputEnded, client.turn)
  /\ voice' = [voice EXCEPT !.input = of, !.inputEnded = finished,
                            !.heard = @ + 1]
  /\ IF speech.inUnsure
     THEN UNCHANGED <<speech, events>>
     ELSE /\ speech' = [speech EXCEPT !.inDone = @ \/ finished]
          /\ events' = Append(events, Told("input", of, client.turn, {}))
  /\ UNCHANGED <<client, trigger, tools, wire, frames>>

OutputTranscript(of, finished) ==
  /\ client.state = "ready" /\ voice.heard < MaxHeard
  /\ Transcribable(of, voice.output, voice.outputEnded, client.responses)
  /\ voice' = [voice EXCEPT !.output = of, !.outputEnded = finished,
                            !.heard = @ + 1]
  /\ IF speech.outUnsure
     THEN UNCHANGED <<speech, events>>
     ELSE /\ speech' = [speech EXCEPT !.outDone = @ \/ finished]
          /\ events' = Append(events, Told("output", of, trigger.response, {}))
  /\ UNCHANGED <<client, trigger, tools, wire, frames>>

-----------------------------------------------------------------------------
(***************************************************************************)
(* functionCallFingerprint: bound to the caller's turn, not to the         *)
(* response, so that a retransmission within the turn is recognised and    *)
(* the results of one turn are not given to a later one.                   *)
(***************************************************************************)
Fingerprint(args) == [turn |-> trigger.turn, args |-> args]

Known == {c \in Calls : tools.print[c] # NoPrint}

(***************************************************************************)
(* A batch that repeats admitted calls.                                    *)
(***************************************************************************)
Replayed(calls, args) ==
  \A c \in calls : tools.print[c] = Fingerprint(args)

WholeBatch(calls) ==
  \E c \in calls : calls = {d \in Known : tools.batch[d] = tools.batch[c]}

(***************************************************************************)
(* The batch is admitted: no call of it is known, no batch is open, the    *)
(* ledger has room, and the trigger expects the provider.                  *)
(***************************************************************************)
MutantAdmissible(calls) ==
  /\ tools.active = {}
  /\ Cardinality(Known) + Cardinality(calls) <= MaxTracked
  /\ trigger.phase \in {"provider", "post"}

Admissible(calls) ==
  /\ calls \cap Known = {}
  /\ tools.active = {}
  /\ Cardinality(Known) + Cardinality(calls) <= MaxTracked
  /\ trigger.phase \in {"provider", "post"}

AdmitCalls(calls, args) ==
  /\ tools' = [tools EXCEPT
                 !.print = [c \in Calls |-> IF c \in calls THEN Fingerprint(args)
                                            ELSE @[c]],
                 !.batch = [c \in Calls |-> IF c \in calls THEN tools.batches + 1
                                            ELSE @[c]],
                 !.batches = @ + 1,
                 !.active = calls,
                 !.pending = IF Internal THEN @ \cup calls ELSE @]
  /\ trigger' = [Started EXCEPT !.phase = "tool"]
  /\ speech' = SpokenAnew
  /\ events' = events \o StartEvent
                 \o <<Told("calls", trigger.response, trigger.response, calls)>>
  /\ UNCHANGED <<client, wire>>

(***************************************************************************)
(* handleExactToolBatchReplay.  Only a whole batch may be repeated.  One   *)
(* in flight is left alone, one that was answered is answered again from   *)
(* the results kept, unless some call of it was cancelled.                 *)
(***************************************************************************)
Resendable(calls) ==
  /\ calls \cap tools.active = {}
  /\ calls \cap tools.cancelled = {}
  /\ calls \subseteq tools.completed

ReplayCalls(calls) ==
  \/ /\ ~WholeBatch(calls)
     /\ Fail("partial_tool_batch_replay")
     /\ UNCHANGED <<speech, wire>>
  \/ /\ WholeBatch(calls)
     /\ wire' = IF Resendable(calls) THEN Append(wire, Frame("tool", calls))
                ELSE wire
     /\ UNCHANGED <<client, trigger, tools, speech, events>>
  \/ /\ WholeBatch(calls) /\ Resendable(calls)
     /\ Fail("tool_response_replay_send_failed")
     /\ UNCHANGED <<speech, wire>>

(***************************************************************************)
(* handleToolCalls.                                                        *)
(***************************************************************************)
ToolCalls(calls, args) ==
  /\ Arrives
  /\ \/ /\ Triggered /\ Replayed(calls, args)
        /\ ReplayCalls(calls)
     \/ /\ Triggered /\ ~Replayed(calls, args) /\ Admissible(calls)
        /\ AdmitCalls(calls, args)
     \/ /\ ~(Triggered /\ (Replayed(calls, args) \/ Admissible(calls)))
        /\ Fail("tool_call_refused")
        /\ UNCHANGED <<speech, wire>>
  /\ UNCHANGED voice

(***************************************************************************)
(* handleToolCancellation: known calls, before the response is terminal.   *)
(***************************************************************************)
ToolCallCancellation(calls) ==
  /\ Arrives
  /\ \/ /\ ~PastTerminal /\ calls \subseteq Known
        /\ tools' = [tools EXCEPT !.cancelled = @ \cup calls,
                                  !.active = @ \ calls]
        /\ events' = Append(events, Told("cancelled", 0, 0, calls))
        /\ UNCHANGED <<client, trigger>>
     \/ /\ PastTerminal \/ ~(calls \subseteq Known)
        /\ Fail("invalid_tool_cancellation")
  /\ UNCHANGED <<speech, voice, wire>>

Provider ==
  \/ Invalid \/ ModelContent \/ Interrupted \/ TurnComplete
  \/ \E of \in 1..MaxTurns, finished \in BOOLEAN : InputTranscript(of, finished)
  \/ \E of \in 1..client.responses, finished \in BOOLEAN :
       OutputTranscript(of, finished)
  \/ \E calls \in SUBSET Calls \ {{}}, args \in {1, 2} : ToolCalls(calls, args)
  \/ \E calls \in SUBSET Calls \ {{}} : ToolCallCancellation(calls)

Caller ==
  \/ Connect \/ Close \/ Hydrate \/ StartActivity \/ AppendInputAudio
  \/ PrepareResponse \/ EndActivity \/ SendTextTurn \/ PrepareToolContinuation
  \/ SubmitToolResults

Next ==
  \/ Caller \/ Provider
  \/ HandleOpen \/ HandleSetupComplete \/ FailConnect \/ TransportError
  \/ HandleClose \/ EnforceSessionLimit
  \/ \E c \in Calls : ExecutorReturns(c)

Spec == Init /\ [][Next]_vars

-----------------------------------------------------------------------------
Phases == {"none", "provider", "tool", "post", "terminal"}

(***************************************************************************)
(* Types, and an activity is only open while no turn is in progress.       *)
(***************************************************************************)
TypeOK ==
  /\ client.state \in {"idle", "connecting", "ready", "closing", "closed", "failed"}
  /\ client.epoch \in 0..MaxEpochs /\ client.turn \in 0..MaxTurns
  /\ trigger.phase \in Phases /\ trigger.turn \in 0..client.turn
  /\ trigger.response \in 0..client.responses
  /\ tools.active \subseteq Known /\ tools.pending \subseteq Known
  /\ tools.cancelled \subseteq Known
  /\ client.open => trigger.phase \in {"none", "terminal"}

IndicesOf(type) == {i \in 1..Len(events) : events[i].type = type}

(***************************************************************************)
(* A function call is announced, and so executed, at most once on a        *)
(* connection, however often the provider repeats it                       *)
(* (handleToolCalls, handleExactToolBatchReplay).                          *)
(***************************************************************************)
CallsRunOnce ==
  \A i, j \in IndicesOf("calls") :
     i # j => events[i].calls \cap events[j].calls = {}

Sends == Len(wire') = Len(wire) + 1 /\ Last(wire').type = "tool"

CurrentResult ==
  Sends =>
    LET calls == Last(wire').calls
    IN  /\ calls # {}
        /\ calls \cap tools.cancelled = {}
        /\ \A c \in calls : /\ tools.print[c].turn = client.turn
                            /\ {d \in Known : tools.batch[d] = tools.batch[c]}
                                 \ tools.cancelled = calls

(***************************************************************************)
(* A tool response answers calls of the turn in progress, none of which    *)
(* was cancelled, and leaves no call of their batch out: never the late    *)
(* result of an executor or of a caller that was overtaken by a            *)
(* cancellation, a new turn or a new connection.                           *)
(***************************************************************************)
ResultsAreCurrent == [][CurrentResult]_vars

(***************************************************************************)
(* A response that is completed was started or never appeared, is          *)
(* completed once, and nothing of it but late transcripts is announced     *)
(* afterwards.                                                             *)
(***************************************************************************)
ResponsesEndOnce ==
  \A i \in IndicesOf("completed"), j \in 1..Len(events) :
     i < j /\ events[j].of = events[i].of => events[j].type \in {"input", "output"}

(***************************************************************************)
(* A transcript of the caller's speech is attributed to the turn in which  *)
(* it was spoken, although the provider may deliver it after the next turn *)
(* began (startActivity, handleTranscript).                                *)
(***************************************************************************)
InputIsAttributed ==
  \A i \in IndicesOf("input") : events[i].of = events[i].to

Count(seq, type) == Cardinality({i \in 1..Len(seq) : seq[i].type = type})

(***************************************************************************)
(* The setup is the first frame of a connection, the history the second    *)
(* where there is one, and no turn is triggered while another one is       *)
(* unanswered (handleOpen, hydrateConversationHistory, startActivity).     *)
(***************************************************************************)
FramesAreInOrder ==
  /\ \A i \in 1..Len(wire) : wire[i].type = "setup" <=> i = 1
  /\ Hydration =>
       \A i \in 1..Len(wire) : wire[i].type = "history" <=> i = 2
  /\ Count(wire, "end") <= Count(events, "completed") + 1

(***************************************************************************)
(* connect settles: the connection becomes ready, or the promise is        *)
(* rejected by the timer, and a connection that is closing closes.         *)
(***************************************************************************)
ConnectSettles ==
  client.state \in {"connecting", "closing"} ~> client.state \notin {"connecting", "closing"}

=============================================================================
