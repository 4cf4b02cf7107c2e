--------------------------- MODULE RealtimeClient ---------------------------
(***************************************************************************)
(* The client of a realtime voice provider                                 *)
(* (lib/realtime/client/openai-compatible.ts) with its normaliser, the     *)
(* provider at the other end of the socket, and the host that calls the    *)
(* client's operations.                                                    *)
(*                                                                         *)
(* The client is one object on one thread.  A wire event becomes a list of *)
(* normalised events that are handled in turn, and each handling calls the *)
(* host's listeners, which may call back into the client: `frame' holds    *)
(* the events not yet handled, the host's operations may come between any  *)
(* two of them, and timers, the socket and awaited promises only run when  *)
(* it is empty.                                                            *)
(***************************************************************************)
EXTENDS RealtimeEvents

CONSTANTS
  Mode,           \* "manual" or "server_vad" turn detection
  Policy,         \* unexpectedManualTurnDetectionPolicy: "diagnose" or "fail"
  Context,        \* Context[t]: instructions prepared for server-VAD turn t
  HistoryCall,    \* HistoryCall[i]: the call item i of the history makes
  MaxPending,     \* MAX_PENDING_INPUT_COMMITS
  MaxCommits,     \* bound: commits the host makes
  MaxTurns,       \* bound: server-VAD turns the host prepares
  Wire,           \* bound: the wire events a provider may send
  Operations,     \* bound: the operations the host uses
  Faults          \* bound: whether the socket may break

ModeAssumption == Mode \in {"manual", "server_vad"} /\ Policy \in {"diagnose", "fail"}

VARIABLES
  client,       \* the state of the client object
  normalizer,   \* the state of its normaliser
  frame,        \* normalised events of the current wire event, to be handled
  provider,     \* what the provider still has to answer
  observed      \* what the host was told, for the properties

vars == <<client, normalizer, frame, provider, observed>>

HistoryItems == DOMAIN HistoryCall

NoTurn == [phase |-> "none", ordinal |-> 0, active |-> NoResponse]

TurnPhases ==
  {"none", "awaiting_session_ack", "ready_for_audio", "speech_started",
   "speech_stopped", "auto_committed", "response_started"}

(***************************************************************************)
(* The client:                                                             *)
(*   state      currentState;  connect: the promise of connect()           *)
(*   input      inputPhase                                                 *)
(*   prepared, continuation   the two pending preparations                 *)
(*   batch, batchOf           pendingToolBatch and its response            *)
(*   resume     pendingToolContinuationResponseId                          *)
(*   awaiting   awaitingServerVadContinuationOriginId                      *)
(*   commits, discarded, ordinal   the queue of unacknowledged commits     *)
(*   turn       pendingServerVadTurn;  turns: serverVadTurnOrdinal         *)
(*   active     conversationActivityStarted; spoken: a response was        *)
(*              requested or started                                       *)
(*   history    the hydration of the history: [phase, item]                *)
(*   seals      cancellationSeals;  metered: usage not yet reported        *)
(*   admitted   providerToolCallIds;  owner: providerWireToolCalls         *)
(***************************************************************************)
NewClient ==
  [state |-> "idle", connect |-> "none", opened |-> FALSE, input |-> "empty",
   prepared |-> FALSE, continuation |-> FALSE,
   batch |-> {}, batchOf |-> NoResponse, resume |-> NoResponse,
   awaiting |-> NoResponse, commits |-> <<>>, discarded |-> 0, ordinal |-> 0,
   turn |-> NoTurn, turns |-> 0, active |-> FALSE, spoken |-> FALSE,
   history |-> [phase |-> "none", item |-> 0],
   seals |-> {}, metered |-> FALSE, admitted |-> {},
   owner |-> [c \in Calls |-> NoResponse]]

Init ==
  /\ client = NewClient
  /\ normalizer = NewNormalizer
  /\ frame = <<>>
  /\ provider = [updates |-> <<>>, commits |-> <<>>, asked |-> FALSE]
  /\ observed = [dispatched |-> [c \in Calls |-> 0], voiced |-> {},
                 resolved |-> {}, acked |-> 0]

Ready(k) == k.state = "ready"
Hydrating(k) == k.history.phase \in {"sent", "acknowledged", "rejected"}

(***************************************************************************)
(* sendReady for anything but the items of the history.                    *)
(***************************************************************************)
MaySend(k) == Ready(k) /\ ~Hydrating(k)

Sent(k) == [k EXCEPT !.active = TRUE]

(***************************************************************************)
(* What close(), a failure and the end of the socket have in common: every *)
(* pending preparation, batch and turn is dropped, every promise that is   *)
(* waited for is rejected, and the usage that was measured is reported.    *)
(***************************************************************************)
Cleared(k) ==
  [k EXCEPT !.input = "empty", !.prepared = FALSE, !.continuation = FALSE,
            !.batch = {}, !.batchOf = NoResponse, !.resume = NoResponse,
            !.awaiting = NoResponse, !.commits = <<>>, !.turn = NoTurn,
            !.history.phase = IF @ = "sent" THEN "rejected" ELSE @,
            !.metered = FALSE]

(***************************************************************************)
(* failConnection: without effect on a connection that failed or closed.   *)
(***************************************************************************)
Failed(k) ==
  IF k.state \in {"failed", "closed"}
  THEN k
  ELSE [Cleared(k) EXCEPT !.state = "failed",
                          !.connect = IF @ = "pending" THEN "rejected" ELSE @]

(***************************************************************************)
(* connect(), the opening of the socket and the connection's timer.  The   *)
(* socket factory may throw.                                               *)
(***************************************************************************)
Connect ==
  /\ client.state = "idle"
  /\ \/ client' = [client EXCEPT !.state = "connecting", !.connect = "pending"]
     \/ /\ Faults
        /\ client' = Failed([client EXCEPT !.state = "connecting",
                                           !.connect = "pending"])
  /\ UNCHANGED <<normalizer, frame, provider, observed>>

OnSocketOpen ==
  /\ frame = <<>> /\ client.state = "connecting" /\ ~client.opened
  /\ client' = [client EXCEPT !.opened = TRUE]
  /\ provider' = [provider EXCEPT !.updates = <<0>>]
  /\ UNCHANGED <<normalizer, frame, observed>>

MutantConnectTimer ==
  /\ frame = <<>> /\ client.state = "connecting" /\ client.opened
  /\ client' = Failed(client)
  /\ UNCHANGED <<normalizer, frame, provider, observed>>

ConnectTimer ==
  /\ frame = <<>> /\ client.state = "connecting"
  /\ client' = Failed(client)
  /\ UNCHANGED <<normalizer, frame, provider, observed>>

(***************************************************************************)
(* appendInputAudio.                                                       *)
(***************************************************************************)
AppendInputAudio ==
  /\ Mode = "server_vad" => client.turn.phase \in {"ready_for_audio", "speech_started"}
  /\ client.batch = {} /\ ~client.prepared /\ client.input # "committed"
  /\ MaySend(client)
  /\ client' = [Sent(client) EXCEPT !.input = "buffered", !.metered = TRUE]
  /\ UNCHANGED <<normalizer, frame, provider, observed>>

(***************************************************************************)
(* prepareResponse and prepareToolContinuation: instructions for the next  *)
(* response.                                                               *)
(***************************************************************************)
PrepareResponse ==
  /\ Mode = "manual" /\ ~Hydrating(client) /\ Ready(client)
  /\ client.batch = {} /\ client.input = "buffered" /\ ~client.prepared
  /\ client' = [client EXCEPT !.prepared = TRUE]
  /\ UNCHANGED <<normalizer, frame, provider, observed>>

PrepareToolContinuation ==
  /\ ~Hydrating(client) /\ Ready(client)
  /\ client.batch # {}
  /\ ~client.prepared /\ ~client.continuation
  /\ client' = [client EXCEPT !.continuation = TRUE]
  /\ UNCHANGED <<normalizer, frame, provider, observed>>

(***************************************************************************)
(* prepareServerVadTurn: the session is updated with the turn's            *)
(* instructions, and audio has to wait for the acknowledgement.            *)
(***************************************************************************)
PrepareServerVadTurn ==
  /\ Mode = "server_vad" /\ MaySend(client)
  /\ client.batch = {} /\ client.input = "empty" /\ client.turn = NoTurn
  /\ client.turns < MaxTurns
  /\ client' = [client EXCEPT
                  !.turns = @ + 1, !.spoken = FALSE,
                  !.turn = [NoTurn EXCEPT !.phase = "awaiting_session_ack",
                                          !.ordinal = client.turns + 1]]
  /\ provider' = [provider EXCEPT !.updates = Append(@, client.turns + 1)]
  /\ UNCHANGED <<normalizer, frame, observed>>

ServerVadTimer ==
  /\ frame = <<>> /\ client.turn.phase = "awaiting_session_ack"
  /\ client' = [client EXCEPT !.turn = NoTurn]
  /\ UNCHANGED <<normalizer, frame, provider, observed>>

(***************************************************************************)
(* commitInputAudio.  A full queue forgets its oldest commit, and counts   *)
(* the acknowledgement that is then no longer expected, unless somebody    *)
(* waits for it: then the call throws.                                     *)
(***************************************************************************)
QueueFull(k) == Len(k.commits) >= MaxPending

MayCommit(k) == QueueFull(k) => ~Head(k.commits).waited

Forgotten(k) ==
  IF QueueFull(k)
  THEN [k EXCEPT !.commits = Tail(@),
                 !.discarded = IF Head(k.commits).ack = 0 THEN @ + 1 ELSE @]
  ELSE k

Committed(k) ==
  [Forgotten(k) EXCEPT
     !.ordinal = @ + 1, !.input = "committed", !.active = TRUE,
     !.commits = Append(@, [ordinal |-> k.ordinal + 1, ack |-> 0,
                            waited |-> FALSE])]

CommitInputAudio ==
  /\ Mode = "manual" /\ client.batch = {} /\ client.input = "buffered"
  /\ MaySend(client) /\ MayCommit(client) /\ client.ordinal < MaxCommits
  /\ client' = Committed(client)
  /\ provider' = [provider EXCEPT !.commits = Append(@, client.ordinal + 1)]
  /\ UNCHANGED <<normalizer, frame, observed>>

(***************************************************************************)
(* waitForInputAudioCommit waits for the newest commit; its timer gives up *)
(* the wait and leaves the commit in the queue.                            *)
(***************************************************************************)
WaitForInputAudioCommit ==
  /\ client.commits # <<>>
  /\ LET last == Len(client.commits)
         commit == client.commits[last]
     IN  IF commit.ack # 0
         THEN /\ client' = [client EXCEPT !.commits = SubSeq(@, 1, last - 1)]
              /\ observed' = [observed EXCEPT
                                !.resolved = @ \cup {<<commit.ordinal, commit.ack>>}]
         ELSE /\ client' = [client EXCEPT !.commits[last].waited = TRUE]
              /\ UNCHANGED observed
  /\ UNCHANGED <<normalizer, frame, provider>>

WaitTimer ==
  /\ frame = <<>>
  /\ \E i \in DOMAIN client.commits :
       /\ client.commits[i].waited
       /\ client' = [client EXCEPT !.commits[i].waited = FALSE]
  /\ UNCHANGED <<normalizer, frame, provider, observed>>

ClearInputAudio ==
  /\ MaySend(client)
  /\ client' = [Sent(client) EXCEPT !.prepared = FALSE, !.input = "empty"]
  /\ UNCHANGED <<normalizer, frame, provider, observed>>

(***************************************************************************)
(* createResponse: the request carries whichever preparation is pending.   *)
(***************************************************************************)
MayCreate(k) ==
  /\ k.batch = {} /\ MaySend(k) /\ k.input # "buffered"
  /\ Mode = "server_vad" => k.resume # NoResponse
  /\ ~(k.prepared /\ k.continuation)

Created(k) ==
  [Sent(k) EXCEPT
     !.spoken = TRUE, !.resume = NoResponse,
     !.awaiting = IF Mode = "server_vad" THEN k.resume ELSE @,
     !.prepared = FALSE, !.continuation = FALSE,
     !.input = "empty"]

Asked == [provider EXCEPT !.asked = TRUE]

CreateResponse ==
  /\ MayCreate(client)
  /\ client' = Created(client)
  /\ provider' = Asked
  /\ UNCHANGED <<normalizer, frame, observed>>

(***************************************************************************)
(* sendTurn and sendTextTurn: a turn in one call.  What was sent before a  *)
(* step throws stays sent.                                                 *)
(***************************************************************************)
SendTurn ==
  /\ Mode = "manual" /\ client.batch = {} /\ client.input = "empty"
  /\ ~client.prepared /\ MaySend(client) /\ client.ordinal < MaxCommits
  /\ LET appended == [Sent(client) EXCEPT !.input = "buffered", !.metered = TRUE]
     IN  IF MayCommit(client)
         THEN /\ client' = Created(Committed(appended))
              /\ provider' = [Asked EXCEPT !.commits = Append(@, client.ordinal + 1)]
         ELSE client' = appended /\ UNCHANGED provider
  /\ UNCHANGED <<normalizer, frame, observed>>

SendTextTurn ==
  /\ client.batch = {} /\ MaySend(client)
  /\ LET written == [Sent(client) EXCEPT !.metered = TRUE]
     IN  \/ client' = written /\ UNCHANGED provider
         \/ MayCreate(written) /\ client' = Created(written) /\ provider' = Asked
  /\ UNCHANGED <<normalizer, frame, observed>>

(***************************************************************************)
(* submitToolResults: the results of the whole batch, and, if asked for,   *)
(* the request for the response that continues from them.                  *)
(***************************************************************************)
SubmitToolResults(create) ==
  /\ client.batch # {} /\ MaySend(client)
  /\ ~(create /\ client.continuation)
  /\ client' = [Sent(client) EXCEPT
                  !.batch = {}, !.batchOf = NoResponse,
                  !.resume = IF create THEN @ ELSE client.batchOf]
  /\ provider' = IF create THEN Asked ELSE provider
  /\ UNCHANGED <<normalizer, frame, observed>>

CancelResponse ==
  /\ MaySend(client) /\ Cardinality(client.seals) < MaxIdentities
  /\ \E r \in Responses \ client.seals :
       client' = [Sent(client) EXCEPT !.seals = @ \cup {r}]
  /\ UNCHANGED <<normalizer, frame, provider, observed>>

(***************************************************************************)
(* close(): from idle it closes at once; otherwise the socket is asked to. *)
(***************************************************************************)
Close ==
  /\ client.state \in {"idle", "connecting", "ready"}
  /\ client' = IF client.state = "idle"
               THEN [client EXCEPT !.state = "closed"]
               ELSE [Cleared(client) EXCEPT
                       !.state = "closing",
                       !.connect = IF @ = "pending" THEN "rejected" ELSE @]
  /\ UNCHANGED <<normalizer, frame, provider, observed>>

OnSocketClose ==
  /\ frame = <<>> /\ client.state \notin {"idle", "closed"}
  /\ Faults \/ client.state \in {"closing", "failed"}
  /\ client' = [Cleared(client) EXCEPT
                  !.state = IF @ = "failed" THEN @ ELSE "closed",
                  !.connect = IF @ = "pending" THEN "rejected" ELSE @]
  /\ UNCHANGED <<normalizer, frame, provider, observed>>

OnSocketError ==
  /\ Faults /\ frame = <<>> /\ client.state \in {"connecting", "ready"}
  /\ client' = Failed(client)
  /\ UNCHANGED <<normalizer, frame, provider, observed>>

(***************************************************************************)
(* hydrateConversationHistory: before anything else was said, the items of *)
(* an earlier conversation are written one by one, each after the one      *)
(* before it was acknowledged.  Any failure fails the connection.          *)
(***************************************************************************)
Fresh(k) ==
  /\ ~k.active /\ ~k.spoken /\ k.input = "empty" /\ k.turn = NoTurn
  /\ k.batch = {} /\ k.resume = NoResponse
  /\ ~k.prepared /\ ~k.continuation

WriteItem(k, i) == [k EXCEPT !.history = [phase |-> "sent", item |-> i], !.metered = TRUE]

HydrateConversationHistory ==
  /\ Ready(client) /\ client.history.phase = "none" /\ Fresh(client)
  /\ HistoryItems # {}
  /\ client' = WriteItem(client, 1)
  /\ UNCHANGED <<normalizer, frame, provider, observed>>

HydrationContinues ==
  /\ frame = <<>> /\ client.history.phase \in {"acknowledged", "rejected"}
  /\ LET next == client.history.item + 1
         ended == [client EXCEPT !.history.phase = "ended"]
     IN  client' =
           CASE client.history.phase = "acknowledged" /\ next \notin HistoryItems -> ended
             [] client.history.phase = "acknowledged" /\ next \in HistoryItems /\ Ready(client) ->
                  WriteItem(client, next)
             [] OTHER -> Failed(ended)
  /\ UNCHANGED <<normalizer, frame, provider, observed>>

HydrationTimer ==
  /\ frame = <<>> /\ client.history.phase = "sent"
  /\ client' = [client EXCEPT !.history.phase = "rejected"]
  /\ UNCHANGED <<normalizer, frame, provider, observed>>

(***************************************************************************)
(* acknowledgeConversationHistoryItem and validateConversationHistory-     *)
(* ItemDone: w.of is the item, and form "rewritten" an item whose contents *)
(* are not the ones that were written.  TRUE: the connection must fail.    *)
(***************************************************************************)
AcknowledgedItems(k) ==
  {i \in HistoryItems :
     \/ i < k.history.item
     \/ i = k.history.item /\ k.history.phase \in {"acknowledged", "ended"}}

ItemRewritten(w) == w.form = "rewritten"

ItemAddedInvalid(k, w) ==
  IF k.history.phase = "sent"
  THEN w.of # k.history.item \/ ItemRewritten(w)
  ELSE w.of \in AcknowledgedItems(k) \/ Hydrating(k)

ItemDoneInvalid(k, w) ==
  IF w.of \in AcknowledgedItems(k) THEN ItemRewritten(w) ELSE Hydrating(k)

(***************************************************************************)
(* The checks of onSocketMessage before anything is normalised: events     *)
(* that may not come during the hydration or before the session was        *)
(* acknowledged, and a call that is claimed by a second response.          *)
(***************************************************************************)
ControlTypes == {"session.updated", "error", "ping"}

Interleaved(k, w) ==
  Hydrating(k) /\ w.type \notin ControlTypes \cup {"item.added", "item.done"}

BeforeReady(k, w) == k.state = "connecting" /\ w.type \notin ControlTypes

NamedCalls(w) ==
  IF w.type = "function_call.cancelled" THEN {}
  ELSE (w.calls \cup {w.call}) \ {NoCall}

WireIdentityError(k, w) ==
  \E c \in NamedCalls(w) : k.owner[c] \notin {NoResponse, w.response}

Owned(k, w) ==
  [k EXCEPT !.owner = [c \in Calls |-> IF c \in NamedCalls(w) THEN w.response ELSE @[c]]]

(***************************************************************************)
(* A session.updated must show the configuration that is asked for: that   *)
(* of the turn that awaits it, or else the one the session began with.     *)
(***************************************************************************)
Requested(k) ==
  IF k.turn.phase = "awaiting_session_ack" THEN Context[k.turn.ordinal] ELSE Context[0]

Acknowledged(w) == IF w.form = "rewritten" THEN -1 ELSE Context[w.of]

Mismatch(k, w) == w.type = "session.updated" /\ Acknowledged(w) # Requested(k)

Refuses(k, w) ==
  \/ Interleaved(k, w)
  \/ BeforeReady(k, w)
  \/ WireIdentityError(k, w)
  \/ Mismatch(k, w)
  \/ w.type = "error" /\ Hydrating(k)
  \/ w.type = "item.added" /\ ItemAddedInvalid(k, w)
  \/ w.type = "item.done" /\ ItemDoneInvalid(k, w)

(***************************************************************************)
(* What an admitted event settles before its normalised events are         *)
(* handled: the item of the history or the turn that waited for it.        *)
(***************************************************************************)
Settled(k, w) ==
  CASE w.type = "item.added" /\ k.history.phase = "sent" ->
         [k EXCEPT !.history.phase = "acknowledged"]
    [] w.type = "session.updated" /\ k.turn.phase = "awaiting_session_ack" ->
         [k EXCEPT !.turn.phase = "ready_for_audio"]
    [] OTHER -> k

(***************************************************************************)
(* onSocketMessage.                                                        *)
(***************************************************************************)
Receive(w) ==
  /\ frame = <<>> /\ client.state \in {"connecting", "ready"}
  /\ IF Refuses(client, w)
     THEN client' = Failed(client) /\ UNCHANGED <<normalizer, frame>>
     ELSE LET result == Normalize(normalizer, w)
          IN  /\ normalizer' = result.normalizer
              /\ frame' = result.events
              /\ client' = Settled(Owned(client, w), w)

OnSocketMessage ==
  /\ \E w \in Wire : Receive(w)
  /\ UNCHANGED <<provider, observed>>

(***************************************************************************)
(* The provider answers what it was sent, in the order it was sent: it     *)
(* acknowledges a session update (perhaps not the one asked for) or a      *)
(* commit, or starts the response that was asked for.                      *)
(***************************************************************************)
WireEvent(type, r, form, of) ==
  [type |-> type, response |-> r, call |-> NoCall, form |-> form,
   calls |-> {}, of |-> of]

ProviderAcknowledgesSession ==
  /\ provider.updates # <<>>
  /\ \E form \in {"exact", "rewritten"} :
       Receive(WireEvent("session.updated", NoResponse, form, Head(provider.updates)))
  /\ provider' = [provider EXCEPT !.updates = Tail(@)]
  /\ observed' = [observed EXCEPT !.acked = Head(provider.updates)]

ProviderAcknowledgesCommit ==
  /\ provider.commits # <<>>
  /\ Receive(WireEvent("input_audio_buffer.committed", NoResponse, "exact",
                       Head(provider.commits)))
  /\ provider' = [provider EXCEPT !.commits = Tail(@)]
  /\ UNCHANGED observed

ProviderStartsResponse ==
  /\ provider.asked
  /\ \E r \in Responses \ normalizer.started :
       /\ normalizer.terminal[r] = NoTerminal
       /\ Receive(WireEvent("response.created", r, "exact", 1))
  /\ provider' = [provider EXCEPT !.asked = FALSE]
  /\ UNCHANGED observed

(***************************************************************************)
(* acknowledgeInputAudioCommit: acknowledgements carry no identity and are *)
(* matched first in, first out.                                            *)
(***************************************************************************)
Unacknowledged(k) == {i \in DOMAIN k.commits : k.commits[i].ack = 0}

First(S) == CHOOSE i \in S : \A j \in S : i <= j

Without(q, i) == SubSeq(q, 1, i - 1) \o SubSeq(q, i + 1, Len(q))

AcknowledgeInputAudioCommit(k, e) ==
  LET i == First(Unacknowledged(k))
  IN  CASE k.discarded > 0 -> [k EXCEPT !.discarded = @ - 1]
        [] k.discarded = 0 /\ Unacknowledged(k) = {} -> k
        [] OTHER -> IF k.commits[i].waited
                    THEN [k EXCEPT !.commits = Without(@, i)]
                    ELSE [k EXCEPT !.commits[i].ack = e.of]

(***************************************************************************)
(* The waits that event e resolves, with the commit they waited for and    *)
(* the one the provider acknowledged.                                      *)
(***************************************************************************)
ResolvedBy(k, e) ==
  IF e.type # "input.committed" \/ Mode # "manual" \/ k.discarded > 0
  THEN {}
  ELSE {<<k.commits[i].ordinal, e.of>> :
          i \in {j \in Unacknowledged(k) : j = First(Unacknowledged(k)) /\ k.commits[j].waited}}

(***************************************************************************)
(* The order of events the frozen server-VAD turn demands.                 *)
(***************************************************************************)
SpeechPhase(e) == IF e.status = "started" THEN "ready_for_audio" ELSE "speech_started"

TurnAccepts(k, e) ==
  CASE e.type = "input.committed" -> k.turn.phase = "speech_stopped"
    [] e.type = "input.speech" -> k.turn.phase = SpeechPhase(e)
    [] e.type = "response.started" ->
         \/ k.turn.phase = "auto_committed"
         \/ /\ k.turn.phase = "response_started"
            /\ k.awaiting \notin {NoResponse, e.response}
    [] e.type = "turn.interrupted" -> FALSE
    [] e.type = "response.completed" ->
         /\ k.turn # NoTurn /\ k.turn.active = e.response
         /\ e.status = "completed"
    [] OTHER -> TRUE

TurnAfter(k, e) ==
  CASE e.type = "input.committed" ->
         [k EXCEPT !.turn.phase = "auto_committed", !.input = "empty"]
    [] e.type = "input.speech" ->
         [k EXCEPT !.turn.phase = IF e.status = "started" THEN "speech_started"
                                  ELSE "speech_stopped"]
    [] e.type = "response.started" ->
         IF k.turn.phase = "auto_committed"
         THEN [k EXCEPT !.turn.phase = "response_started", !.turn.active = e.response]
         ELSE [k EXCEPT !.turn.active = e.response, !.awaiting = NoResponse]
    [] e.type = "response.completed" ->
         IF k.batch = {} THEN [k EXCEPT !.turn = NoTurn] ELSE k
    [] OTHER -> k

(***************************************************************************)
(* admitProviderToolCalls, the overlap of two batches, and the events of a *)
(* response whose cancellation was requested.                              *)
(***************************************************************************)
HydratedCalls(k) == {HistoryCall[i] : i \in AcknowledgedItems(k)}

BatchInvalid(k, e) ==
  \/ e.calls \cap (k.admitted \cup HydratedCalls(k)) # {}
  \/ k.batch # {}

Sealed(k, e) == e.response \in k.seals


BreaksSeal(k, e) ==
  /\ Sealed(k, e)
  /\ \/ e.type = "tool.calls"
     \/ e.type = "response.completed" /\ e.status # "cancelled"

(***************************************************************************)
(* The event makes the client fail the connection and stop.                *)
(***************************************************************************)
Rejects(k, e) ==
  \/ Mode = "server_vad" /\ ~TurnAccepts(k, e)
  \/ Mode = "manual" /\ e.type = "input.speech" /\ Policy = "fail"
  \/ BreaksSeal(k, e)
  \/ e.type = "tool.calls" /\ BatchInvalid(k, e)
  \/ e.type = "error" /\ (e.status = "fatal" \/ k.state = "connecting")

(***************************************************************************)
(* The client after an event that it does not reject.                      *)
(***************************************************************************)
Handled(k, e) ==
  LET turned == IF Mode = "server_vad" THEN TurnAfter(k, e) ELSE k
  IN  CASE e.type = "session.ready" /\ k.state = "connecting" ->
             [k EXCEPT !.state = "ready", !.connect = "resolved"]
        [] e.type = "input.committed" /\ Mode = "manual" ->
             AcknowledgeInputAudioCommit(k, e)
        [] e.type = "response.started" -> [turned EXCEPT !.spoken = TRUE]
        [] e.type = "output.audio" -> [k EXCEPT !.metered = TRUE]
        [] e.type = "usage" -> [k EXCEPT !.metered = FALSE]
        [] e.type = "tool.calls" ->
             [k EXCEPT !.batch = e.calls, !.batchOf = e.response,
                       !.admitted = @ \cup e.calls]
        [] e.type = "tool.cancelled" ->
             [k EXCEPT !.batch = @ \ e.calls,
                       !.batchOf = IF k.batch \subseteq e.calls THEN NoResponse ELSE @]
        [] OTHER -> turned

(***************************************************************************)
(* What the host's listeners are told: audio and calls, except those of a  *)
(* response whose cancellation was requested.                              *)
(***************************************************************************)
Heard(k, e) == e.type = "output.audio" /\ ~Sealed(k, e)

Told(k, e) ==
  [observed EXCEPT
     !.voiced = IF Heard(k, e) THEN @ \cup {e.response} ELSE @,
     !.dispatched = IF e.type = "tool.calls"
                    THEN [c \in Calls |-> IF c \in e.calls THEN @[c] + 1 ELSE @[c]]
                    ELSE @,
     !.resolved = @ \cup ResolvedBy(k, e)]

(***************************************************************************)
(* One turn of the loop of onSocketMessage.                                *)
(***************************************************************************)
Deliver ==
  /\ frame # <<>>
  /\ LET e == Head(frame)
     IN  IF Rejects(client, e)
         THEN /\ client' = Failed(client)
              /\ frame' = <<>>
              /\ UNCHANGED observed
         ELSE /\ client' = Handled(client, e)
              /\ frame' = Tail(frame)
              /\ observed' = Told(client, e)
  /\ UNCHANGED <<normalizer, provider>>

Uses(operation) == operation \in Operations

Host ==
  \/ Connect
  \/ Uses("close") /\ Close
  \/ Uses("audio") /\ (AppendInputAudio \/ ClearInputAudio)
  \/ Uses("prepare") /\ PrepareResponse
  \/ Uses("prepare") /\ PrepareToolContinuation
  \/ Uses("turns") /\ PrepareServerVadTurn
  \/ Uses("commits") /\ (CommitInputAudio \/ WaitForInputAudioCommit \/ SendTurn)
  \/ Uses("text") /\ SendTextTurn
  \/ Uses("create") /\ CreateResponse
  \/ Uses("cancel") /\ CancelResponse
  \/ Uses("history") /\ HydrateConversationHistory
  \/ Uses("tools") /\ \E create \in BOOLEAN : SubmitToolResults(create)

Timers ==
  ConnectTimer \/ ServerVadTimer \/ WaitTimer \/ HydrationTimer

Socket ==
  \/ OnSocketOpen \/ OnSocketClose \/ OnSocketError \/ OnSocketMessage
  \/ ProviderAcknowledgesSession \/ ProviderAcknowledgesCommit
  \/ ProviderStartsResponse

Next == Host \/ Timers \/ Socket \/ HydrationContinues \/ Deliver

Spec == Init /\ [][Next]_vars

(***************************************************************************)
(* Type correctness, and that the queue of commits respects its limit.     *)
(***************************************************************************)
TypeOK ==
  /\ client.state \in {"idle", "connecting", "ready", "closing", "closed", "failed"}
  /\ client.connect \in {"none", "pending", "resolved", "rejected"}
  /\ client.input \in {"empty", "buffered", "committed"}
  /\ client.turn.phase \in TurnPhases
  /\ client.batch \subseteq Calls /\ client.seals \subseteq Responses
  /\ client.discarded \in 0 .. MaxCommits
  /\ Len(client.commits) <= MaxPending
  /\ normalizer \in Normalizers
  /\ \A c \in Calls : observed.dispatched[c] \in 0 .. 2

DispatchedSoundly(c) ==
  LET r == normalizer.call[c].response
  IN  /\ observed.dispatched[c] = 0
      /\ c \notin HydratedCalls(client)
      /\ r \notin client.seals
      /\ normalizer.terminal[r].status = "completed"
      /\ \A d \in Calls : (normalizer.call[d].response = r /\ ~normalizer.call[d].cancelled)
                             => normalizer.call[d].completed /\ ~normalizer.call[d].rejected
      /\ ~normalizer.call[c].cancelled

SoundDispatch ==
  \A c \in Calls :
     observed'.dispatched[c] # observed.dispatched[c] => DispatchedSoundly(c)

(***************************************************************************)
(* A function call is handed out at most once, only when its response      *)
(* ended as completed and was not cancelled by the host, never under an    *)
(* identity of the hydrated history, and never beside a sibling call of    *)
(* the same response that did not complete.                                *)
(***************************************************************************)
DispatchIsSound == [][SoundDispatch]_vars

SilentWhenCancelled ==
  \A r \in client.seals : r \in observed'.voiced => r \in observed.voiced

(***************************************************************************)
(* A response that the host cancelled before any of its audio arrived is   *)
(* never heard, whatever is still in flight.                               *)
(***************************************************************************)
CancelledIsSilent == [][SilentWhenCancelled]_vars

(***************************************************************************)
(* Instructions prepared for the continuation of a tool batch wait for     *)
(* that continuation: the batch or its continuation is still open, so they *)
(* can not reach the response to some later turn.                          *)
(***************************************************************************)
PreparedContinuationIsLive ==
  client.continuation => client.batch # {} \/ client.resume # NoResponse

(***************************************************************************)
(* A wait for a commit is resolved by the acknowledgement of that commit,  *)
(* also after the queue forgot some and waits timed out.                   *)
(***************************************************************************)
AckIsForItsCommit == \A pair \in observed.resolved : pair[1] = pair[2]

(***************************************************************************)
(* A server-VAD turn accepts audio only after the provider acknowledged    *)
(* this turn's own session update.                                         *)
(***************************************************************************)
ExactAcknowledgement ==
  client.turn.phase = "ready_for_audio" => observed.acked = client.turn.ordinal

(***************************************************************************)
(* While the history is written nothing else is: no live operation of the  *)
(* host was sent before it or comes between its items.                     *)
(***************************************************************************)
HistoryComesFirst == Hydrating(client) => ~client.active

(***************************************************************************)
(* Whatever usage was measured is reported by the time the connection is   *)
(* over.                                                                   *)
(***************************************************************************)
UsageIsReported == client.state \in {"closed", "failed"} => ~client.metered

(***************************************************************************)
(* Every promise the client hands out is settled: that of connect(), of a  *)
(* turn's preparation, of a wait for a commit, and of the hydration.       *)
(***************************************************************************)
EveryPromiseSettles ==
  /\ (client.connect = "pending") ~> (client.connect # "pending")
  /\ (client.turn.phase = "awaiting_session_ack")
       ~> (client.turn.phase # "awaiting_session_ack")
  /\ (\E i \in DOMAIN client.commits : client.commits[i].waited)
       ~> (\A i \in DOMAIN client.commits : ~client.commits[i].waited)
  /\ Hydrating(client) ~> ~Hydrating(client)

=============================================================================
