--------------------------- MODULE ProviderSegment ---------------------------
(***************************************************************************)
(* One provider session of the benchmark bridge                            *)
(* (Lc4RealtimeProviderBridge in                                           *)
(* lib/benchmark/lc4-production-provider-adapter.ts): it is opened, plays  *)
(* a fixed number of caller opportunities to a realtime client, each with  *)
(* at most one repair, and is closed with a rotation receipt if every one  *)
(* of them was finalized.                                                  *)
(*                                                                         *)
(* An exchange is a chain of awaits; the client's events arrive between    *)
(* them and only write what the next step of the exchange reads.           *)
(*                                                                         *)
(*   session   the client's state and the session's flags, the finalized   *)
(*             opportunities, the opportunity awaiting its finalization,   *)
(*             the answered caller turns and the rotation receipt          *)
(*   step      where the exchange in flight waits                          *)
(*   inFlight  currentOpportunity is set                                   *)
(*   playback  canonical or repair                                         *)
(*   turn      phase of the turn: serverVadPhase or manualTurnPhase        *)
(*   reply     response tracking of the exchange                           *)
(*   errors    terminalError, manualTransportFatal, the gateway's failure  *)
(*   woken     the waiter of the exchange was resolved                     *)
(*   provider  responses the provider started and ended, and requests it   *)
(*             has not answered                                            *)
(*   outcome   how the last exchange ended                                 *)
(***************************************************************************)
EXTENDS Integers, FiniteSets

CONSTANTS
  Mode,       \* "manual" (OpenAI, Gemini), "xai manual" or "xai vad"
  Horizon,    \* opportunities of the segment
  Responses,  \* response identities
  Strays      \* the provider may start a response nobody asked for after the
              \* first response of a turn

ModeAssumption ==
  /\ Mode \in {"manual", "xai manual", "xai vad"}
  /\ Horizon \in Nat \ {0}
  /\ Strays \in BOOLEAN

VARIABLES
  session, step, inFlight, playback, turn, reply, errors, woken, provider,
  outcome

vars == <<session, step, inFlight, playback, turn, reply, errors, woken,
          provider, outcome>>

None == "none"
NullAssumption == None \notin Responses

NoReply == [active |-> None, root |-> None, terminal |-> {}, audio |-> {}]

Waiting == {"control", "append", "tail", "acknowledge", "wait", "listen"}

NoOutcome == [kind |-> "none", reply |-> None, started |-> FALSE,
              caused |-> {}]

Init ==
  /\ session = [client |-> "connecting", active |-> FALSE, closed |-> FALSE,
                poisoned |-> FALSE, ordinal |-> 0, pending |-> "none",
                answered |-> 0, receipt |-> FALSE]
  /\ step = "opening"
  /\ inFlight = FALSE
  /\ playback = "canonical"
  /\ turn = "none"
  /\ reply = NoReply
  /\ errors = [terminal |-> "none", manual |-> FALSE, gateway |-> FALSE]
  /\ woken = FALSE
  /\ provider = [started |-> {}, ended |-> {}, requests |-> 0,
                 requested |-> FALSE, caused |-> {}]
  /\ outcome = NoOutcome

-----------------------------------------------------------------------------
(***************************************************************************)
(* openSegment: connect, hydrate the history, bind the gateway; a failure  *)
(* or an aborted setup closes the client.                                  *)
(***************************************************************************)
OpenSegment ==
  /\ step = "opening"
  /\ \/ /\ session' = [session EXCEPT !.client = "ready", !.active = TRUE]
        /\ step' = "idle"
     \/ /\ session' = [session EXCEPT !.client = "closed"]
        /\ step' = "refused"
  /\ UNCHANGED <<inFlight, playback, turn, reply, errors, woken, provider, outcome>>

(***************************************************************************)
(* poisonSegment: the session ends at once, without a receipt.             *)
(***************************************************************************)
Poisoned(s) ==
  [s EXCEPT !.poisoned = TRUE, !.closed = TRUE, !.active = FALSE,
            !.client = "closed"]

Usable == ~session.closed /\ ~session.poisoned /\ session.client = "ready"

(***************************************************************************)
(* An exchange fails.  Once caller audio was appended, or when the         *)
(* provider closed the connection, the segment is poisoned.  The failure   *)
(* evidence says whether a response was requested and had started.         *)
(***************************************************************************)
ResponseStarted == provider.requested /\ reply.active # None

AfterAppend == step \in {"append", "tail", "acknowledge", "wait", "listen"}

Fail ==
  /\ session' = IF \/ AfterAppend
                   \/ errors.terminal = "closed" /\ ~errors.gateway
                THEN Poisoned(session) ELSE session
  /\ step' = "idle"
  /\ inFlight' = FALSE
  /\ outcome' = [kind |-> "failure", reply |-> reply.active,
                 started |-> ResponseStarted, caused |-> provider.caused]

(***************************************************************************)
(* exchange, up to its first await: the response tracking is reset before  *)
(* anything is checked; a session that is gone, a broken manual transport, *)
(* an opportunity in flight, or a playback out of order is refused.  When  *)
(* the gateway refuses to begin, the opportunity stays in flight.          *)
(***************************************************************************)
Reset(old) == NoReply

InOrder(kind) ==
  \/ kind = "canonical" /\ session.pending = "none" /\ session.ordinal < Horizon
  \/ kind = "repair" /\ session.pending = "answered"

Admitted(kind) ==
  Usable /\ session.active /\ ~errors.manual /\ ~inFlight /\ InOrder(kind)

RefuseExchange(kind) ==
  /\ step = "idle" /\ ~Admitted(kind)
  /\ reply' = Reset(reply)
  /\ session' = IF errors.terminal = "closed" /\ ~errors.gateway
                THEN Poisoned(session) ELSE session
  /\ outcome' = [NoOutcome EXCEPT !.kind = "failure", !.reply = reply'.active]
  /\ provider' = [provider EXCEPT !.requested = FALSE, !.caused = {}]
  /\ UNCHANGED <<step, inFlight, playback, turn, errors, woken>>

BeginExchange(kind) ==
  /\ step = "idle" /\ Admitted(kind)
  /\ reply' = Reset(reply)
  /\ inFlight' = TRUE
  /\ playback' = kind
  /\ turn' = IF Mode = "xai manual" THEN "audio_buffering" ELSE "none"
  /\ errors' = [errors EXCEPT !.terminal = "none"]
  /\ woken' = FALSE
  /\ provider' = [provider EXCEPT !.requested = FALSE, !.caused = {}]
  /\ IF errors.gateway
     THEN /\ outcome' = [NoOutcome EXCEPT !.kind = "failure"]
          /\ UNCHANGED step
     ELSE /\ step' = IF Mode = "xai vad" THEN "control" ELSE "append"
          /\ UNCHANGED outcome
  /\ UNCHANGED session

(***************************************************************************)
(* The server-VAD control is acknowledged, or its barrier fails; nothing   *)
(* was sent yet, so the segment stays usable.                              *)
(***************************************************************************)
ControlAcknowledged ==
  /\ step = "control"
  /\ \/ /\ Usable
        /\ step' = "append"
        /\ UNCHANGED <<session, inFlight, outcome>>
     \/ Fail
  /\ UNCHANGED <<playback, turn, reply, errors, woken, provider>>

(***************************************************************************)
(* Caller audio is appended at its pace; an abort or a client error ends   *)
(* it.  In manual mode the response is then prepared, the input committed  *)
(* and, unless the commit must be acknowledged first, a response created.  *)
(***************************************************************************)
Created == [provider EXCEPT !.requests = @ + 1, !.requested = TRUE]

AudioAppended ==
  /\ step = "append"
  /\ \/ /\ Fail
        /\ UNCHANGED <<turn, provider>>
     \/ /\ Usable
        /\ CASE Mode = "xai vad" ->
                  step' = "tail" /\ UNCHANGED <<turn, provider>>
             [] Mode = "xai manual" ->
                  /\ step' = "acknowledge"
                  /\ turn' = "commit_sent"
                  /\ UNCHANGED provider
             [] Mode = "manual" ->
                  /\ step' = "wait"
                  /\ provider' = Created
                  /\ UNCHANGED turn
        /\ UNCHANGED <<session, inFlight, outcome>>
  /\ UNCHANGED <<playback, reply, errors, woken>>

(***************************************************************************)
(* deliverXaiServerVadTransportSuffix: silence until the provider says     *)
(* that speech stopped, or until the frozen tail is used up.               *)
(***************************************************************************)
SpeechEnded == turn \in {"stopped", "committed", "responding"}

TailDelivered ==
  /\ step = "tail"
  /\ \/ Fail
     \/ /\ Usable /\ SpeechEnded
        /\ step' = "wait"
        /\ UNCHANGED <<session, inFlight, outcome>>
  /\ UNCHANGED <<playback, turn, reply, errors, woken, provider>>
(***************************************************************************)
(* The commit barrier of an xAI manual turn resolves once the              *)
(* acknowledgement was seen, and the response is created; or it times out. *)
(***************************************************************************)
CommitAcknowledged ==
  /\ step = "acknowledge"
  /\ \/ /\ Fail
        /\ UNCHANGED <<turn, provider>>
     \/ /\ Usable /\ turn = "commit_acknowledged"
        /\ step' = "wait"
        /\ turn' = "response_create_sent"
        /\ provider' = Created
        /\ UNCHANGED <<session, inFlight, outcome>>
  /\ UNCHANGED <<playback, reply, errors, woken>>

(***************************************************************************)
(* The waiter is resolved, the segment is aborted, or the response timer   *)
(* fires.  The reply is the response last heard of: it must be terminal,   *)
(* without an error, have audio and, in an xAI manual turn, be caused by   *)
(* this turn's commit, acknowledgement and request.  The gateway's queue   *)
(* is empty then, and sealing its receipts fails only if it is fatal.      *)
(***************************************************************************)
Causal == Mode = "xai manual" => turn = "response_started"

ReplyAdmitted ==
  /\ Usable
  /\ errors.terminal = "none"
  /\ ~errors.gateway
  /\ reply.active # None /\ reply.active \in reply.terminal
  /\ reply.active \in reply.audio
  /\ Causal

WaitEnds ==
  /\ step = "wait"
  /\ woken \/ ~Usable
  /\ \/ /\ ReplyAdmitted
        /\ step' = "listen"
        /\ outcome' = [kind |-> "heard", reply |-> reply.active,
                       started |-> TRUE, caused |-> provider.caused]
        /\ UNCHANGED <<session, inFlight>>
     \/ ~ReplyAdmitted /\ Fail
  /\ UNCHANGED <<playback, turn, reply, errors, woken, provider>>

WaitTimesOut ==
  /\ step = "wait" /\ Fail
  /\ UNCHANGED <<playback, turn, reply, errors, woken, provider>>

(***************************************************************************)
(* The listener judges the reply; after that await the session is looked   *)
(* at again, and the evidence is returned.                                 *)
(***************************************************************************)
ListenerReturns ==
  /\ step = "listen"
  /\ \/ Fail
     \/ /\ Usable
        /\ session' = [session EXCEPT
                         !.pending = IF playback = "canonical" THEN "answered"
                                     ELSE "repaired",
                         !.answered = IF playback = "canonical" THEN @ + 1 ELSE @]
        /\ step' = "idle"
        /\ inFlight' = FALSE
        /\ outcome' = [outcome EXCEPT !.kind = "evidence"]
  /\ UNCHANGED <<playback, turn, reply, errors, woken, provider>>

-----------------------------------------------------------------------------
(***************************************************************************)
(* Events of the client, while the bridge listens to it.  They are applied *)
(* whatever the exchange is waiting for, and between exchanges too.        *)
(***************************************************************************)
Subscribed == step # "opening" /\ ~session.closed /\ session.client = "ready"

Broken == [errors EXCEPT !.terminal = "manual", !.manual = TRUE]

AudioCommitted ==
  /\ Subscribed
  /\ CASE Mode = "xai manual" /\ turn = "commit_sent" /\ inFlight ->
              turn' = "commit_acknowledged" /\ UNCHANGED <<errors, woken, provider>>
       [] Mode = "xai manual" /\ ~(turn = "commit_sent" /\ inFlight) ->
              errors' = Broken /\ woken' = TRUE /\ UNCHANGED <<turn, provider>>
       [] Mode = "xai vad" /\ turn = "stopped" ->
              /\ turn' = "committed"
              /\ provider' = [provider EXCEPT !.requests = 1]
              /\ UNCHANGED <<errors, woken>>
       [] Mode = "xai vad" /\ turn # "stopped" ->
              /\ errors' = [errors EXCEPT !.terminal = "protocol"]
              /\ UNCHANGED <<turn, woken, provider>>
       [] OTHER -> FALSE
  /\ UNCHANGED <<session, step, inFlight, playback, reply, outcome>>

SpeechActivity(phase) ==
  /\ Subscribed /\ Mode = "xai vad"
  /\ IF \/ phase = "started" /\ turn = "none"
        \/ phase = "stopped" /\ turn = "started"
     THEN turn' = phase /\ UNCHANGED errors
     ELSE errors' = [errors EXCEPT !.terminal = "protocol"] /\ UNCHANGED turn
  /\ UNCHANGED <<session, step, inFlight, playback, reply, woken, provider, outcome>>

(***************************************************************************)
(* response.started.  The first response of an xAI turn must be caused by  *)
(* the turn; a manual transport that starts one by itself is broken for    *)
(* the rest of the segment.  The server-VAD client itself rejects a        *)
(* response no committed speech asked for; the other providers are taken   *)
(* to start one only when asked.                                           *)
(***************************************************************************)
Bound(r) ==
  /\ reply.root = None
  /\ \/ Mode = "xai manual" /\ inFlight /\ turn = "response_create_sent"
     \/ Mode = "xai vad" /\ turn = "committed"

Unbound(r) == Mode # "manual" /\ reply.root = None /\ ~Bound(r)

Caused ==
  CASE Mode = "manual" -> inFlight /\ provider.requested
    [] Mode = "xai manual" -> inFlight /\ provider.requested
    [] Mode = "xai vad" -> turn \in {"committed", "responding"}

MayStart ==
  \/ provider.requests > 0
  \/ Mode = "xai manual" /\ (reply.root = None \/ Strays)

StartResponse(r) ==
  /\ Subscribed /\ MayStart
  /\ r \notin provider.started
  /\ reply' = [reply EXCEPT !.active = r, !.root = IF Bound(r) THEN r ELSE @]
  /\ turn' = CASE Bound(r) /\ Mode = "xai manual" -> "response_started"
               [] Bound(r) /\ Mode = "xai vad" -> "responding"
               [] OTHER -> turn
  /\ errors' = CASE Unbound(r) /\ Mode = "xai manual" -> Broken
                 [] Unbound(r) /\ Mode = "xai vad" ->
                      [errors EXCEPT !.terminal = "protocol"]
                 [] OTHER -> errors
  /\ woken' = (woken \/ (Unbound(r) /\ Mode = "xai manual" /\ inFlight))
  /\ provider' = [provider EXCEPT
                    !.started = @ \cup {r},
                    !.requests = IF @ > 0 THEN @ - 1 ELSE 0,
                    !.requested = @ \/ (Mode = "xai vad" /\ Bound(r)),
                    !.caused = IF Caused THEN @ \cup {r} ELSE @]
  /\ UNCHANGED <<session, step, inFlight, playback, outcome>>

Speaking == provider.started \ provider.ended

(***************************************************************************)
(* output.audio: a format that differs is an error and does not wake the   *)
(* exchange; too much of it does.                                          *)
(***************************************************************************)
OutputAudio(r, form) ==
  /\ Subscribed /\ r \in Speaking
  /\ reply' = [reply EXCEPT !.active = r,
                            !.audio = IF form = "excess" THEN @ ELSE @ \cup {r}]
  /\ errors' = CASE form = "good" -> errors
                 [] form = "foreign" -> [errors EXCEPT !.terminal = "audio"]
                 [] form = "excess" ->
                      [errors EXCEPT !.terminal = IF @ = "none" THEN "audio" ELSE @]
  /\ woken' = (woken \/ (form = "excess" /\ inFlight))
  /\ UNCHANGED <<session, step, inFlight, playback, turn, provider, outcome>>

(***************************************************************************)
(* response.completed: a response that called tools does not wake the      *)
(* exchange, since the gateway requests its continuation.                  *)
(***************************************************************************)
ResponseCompleted(r, status) ==
  /\ Subscribed /\ r \in Speaking
  /\ status = "tools" => step = "wait" /\ ~errors.gateway
  /\ reply' = [reply EXCEPT !.active = r, !.terminal = @ \cup {r}]
  /\ errors' = IF status = "failed" THEN [errors EXCEPT !.terminal = "provider"]
               ELSE errors
  /\ woken' = (woken \/ (status # "tools" /\ inFlight))
  /\ provider' = [provider EXCEPT !.ended = @ \cup {r},
                                  !.requests = IF status = "tools" THEN @ + 1 ELSE @]
  /\ UNCHANGED <<session, step, inFlight, playback, turn, outcome>>

(***************************************************************************)
(* A fatal error of the provider, or of the gateway's tool turn.           *)
(***************************************************************************)
FatalEvent(source) ==
  /\ Subscribed
  /\ errors' = [errors EXCEPT !.terminal = source,
                              !.gateway = @ \/ source = "gateway"]
  /\ woken' = (woken \/ inFlight)
  /\ UNCHANGED <<session, step, inFlight, playback, turn, reply, provider, outcome>>

ConnectionClosed ==
  /\ Subscribed
  /\ session' = [session EXCEPT !.client = "closed"]
  /\ errors' = [errors EXCEPT !.terminal = IF @ = "none" THEN "closed" ELSE @]
  /\ woken' = (woken \/ inFlight)
  /\ UNCHANGED <<step, inFlight, playback, turn, reply, provider, outcome>>

-----------------------------------------------------------------------------
(***************************************************************************)
(* finalizeOpportunity, with the repair decision of the answered turn.     *)
(***************************************************************************)
FinalizeOpportunity ==
  /\ step = "idle"
  /\ Usable /\ session.active /\ ~errors.manual /\ ~inFlight
  /\ session.pending # "none"
  /\ session' = [session EXCEPT !.ordinal = @ + 1, !.pending = "none"]
  /\ UNCHANGED <<step, inFlight, playback, turn, reply, errors, woken, provider, outcome>>

(***************************************************************************)
(* close: an opportunity in flight, a lost client or a broken manual       *)
(* transport end the segment without a receipt; so does a turn that was    *)
(* not finalized or an unfinished horizon.                                 *)
(***************************************************************************)
EarnsReceipt ==
  /\ session.client = "ready" /\ ~inFlight /\ ~errors.manual
  /\ session.pending = "none" /\ session.ordinal = Horizon

Close ==
  /\ step \notin {"opening", "refused"} /\ ~session.closed
  /\ session' = [session EXCEPT
                   !.closed = TRUE, !.active = FALSE, !.client = "closed",
                   !.poisoned = @ \/ inFlight \/ (session.client = "ready"
                                                    /\ errors.manual),
                   !.receipt = EarnsReceipt]
  /\ errors' = IF inFlight THEN [errors EXCEPT !.terminal = "host"] ELSE errors
  /\ woken' = (woken \/ inFlight)
  /\ UNCHANGED <<step, inFlight, playback, turn, reply, provider, outcome>>

-----------------------------------------------------------------------------
Exchanging ==
  \/ ControlAcknowledged \/ AudioAppended \/ TailDelivered
  \/ CommitAcknowledged \/ WaitEnds \/ WaitTimesOut \/ ListenerReturns

ClientEvent ==
  \/ AudioCommitted
  \/ \E phase \in {"started", "stopped"} : SpeechActivity(phase)
  \/ \E r \in Responses :
        \/ StartResponse(r)
        \/ \E form \in {"good", "foreign", "excess"} : OutputAudio(r, form)
        \/ \E status \in {"completed", "failed", "tools"} :
              ResponseCompleted(r, status)
  \/ \E source \in {"provider", "gateway"} : FatalEvent(source)
  \/ ConnectionClosed

Next ==
  \/ OpenSegment
  \/ \E kind \in {"canonical", "repair"} :
        RefuseExchange(kind) \/ BeginExchange(kind)
  \/ Exchanging
  \/ ClientEvent
  \/ FinalizeOpportunity
  \/ Close

Spec == Init /\ [][Next]_vars

-----------------------------------------------------------------------------
(***************************************************************************)
(* The session, the exchange and its response tracking stay in range.      *)
(***************************************************************************)
TypeOK ==
  /\ session \in [client : {"connecting", "ready", "closed"}, active : BOOLEAN,
                  closed : BOOLEAN, poisoned : BOOLEAN, ordinal : 0 .. Horizon,
                  pending : {"none", "answered", "repaired"},
                  answered : 0 .. Horizon, receipt : BOOLEAN]
  /\ step \in Waiting \cup {"opening", "refused", "idle"}
  /\ step \in Waiting => inFlight
  /\ playback \in {"canonical", "repair"}
  /\ reply.active \in Responses \cup {None}
  /\ reply.terminal \subseteq provider.ended
  /\ provider.ended \subseteq provider.started

(***************************************************************************)
(* A reply is published only if it ended and was caused by the turn it     *)
(* answers: it started after this turn's request (xAI: after commit,       *)
(* acknowledgement and response.create, or after the provider committed    *)
(* the caller's speech), however events of other responses interleave.     *)
(***************************************************************************)
ReplyIsCaused ==
  outcome.kind = "evidence" =>
    outcome.reply \in outcome.caused \cap provider.ended

(***************************************************************************)
(* The failure evidence of an exchange reports a started generation if and *)
(* only if this exchange caused one; it never inherits the response of an  *)
(* earlier turn.                                                           *)
(***************************************************************************)
FailureTellsGeneration ==
  outcome.kind = "failure" => outcome.started = (outcome.caused # {})

(***************************************************************************)
(* A rotation receipt certifies a segment in which every caller turn was   *)
(* answered and finalized and the transport never broke.                   *)
(***************************************************************************)
RotationIsEarned ==
  session.receipt =>
    /\ session.ordinal = Horizon /\ session.answered = Horizon
    /\ session.pending = "none"
    /\ ~session.poisoned /\ ~errors.manual /\ ~inFlight

(***************************************************************************)
(* However a segment ends (failed setup, poisoning, abort or rotation),    *)
(* its socket is closed and the bridge is free for another.                *)
(***************************************************************************)
SocketIsReleased ==
  (session.closed \/ step = "refused") =>
    session.client = "closed" /\ ~session.active

Results == <<session.ordinal, session.pending, session.answered, session.receipt>>

StaysEnded ==
  session.closed =>
    /\ Results' = Results
    /\ outcome' = outcome \/ outcome'.kind # "evidence"

(***************************************************************************)
(* After a segment ended, an exchange still running in it can publish      *)
(* nothing, finalize nothing and earn no receipt.                          *)
(***************************************************************************)
EndedStaysEnded == [][StaysEnded]_vars

(***************************************************************************)
(* Every exchange ends, whatever the provider does or does not do.         *)
(***************************************************************************)
ExchangeEnds == step \in Waiting ~> step = "idle"
==============================================================================
