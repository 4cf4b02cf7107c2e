---------------------------- MODULE OutboundSpeech ----------------------------
(***************************************************************************)
(* Guarded speech of a browser call: the three browser transports          *)
(* (web/components/call/providers), the gate that holds what the agent     *)
(* says until it is decided (web/lib/realtime/outbound-speech-gate.ts) and *)
(* the route that has it transcribed, once, on a budget                    *)
(* (web/app/api/voice/outbound-speech/asr).                                *)
(*                                                                         *)
(* Events of the provider, the decisions, which wait for the transcription *)
(* one after the other, and a stop of the call interleave in the browser;  *)
(* a step there is what JavaScript runs until its next await.  On the      *)
(* server, requests of this call, repetitions of them and requests of      *)
(* other calls of the organization interleave, and any of them may be lost.*)
(*                                                                         *)
(* What is said is a sequence of chunks <<response, number>>.  A text is   *)
(* "clean", or "forbidden" when a rule of the policy matches it.           *)
(***************************************************************************)
EXTENDS Integers, Sequences, FiniteSets, SequencesExt

CONSTANTS
  Provider,     \* "xai", "openai" or "gemini"
  Responses,    \* identities of responses
  MaxChunks,    \* bound on the chunks of a response
  MaxBuffered,  \* maxBufferedAudioBytes, in chunks
  MaxSources,   \* playbackSources
  Repeats,      \* requests that repeat one of this call
  Strangers,    \* requests of other calls of the organization
  CallLimit,    \* responses a call may have transcribed
  DayLimit,     \* responses an organization may have transcribed in a day
  Happens       \* what happens besides: a subset of Incidents

(* An early end of the connection or the call, a limit of time, a text, a
   chunk or an event that is out of place, and a failure of the route. *)
Incidents == {"close", "age", "text", "disorder", "failure"}

SpeechAssumption ==
  /\ Happens \subseteq Incidents
  /\ Provider \in {"xai", "openai", "gemini"}
  /\ Responses \cap Repeats = {} /\ (Responses \cup Repeats) \cap Strangers = {}
  /\ 0 \notin Responses \cup Repeats \cup Strangers
  /\ {MaxChunks, MaxBuffered, MaxSources, CallLimit, DayLimit} \subseteq Nat \ {0}

VARIABLES
  link,      \* the transport: its start, its connection and its stop
  speech,    \* activeSpeechResponseId, the tail of finalizations and the texts kept for the caller
  held,      \* responses of the gate
  decided,   \* decisions of the gate
  playback,  \* sources that are scheduled, and all that were
  shown,     \* evidence, and the texts shown as said by the agent
  request,   \* requests to the route
  row,       \* outbound_speech_asr_authorities
  server     \* the call, the lock on its row, and the transcriptions asked for

vars == <<link, speech, held, decided, playback, shown, request, row, server>>

browser == <<link, speech, held, decided, playback, shown>>
route == <<request, row, server>>

Texts == {"clean", "forbidden"}
Requests == Responses \cup Repeats \cup Strangers
Claims == Responses \cup Strangers

NewResponse == [chunks |-> <<>>, aggregate |-> <<>>, bytes |-> 0, terminal |-> "none", text |-> "none",
                final |-> FALSE, sealed |-> FALSE, finalized |-> FALSE, late |-> FALSE]
NoRequest == [at |-> "none", claim |-> 0, pcm |-> <<>>, text |-> "none",
              call |-> "none", seen |-> {}, settled |-> {}]
NoRow == [state |-> "none", pcm |-> <<>>, text |-> "none", by |-> 0, today |-> FALSE]

Init ==
  /\ link = [at |-> "new", open |-> FALSE, stopped |-> FALSE]
  /\ speech = [active |-> 0, tail |-> <<>>, job |-> "idle", texts |-> [r \in Responses |-> "none"]]
  /\ held = [r \in {} |-> NewResponse]
  /\ decided = [r \in {} |-> "none"]
  /\ playback = [scheduled |-> <<>>, log |-> <<>>]
  /\ shown = [evidence |-> <<>>, told |-> {}]
  /\ request = [q \in Requests |-> NoRequest]
  /\ row = [c \in Claims |-> NoRow]
  /\ server = [call |-> "active", lock |-> 0, asked |-> [c \in Claims |-> 0]]

-----------------------------------------------------------------------------
(* start() and stop() of a transport. *)

Starting == link.at \in {"gateway", "opening", "asked"}

Start ==
  /\ link.at = "new"
  /\ link' = [link EXCEPT !.at = "gateway"]
  /\ UNCHANGED <<speech, held, decided, playback, shown, route>>

(* The tool gateway is initialized; the microphone is connected, but nothing
   is sent of it before the session is ready. *)
Opens ==
  /\ link.at = "gateway"
  /\ link' = [link EXCEPT !.at = "opening", !.open = TRUE]
  /\ UNCHANGED <<speech, held, decided, playback, shown, route>>

(* session.update after session.created; setup on open; the remote description. *)
Asks ==
  /\ link.at = "opening" /\ link.open
  /\ link' = [link EXCEPT !.at = "asked"]
  /\ UNCHANGED <<speech, held, decided, playback, shown, route>>

(* A session.updated that echoes what was asked, setupComplete, the open channel. *)
Ready ==
  /\ link.at = "asked" /\ link.open
  /\ link' = [link EXCEPT !.at = "ready"]
  /\ UNCHANGED <<speech, held, decided, playback, shown, route>>

(* interruptPlayback *)
Silenced == [playback EXCEPT !.scheduled = <<>>]

(* What stop() releases. *)
Released ==
  /\ link' = [link EXCEPT !.stopped = TRUE, !.open = FALSE,
                          !.at = IF Starting THEN "failed" ELSE @]
  /\ playback' = Silenced
  /\ speech' = [speech EXCEPT !.active = 0, !.texts = [r \in Responses |-> "none"]]
  /\ UNCHANGED <<held, decided, shown, route>>

(* The tool gateway fails: xai and gemini have nothing else to release. *)
GatewayFails ==
  /\ link.at = "gateway" /\ Provider # "openai"
  /\ link' = [link EXCEPT !.at = "failed"]
  /\ UNCHANGED <<speech, held, decided, playback, shown, route>>

(* A refusal, an event out of order, a mismatch, a close or the 15 s limit:
   start() rejects, after it has stopped the transport itself. *)
StartFails ==
  /\ Starting /\ (link.at = "gateway" => Provider = "openai")
  /\ Released

(* The call stops its transport, even while it starts. *)
Stop == link.at # "new" /\ ~link.stopped /\ Released

(* The connection ends: the provider closes it, or an event made the
   transport close it.  The transport is stopped later, by the call. *)
Close == link' = [link EXCEPT !.open = FALSE]

ProviderCloses ==
  /\ link.open /\ link.at = "ready"
  /\ Close
  /\ UNCHANGED <<speech, held, decided, playback, shown, route>>

-----------------------------------------------------------------------------
(* Events of the provider.  The channel of openai can deliver before start()
   has seen it open. *)
Receives ==
  /\ link.open /\ ~link.stopped
  /\ link.at = "ready" \/ (Provider = "openai" /\ link.at = "asked")

Known(r) == r \in DOMAIN held \cup DOMAIN decided

(* A handler throws: xai and openai close the connection, gemini reports. *)
Rejected ==
  /\ IF Provider = "gemini" THEN link' = link ELSE Close
  /\ UNCHANGED <<speech, held, decided, playback, shown, route>>

(* beginResponse *)
Begins(r) == [h \in DOMAIN held \cup {r} |-> IF h = r THEN NewResponse ELSE held[h]]

(* ensureCollecting: an unknown response begins, a decided one is refused. *)
Collecting(r) == IF r \in DOMAIN held THEN held[r] ELSE NewResponse
Holds(r, response) == held' = [h \in DOMAIN held \cup {r} |-> IF h = r THEN response ELSE held[h]]

Created(r) ==
  /\ Receives /\ Provider # "gemini"
  /\ IF speech.active \notin {0, r} \/ Known(r)
     THEN Rejected
     ELSE /\ held' = Begins(r)
          /\ speech' = [speech EXCEPT !.active = r]
          /\ UNCHANGED <<link, decided, playback, shown, route>>

(* pushAudio.  A chunk beyond the limit of the buffer, or after the collection
   limit, seals the response. *)
Pushed(r) ==
  LET h == Collecting(r)
      over == h.bytes + 1 > MaxBuffered \/ h.late IN
  [h EXCEPT !.bytes = @ + 1,
            !.sealed = @ \/ over,
            !.chunks = IF over THEN <<>> ELSE Append(@, <<r, h.bytes + 1>>)]

TakesAudioWhileHeld(r) == r \notin DOMAIN decided
TakesAudio(r) ==
  /\ r \notin DOMAIN decided
  /\ Collecting(r).terminal = "none"

(* gemini names the responses itself, in the order in which they begin. *)
Unused == {r \in Responses : ~Known(r) /\ r \notin {speech.tail[i].id : i \in DOMAIN speech.tail}}
Named(r) ==
  CASE Provider = "xai" -> TRUE
    [] Provider = "openai" -> r = speech.active
    [] Provider = "gemini" ->
         IF speech.active # 0 THEN r = speech.active ELSE r \in Unused /\ \A u \in Unused : r <= u

Audio(r) ==
  /\ Receives /\ Named(r)
  /\ Collecting(r).bytes < MaxChunks
  /\ IF TakesAudio(r)
     THEN /\ Holds(r, Pushed(r))
          /\ speech' = [speech EXCEPT !.active = IF Provider = "gemini" THEN r ELSE @]
          /\ UNCHANGED <<link, decided, playback, shown, route>>
     ELSE Rejected

(* The end of a response: its finalization waits for those before it. *)
Queued(r, status) ==
  speech' = [speech EXCEPT !.tail = Append(@, [id |-> r, status |-> status]),
                           !.active = IF Provider = "openai" THEN @ ELSE 0]

(* pushProviderTranscript, and the copy that is kept for the caller.  A text
   counts when it is final. *)
TakesText(r) == r \notin DOMAIN decided /\ ~Collecting(r).finalized
Texted(r, text, final) ==
  [Collecting(r) EXCEPT !.text = text, !.final = final, !.sealed = @ \/ Collecting(r).late,
                        !.chunks = IF Collecting(r).late THEN <<>> ELSE @]

(* xai and openai keep the text after the gate took it. *)
Transcript(r, text) ==
  /\ Receives /\ Provider # "gemini"
  /\ speech.texts[r] # text
  /\ IF TakesText(r)
     THEN /\ Holds(r, Texted(r, text, TRUE))
          /\ speech' = [speech EXCEPT !.texts[r] = text]
          /\ UNCHANGED <<link, decided, playback, shown, route>>
     ELSE Rejected

(* gemini keeps it before, and calls it final when the event ends the turn. *)
GeminiTranscript(r, text, ends) ==
  /\ Receives /\ Provider = "gemini" /\ Named(r)
  /\ speech.texts[r] # text \/ ends
  /\ IF TakesText(r) THEN Holds(r, Texted(r, text, ends)) ELSE UNCHANGED held
  /\ speech' = [speech EXCEPT !.texts[r] = text, !.active = IF ends THEN 0 ELSE r,
                              !.tail = IF ends THEN Append(@, [id |-> r, status |-> "completed"]) ELSE @]
  /\ UNCHANGED <<link, decided, playback, shown, route>>

Terminated(r, status) ==
  /\ Receives /\ Len(speech.tail) < Cardinality(Responses)
  /\ Provider = "gemini" => r = speech.active
  /\ IF Provider = "openai" /\ r # speech.active
     THEN Rejected
     ELSE /\ Queued(r, status)
          /\ playback' = IF Provider = "gemini" /\ status = "interrupted" THEN Silenced ELSE playback
          /\ UNCHANGED <<link, held, decided, shown, route>>

(* The caller begins to speak. *)
SpeechStarted ==
  /\ Receives /\ playback.scheduled # <<>>
  /\ Provider = "gemini" => speech.active = 0
  /\ playback' = Silenced
  /\ UNCHANGED <<link, speech, held, decided, shown, route>>

(* maxCollectionLatencyMs passes for a response. *)
Ages(r) ==
  /\ r \in DOMAIN held /\ ~held[r].late /\ held[r].terminal = "none"
  /\ held' = [held EXCEPT ![r].late = TRUE]
  /\ UNCHANGED <<link, speech, decided, playback, shown, route>>

SourceEnds ==
  /\ playback.scheduled # <<>>
  /\ playback' = [playback EXCEPT !.scheduled = Tail(@)]
  /\ UNCHANGED <<link, speech, held, decided, shown, route>>

-----------------------------------------------------------------------------
(* finalizeQuarantinedSpeech, for the first of the tail. *)
Current == Head(speech.tail).id
(* openai has no active response once the samples of the last have come. *)
Active == IF Provider = "openai" /\ speech.job = "capture" /\ speech.active = Current THEN 0 ELSE speech.active
Done(texts) == [speech EXCEPT !.job = "idle", !.tail = Tail(@), !.active = Active, !.texts = texts]

(* It throws: the connection is closed unless the transport was stopped. *)
Throws ==
  /\ speech' = Done(speech.texts)
  /\ IF link.stopped THEN link' = link ELSE Close

Decides(r, action) ==
  /\ decided' = [d \in DOMAIN decided \cup {r} |-> IF d = r THEN action ELSE decided[d]]
  /\ held' = [h \in DOMAIN held \ {r} |-> held[h]]

Suppresses(r) ==
  /\ Decides(r, "suppress")
  /\ shown' = [shown EXCEPT !.evidence = Append(@, [id |-> r, action |-> "suppress"])]
  /\ speech' = Done([speech.texts EXCEPT ![r] = "none"])
  /\ UNCHANGED <<link, playback>>

(* markTerminal *)
Marked(r, status) ==
  [Collecting(r) EXCEPT !.terminal = status, !.sealed = @ \/ Collecting(r).late,
                        !.chunks = IF Collecting(r).late THEN <<>> ELSE @]

(* finalizeResponse, until it has something to wait for. *)
Finalizes(r, status) ==
  LET h == [Marked(r, status) EXCEPT !.finalized = TRUE] IN
  IF r \in DOMAIN decided
  THEN Throws /\ UNCHANGED <<held, decided, playback, shown>>
  ELSE IF h.sealed \/ status # "completed" \/ h.chunks = <<>>
  THEN Suppresses(r)
  ELSE /\ Holds(r, [h EXCEPT !.aggregate = h.chunks])
       /\ speech' = [speech EXCEPT !.job = "hash", !.active = Active]
       /\ UNCHANGED <<link, decided, playback, shown>>

(* openai waits GUARDED_CAPTURE_TAIL_MS for samples that are on their way. *)
CaptureTail ==
  /\ Provider = "openai" /\ speech.job = "idle" /\ speech.tail # <<>>
  /\ speech' = [speech EXCEPT !.job = "capture"]
  /\ UNCHANGED <<link, held, decided, playback, shown, route>>

Finalize ==
  /\ speech.tail # <<>>
  /\ speech.job = IF Provider = "openai" THEN "capture" ELSE "idle"
  /\ IF Provider = "openai" /\ speech.active # Current
     THEN Throws /\ UNCHANGED <<held, decided, playback, shown>>
     ELSE Finalizes(Current, Head(speech.tail).status)
  /\ UNCHANGED route

(* The digest of the chunks, which the transcription is asked for. *)
Hashed ==
  /\ speech.job = "hash"
  /\ speech' = [speech EXCEPT !.job = "asr"]
  /\ request' = [request EXCEPT ![Current] =
                   [NoRequest EXCEPT !.at = "sent", !.claim = Current, !.pcm = held[Current].aggregate]]
  /\ UNCHANGED <<link, held, decided, playback, shown, row, server>>

(* The digest or the request fails, or maxDecisionLatencyMs passes. *)
AsrFails ==
  /\ speech.job \in {"hash", "asr"}
  /\ Suppresses(Current)
  /\ UNCHANGED route

(* playPcm16Bytes: the oldest sources make room. *)
Scheduled(chunks) ==
  LET all == playback.scheduled \o chunks IN
  IF Len(all) > MaxSources THEN SubSeq(all, Len(all) - MaxSources + 1, Len(all)) ELSE all

Plays(r, chunks) ==
  /\ playback' = [scheduled |-> Scheduled(chunks), log |-> playback.log \o chunks]
  /\ shown' = [evidence |-> Append(shown.evidence, [id |-> r, action |-> "release"]),
               told |-> IF speech.texts[r] = "none" THEN shown.told
                        ELSE shown.told \cup {<<r, speech.texts[r]>>}]
  /\ speech' = Done([speech.texts EXCEPT ![r] = "none"])
  /\ link' = link

(* A release is abandoned when the transport was stopped meanwhile. *)
Releases(r) ==
  /\ Decides(r, "release")
  /\ IF link.stopped
     THEN Throws /\ UNCHANGED <<playback, shown>>
     ELSE Plays(r, held[r].chunks)

(* A receipt of the same response and the audio it was asked for; neither its
   text nor a final one of the provider matches a rule. *)
Covers(r) == request[r].at = "receipt" /\ request[r].claim = r /\ request[r].pcm = held[r].aggregate
Violates(r) == request[r].text = "forbidden" \/ (held[r].final /\ held[r].text = "forbidden")

(* The answer.  It may be too late although no timer has fired. *)
AsrAnswered(slow) ==
  /\ speech.job = "asr" /\ request[Current].at \in {"receipt", "refused"}
  /\ IF Covers(Current) /\ ~Violates(Current) /\ ~slow THEN Releases(Current) ELSE Suppresses(Current)
  /\ UNCHANGED route

-----------------------------------------------------------------------------
(* The route.  A request that is repeated, or another one for the same
   response: what it carries need not be the same. *)
CallOf(c) == IF c \in Responses THEN 0 ELSE c

Repeat(q, r) ==
  /\ request[q].at = "none" /\ request[r].at # "none"
  /\ \E pcm \in {request[r].pcm, <<>>} :
       request' = [request EXCEPT ![q] = [NoRequest EXCEPT !.at = "sent", !.claim = r, !.pcm = pcm]]
  /\ UNCHANGED <<browser, row, server>>

StrangerAsks(q) ==
  /\ request[q].at = "none"
  /\ request' = [request EXCEPT ![q] = [NoRequest EXCEPT !.at = "sent", !.claim = q, !.pcm = <<q>>]]
  /\ UNCHANGED <<browser, row, server>>

Answers(q, at) == request' = [request EXCEPT ![q] = [@ EXCEPT !.at = at, !.seen = {}, !.settled = {}, !.call = "none"]]

(* The transaction sees what was committed when its first statement began,
   also when that statement has to wait for the row of the call. *)
BeginClaim(q) ==
  /\ request[q].at = "sent"
  /\ request' = [request EXCEPT ![q] = [@ EXCEPT !.at = "waits", !.call = server.call,
                    !.seen = {c \in Claims : row[c].state # "none"},
                    !.settled = {c \in Claims : row[c].state = "settled"}]]
  /\ UNCHANGED <<browser, row, server>>

Own(q) == request[q].claim \in Responses

(* FOR UPDATE: a row that was written since then fails the transaction. *)
LockCall(q) ==
  /\ request[q].at = "waits"
  /\ Own(q) => server.lock = 0
  /\ IF Own(q) /\ (request[q].call # server.call \/ server.call # "active")
     THEN Answers(q, "refused") /\ UNCHANGED server
     ELSE /\ request' = [request EXCEPT ![q].at = "admits"]
          /\ server' = [server EXCEPT !.lock = IF Own(q) THEN q ELSE @]
  /\ UNCHANGED <<browser, row>>

Unlocked(q) == [server EXCEPT !.lock = IF @ = q THEN 0 ELSE @]

(* What was reserved, as the transaction sees it. *)
Day(q) == Cardinality({c \in request[q].seen : row[c].today})
Call(q) == Cardinality({c \in request[q].seen : CallOf(c) = CallOf(request[q].claim)})

(* An insertion that it does not see: the same key, or a sum that it read. *)
Serializable(q) == request[q].seen = {c \in Claims : row[c].state # "none"}

Claim(q) ==
  LET c == request[q].claim IN
  /\ c \notin request[q].seen
  /\ Day(q) + 1 <= DayLimit /\ Call(q) + 1 <= CallLimit
  /\ Serializable(q)
  /\ row' = [row EXCEPT ![c] = [NoRow EXCEPT !.state = "claimed", !.pcm = request[q].pcm, !.by = q, !.today = TRUE]]
  /\ Answers(q, "claimed")

Cached(q) ==
  LET c == request[q].claim IN
  /\ c \in request[q].settled /\ row[c].pcm = request[q].pcm
  /\ request' = [request EXCEPT ![q] = [NoRequest EXCEPT !.at = "receipt", !.claim = c, !.pcm = row[c].pcm,
                                                         !.text = row[c].text]]
  /\ row' = row

(* Another audio, a reservation that is consumed, no budget, a conflict, no
   credential or no database. *)
Refused(q) == Answers(q, "refused") /\ row' = row

Admits(q) ==
  /\ request[q].at = "admits"
  /\ Claim(q) \/ Cached(q) \/ Refused(q)
  /\ server' = Unlocked(q)
  /\ UNCHANGED browser

(* updateClaimedAuthority: the row moves on, or the answer is lost, with or
   without the update. *)
Moves(q, from, to, text) ==
  LET c == request[q].claim IN
  row' = IF row[c].state = from /\ row[c].by = q
         THEN [row EXCEPT ![c].state = to, ![c].text = text] ELSE row

Dispatch(q) ==
  /\ request[q].at = "claimed" /\ row[request[q].claim].state = "claimed"
  /\ Moves(q, "claimed", "dispatched", "none")
  /\ request' = [request EXCEPT ![q].at = "asks"]
  /\ server' = [server EXCEPT !.asked[request[q].claim] = @ + 1]
  /\ UNCHANGED browser

DispatchFails(q) ==
  /\ request[q].at = "claimed"
  /\ \E to \in {"claimed", "dispatched", "failed"} : Moves(q, "claimed", to, "none")
  /\ Answers(q, "refused")
  /\ UNCHANGED <<browser, server>>

Transcribes(q, text) ==
  /\ request[q].at = "asks"
  /\ request' = [request EXCEPT ![q].at = "settles", ![q].text = text]
  /\ UNCHANGED <<browser, row, server>>

TranscriptionFails(q) ==
  /\ request[q].at = "asks"
  /\ \E to \in {"dispatched", "indeterminate"} : Moves(q, "dispatched", to, "none")
  /\ Answers(q, "refused")
  /\ UNCHANGED <<browser, server>>

Settle(q) ==
  /\ request[q].at = "settles"
  /\ Moves(q, "dispatched", "settled", request[q].text)
  /\ Answers(q, "receipt")
  /\ UNCHANGED <<browser, server>>

SettleFails(q) ==
  /\ request[q].at = "settles"
  /\ \/ Moves(q, "dispatched", "settled", request[q].text)
     \/ \E to \in {"dispatched", "indeterminate"} : Moves(q, "dispatched", to, "none")
  /\ Answers(q, "refused")
  /\ UNCHANGED <<browser, server>>

(* The process that handles a request ends. *)
Lost(q) ==
  /\ request[q].at \in {"sent", "waits", "admits", "claimed", "asks", "settles"}
  /\ Answers(q, "lost")
  /\ server' = Unlocked(q)
  /\ UNCHANGED <<browser, row>>

CallEnds ==
  /\ server.call = "active" /\ server.lock = 0
  /\ server' = [server EXCEPT !.call = "ended"]
  /\ UNCHANGED <<browser, request, row>>

DayPasses ==
  /\ \E c \in Claims : row[c].today
  /\ row' = [c \in Claims |-> [row[c] EXCEPT !.today = FALSE]]
  /\ UNCHANGED <<browser, request, server>>

-----------------------------------------------------------------------------
Statuses == {"completed", "interrupted"}

(* Responses begin one after the other, and their events come in between. *)
InPlace(r) ==
  \/ "disorder" \in Happens
  \/ r = speech.active
  \/ speech.active = 0 /\ r \in Unused /\ \A u \in Unused : r <= u

FinalizationStep == CaptureTail \/ Finalize \/ Hashed \/ AsrFails \/ \E slow \in BOOLEAN : AsrAnswered(slow)

Next ==
  \/ Start \/ Opens \/ Asks \/ Ready \/ Stop \/ SpeechStarted \/ SourceEnds
  \/ "close" \in Happens /\ (GatewayFails \/ StartFails \/ ProviderCloses \/ CallEnds \/ DayPasses)
  \/ \E r \in Responses :
       \/ InPlace(r) /\ (Created(r) \/ Audio(r) \/ \E status \in Statuses : Terminated(r, status))
       \/ "age" \in Happens /\ Ages(r)
       \/ "text" \in Happens /\ \E text \in Texts :
            Transcript(r, text) \/ \E ends \in BOOLEAN : GeminiTranscript(r, text, ends)
       \/ \E q \in Repeats : Repeat(q, r)
  \/ FinalizationStep
  \/ \E q \in Strangers : StrangerAsks(q)
  \/ \E q \in Requests :
       \/ BeginClaim(q) \/ LockCall(q) \/ Admits(q) \/ Dispatch(q) \/ Settle(q)
       \/ \E text \in Texts : Transcribes(q, text)
       \/ "failure" \in Happens /\ (DispatchFails(q) \/ TranscriptionFails(q) \/ SettleFails(q) \/ Lost(q))

(* Timers and settled promises of the page are run, and the digest and the
   request of a finalization are bounded by its timer. *)
Fairness == WF_vars(FinalizationStep)

Spec == Init /\ [][Next]_vars /\ Fairness

-----------------------------------------------------------------------------
TypeOK ==
  /\ link.at \in {"new", "gateway", "opening", "asked", "ready", "failed"}
  /\ speech.active \in Responses \cup {0} /\ speech.job \in {"idle", "capture", "hash", "asr"}
  /\ DOMAIN held \subseteq Responses /\ DOMAIN decided \subseteq Responses
  /\ \A c \in Claims : row[c].state \in {"none", "claimed", "dispatched", "settled", "failed", "indeterminate"}
  /\ server.lock \in Requests \cup {0}

(* What is given to the speaker is, response by response, exactly the audio
   that the durable authority says was transcribed, and no rule matched it:
   whatever arrived while the finalization waited for the answer, and however
   often the transcription was asked for. *)
ReleasedInOrder == SelectSeq(shown.evidence, LAMBDA e : e.action = "release")
PlayedIsTranscribed ==
  /\ playback.log = FlattenSeq([i \in DOMAIN ReleasedInOrder |-> row[ReleasedInOrder[i].id].pcm])
  /\ \A i \in DOMAIN ReleasedInOrder :
       LET a == row[ReleasedInOrder[i].id] IN a.state = "settled" /\ a.text = "clean" /\ a.pcm # <<>>

(* Once a transport was stopped nothing of the agent is scheduled, although
   a decision that was pending then may still be a release. *)
StoppedIsSilent == link.stopped => playback.scheduled = <<>>

(* A text shown as said by the agent belongs to a response that was released;
   with xai and openai it is the text that the decision has read, although
   another one may arrive while the decision is pending. *)
ToldWasReleased ==
  \A t \in shown.told :
    /\ [id |-> t[1], action |-> "release"] \in ToSet(shown.evidence)
    /\ Provider # "gemini" => t[2] = "clean"

(* The evidence has at most one entry for a response, and it is the decision. *)
EvidenceIsTheDecision ==
  \A i \in DOMAIN shown.evidence :
    /\ shown.evidence[i].id \in DOMAIN decided /\ decided[shown.evidence[i].id] = shown.evidence[i].action
    /\ \A j \in DOMAIN shown.evidence : shown.evidence[i].id = shown.evidence[j].id => i = j

(* A response is transcribed at most once, whatever is repeated, refused or lost. *)
TranscribedOnce == \A c \in Claims : server.asked[c] <= 1

(* The budget of the day and the limit of the call hold for what is reserved,
   although a transaction may count in a snapshot that is older than its lock. *)
ReservedWithinLimits ==
  /\ Cardinality({c \in Claims : row[c].today}) <= DayLimit
  /\ Cardinality({c \in Responses : row[c].state # "none"}) <= CallLimit

(* What has ended is decided, or its finalization is given up. *)
EndedIsDecided == \A r \in Responses : (speech.tail # <<>> /\ Head(speech.tail).id = r) ~>
                    (speech.tail = <<>> \/ Head(speech.tail).id # r)
=============================================================================
