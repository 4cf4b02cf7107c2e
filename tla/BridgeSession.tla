---------------------------- MODULE BridgeSession ----------------------------
(***************************************************************************)
(* One telephone call through the standalone bridge (bridge/lib/session.js *)
(* with its two bounded outboxes and the provider adapter): the audio the  *)
(* provider generates on its way to the caller, the marks that come back   *)
(* when it was played, the caller speaking over it, and the batches of     *)
(* tool calls a completed response authorises.                             *)
(*                                                                         *)
(* External parties are modelled by what the bridge can observe of them.   *)
(* Twilio plays what it is sent in order, echoes a mark when the playback  *)
(* reaches it, and on a clear drops what is not played yet and echoes its  *)
(* marks.  The provider runs one response at a time and does not know yet  *)
(* what the bridge has queued for it.  The authority runs a tool call at   *)
(* some moment between its dispatch and its answer.                        *)
(***************************************************************************)
EXTENDS Integers, Sequences, FiniteSets, SequencesExt

CONSTANTS
  Responses,     \* identities of provider responses
  Items,         \* identities of their audio items
  Calls,         \* identities of their function calls
  MaxAudio,      \* bound: audio deltas the provider generates
  MaxMedia,      \* bound: caller audio frames
  MaxSpeech,     \* bound: times the caller starts to speak
  MaxEpoch,      \* bound: capability epoch of the authority
  MaxMarks,      \* limits.maximumPendingMarks
  MaxTwilio,     \* limits.outputQueueMessages
  MaxProvider    \* limits.inputQueueMessages

Nil == "none"

NullAssumption == Nil \notin Responses \cup Items \cup Calls

VARIABLES
  session,     \* the BridgeSession object
  adapter,     \* the provider adapter's ledgers
  pipe,        \* frames Twilio was sent and has not played
  echoes,      \* marks Twilio has sent back
  heard,       \* what the caller has heard of each item
  provider,    \* truncations it was asked for and has not confirmed, outputs it got
  authority,   \* the authority's catalog, and what it did with each call
  evidence     \* what the session's journal says of each call

vars == <<session, adapter, pipe, echoes, heard, provider, authority, evidence>>

Open == {"bootstrapping", "connecting_provider", "awaiting_provider_ack", "ready"}

Silence ==
  [response |-> Nil, generation |-> -1, generated |-> 0, played |-> 0]

NoBatch ==
  [state |-> "none", calls |-> <<>>, settled |-> <<>>, bargeIns |-> 0, epoch |-> 0]

NewSession ==
  [phase |-> "bootstrapping", generation |-> 0, nextMark |-> 1, lastMark |-> 0,
   marks |-> <<>>, playback |-> [i \in Items |-> Silence], current |-> Nil,
   truncations |-> {}, cancelRequested |-> {}, bargeIns |-> 0, active |-> Nil,
   batches |-> [r \in Responses |-> NoBatch], epoch |-> 0, blocked |-> FALSE,
   toTwilio |-> <<>>, toProvider |-> <<>>, media |-> 0, cause |-> Nil]

(***************************************************************************)
(* The adapter: the state of each response, the item each call belongs to  *)
(* and what is wrong with it.                                              *)
(***************************************************************************)
NewAdapter ==
  [response |-> [r \in Responses |-> "unseen"],
   item |-> [i \in Items |-> Nil],
   call |-> [c \in Calls |-> [state |-> "unseen", response |-> Nil, form |-> Nil]],
   order |-> <<>>]

Init ==
  /\ session = NewSession
  /\ adapter = NewAdapter
  /\ pipe = <<>>
  /\ echoes = <<>>
  /\ heard = [i \in Items |-> 0]
  /\ provider = [truncates |-> {}, outputs |-> [c \in Calls |-> 0]]
  /\ authority = [epoch |-> 0, blocked |-> FALSE,
                  call |-> [c \in Calls |-> [sent |-> FALSE, runs |-> 0,
                                             reply |-> -1, refused |-> FALSE]]]
  /\ evidence = [c \in Calls |-> {}]

(***************************************************************************)
(* fatal and shutdown, up to the first await: the state is closing and     *)
(* both outboxes are closed with whatever they held.                       *)
(***************************************************************************)
Fatal(s, cause) ==
  [s EXCEPT !.phase = "closing", !.cause = cause, !.toTwilio = <<>>,
            !.toProvider = <<>>]

(***************************************************************************)
(* enqueueBatch on the two outboxes: all frames or none; an overflow is    *)
(* fatal.  Audio for Twilio and a clear have different ends of the queue.  *)
(***************************************************************************)
Frame(kind, of, at) == [kind |-> kind, of |-> of, at |-> at]

ToProvider(s, frames) ==
  IF Len(s.toProvider) + Len(frames) > MaxProvider
  THEN Fatal(s, "overflow")
  ELSE [s EXCEPT !.toProvider = @ \o frames]

ToTwilio(s, frames) ==
  IF Len(s.toTwilio) + Len(frames) > MaxTwilio
  THEN Fatal(s, "overflow")
  ELSE [s EXCEPT !.toTwilio = @ \o frames]

ToTwilioFront(s, frame) ==
  IF Len(s.toTwilio) + 1 > MaxTwilio
  THEN Fatal(s, "overflow")
  ELSE [s EXCEPT !.toTwilio = <<frame>> \o @]

(***************************************************************************)
(* The session comes up: the bootstrap answered and the provider socket is *)
(* being opened; then its configuration is sent past the outbox.           *)
(***************************************************************************)
Bootstrapped ==
  /\ session.phase = "bootstrapping"
  /\ session' = [session EXCEPT !.phase = "connecting_provider"]
  /\ UNCHANGED <<adapter, pipe, echoes, heard, provider, authority, evidence>>

ProviderOpens ==
  /\ session.phase = "connecting_provider"
  /\ session' = [session EXCEPT !.phase = "awaiting_provider_ack"]
  /\ UNCHANGED <<adapter, pipe, echoes, heard, provider, authority, evidence>>

(***************************************************************************)
(* The acknowledgement opens the gate: the first response.create goes      *)
(* behind the audio the caller already produced.  The enqueue is not       *)
(* guarded, so when the queue is full its exception leaves the handler of  *)
(* the socket; of that, the model has the session's close only.            *)
(***************************************************************************)
Acknowledged(s) ==
  ToProvider([s EXCEPT !.phase = "ready"], <<Frame("create", Nil, 0)>>)

ProviderAcknowledges ==
  /\ session.phase = "awaiting_provider_ack"
  /\ \/ session' = Acknowledged(session)
     \/ session' = Fatal(session, "provider")      \* an acknowledgement that does not match
  /\ UNCHANGED <<adapter, pipe, echoes, heard, provider, authority, evidence>>

(***************************************************************************)
(* handleMedia: caller audio is queued for the provider from the start of  *)
(* the stream on, and waits there until the provider is configured.        *)
(***************************************************************************)
CallerAudio ==
  /\ session.phase \in Open
  /\ session.media < MaxMedia
  /\ session' = [ToProvider(session, <<Frame("audio", Nil, session.media + 1)>>)
                   EXCEPT !.media = @ + 1]
  /\ UNCHANGED <<adapter, pipe, echoes, heard, provider, authority, evidence>>

(***************************************************************************)
(* drain: the provider outbox is attached once the session is ready.       *)
(***************************************************************************)
DrainProvider ==
  /\ session.phase = "ready"
  /\ session.toProvider # <<>>
  /\ session' = [session EXCEPT !.toProvider = Tail(@)]
  /\ LET frame == Head(session.toProvider)
     IN  provider' = CASE frame.kind = "truncate" ->
                            [provider EXCEPT !.truncates = @ \cup {frame.of}]
                       [] frame.kind = "output" ->
                            [provider EXCEPT !.outputs[frame.of] = @ + 1]
                       [] OTHER -> provider
  /\ UNCHANGED <<adapter, pipe, echoes, heard, authority, evidence>>

DrainTwilio ==
  /\ session.phase \in Open
  /\ session.toTwilio # <<>>
  /\ session' = [session EXCEPT !.toTwilio = Tail(@)]
  /\ pipe' = pipe \o <<Head(session.toTwilio)>>
  /\ UNCHANGED <<adapter, echoes, heard, provider, authority, evidence>>

(***************************************************************************)
(* The provider starts a response: one at a time.                          *)
(***************************************************************************)
ProviderStarts(r) ==
  /\ session.phase = "ready"
  /\ adapter.response[r] = "unseen"
  /\ adapter' = [adapter EXCEPT !.response[r] = "started"]
  /\ session' = IF session.active # Nil
                THEN Fatal(session, "provider") ELSE [session EXCEPT !.active = r]
  /\ UNCHANGED <<pipe, echoes, heard, provider, authority, evidence>>

(***************************************************************************)
(* handleOutputAudio, for a delta of n chunks: each chunk becomes a media  *)
(* frame followed by the mark that will tell when it was played.  An item  *)
(* keeps the playback generation it started in.                            *)
(***************************************************************************)
Mark(s, r, i, k) ==
  [generation |-> s.generation, counter |-> s.nextMark + k - 1, item |-> i,
   end |-> s.playback[i].generated + k]

AudioFrames(s, i, n) ==
  [k \in 1..(2 * n) |->
     IF k % 2 = 1
     THEN [kind |-> "audio", generation |-> s.generation, item |-> i]
     ELSE [kind |-> "mark", generation |-> s.generation,
           counter |-> s.nextMark + (k \div 2) - 1]]

OutputAudio(s, r, i, n) ==
  LET known == s.playback[i]
      fresh == [known EXCEPT !.response = r, !.generation = s.generation]
      queued == ToTwilio(s, AudioFrames(s, i, n))
  IN  IF \/ s.active # r
         \/ Len(s.marks) + n > MaxMarks
         \/ known # Silence /\ (known.response # r \/ known.generation # s.generation)
         \/ queued.phase = "closing"
      THEN Fatal(s, "audio")
      ELSE [queued EXCEPT !.playback[i] = [fresh EXCEPT !.generated = @ + n],
                          !.marks = @ \o [k \in 1..n |-> Mark(s, r, i, k)],
                          !.nextMark = @ + n,
                          !.current = i]

(***************************************************************************)
(* The adapter's verdict on an event of a response: an item belongs to one *)
(* response; what follows a response that was sealed locally is ignored,   *)
(* what follows any other terminal response is an error.                   *)
(***************************************************************************)
Verdict(r, i) ==
  CASE i # Nil /\ adapter.item[i] \notin {Nil, r} -> "error"
    [] adapter.response[r] = "unseen" -> "error"
    [] adapter.response[r] = "cancelled" -> "ignore"
    [] adapter.response[r] \in {"completed", "failed"} -> "error"
    [] OTHER -> "deliver"

ProviderAudio(r, i, n) ==
  /\ session.phase = "ready"
  /\ session.nextMark + n <= MaxAudio + 1
  /\ session' = CASE Verdict(r, i) = "deliver" -> OutputAudio(session, r, i, n)
                  [] Verdict(r, i) = "ignore" -> session
                  [] Verdict(r, i) = "error" -> Fatal(session, "provider")
  /\ adapter' = IF adapter.item[i] = Nil
                THEN [adapter EXCEPT !.item[i] = r] ELSE adapter
  /\ UNCHANGED <<pipe, echoes, heard, provider, authority, evidence>>

(***************************************************************************)
(* A function call announced inside a response, whole, with arguments that *)
(* do not parse, or withdrawn.  A call identity belongs to one response    *)
(* and is not used again after it.                                         *)
(***************************************************************************)
Rebound(a, r, c) ==
  \/ a.call[c].state = "retired"
  \/ a.call[c].state = "pending" /\ a.call[c].response # r

Upserted(a, r, c, form) ==
  IF a.call[c].state = "unseen"
  THEN [a EXCEPT !.call[c] = [state |-> "pending", response |-> r, form |-> form],
                 !.order = @ \o <<c>>]
  ELSE [a EXCEPT !.call[c].form = IF form = "good" THEN @ ELSE form]

ProviderCalls(r, c, form) ==
  /\ session.phase = "ready"
  /\ LET verdict == Verdict(r, Nil)
         wrong == verdict = "error" \/ (verdict = "deliver" /\ Rebound(adapter, r, c))
     IN  /\ session' = IF wrong THEN Fatal(session, "provider") ELSE session
         /\ adapter' = IF verdict = "deliver" /\ ~wrong
                       THEN Upserted(adapter, r, c, form) ELSE adapter
  /\ UNCHANGED <<pipe, echoes, heard, provider, authority, evidence>>

Pending(a, r) ==
  {c \in Calls : a.call[c].state = "pending" /\ a.call[c].response = r}

(***************************************************************************)
(* retirePendingCalls, and the terminal status of a response.              *)
(***************************************************************************)
Sealed(a, r, status) ==
  [a EXCEPT !.response[r] = status,
            !.call = [c \in Calls |-> IF c \in Pending(a, r)
                                      THEN [a.call[c] EXCEPT !.state = "retired"]
                                      ELSE a.call[c]]]

(***************************************************************************)
(* response.done.  A repetition is ignored, a second and different end is  *)
(* an error.  The calls of a completed response are executable together or *)
(* not at all: each must be listed in the terminal output and well formed. *)
(***************************************************************************)
Executable(a, r, listed) ==
  IF \A c \in Pending(a, r) : a.call[c].form = "good" THEN Pending(a, r) ELSE {}

TerminalError(a, r, status, listed) ==
  \/ a.response[r] = "unseen"
  \/ a.response[r] \notin {"started", status}
  \/ /\ a.response[r] = "started"
     /\ status = "completed"
     /\ \/ \E c \in listed : Rebound(a, r, c)
        \/ \E c \in Pending(a, r) \ listed : a.call[c].form # "withdrawn"

Ingested(a, r, listed) ==
  FoldLeft(LAMBDA b, c : Upserted(b, r, c, "good"), a, SetToSeq(listed))

(***************************************************************************)
(* dispatchToolBatch: the batch keeps the catalog and the count of         *)
(* interruptions it was authorised under, and its first call is sent at    *)
(* once.                                                                   *)
(***************************************************************************)
Dispatched(s, r, calls) ==
  CASE s.phase # "ready" -> s
    [] s.phase = "ready" /\ s.blocked -> Fatal(s, "catalog")
    [] OTHER ->
         [s EXCEPT !.batches[r] = [state |-> "running", calls |-> calls,
                                   settled |-> <<>>, bargeIns |-> s.bargeIns,
                                   epoch |-> s.epoch]]

ProviderCompletes(r, status, listed) ==
  /\ session.phase = "ready"
  /\ status # "completed" => listed = {}
  /\ LET full == IF status = "completed" THEN Ingested(adapter, r, listed) ELSE adapter
         run == IF status = "completed" THEN Executable(full, r, listed) ELSE {}
         calls == SelectSeq(full.order, LAMBDA c : c \in run)
         over == [session EXCEPT !.active = IF @ = r THEN Nil ELSE @]
         next == IF calls # <<>> THEN Dispatched(over, r, calls) ELSE over
     IN  IF TerminalError(adapter, r, status, listed)
         THEN /\ session' = Fatal(session, "provider")
              /\ UNCHANGED <<adapter, authority, evidence>>
         ELSE IF adapter.response[r] = status
         THEN UNCHANGED <<session, adapter, authority, evidence>>
         ELSE /\ adapter' = Sealed(full, r, status)
              /\ session' = next
              /\ authority' = IF next.batches[r].state = "running"
                              THEN [authority EXCEPT !.call[calls[1]].sent = TRUE]
                              ELSE authority
              /\ evidence' = [c \in Calls |->
                                IF c \in Pending(full, r) \ run
                                THEN evidence[c] \cup {"cancelled"} ELSE evidence[c]]
  /\ UNCHANGED <<pipe, echoes, heard, provider>>

(***************************************************************************)
(* handleBargeIn: the caller speaks.  Everything not yet played is void:   *)
(* marks are forgotten, the generation advances, queued audio is thrown    *)
(* away and Twilio is told to clear, ahead of anything else queued.  The   *)
(* running response is sealed, and the provider is told to cancel it, what *)
(* of each item was heard, and that the calls it asked for did not run.    *)
(***************************************************************************)
Incomplete(s) ==
  {i \in Items : /\ s.playback[i].generation = s.generation
                 /\ s.playback[i].generated > s.playback[i].played}

Repair(s, retired) ==
  (IF s.active # Nil THEN <<Frame("cancel", s.active, 0)>> ELSE <<>>)
    \o SetToSeq({Frame("truncate", i, s.playback[i].played) : i \in Incomplete(s)})
    \o SetToSeq({Frame("output", c, 0) : c \in retired})

SilencedButQueued(s) ==
  [s EXCEPT !.bargeIns = @ + 1,
            !.cancelRequested = @ \cup ({s.active} \ {Nil}),
            !.marks = <<>>,
            !.generation = @ + 1,
            !.current = Nil]

Silenced(s) ==
  [s EXCEPT !.bargeIns = @ + 1,
            !.cancelRequested = @ \cup ({s.active} \ {Nil}),
            !.marks = <<>>,
            !.generation = @ + 1,
            !.current = Nil,
            !.toTwilio = SelectSeq(@, LAMBDA f : f.kind \notin {"audio", "mark"})]

CallerSpeaks ==
  /\ session.phase = "ready"
  /\ session.bargeIns < MaxSpeech
  /\ LET r == session.active
         retired == IF r = Nil THEN {} ELSE Pending(adapter, r)
         repair == Repair(session, retired)
         cleared == ToTwilioFront(Silenced(session),
                                  [kind |-> "clear", generation |-> session.generation + 1])
         told == ToProvider(cleared, repair)
         truncated == {[item |-> i, at |-> session.playback[i].played] :
                         i \in Incomplete(session)}
     IN  IF cleared.phase = "closing"
         THEN session' = cleared /\ UNCHANGED <<adapter, evidence>>
         ELSE /\ adapter' = IF r = Nil THEN adapter ELSE Sealed(adapter, r, "cancelled")
              /\ session' = [told EXCEPT !.truncations = @ \cup truncated,
                                         !.active = Nil]
              /\ evidence' = IF told.phase = "closing" THEN evidence
                             ELSE [c \in Calls |->
                                     IF c \in retired
                                     THEN evidence[c] \cup {"cancelled"} ELSE evidence[c]]
  /\ UNCHANGED <<pipe, echoes, heard, provider, authority>>

(***************************************************************************)
(* The provider confirms a truncation it was asked for.                    *)
(***************************************************************************)
ProviderTruncates(i) ==
  /\ session.phase = "ready"
  /\ i \in provider.truncates
  /\ provider' = [provider EXCEPT !.truncates = @ \ {i}]
  /\ session' = IF \E t \in session.truncations : t.item = i
                THEN [session EXCEPT !.truncations = {t \in @ : t.item # i}]
                ELSE Fatal(session, "truncation")
  /\ UNCHANGED <<adapter, pipe, echoes, heard, authority, evidence>>

(***************************************************************************)
(* Twilio (external), while the stream lasts: plays, echoes marks, clears. *)
(***************************************************************************)
Echo(frame) == [generation |-> frame.generation, counter |-> frame.counter]

TwilioPlays ==
  /\ session.phase \in Open
  /\ pipe # <<>>
  /\ Head(pipe).kind # "clear"
  /\ pipe' = Tail(pipe)
  /\ IF Head(pipe).kind = "audio"
     THEN heard' = [heard EXCEPT ![Head(pipe).item] = @ + 1] /\ UNCHANGED echoes
     ELSE echoes' = echoes \o <<Echo(Head(pipe))>> /\ UNCHANGED heard
  /\ UNCHANGED <<session, adapter, provider, authority, evidence>>

TwilioClears ==
  /\ session.phase \in Open
  /\ \E k \in 1..Len(pipe) :
       /\ pipe[k].kind = "clear"
       /\ \A j \in 1..(k - 1) : pipe[j].kind # "clear"
       /\ LET unplayed == SelectSeq(SubSeq(pipe, 1, k - 1), LAMBDA f : f.kind = "mark")
          IN  echoes' = echoes \o [j \in 1..Len(unplayed) |-> Echo(unplayed[j])]
       /\ pipe' = SubSeq(pipe, k + 1, Len(pipe))
  /\ UNCHANGED <<session, adapter, heard, provider, authority, evidence>>

(***************************************************************************)
(* handleMark and acknowledgePlaybackThrough: a mark acknowledges itself   *)
(* and every earlier one of its generation.                                *)
(***************************************************************************)
Position(s, m) ==
  {k \in 1..Len(s.marks) :
     s.marks[k].generation = m.generation /\ s.marks[k].counter = m.counter}

Acknowledge(s, k) ==
  LET through == {s.marks[j] : j \in 1..k}
      ends(i) == {m.end : m \in {x \in through : x.item = i}} \cup {s.playback[i].played}
  IN  [s EXCEPT
         !.playback = [i \in Items |->
                         [s.playback[i] EXCEPT !.played = CHOOSE e \in ends(i) :
                                                 \A f \in ends(i) : f <= e]],
         !.marks = SubSeq(@, k + 1, Len(@)),
         !.lastMark = s.marks[k].counter]

MarkHandled(s, m) ==
  CASE Position(s, m) # {} ->
         LET k == CHOOSE k \in Position(s, m) : TRUE
         IN  IF m.generation = s.generation THEN Acknowledge(s, k) ELSE s
    [] Position(s, m) = {} /\ m.generation < s.generation -> s
    [] Position(s, m) = {} /\ m.generation = s.generation /\ m.counter <= s.lastMark -> s
    [] OTHER -> Fatal(s, "mark")

MarkArrives ==
  /\ session.phase \in Open
  /\ echoes # <<>>
  /\ echoes' = Tail(echoes)
  /\ session' = MarkHandled(session, Head(echoes))
  /\ UNCHANGED <<adapter, pipe, heard, provider, authority, evidence>>

(***************************************************************************)
(* The authority (external): a call that was sent runs once, and its       *)
(* answer carries the catalog it left; one pinned to another catalog is    *)
(* answered with an error and the current catalog, and does not run.       *)
(***************************************************************************)
Batch(c) == CHOOSE r \in Responses : c \in ToSet(session.batches[r].calls)

AuthorityRuns(c) ==
  /\ authority.call[c].sent
  /\ authority.call[c].reply = -1
  /\ ~authority.call[c].refused
  /\ IF session.batches[Batch(c)].epoch # authority.epoch
     THEN authority' = [authority EXCEPT !.call[c].reply = authority.epoch]
     ELSE \E epoch \in authority.epoch..MaxEpoch, blocked \in BOOLEAN :
            /\ epoch <= authority.epoch + 1
            /\ blocked => epoch > authority.epoch
            /\ authority' = [authority EXCEPT !.epoch = epoch,
                                              !.blocked = @ \/ blocked,
                                              !.call[c].runs = @ + 1,
                                              !.call[c].reply = epoch]
  /\ UNCHANGED <<session, adapter, pipe, echoes, heard, provider, evidence>>

(***************************************************************************)
(* executeToolBatch, after the answer to a call: the batch goes on with    *)
(* the next call unless the outcome is unknown, the caller spoke or the    *)
(* session is closing; the calls that remain are then skipped.             *)
(***************************************************************************)
Current(b) == b.calls[Len(b.settled) + 1]


GoesOn(s, b, outcome) ==
  /\ outcome # "unknown"
  /\ Len(b.settled) + 1 < Len(b.calls)
  /\ s.phase = "ready"
  /\ s.bargeIns = b.bargeIns

Skipped(b) == [k \in 1..(Len(b.calls) - Len(b.settled)) |-> "skipped"]

(***************************************************************************)
(* The end of a batch.  The catalog of the last answer is committed when   *)
(* every call was answered and no answer goes back behind the one before;  *)
(* the outputs go to the provider together, with a request to continue     *)
(* unless the caller spoke meanwhile.                                      *)
(***************************************************************************)
Epochs(b) == <<b.epoch>> \o [k \in 1..Len(b.calls) |-> authority.call[b.calls[k]].reply]

Rewinds(b) == \E k \in 1..Len(b.calls) : Epochs(b)[k + 1] < Epochs(b)[k]

Outputs(s, b) ==
  [k \in 1..Len(b.calls) |-> Frame("output", b.calls[k], 0)]
    \o (IF s.bargeIns = b.bargeIns THEN <<Frame("create", Nil, 0)>> ELSE <<>>)

Committed(s, b) ==
  LET last == authority.call[b.calls[Len(b.calls)]]
  IN  IF \A k \in 1..Len(b.calls) : b.settled[k] = "ok"
      THEN [s EXCEPT !.epoch = last.reply,
                     !.blocked = authority.blocked /\ last.reply = authority.epoch]
      ELSE s

Finished(s, r, b) ==
  LET over == [s EXCEPT !.batches[r] = [b EXCEPT !.state = "over"]]
      all == \A k \in 1..Len(b.calls) : b.settled[k] = "ok"
  IN  CASE s.phase # "ready" -> over
        [] s.phase = "ready" /\ (\E k \in 1..Len(b.calls) : b.settled[k] = "unknown") ->
             Fatal(over, "authority")
        [] s.phase = "ready" /\ all /\ Rewinds(b) -> Fatal(over, "rewind")
        [] OTHER -> ToProvider(Committed(over, b), Outputs(s, b))

(***************************************************************************)
(* What tool.batch_settled says of each call, while the journal is open.   *)
(***************************************************************************)
Recorded(b) ==
  IF session.phase = "closed" THEN evidence
  ELSE [c \in Calls |-> evidence[c] \cup {b.settled[k] : k \in {j \in 1..Len(b.calls) :
                                                                 b.calls[j] = c}}]

(***************************************************************************)
(* A call is answered: with the gateway's envelope, with an error that     *)
(* excludes that it ran, or in a way that leaves this open.                *)
(***************************************************************************)
Outcomes(c) ==
  {"unknown"} \cup (IF authority.call[c].reply # -1 THEN {"ok"} ELSE {})
              \cup (IF authority.call[c].runs = 0 THEN {"failed"} ELSE {})

CallIsAnswered(r, outcome) ==
  /\ session.batches[r].state = "running"
  /\ LET b == session.batches[r]
         c == Current(b)
         settled == [b EXCEPT !.settled = @ \o <<outcome>>]
         whole == [settled EXCEPT !.settled = @ \o Skipped(settled)]
         goesOn == GoesOn(session, b, outcome)
     IN  /\ outcome \in Outcomes(c)
         /\ session' = IF goesOn THEN [session EXCEPT !.batches[r] = settled]
                       ELSE Finished(session, r, whole)
         /\ evidence' = IF goesOn THEN evidence ELSE Recorded(whole)
         /\ authority' =
              [authority EXCEPT !.call = [d \in Calls |->
                 [authority.call[d] EXCEPT
                    !.refused = @ \/ (d = c /\ outcome = "failed"),
                    !.sent = @ \/ (goesOn /\ d = Current(settled))]]]
  /\ UNCHANGED <<adapter, pipe, echoes, heard, provider>>

(***************************************************************************)
(* The call ends: Twilio stops or a socket closes, the provider reports an *)
(* error or breaks its protocol, a timer fires, a frame cannot be sent.    *)
(***************************************************************************)
SessionEnds ==
  /\ session.phase \in Open
  /\ session' = Fatal(session, "ended")
  /\ UNCHANGED <<adapter, pipe, echoes, heard, provider, authority, evidence>>

(***************************************************************************)
(* performShutdown: running batches are given a second to settle, and the  *)
(* calls of those that do not are recorded as unknown before the journal   *)
(* is sealed.                                                              *)
(***************************************************************************)
Unsettled(s) ==
  UNION {ToSet(s.batches[r].calls) :
           r \in {x \in Responses : s.batches[x].state = "running"}}

ShutdownCompletes ==
  /\ session.phase = "closing"
  /\ evidence' = [c \in Calls |-> IF c \in Unsettled(session)
                                  THEN evidence[c] \cup {"unknown"} ELSE evidence[c]]
  /\ session' = [session EXCEPT !.phase = "closed"]
  /\ UNCHANGED <<adapter, pipe, echoes, heard, provider, authority>>

Next ==
  \/ Bootstrapped \/ ProviderOpens \/ ProviderAcknowledges
  \/ CallerAudio \/ CallerSpeaks
  \/ DrainProvider \/ DrainTwilio
  \/ TwilioPlays \/ TwilioClears \/ MarkArrives
  \/ \E r \in Responses :
       \/ ProviderStarts(r)
       \/ \E i \in Items, n \in 1..2 : ProviderAudio(r, i, n)
       \/ \E c \in Calls, form \in {"good", "bad", "withdrawn"} :
            ProviderCalls(r, c, form)
       \/ \E status \in {"completed", "cancelled", "failed"}, listed \in SUBSET Calls :
            ProviderCompletes(r, status, listed)
       \/ \E outcome \in {"ok", "failed", "unknown"} : CallIsAnswered(r, outcome)
  \/ \E i \in Items : ProviderTruncates(i)
  \/ \E c \in Calls : AuthorityRuns(c)
  \/ SessionEnds
  \/ ShutdownCompletes

Spec == Init /\ [][Next]_vars

-----------------------------------------------------------------------------
(***************************************************************************)
(* Types, and the limits of the two queues and of the marks.               *)
(***************************************************************************)
TypeOK ==
  /\ session.phase \in Open \cup {"closing", "closed"}
  /\ session.active \in Responses \cup {Nil}
  /\ session.current \in Items \cup {Nil}
  /\ session.generation = session.bargeIns
  /\ Len(session.toTwilio) <= MaxTwilio
  /\ Len(session.toProvider) <= MaxProvider
  /\ Len(session.marks) <= MaxMarks
  /\ \A c \in Calls : authority.call[c].runs \in 0..1

(***************************************************************************)
(* The bridge never believes, nor tells the provider, that the caller      *)
(* heard more of an item than was really played: what a clear dropped is   *)
(* not counted although Twilio echoes its marks.                           *)
(***************************************************************************)
PlayedWasHeard ==
  /\ \A i \in Items : session.playback[i].played <= heard[i]
  /\ \A k \in 1..Len(session.toProvider) :
       LET f == session.toProvider[k]
       IN  f.kind = "truncate" => f.at <= heard[f.of]

(***************************************************************************)
(* Once the caller has spoken, no audio from before is left to be played   *)
(* without a clear behind it, in the queue of the bridge or in Twilio's.   *)
(***************************************************************************)
StaleAudioIsCleared ==
  session.phase \in Open =>
    /\ \A k \in 1..Len(session.toTwilio) :
         session.toTwilio[k].generation >= session.generation
           \/ session.toTwilio[k].kind = "clear"
    /\ \A k \in 1..Len(pipe) :
         pipe[k].generation < session.generation /\ pipe[k].kind # "clear"
           => \E f \in ToSet(SubSeq(pipe, k + 1, Len(pipe)) \o session.toTwilio) :
                f.kind = "clear" /\ f.generation > pipe[k].generation

(***************************************************************************)
(* Twilio echoing what it was sent never ends the call: every mark that    *)
(* comes back is pending, acknowledged already or of an older generation.  *)
(***************************************************************************)
MarksAreKnown == session.cause # "mark"

QueuedOutputs(c) ==
  Cardinality({k \in 1..Len(session.toProvider) :
                 session.toProvider[k].kind = "output" /\ session.toProvider[k].of = c})

(***************************************************************************)
(* The provider gets at most one output for a call, and only for a call    *)
(* that is accounted for in the journal.                                   *)
(***************************************************************************)
AnsweredOnce ==
  \A c \in Calls : /\ provider.outputs[c] + QueuedOutputs(c) <= 1
                   /\ provider.outputs[c] + QueuedOutputs(c) = 1 => evidence[c] # {}

(***************************************************************************)
(* A call leaves the bridge only for a response that completed, and only   *)
(* if none of the calls of that response was withdrawn or malformed.       *)
(***************************************************************************)
BatchesAreWhole ==
  \A c \in Calls :
    authority.call[c].sent =>
      LET r == adapter.call[c].response
      IN  /\ adapter.response[r] = "completed"
          /\ \A d \in Calls : adapter.call[d].response = r => adapter.call[d].form = "good"

(***************************************************************************)
(* When the session is closed its journal accounts for every call that was *)
(* sent, and says that a call did not run only when it did not.            *)
(***************************************************************************)
NoSilentEffect ==
  /\ session.phase = "closed" => \A c \in Calls : authority.call[c].sent => evidence[c] # {}
  /\ \A c \in Calls :
       evidence[c] \cap {"failed", "skipped", "cancelled"} # {}
         => authority.call[c].runs = 0

NewlySent(c) == ~authority.call[c].sent /\ authority'.call[c].sent

SendsKnowing ==
  (\E c \in Calls : NewlySent(c))
    => \A r \in Responses : "unknown" \notin ToSet(session'.batches[r].settled)

(***************************************************************************)
(* No call is sent once the outcome of one is unknown, in whatever batch.  *)
(***************************************************************************)
NothingAfterUnknown == [][SendsKnowing]_vars

SendsUninterrupted ==
  \A c \in Calls, r \in Responses :
    NewlySent(c) /\ c \in ToSet(session'.batches[r].calls)
      => session'.batches[r].bargeIns = session'.bargeIns

(***************************************************************************)
(* No call is sent for a batch the caller has spoken over.                 *)
(***************************************************************************)
SpeechStopsTheBatch == [][SendsUninterrupted]_vars

(***************************************************************************)
(* Every call that was sent is eventually in the journal.                  *)
(***************************************************************************)
SentIsAccounted ==
  \A c \in Calls : authority.call[c].sent ~> evidence[c] # {}

KeepsTheCatalog == session'.epoch >= session.epoch

(***************************************************************************)
(* "gateway result attempted to rewind active catalog authority": the      *)
(* catalog the session uses never goes back to an earlier epoch.           *)
(***************************************************************************)
CatalogNeverRewinds == [][KeepsTheCatalog]_vars
=============================================================================
