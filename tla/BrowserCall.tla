----------------------------- MODULE BrowserCall -----------------------------
(***************************************************************************)
(* A call placed from the browser (components/call/realtime.ts, class      *)
(* RealtimeCall) together with the three routes it talks to: the one that  *)
(* allocates the call, the one that stores its audit events and the one    *)
(* that ends it.                                                           *)
(*                                                                         *)
(* start and stop are two threads of control over the same object.  start  *)
(* can be overtaken by a stop at each of its awaits; stop is called by the *)
(* user, by the provider's closing and by the session limit.  Audit events *)
(* wait in a bounded queue, which a timer and the shutdown flush in        *)
(* batches over a network that loses requests and answers.                 *)
(***************************************************************************)
EXTENDS Integers, Sequences, FiniteSets, SequencesExt

CONSTANTS
  Capacity,     \* pendingAuditEvents
  BatchSize,    \* events the route accepts in one request
  MaxSaid,      \* bound on the events the provider raises
  MaxLost       \* bound on the requests that fail or time out

BoundsAssumption ==
  /\ Capacity \in Nat \ {0}
  /\ BatchSize \in Nat \ {0, 1}
  /\ MaxSaid \in Nat
  /\ MaxLost \in Nat

VARIABLES
  start,     \* where start() stands, and the events the provider raised
  stop,      \* where performStop() stands, and what it decided
  media,     \* what the browser holds open
  known,     \* callId is set
  queue,     \* pendingEvents, and the drops that were reported
  flight,    \* the request of flushInFlight
  stray,     \* batches of requests the client gave up and the server may get
  end,       \* the request of endPromise
  server,    \* status of the call and its journal
  shown,     \* what onState was told
  lost       \* requests that failed so far

vars ==
  <<start, stop, media, known, queue, flight, stray, end, server, shown, lost>>

(***************************************************************************)
(* Audit events.  Each one pushed has the next number "n"; the marker a    *)
(* flush puts before its batch has number 0 and says how many were         *)
(* dropped.                                                                *)
(***************************************************************************)
EventTypes == {"said", "closed", "connected", "loss", "upload", "settled",
               "unresolved", "unknown", "overflow"}

Events == [type : EventTypes, n : Nat, dropped : Nat]

Marker(dropped) == [type |-> "overflow", n |-> 0, dropped |-> dropped]

NewQueue == [items |-> <<>>, dropped |-> 0, reported |-> 0, raised |-> 0]

(***************************************************************************)
(* BoundedQueue.push: the oldest event makes room.                         *)
(***************************************************************************)
Push(q, type) ==
  LET full == Len(q.items) >= Capacity
      event == [type |-> type, n |-> q.raised + 1, dropped |-> 0]
  IN  [q EXCEPT !.items = Append(IF full THEN Tail(@) ELSE @, event),
                !.dropped = IF full THEN @ + 1 ELSE @,
                !.raised = @ + 1]


Prepend(q, batch) ==
  LET whole == batch \o q.items
      kept == IF Len(whole) > Capacity THEN Capacity ELSE Len(whole)
  IN  [q EXCEPT !.items = SubSeq(whole, 1, kept),
                !.dropped = @ + (Len(whole) - kept)]

(***************************************************************************)
(* notePersistenceLoss: once for each stage.                               *)
(***************************************************************************)
NoteLoss(stage) ==
  IF stage \in stop.noted
  THEN [queue |-> queue, noted |-> stop.noted]
  ELSE [queue |-> Push(queue, "loss"), noted |-> stop.noted \cup {stage}]

NoFlight == [st |-> "none", batch |-> <<>>]

NoStop ==
  [pc |-> "none", may |-> TRUE, unresolved |-> FALSE, report |-> "none",
   closed |-> FALSE, asked |-> FALSE, left |-> 0, retry |-> FALSE,
   waits |-> FALSE, noted |-> {}]

(***************************************************************************)
(* maximumBatches of flushAllEvents.                                       *)
(***************************************************************************)
MaxBatches == (Capacity + BatchSize - 1) \div BatchSize + 2

Init ==
  /\ start = [pc |-> "idle", live |-> FALSE, cancelled |-> FALSE, said |-> 0]
  /\ stop = NoStop
  /\ media = {}
  /\ known = FALSE
  /\ queue = NewQueue
  /\ flight = NoFlight
  /\ stray = {}
  /\ end = [st |-> "none", wire |-> FALSE]
  /\ server = [call |-> "none", journal |-> <<>>]
  /\ shown = <<>>
  /\ lost = 0

(***************************************************************************)
(* "stopping": stop was called, or start is in its error handler.          *)
(***************************************************************************)
Stopping == stop.pc # "none" \/ start.pc \in {"cleanup", "joining", "ending", "failed"}

(***************************************************************************)
(* start(): the request for a token.                                       *)
(***************************************************************************)
Start ==
  /\ start.pc = "idle"
  /\ stop.pc = "none"
  /\ start' = [start EXCEPT !.pc = "token"]
  /\ shown' = Append(shown, "connecting")
  /\ UNCHANGED <<stop, media, known, queue, flight, stray, end, server, lost>>

(***************************************************************************)
(* The token route: it allocates the call, and marks it failed when what   *)
(* follows fails.                                                          *)
(***************************************************************************)
Allocate ==
  /\ start.pc = "token"
  /\ server.call = "none"
  /\ \E outcome \in {"active", "failed"} : server' = [server EXCEPT !.call = outcome]
  /\ UNCHANGED <<start, stop, media, known, queue, flight, stray, end, shown, lost>>

(***************************************************************************)
(* The error handler of start.  It tells the user of an error unless the   *)
(* start was cancelled, and releases what was acquired.                    *)
(***************************************************************************)
Caught(cancelled) ==
  /\ start' = [start EXCEPT !.pc = "cleanup", !.cancelled = cancelled]
  /\ shown' = IF cancelled THEN shown ELSE Append(shown, "error")

(***************************************************************************)
(* assertStartActive.                                                      *)
(***************************************************************************)
Advance(from, to, acquired) ==
  /\ start.pc = from
  /\ media' = media \cup acquired
  /\ IF Stopping
     THEN Caught(TRUE)
     ELSE /\ start' = [start EXCEPT !.pc = to]
          /\ shown' = shown

(***************************************************************************)
(* The token's answer: the identity of the call is kept before anything    *)
(* else of the answer is looked at.  A stop aborts the request, but an     *)
(* answer that was already read goes on to the next check.                 *)
(***************************************************************************)
TokenArrives ==
  /\ server.call = "active"
  /\ known' = TRUE
  /\ Advance("token", "resume", {"context"})
  /\ UNCHANGED <<stop, queue, flight, stray, end, server, lost>>

TokenIsMalformed ==
  /\ start.pc = "token"
  /\ server.call = "active"
  /\ known' = TRUE
  /\ Caught(Stopping)
  /\ UNCHANGED <<stop, media, queue, flight, stray, end, server, lost>>

TokenIsRefused ==
  /\ start.pc = "token"
  /\ server.call \in {"none", "failed"} \/ Stopping
  /\ Caught(Stopping)
  /\ UNCHANGED <<stop, media, known, queue, flight, stray, end, server, lost>>

Resumed ==
  /\ Advance("resume", "mic", {})
  /\ UNCHANGED <<stop, known, queue, flight, stray, end, server, lost>>

MicGranted ==
  /\ start.pc = "mic"
  /\ IF Stopping
     THEN /\ Caught(TRUE)
          /\ media' = media \cup {"mic"}
     ELSE /\ start' = [start EXCEPT !.pc = "transport"]
          /\ media' = media \cup {"mic", "recorder", "transport"}
          /\ shown' = shown
  /\ UNCHANGED <<stop, known, queue, flight, stray, end, server, lost>>

(***************************************************************************)
(* context.resume, getUserMedia or transport.start fails; a transport that *)
(* the stop has released fails to start.                                   *)
(***************************************************************************)
StartFails ==
  /\ start.pc \in {"resume", "mic", "transport"}
  /\ Caught(Stopping)
  /\ UNCHANGED <<stop, media, known, queue, flight, stray, end, server, lost>>

(***************************************************************************)
(* transport.start resolves.                                               *)
(***************************************************************************)
Connected ==
  /\ start.pc = "transport"
  /\ IF Stopping
     THEN /\ Caught(TRUE)
          /\ queue' = queue
     ELSE /\ start' = [start EXCEPT !.pc = "live", !.live = TRUE]
          /\ shown' = Append(shown, "live")
          /\ queue' = Push(queue, "connected")
  /\ UNCHANGED <<stop, media, known, flight, stray, end, server, lost>>

(***************************************************************************)
(* cleanupMedia in the error handler; then it waits for a stop that was    *)
(* active when the error was caught.                                       *)
(***************************************************************************)
Cleanup ==
  /\ start.pc = "cleanup"
  /\ media' = {}
  /\ start' = [start EXCEPT !.pc = IF start.cancelled THEN "joining" ELSE "ending"]
  /\ UNCHANGED <<stop, known, queue, flight, stray, end, server, shown, lost>>

Join ==
  /\ start.pc = "joining"
  /\ stop.pc = "done"
  /\ start' = [start EXCEPT !.pc = "ending"]
  /\ UNCHANGED
       <<stop, media, known, queue, flight, stray, end, server, shown, lost>>

(***************************************************************************)
(* endServerCall: one request in the life of the call, and none without    *)
(* its identity.                                                           *)
(***************************************************************************)
EndRequested ==
  IF known /\ end.st = "none" THEN [st |-> "sent", wire |-> TRUE] ELSE end

EndSettled == ~known \/ end.st \in {"ok", "failed"}

StartEnds ==
  /\ start.pc = "ending"
  /\ end' = EndRequested
  /\ start' = IF EndSettled THEN [start EXCEPT !.pc = "failed"] ELSE start
  /\ end' # end \/ start' # start
  /\ UNCHANGED <<stop, media, known, queue, flight, stray, server, shown, lost>>

(***************************************************************************)
(* What the provider raises while the transport is open: transcripts,      *)
(* errors and speech evidence.                                             *)
(***************************************************************************)
Say ==
  /\ "transport" \in media
  /\ start.pc \in {"transport", "live"}
  /\ start.said < MaxSaid
  /\ start' = [start EXCEPT !.said = @ + 1]
  /\ queue' = Push(queue, "said")
  /\ UNCHANGED <<stop, media, known, flight, stray, end, server, shown, lost>>

(***************************************************************************)
(* stop(): by the user at any time, and by the provider's closing, which   *)
(* is recorded first.                                                      *)
(***************************************************************************)
UserStops ==
  /\ stop.pc = "none"
  /\ start.pc # "failed"
  /\ stop' = [stop EXCEPT !.pc = "recorder"]
  /\ UNCHANGED
       <<start, media, known, queue, flight, stray, end, server, shown, lost>>

ProviderCloses ==
  /\ "transport" \in media
  /\ start.pc \in {"transport", "live"}
  /\ stop.pc = "none"
  /\ queue' = Push(queue, "closed")
  /\ stop' = [stop EXCEPT !.pc = "recorder", !.closed = TRUE]
  /\ UNCHANGED <<start, media, known, flight, stray, end, server, shown, lost>>

(***************************************************************************)
(* prepareRecordingUpload: the recorder stops.                             *)
(***************************************************************************)
StopRecorder ==
  /\ stop.pc = "recorder"
  /\ stop' = [stop EXCEPT !.pc = "drain"]
  /\ media' = media \ {"recorder"}
  /\ UNCHANGED
       <<start, known, queue, flight, stray, end, server, shown, lost>>

(***************************************************************************)
(* reconcileProviderCloseToolCalls: what the drain of the tool calls says. *)
(* Before the session is live no call is in flight, and the drain has      *)
(* nothing to report.  Then the media are released.                        *)
(***************************************************************************)
Reports ==
  IF stop.closed /\ "transport" \in media /\ start.pc = "live"
  THEN {"none", "settled", "unresolved", "unknown"}
  ELSE {"none"}

Reconcile ==
  /\ stop.pc = "drain"
  /\ \E report \in Reports :
       /\ stop' = [stop EXCEPT !.pc = "upload",
                               !.report = report,
                               !.may = report \in {"none", "settled"},
                               !.unresolved = report = "unresolved"]
       /\ queue' = IF report = "none" THEN queue ELSE Push(queue, report)
  /\ media' = {}
  /\ UNCHANGED <<start, known, flight, stray, end, server, shown, lost>>

(***************************************************************************)
(* uploadRecording, which may fail or have nothing to do; after it the     *)
(* events are flushed, and at the same time the call is ended unless the   *)
(* provider closed it.                                                     *)
(***************************************************************************)
Flushing(s, pc) ==
  [s EXCEPT !.pc = pc, !.left = MaxBatches, !.retry = TRUE, !.waits = FALSE]

Upload ==
  /\ stop.pc = "upload"
  /\ end' = IF stop.closed THEN end ELSE EndRequested
  /\ \/ /\ stop' = Flushing([stop EXCEPT !.asked = ~stop.closed /\ known], "flush")
        /\ UNCHANGED <<queue, lost>>
     \/ /\ lost < MaxLost
        /\ lost' = lost + 1
        /\ queue' = Push(Push(queue, "upload"), "loss")
        /\ stop' = Flushing([stop EXCEPT !.asked = ~stop.closed /\ known,
                                         !.noted = @ \cup {"recording"}], "flush")
  /\ UNCHANGED <<start, media, known, flight, stray, server, shown>>

(***************************************************************************)
(* performFlush: a batch leaves the queue, with a marker when events were  *)
(* dropped since the last report.                                          *)
(***************************************************************************)
BeginFlush ==
  LET drops == queue.dropped - queue.reported
      room == IF drops > 0 THEN BatchSize - 1 ELSE BatchSize
      size == IF Len(queue.items) < room THEN Len(queue.items) ELSE room
      batch == SubSeq(queue.items, 1, size)
  IN  /\ flight' = [st |-> "sent",
                    batch |-> IF drops > 0 THEN <<Marker(drops)>> \o batch
                                           ELSE batch]
      /\ queue' = [queue EXCEPT !.items = SubSeq(@, size + 1, Len(@))]

CanFlush == known /\ queue.items # <<>>

TimerFlush ==
  /\ start.pc = "live"
  /\ stop.pc = "none"
  /\ flight.st = "none"
  /\ CanFlush
  /\ BeginFlush
  /\ UNCHANGED <<start, stop, media, known, stray, end, server, shown, lost>>

(***************************************************************************)
(* flushAllEvents: an iteration joins the flush in progress or begins one. *)
(***************************************************************************)
LoopRuns == stop.pc \in {"flush", "reflush"} /\ ~stop.waits

LoopOver == stop.left = 0 \/ queue.items = <<>>

FlushNext ==
  /\ LoopRuns
  /\ ~LoopOver
  /\ \/ /\ flight.st # "none"
        /\ stop' = [stop EXCEPT !.waits = TRUE]
        /\ UNCHANGED <<queue, flight>>
     \/ /\ flight.st = "none"
        /\ CanFlush
        /\ BeginFlush
        /\ stop' = [stop EXCEPT !.waits = TRUE]
     \/ /\ flight.st = "none"
        /\ ~CanFlush
        /\ stop' = [stop EXCEPT !.left = @ - 1]
        /\ UNCHANGED <<queue, flight>>
  /\ UNCHANGED <<start, media, known, stray, end, server, shown, lost>>

(***************************************************************************)
(* The outcome of an iteration: one failed batch may be tried again.       *)
(***************************************************************************)
Iterated(s, ok) ==
  IF ~s.waits THEN s
  ELSE [s EXCEPT !.waits = FALSE,
                 !.left = IF ok \/ s.retry THEN @ - 1 ELSE 0,
                 !.retry = @ /\ ok]

(***************************************************************************)
(* The events route.  It refuses a batch with an event of a type it does   *)
(* not know, and otherwise inserts one event after the other, so that an   *)
(* error leaves the first ones stored.                                     *)
(***************************************************************************)
AcceptedTypes == {"said", "closed", "connected", "loss", "upload", "overflow"}

Accepts(batch) == \A i \in 1 .. Len(batch) : batch[i].type \in AcceptedTypes

Stored(batch, size) ==
  [server EXCEPT !.journal = @ \o SubSeq(batch, 1, size)]

FlushReaches ==
  /\ flight.st = "sent"
  /\ \/ /\ ~Accepts(flight.batch)
        /\ flight' = [flight EXCEPT !.st = "refused"]
        /\ UNCHANGED <<server, lost>>
     \/ /\ Accepts(flight.batch)
        /\ server' = Stored(flight.batch, Len(flight.batch))
        /\ flight' = [flight EXCEPT !.st = "ok"]
        /\ UNCHANGED lost
     \/ /\ Accepts(flight.batch)
        /\ lost < MaxLost
        /\ lost' = lost + 1
        /\ \E size \in 0 .. Len(flight.batch) - 1 :
             server' = Stored(flight.batch, size)
        /\ flight' = [flight EXCEPT !.st = "refused"]
  /\ UNCHANGED <<start, stop, media, known, queue, stray, end, shown>>

(***************************************************************************)
(* A request the client gave up reaches the server after all.              *)
(***************************************************************************)
StrayReaches ==
  /\ \E batch \in stray :
       /\ stray' = stray \ {batch}
       /\ server' = IF Accepts(batch) THEN Stored(batch, Len(batch)) ELSE server
  /\ UNCHANGED
       <<start, stop, media, known, queue, flight, end, shown, lost>>

(***************************************************************************)
(* The end of performFlush.  All drops so far count as reported once a     *)
(* batch was accepted; a batch that was not goes back to the queue.        *)
(***************************************************************************)
FlushPersisted ==
  /\ flight.st = "ok"
  /\ flight' = NoFlight
  /\ queue' = [queue EXCEPT !.reported = queue.dropped]
  /\ stop' = Iterated(stop, TRUE)
  /\ UNCHANGED <<start, media, known, stray, end, server, shown, lost>>

Returned(batch) ==
  LET back == Prepend(queue, batch)
  IN  IF "events" \in stop.noted
      THEN [queue |-> back, noted |-> stop.noted]
      ELSE [queue |-> Push(back, "loss"), noted |-> stop.noted \cup {"events"}]

FlushFailed ==
  LET back == Returned(flight.batch)
  IN  /\ flight' = NoFlight
      /\ queue' = back.queue
      /\ stop' = Iterated([stop EXCEPT !.noted = back.noted], FALSE)

FlushRefused ==
  /\ flight.st = "refused"
  /\ FlushFailed
  /\ UNCHANGED <<start, media, known, stray, end, server, shown, lost>>

FlushTimesOut ==
  /\ flight.st \in {"sent", "ok"}
  /\ lost < MaxLost
  /\ lost' = lost + 1
  /\ FlushFailed
  /\ \/ stray' = stray
     \/ flight.st = "sent" /\ stray' = stray \cup {flight.batch}
  /\ UNCHANGED <<start, media, known, end, server, shown>>

(***************************************************************************)
(* performStop after flushAllEvents.  After the provider's closing the     *)
(* call is ended when nothing is unresolved, or when what is unresolved    *)
(* was persisted with all other events.                                    *)
(***************************************************************************)
MayTerminalize == stop.may \/ (stop.unresolved /\ queue.items = <<>>)

FlushedAll ==
  /\ stop.pc = "flush"
  /\ LoopRuns
  /\ LoopOver
  /\ IF stop.closed /\ MayTerminalize THEN end' = EndRequested ELSE end' = end
  /\ stop' = [stop EXCEPT !.pc = "ending", !.may = MayTerminalize,
                          !.asked = @ \/ (stop.closed /\ MayTerminalize /\ known)]
  /\ UNCHANGED <<start, media, known, queue, flight, stray, server, shown, lost>>

(***************************************************************************)
(* The outcome of ending the call.                                         *)
(***************************************************************************)
EndSkipped == stop.closed /\ ~stop.may

Finished ==
  /\ media' = {}
  /\ shown' = Append(shown, "ended")

Ending ==
  /\ stop.pc = "ending"
  /\ \/ /\ ~EndSkipped
        /\ ~stop.asked \/ end.st = "ok"
        /\ stop' = [stop EXCEPT !.pc = "done"]
        /\ Finished
        /\ UNCHANGED queue
     \/ /\ EndSkipped \/ (stop.asked /\ end.st = "failed")
        /\ LET loss == NoteLoss("call_end")
           IN  /\ queue' = loss.queue
               /\ stop' = Flushing([stop EXCEPT !.noted = loss.noted], "reflush")
        /\ UNCHANGED <<media, shown>>
  /\ UNCHANGED <<start, known, flight, stray, end, server, lost>>

FlushedLoss ==
  /\ stop.pc = "reflush"
  /\ LoopRuns
  /\ LoopOver
  /\ stop' = [stop EXCEPT !.pc = "done"]
  /\ Finished
  /\ UNCHANGED <<start, known, queue, flight, stray, end, server, lost>>

(***************************************************************************)
(* The end route completes a call that is active.                          *)
(***************************************************************************)
EndReaches ==
  /\ end.wire
  /\ server' = [server EXCEPT !.call = IF @ = "active" THEN "completed" ELSE @]
  /\ end' = [st |-> IF end.st = "sent" THEN "answered" ELSE end.st, wire |-> FALSE]
  /\ UNCHANGED
       <<start, stop, media, known, queue, flight, stray, shown, lost>>

EndAnswered ==
  /\ end.st = "answered"
  /\ end' = [end EXCEPT !.st = "ok"]
  /\ UNCHANGED
       <<start, stop, media, known, queue, flight, stray, server, shown, lost>>

EndTimesOut ==
  /\ end.st \in {"sent", "answered"}
  /\ lost < MaxLost
  /\ lost' = lost + 1
  /\ \E wire \in {end.wire, FALSE} : end' = [st |-> "failed", wire |-> wire]
  /\ UNCHANGED
       <<start, stop, media, known, queue, flight, stray, server, shown>>

Browser ==
  \/ Cleanup \/ Join \/ StartEnds
  \/ StopRecorder \/ Reconcile \/ Upload \/ FlushNext \/ FlushedAll
  \/ Ending \/ FlushedLoss
  \/ FlushPersisted \/ FlushRefused \/ EndAnswered

Network ==
  \/ FlushReaches \/ FlushTimesOut \/ EndReaches \/ EndTimesOut

Environment ==
  \/ Start \/ Allocate \/ TokenArrives \/ TokenIsMalformed \/ TokenIsRefused
  \/ Resumed \/ MicGranted \/ StartFails \/ Connected
  \/ Say \/ UserStops \/ ProviderCloses \/ TimerFlush \/ StrayReaches

Next == Browser \/ Network \/ Environment

Spec == Init /\ [][Next]_vars

(***************************************************************************)
(* Properties.                                                             *)
(***************************************************************************)
Numbers(events) == {events[i].n : i \in 1 .. Len(events)} \ {0}

(***************************************************************************)
(* The state of a browser call has the shape described above; the queue    *)
(* stays within its capacity and a batch within what the route accepts.    *)
(***************************************************************************)
TypeOK ==
  /\ start.pc \in {"idle", "token", "resume", "mic", "transport", "live",
                    "cleanup", "joining", "ending", "failed"}
  /\ stop.pc \in {"none", "recorder", "drain", "upload", "flush", "ending",
                   "reflush", "done"}
  /\ stop.left \in 0 .. MaxBatches
  /\ media \subseteq {"context", "mic", "recorder", "transport"}
  /\ known \in BOOLEAN
  /\ queue.items \in Seq(Events) /\ Len(queue.items) <= Capacity
  /\ flight.batch \in Seq(Events) /\ Len(flight.batch) <= BatchSize
  /\ end.st \in {"none", "sent", "answered", "ok", "failed"}
  /\ server.call \in {"none", "active", "failed", "completed"}
  /\ server.journal \in Seq(Events)
  /\ shown \in Seq({"connecting", "live", "error", "ended"})

(***************************************************************************)
(* No audit event disappears unnoticed: one that is neither stored nor     *)
(* still with the client was counted as dropped, whatever requests failed  *)
(* and whoever flushed (performFlush, BoundedQueue).                       *)
(***************************************************************************)
NoSilentLoss ==
  LET kept == Numbers(queue.items) \cup Numbers(flight.batch)
                \cup Numbers(server.journal)
  IN  Cardinality((1 .. queue.raised) \ kept) <= queue.dropped

(***************************************************************************)
(* As long as nothing was dropped, events are first stored in the order in *)
(* which they happened, although failed batches are sent again and given   *)
(* up requests arrive late (BoundedQueue.prepend, flushEvents).            *)
(***************************************************************************)
JournalInOrder ==
  queue.dropped = 0 =>
    \A i \in 1 .. Len(server.journal) :
      \A n \in 1 .. server.journal[i].n - 1 :
        \E j \in 1 .. i : server.journal[j].n = n

(***************************************************************************)
(* However start and stop overtake each other, once both have returned the *)
(* microphone, the audio context and the transport are released            *)
(* (assertStartActive, cleanupMedia).                                      *)
(***************************************************************************)
NothingHeldOpen ==
  \/ start.pc = "failed"
  \/ stop.pc = "done" /\ start.pc \in {"idle", "live"}
  => media = {}

StaysStopped == stop.pc # "none" => start'.live = start.live

(***************************************************************************)
(* A call that was stopped never becomes live (assertStartActive after     *)
(* transport.start).                                                       *)
(***************************************************************************)
NeverResurrected == [][StaysStopped]_vars

(***************************************************************************)
(* When start failed or stop returned, the end of the call was requested   *)
(* from the server, unless the provider closed it and what became of its   *)
(* tool calls is unknown (endServerCall, reconcileProviderCloseToolCalls). *)
(***************************************************************************)
KnownCallIsEnded ==
  /\ known
  /\ \/ start.pc = "failed"
     \/ stop.pc = "done" /\ start.pc = "live"
  => end.st # "none" \/ (stop.closed /\ ~stop.may)

(***************************************************************************)
(* A call whose shutdown could not tell what became of its tool calls is   *)
(* kept open on the server (performStop).                                  *)
(***************************************************************************)
UnknownIsKeptOpen == stop.report = "unknown" => server.call # "completed"

(***************************************************************************)
(* Every stop ends: the user is told, whatever the network does.           *)
(***************************************************************************)
StopEnds == stop.pc = "recorder" ~> stop.pc = "done"

=============================================================================
