---------------------------- MODULE EventJournal -----------------------------
(***************************************************************************)
(* The bridge's event journal (bridge/lib/event-journal.js) as a session    *)
(* uses it (record, fatal and performShutdown of bridge/lib/session.js),    *)
(* and the endpoint it delivers to (web/app/api/telephony/events/route.ts). *)
(*                                                                          *)
(* An action is what JavaScript runs between two points where other code    *)
(* can run.  An event is its sequence number: append freezes its content,   *)
(* so one number has one content.  The byte limits only make an append fail *)
(* or a batch shorter; they are nondeterministic choices here.              *)
(***************************************************************************)
EXTENDS Integers, Sequences, FiniteSets

CONSTANTS
    None,
    MaxQueuedEvents,
    TerminalReserveEvents,
    MaxBatchEvents,
    MaxAttempts,
    ClosesCall,   \* the stream binding has mode 'agent'
    MaxScope,     \* bound: capability generations
    MaxSequence   \* bound: events appended

ASSUME JournalAssumption ==
    /\ MaxQueuedEvents \in Nat /\ TerminalReserveEvents \in Nat
    /\ TerminalReserveEvents < MaxQueuedEvents
    /\ MaxBatchEvents \in 1..MaxQueuedEvents
    /\ MaxAttempts \in Nat \ {0} /\ MaxScope \in Nat \ {0} /\ MaxSequence \in Nat
    /\ ClosesCall \in BOOLEAN
    /\ None \notin [first : Int, last : Int, complete : BOOLEAN]

VARIABLES
    events,        \* #events, as sequence numbers
    nextSequence,  \* #nextSequence
    activeBatch,   \* #activeBatch
    requested,     \* #completionRequested
    acknowledged,  \* #completionAcknowledged
    scope,         \* #scope, as a generation
    drain,         \* #flushPromise and the drain behind it
    deadline,      \* #shutdownDeadlineAt: none, ahead or passed
    session,       \* the BridgeSession's use of the journal
    late,          \* batches of abandoned requests that may still reach the endpoint
    stored,        \* call_events of this stream, as sequence numbers
    batches,       \* telephony_event_batches of this stream
    stopped,       \* telephony_stream_bindings.stopped_at IS NOT NULL
    callLive,      \* calls.status IN ('active', 'dialing')
    expired        \* the newest expired capability generation

journalVars == <<events, nextSequence, activeBatch, requested, acknowledged, scope>>
ingressVars == <<stored, batches, stopped, callLive>>
vars == <<journalVars, drain, deadline, session, late, ingressVars, expired>>

------------------------------------------------------------------------------
Batch == [first : Nat, last : Nat, complete : BOOLEAN]
CompleteBatch == [first |-> 0, last |-> 0, complete |-> TRUE]
Covered(b) == IF b.complete THEN {} ELSE b.first..b.last

(* "ended" is a drain that has returned or thrown while its finally callback,
   which clears #flushPromise, is still queued.  The reply is the endpoint's
   side of the current request: "fresh" and "replay" have begun the statement
   and differ in whether its snapshot shows the batch. *)
Replies == {"none", "sent", "fresh", "replay", "ok", "refused"}
Drain == [pc : {"idle", "attempt", "sleeping", "ended"}, attempts : Nat,
          untilDeadline : BOOLEAN, scope : Nat, reply : Replies]
Idle == [pc |-> "idle", attempts |-> 0, untilDeadline |-> FALSE, scope |-> 0, reply |-> "none"]
Ended == [Idle EXCEPT !.pc = "ended"]
Attempt(n, until) ==
    [pc |-> "attempt", attempts |-> n, untilDeadline |-> until, scope |-> scope, reply |-> "sent"]

Sessions == {"open", "failing", "closing", "sealed", "drained", "undrained"}

Init ==
    /\ events = <<>> /\ nextSequence = 1 /\ activeBatch = None
    /\ requested = FALSE /\ acknowledged = FALSE /\ scope = 1
    /\ drain = Idle /\ deadline = "none" /\ session = "open" /\ late = {}
    /\ stored = {} /\ batches = {} /\ stopped = FALSE /\ callLive = TRUE /\ expired = 0

------------------------------------------------------------------------------
(* The drain. *)

NextBatches(queue) ==
    IF queue = <<>> THEN {CompleteBatch}
    ELSE {[first |-> queue[1], last |-> queue[n], complete |-> FALSE] :
              n \in {m \in 1..Len(queue) : m <= MaxBatchEvents}}

(* One turn of #drain's loop, up to the fetch of the first attempt. *)
Loop(queue, active, complete, done, until) ==
    IF \/ queue = <<>> /\ ~(complete /\ ~done)
       \/ deadline = "passed"
    THEN /\ drain' = Ended
         /\ activeBatch' = active
    ELSE /\ drain' = Attempt(1, until)
         /\ activeBatch' \in IF active = None THEN NextBatches(queue) ELSE {active}

(* flush() and #startDeadlineDrain(): a drain is started unless one is there. *)
StartDrain(queue, complete, until) ==
    IF drain.pc = "idle" THEN Loop(queue, activeBatch, complete, acknowledged, until)
    ELSE UNCHANGED <<drain, activeBatch>>

(* The throws of #acknowledge; AcknowledgementsMatch says they never happen. *)
Acknowledges(b) ==
    IF b.complete THEN events = <<>> /\ requested
    ELSE LET count == b.last - b.first + 1 IN
         /\ count <= Len(events)
         /\ events[1] = b.first
         /\ events[count] = b.last

Acknowledge ==
    /\ drain.pc = "attempt" /\ drain.reply = "ok"
    /\ Acknowledges(activeBatch)
    /\ events' = IF activeBatch.complete THEN events
                 ELSE SubSeq(events, activeBatch.last - activeBatch.first + 2, Len(events))
    /\ acknowledged' = (acknowledged \/ activeBatch.complete)
    /\ Loop(events', None, requested, acknowledged', drain.untilDeadline)
    /\ UNCHANGED <<nextSequence, requested, scope, deadline, session, late, ingressVars, expired>>

(* A refusal, a lost or malformed answer, the request timeout or an abort.  A
   request the endpoint has not finished may still be executed there. *)
AttemptFails ==
    /\ drain.pc = "attempt"
    /\ late' = IF drain.reply \in {"sent", "fresh", "replay"} THEN late \cup {activeBatch} ELSE late
    /\ drain' = IF \/ ~drain.untilDeadline /\ drain.attempts >= MaxAttempts
                   \/ deadline = "passed"
                THEN Ended
                ELSE [drain EXCEPT !.pc = "sleeping", !.reply = "none"]
    /\ UNCHANGED <<journalVars, deadline, session, ingressVars, expired>>

(* The count stops at MaxAttempts, which is all that is compared with it. *)
Retry ==
    /\ drain.pc = "sleeping"
    /\ drain' = IF deadline = "passed" THEN Ended
                ELSE Attempt(IF drain.attempts < MaxAttempts THEN drain.attempts + 1 ELSE MaxAttempts,
                             drain.untilDeadline)
    /\ UNCHANGED <<journalVars, deadline, session, late, ingressVars, expired>>

DrainSettles ==
    /\ drain.pc = "ended"
    /\ drain' = Idle
    /\ UNCHANGED <<journalVars, deadline, session, late, ingressVars, expired>>

RotateScope ==
    /\ ~requested /\ ~acknowledged
    /\ scope < MaxScope
    /\ scope' = scope + 1
    /\ UNCHANGED <<events, nextSequence, activeBatch, requested, acknowledged, drain, deadline,
                   session, late, ingressVars, expired>>

------------------------------------------------------------------------------
(* The session. *)

EventLimit(terminal) == MaxQueuedEvents - (IF terminal THEN 0 ELSE TerminalReserveEvents)

Enqueue(terminal) ==
    /\ ~requested
    /\ Len(events) + 1 <= EventLimit(terminal)
    /\ nextSequence <= MaxSequence
    /\ events' = Append(events, nextSequence)
    /\ nextSequence' = nextSequence + 1

(* append refuses: the count limit, or the byte limits. *)
Refused == UNCHANGED <<events, nextSequence>>

(* append and flush. *)
Recorded(terminal) ==
    /\ Enqueue(terminal)
    /\ StartDrain(events', FALSE, FALSE)

Record ==
    /\ session \in {"open", "failing", "closing"}
    /\ \E terminal \in BOOLEAN : Recorded(terminal)
    /\ UNCHANGED <<requested, acknowledged, scope, deadline, session, late, ingressVars, expired>>

(* A refused append makes an open session fail; one that is closing goes on. *)
RecordFails ==
    /\ session = "open"
    /\ session' = "failing"
    /\ UNCHANGED <<journalVars, drain, deadline, late, ingressVars, expired>>

(* fatal records session.failure before it shuts down, shutdown records nothing. *)
BeginShutdown ==
    /\ session \in {"open", "failing"}
    /\ session' = "closing"
    /\ \/ Recorded(TRUE)
       \/ Refused /\ UNCHANGED <<drain, activeBatch>>
    /\ UNCHANGED <<requested, acknowledged, scope, deadline, late, ingressVars, expired>>

(* The end of performShutdown: session.ended is recorded, the journal is
   sealed and journal.shutdown is called, in one turn. *)
Seal ==
    /\ session = "closing"
    /\ session' = "sealed"
    /\ requested' = TRUE
    /\ deadline' = "ahead"
    /\ \/ Recorded(TRUE)
       \/ Refused /\ StartDrain(events, TRUE, TRUE)
    /\ UNCHANGED <<acknowledged, scope, late, ingressVars, expired>>

(* #shutdownDrain once the drain it awaited has settled. *)
ShutdownLoop ==
    /\ session = "sealed" /\ drain.pc = "idle"
    /\ IF acknowledged THEN session' = "drained" /\ UNCHANGED <<drain, activeBatch>>
       ELSE IF deadline = "passed" THEN session' = "undrained" /\ UNCHANGED <<drain, activeBatch>>
       ELSE session' = session /\ StartDrain(events, requested, TRUE)
    /\ UNCHANGED <<events, nextSequence, requested, acknowledged, scope, deadline, late,
                   ingressVars, expired>>

(* The deadline wins the race of #awaitThroughDeadline; the drain goes on. *)
ShutdownGivesUp ==
    /\ session = "sealed" /\ deadline = "passed" /\ drain.pc # "idle"
    /\ session' = "undrained"
    /\ UNCHANGED <<journalVars, drain, deadline, late, ingressVars, expired>>

DeadlinePasses ==
    /\ deadline = "ahead"
    /\ deadline' = "passed"
    /\ UNCHANGED <<journalVars, drain, session, late, ingressVars, expired>>

------------------------------------------------------------------------------
(* The endpoint.  Its statement locks the binding and the call, whose latest
   versions it reads; the batch table it reads as of the statement's start,
   which may lie before another copy of the batch committed. *)

Live == ~stopped /\ callLive

Store(b) ==
    /\ stored' = stored \cup Covered(b)
    /\ batches' = batches \cup {b}
    /\ stopped' = (stopped \/ b.complete)
    /\ callLive' = (callLive /\ ~(b.complete /\ ClosesCall))

IngestBegins ==
    /\ drain.pc = "attempt" /\ drain.reply = "sent"
    /\ drain' = [drain EXCEPT !.reply = IF drain.scope <= expired THEN "refused"
                                        ELSE IF activeBatch \in batches THEN "replay" ELSE "fresh"]
    /\ UNCHANGED <<journalVars, deadline, session, late, ingressVars, expired>>

(* Mutant: a batch that comes after the call was ended is acknowledged. *)
MutantIngest ==
    /\ drain.pc = "attempt" /\ drain.reply \in {"fresh", "replay"}
    /\ IF Live THEN Store(activeBatch) ELSE UNCHANGED ingressVars
    /\ drain' = [drain EXCEPT !.reply = "ok"]
    /\ UNCHANGED <<journalVars, deadline, session, late, expired>>

(* Mutant: a stopped stream refuses every batch, also one it has. *)
MutantNoReplay ==
    /\ drain.pc = "attempt" /\ drain.reply \in {"fresh", "replay"}
    /\ IF Live THEN Store(activeBatch) ELSE UNCHANGED ingressVars
    /\ drain' = [drain EXCEPT !.reply = IF Live THEN "ok" ELSE "refused"]
    /\ UNCHANGED <<journalVars, deadline, session, late, expired>>

Ingest ==
    /\ drain.pc = "attempt" /\ drain.reply \in {"fresh", "replay"}
    /\ IF Live THEN Store(activeBatch) ELSE UNCHANGED ingressVars
    /\ drain' = [drain EXCEPT !.reply = IF Live \/ drain.reply = "replay" THEN "ok" ELSE "refused"]
    /\ UNCHANGED <<journalVars, deadline, session, late, expired>>

(* A copy nobody waits for; there may be several, so it stays in late. *)
IngestLate ==
    /\ Live
    /\ \E b \in late : Store(b)
    /\ UNCHANGED <<journalVars, drain, deadline, session, late, expired>>

(* Status callbacks and the other writers of calls.status; a callback that
   arrives late can also make a call active again. *)
CallStatusChanges ==
    /\ callLive' = ~callLive
    /\ UNCHANGED <<journalVars, drain, deadline, session, late, stored, batches, stopped, expired>>

ScopeExpires ==
    /\ expired < scope
    /\ expired' = expired + 1
    /\ UNCHANGED <<journalVars, drain, deadline, session, late, ingressVars>>

------------------------------------------------------------------------------
Next ==
    \/ Acknowledge \/ AttemptFails \/ Retry \/ DrainSettles \/ RotateScope
    \/ Record \/ RecordFails \/ BeginShutdown \/ Seal
    \/ ShutdownLoop \/ ShutdownGivesUp \/ DeadlinePasses
    \/ IngestBegins \/ Ingest \/ IngestLate \/ CallStatusChanges \/ ScopeExpires

Spec == Init /\ [][Next]_vars

(* A batch that is sent again and again is sooner or later answered in time. *)
Delivers == SF_vars(IngestBegins) /\ SF_vars(Ingest) /\ SF_vars(Acknowledge)

------------------------------------------------------------------------------
(* Properties. *)

(* Every field of the journal, of its drain and of the endpoint's tables has
   its type, and the queue never exceeds maxQueuedEvents. *)
TypeOK ==
    /\ events \in Seq(Nat) /\ Len(events) <= MaxQueuedEvents
    /\ nextSequence \in Nat \ {0}
    /\ activeBatch \in Batch \cup {None}
    /\ requested \in BOOLEAN /\ acknowledged \in BOOLEAN
    /\ scope \in 1..MaxScope /\ expired \in 0..scope
    /\ drain \in Drain
    /\ deadline \in {"none", "ahead", "passed"} /\ session \in Sessions
    /\ late \subseteq Batch /\ batches \subseteq Batch
    /\ stored \subseteq Nat /\ stopped \in BOOLEAN /\ callLive \in BOOLEAN

Appended == 1..(nextSequence - 1)

(* "A batch is removed only after a strict, matching acknowledgement": an
   event that append accepted is queued until the endpoint has stored it. *)
NothingLost == \A n \in Appended : n \in stored \/ \E i \in 1..Len(events) : events[i] = n

(* Whatever requests are lost, repeated or executed late, the endpoint has a
   gap-free prefix of what was appended. *)
StoredIsPrefix == \E k \in 0..(nextSequence - 1) : stored = 1..k

(* "exactly-once at the ingestion boundary": no event is recorded under two
   batches, although a batch is cut from a queue that grows while an earlier
   attempt of it may still be executed. *)
EventsInOneBatch == \A b, c \in batches : b # c => Covered(b) \cap Covered(c) = {}

(* The endpoint stops the stream only when it has every event ever appended. *)
CompletionIsLast == stopped => stored = Appended

(* shutdown reports a drained journal only if the endpoint has every event and
   the completion. *)
DrainedIsStored == session = "drained" => stored = Appended /\ CompleteBatch \in batches

(* The consistency checks of #acknowledge never throw: while the endpoint
   answered, the queue may have grown and completion may have been requested,
   but the batch is still its head. *)
AcknowledgementsMatch == drain.reply = "ok" => Acknowledges(activeBatch)

(* If its deadline passes in time, a journal shutdown returns, and the drain it
   leaves behind stops too, whatever the endpoint does. *)
ShutdownSettles ==
    WF_vars(DeadlinePasses) =>
      (session = "sealed" ~> session \in {"drained", "undrained"} /\ drain.pc = "idle")

(* If a batch that is sent again and again is sooner or later answered in time,
   a shutdown drains the journal unless its deadline passes, the call is ended
   by someone else first or the capability in use has expired: neither a drain
   that gave up before, nor a completion whose answer was lost, nor one refused
   because its other copy had just stopped the stream, wedges it. *)
ShutdownDrains ==
    Delivers =>
      (session = "sealed" ~> \/ session = "drained" \/ deadline = "passed"
                             \/ ~stopped /\ ~callLive
                             \/ scope <= expired)
==============================================================================
