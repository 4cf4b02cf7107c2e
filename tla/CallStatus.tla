------------------------------ MODULE CallStatus -------------------------------
(***************************************************************************)
(* One call and everything that writes its row: the dispatcher that        *)
(* placed it (an inbound call has none and no status callbacks either),    *)
(* the provider's status callbacks (lost, repeated or reordered on the     *)
(* way), the TwiML request for the answered leg, the media stream's final  *)
(* journal batch, the console's end route, the agent's end_call timer, and *)
(* the delivery receipt that the terminal callback writes into the         *)
(* operator action that asked for the call.                                *)
(***************************************************************************)
EXTENDS Integers, FiniteSets

(***************************************************************************)
(* The calls row as the handlers of the telephony routes see it: every     *)
(* UPDATE of the row is an operator from the row before to the row after.  *)
(* Timestamps are abstracted to whether they are set, the provider's call  *)
(* identity to whether it is bound (a call has one leg at the provider).   *)
(***************************************************************************)
NoSequence == -1

LiveStatuses == {"dialing", "active"}

ClosedStatuses == {"completed", "no-answer", "failed"}

(* What a provider status means for the row: its rank in the order of a    *)
(* call's life and the status the row takes from it.                       *)
Transition(s) ==
    CASE s = "queued" -> [rank |-> 10, internal |-> "dialing"]
      [] s = "initiated" -> [rank |-> 20, internal |-> "dialing"]
      [] s = "ringing" -> [rank |-> 30, internal |-> "dialing"]
      [] s = "in-progress" -> [rank |-> 40, internal |-> "active"]
      [] s = "completed" -> [rank |-> 100, internal |-> "completed"]
      [] s \in {"busy", "no-answer", "canceled"} ->
            [rank |-> 100, internal |-> "no-answer"]
      [] s = "failed" -> [rank |-> 100, internal |-> "failed"]

TerminalProviderStatuses == {"completed", "busy", "no-answer", "canceled", "failed"}

ProviderStatuses ==
    {"queued", "initiated", "ringing", "in-progress"} \cup TerminalProviderStatuses

Rows ==
    [status: LiveStatuses \cup ClosedStatuses, rank: {0, 10, 20, 30, 40, 100},
     sequence: Int, sid: BOOLEAN, ended: BOOLEAN]

(* The row an outbound admission inserts, and the row the TwiML route      *)
(* inserts when an inbound leg reaches an agent's number.                  *)
AdmittedRow ==
    [status |-> "dialing", rank |-> 0, sequence |-> NoSequence,
     sid |-> FALSE, ended |-> FALSE]

InboundRow ==
    [status |-> "active", rank |-> 40, sequence |-> NoSequence,
     sid |-> TRUE, ended |-> FALSE]

AtLeast(rank, floor) == IF rank < floor THEN floor ELSE rank

(* A status callback is applied to the row that carries its leg's identity, *)
(* is not at a terminal rank, and has not seen a later sequence number.    *)
CallbackApplies(row, s, sequence) ==
    /\ row.sid
    /\ row.rank < 100
    /\ IF sequence # NoSequence THEN sequence > row.sequence
       ELSE Transition(s).rank > row.rank

MutantAfterCallback(row, s, sequence) ==
    [row EXCEPT !.rank = Transition(s).rank,
                !.sequence = IF sequence = NoSequence THEN @ ELSE sequence,
                !.status = Transition(s).internal,
                !.ended = @ \/ s \in TerminalProviderStatuses]

AfterCallback(row, s, sequence) ==
    [row EXCEPT !.rank = AtLeast(@, Transition(s).rank),
                !.sequence = IF sequence = NoSequence THEN @ ELSE sequence,
                !.status = IF Transition(s).rank >= row.rank
                           THEN Transition(s).internal ELSE @,
                !.ended = @ \/ s \in TerminalProviderStatuses]

(* The provider asks what to do with an answered outbound leg.             *)
TwimlBinds(row) == row.status \in LiveStatuses

AfterTwiml(row) ==
    [row EXCEPT !.sid = TRUE, !.rank = AtLeast(@, 40), !.status = "active"]

(* The dispatcher records the identity the provider returned, and settles. *)
AfterStamp(row) == [row EXCEPT !.sid = TRUE, !.rank = AtLeast(@, 10)]

AfterSettle(row, outcome) ==
    IF outcome = "done" THEN AfterStamp(row)
    ELSE [row EXCEPT !.status = "failed", !.ended = TRUE]

(* The bridge's final batch, or the teardown of an in-process bridge       *)
(* session, closes a call that is still live.                              *)
AfterStreamEnd(row) ==
    IF row.status \in LiveStatuses
    THEN [row EXCEPT !.status = "completed", !.ended = TRUE]
    ELSE row

(* The second statement of the end route has no condition of its own.      *)
AfterEnd(row) == [row EXCEPT !.status = "completed", !.ended = TRUE]

(***************************************************************************)
(* The call itself.                                                        *)
(***************************************************************************)
CONSTANTS
    SequenceForms,  \* subset of {"numbered", "bare"}: callbacks with a sequence number or not
    Copies,         \* how often one callback may be delivered again
    Lossy,          \* whether a callback may be lost
    Inbound         \* whether the call may be one that came in

CallStatusAssumption ==
    /\ SequenceForms \subseteq {"numbered", "bare"} /\ Copies \in Nat /\ Lossy \in BOOLEAN
    /\ Inbound \in BOOLEAN

VARIABLES
    row,        \* the calls row
    leg,        \* the provider's leg: its state and, once over, how it ended
    callbacks,  \* status callbacks on their way
    emitted,    \* the provider's next sequence number
    copied,     \* deliveries repeated so far
    dispatcher, \* where originateCall is
    execution,  \* the delivery recorded on the place_call execution
    stream,     \* the media stream of the leg
    ender,      \* an end request of the console, between its two statements
    hangup      \* the timer of the end_call tool

vars == <<row, leg, callbacks, emitted, copied, dispatcher, execution, stream, ender, hangup>>

LegStates == {"none", "queued", "ringing", "answered"} \cup TerminalProviderStatuses

OverLeg == leg \in TerminalProviderStatuses

DispatcherStates ==
    {"inbound", "posting", "accepted", "stamped", "recording", "rejected", "unknown", "over"}

Init ==
    /\ \/ /\ row = AdmittedRow /\ leg = "none"
          /\ dispatcher = "posting" /\ stream = "none"
       \/ /\ Inbound /\ row = InboundRow /\ leg = "answered"
          /\ dispatcher = "inbound" /\ stream = "open"
    /\ callbacks = {}
    /\ emitted = 0
    /\ copied = 0
    /\ execution = "dispatching"
    /\ ender = "idle"
    /\ hangup = "none"

(* The provider reports a leg it was asked to place to the status route.   *)
Emit(s) ==
    IF dispatcher = "inbound" THEN UNCHANGED <<callbacks, emitted>>
    ELSE \E form \in SequenceForms :
            /\ callbacks' = callbacks \cup
                 {[status |-> s,
                   sequence |-> IF form = "numbered" THEN emitted ELSE NoSequence]}
            /\ emitted' = emitted + 1

--------------------------------------------------------------------------------
(* The dispatcher.  The provider may take the call and the answer still be *)
(* lost: the dispatcher then settles the outcome as unknown.               *)

PostAccepted ==
    /\ dispatcher = "posting"
    /\ dispatcher' = "accepted"
    /\ leg' = "queued"
    /\ UNCHANGED <<row, callbacks, emitted, copied, execution, stream, ender, hangup>>

PostRejected ==
    /\ dispatcher = "posting"
    /\ dispatcher' = "rejected"
    /\ UNCHANGED <<row, leg, callbacks, emitted, copied, execution, stream, ender, hangup>>

PostUnknown ==
    /\ dispatcher = "posting"
    /\ dispatcher' = "unknown"
    /\ leg' \in {"none", "queued"}
    /\ UNCHANGED <<row, callbacks, emitted, copied, execution, stream, ender, hangup>>

Stamp ==
    /\ dispatcher = "accepted"
    /\ dispatcher' = "stamped"
    /\ row' = AfterStamp(row)
    /\ UNCHANGED <<leg, callbacks, emitted, copied, execution, stream, ender, hangup>>

(* Three failed attempts to stamp: the outcome becomes indeterminate and    *)
(* the row is left as it is.                                               *)
StampFails ==
    /\ dispatcher = "accepted"
    /\ dispatcher' = "over"
    /\ execution' = "indeterminate"
    /\ UNCHANGED <<row, leg, callbacks, emitted, copied, stream, ender, hangup>>

Settle ==
    /\ dispatcher \in {"stamped", "rejected", "unknown"}
    /\ row' = AfterSettle(row, IF dispatcher = "stamped" THEN "done" ELSE dispatcher)
    /\ dispatcher' = IF dispatcher = "stamped" THEN "recording" ELSE "over"
    /\ execution' = CASE dispatcher = "stamped" -> execution
                      [] dispatcher = "rejected" -> "rejected"
                      [] dispatcher = "unknown" -> "indeterminate"
    /\ UNCHANGED <<leg, callbacks, emitted, copied, stream, ender, hangup>>

(* The operator action records the provider's acceptance after originateCall *)
(* has returned.                                                           *)
RecordAcceptance ==
    /\ dispatcher = "recording"
    /\ dispatcher' = "over"
    /\ execution' = "accepted"
    /\ UNCHANGED <<row, leg, callbacks, emitted, copied, stream, ender, hangup>>

--------------------------------------------------------------------------------
(* The provider's leg.                                                     *)

LegAdvances ==
    /\ \/ leg = "queued" /\ leg' = "ringing" /\ Emit("ringing") /\ UNCHANGED stream
       \/ /\ leg = "ringing" /\ leg' = "answered"
          /\ stream' = "requested" /\ Emit("in-progress")
    /\ UNCHANGED <<row, copied, dispatcher, execution, ender, hangup>>

LegInitiated ==
    /\ leg = "queued"
    /\ emitted = 0
    /\ Emit("initiated")
    /\ UNCHANGED <<row, leg, copied, dispatcher, execution, stream, ender, hangup>>

LegEnds ==
    /\ \/ leg \in {"queued", "ringing"} /\ leg' \in TerminalProviderStatuses \ {"completed"}
       \/ leg = "answered" /\ leg' = "completed"
    /\ Emit(leg')
    /\ UNCHANGED <<row, copied, dispatcher, execution, stream, ender, hangup>>

LoseCallback ==
    /\ Lossy
    /\ \E cb \in callbacks : callbacks' = callbacks \ {cb}
    /\ UNCHANGED <<row, leg, emitted, copied, dispatcher, execution, stream, ender, hangup>>

(* What the terminal callback writes: only a numbered one is a delivery     *)
(* receipt, and only over the acceptance of the provider's create answer.  *)
Delivery(cb) ==
    IF cb.status \in TerminalProviderStatuses /\ cb.sequence # NoSequence /\ execution = "accepted"
    THEN IF cb.status = "completed" THEN "delivered" ELSE "terminal_failure"
    ELSE execution

StatusCallback(cb) ==
    /\ \/ callbacks' = callbacks \ {cb} /\ copied' = copied
       \/ copied < Copies /\ copied' = copied + 1 /\ UNCHANGED callbacks
    /\ IF CallbackApplies(row, cb.status, cb.sequence)
       THEN /\ row' = AfterCallback(row, cb.status, cb.sequence)
            /\ execution' = Delivery(cb)
       ELSE UNCHANGED <<row, execution>>
    /\ UNCHANGED <<leg, emitted, dispatcher, stream, ender, hangup>>

--------------------------------------------------------------------------------
(* The answered leg: the TwiML request binds the leg to its row or hangs it *)
(* up.  The request may be handled when the leg is already over.           *)

HangsUp ==
    /\ stream' = "refused"
    /\ IF leg = "answered" THEN leg' = "completed" /\ Emit("completed")
       ELSE UNCHANGED <<leg, callbacks, emitted>>

Twiml ==
    /\ stream = "requested"
    /\ IF TwimlBinds(row)
       THEN /\ row' = AfterTwiml(row)
            /\ stream' = IF leg = "answered" THEN "open" ELSE "unused"
            /\ UNCHANGED <<leg, callbacks, emitted>>
       ELSE HangsUp /\ UNCHANGED row
    /\ UNCHANGED <<copied, dispatcher, execution, ender, hangup>>

(* The provider asks again for an inbound leg that already has its row.     *)
InboundRepeated ==
    /\ dispatcher = "inbound" /\ leg = "answered" /\ stream \in {"open", "lost"}
    /\ IF TwimlBinds(row)
       THEN /\ stream' = "open"
            /\ row' = [row EXCEPT !.rank = AtLeast(@, 40)]
            /\ UNCHANGED <<leg, callbacks, emitted>>
       ELSE HangsUp /\ UNCHANGED row
    /\ UNCHANGED <<copied, dispatcher, execution, ender, hangup>>

(* A transfer redirects the leg to a person; the stream has no part in it. *)
TransferTwiml ==
    /\ leg = "answered" /\ stream = "open"
    /\ IF row.sid /\ row.status \in LiveStatuses
       THEN stream' = "closing" /\ UNCHANGED <<leg, callbacks, emitted>>
       ELSE HangsUp
    /\ UNCHANGED <<row, copied, dispatcher, execution, ender, hangup>>

StreamEnds ==
    /\ \/ stream = "open" /\ OverLeg
       \/ stream = "closing"
    /\ stream' = "stopped"
    /\ row' = AfterStreamEnd(row)
    /\ UNCHANGED <<leg, callbacks, emitted, copied, dispatcher, execution, ender, hangup>>

(* The bridge dies with the stream and its final batch is never sent.      *)
BridgeCrashes ==
    /\ stream \in {"open", "closing"}
    /\ stream' = "lost"
    /\ UNCHANGED <<row, leg, callbacks, emitted, copied, dispatcher, execution, ender, hangup>>

EndCall ==
    /\ stream = "open" /\ hangup = "none"
    /\ hangup' = IF row.sid THEN "armed" ELSE "simulated"
    /\ UNCHANGED <<row, leg, callbacks, emitted, copied, dispatcher, execution, stream, ender>>

HangupTimer ==
    /\ hangup = "armed"
    /\ hangup' = "fired"
    /\ \/ leg = "answered" /\ leg' = "completed" /\ Emit("completed")
       \/ UNCHANGED <<leg, callbacks, emitted>>
    /\ UNCHANGED <<row, copied, dispatcher, execution, stream, ender>>

EndRouteReads ==
    /\ ender = "idle" /\ row.status = "active"
    /\ ender' = "checked"
    /\ UNCHANGED <<row, leg, callbacks, emitted, copied, dispatcher, execution, stream, hangup>>

EndRouteWrites ==
    /\ ender = "checked"
    /\ ender' = "over"
    /\ row' = AfterEnd(row)
    /\ UNCHANGED <<leg, callbacks, emitted, copied, dispatcher, execution, stream, hangup>>

Next ==
    \/ PostAccepted \/ PostRejected \/ PostUnknown
    \/ Stamp \/ StampFails \/ Settle \/ RecordAcceptance
    \/ LegAdvances \/ LegInitiated \/ LegEnds
    \/ LoseCallback
    \/ \E cb \in callbacks : StatusCallback(cb)
    \/ Twiml \/ InboundRepeated \/ TransferTwiml \/ StreamEnds \/ BridgeCrashes
    \/ EndCall \/ HangupTimer
    \/ EndRouteReads \/ EndRouteWrites

Spec == Init /\ [][Next]_vars

--------------------------------------------------------------------------------
(* Type invariant: the row, the leg and the in-flight callbacks have the    *)
(* values their writers give them.                                         *)
TypeOK ==
    /\ row \in Rows
    /\ leg \in LegStates
    /\ \A cb \in callbacks : cb.status \in ProviderStatuses /\ cb.sequence < emitted
    /\ copied \in 0..Copies
    /\ dispatcher \in DispatcherStates
    /\ execution \in {"dispatching", "accepted", "rejected", "indeterminate",
                      "delivered", "terminal_failure"}
    /\ stream \in {"none", "requested", "unused", "open", "closing", "refused", "stopped", "lost"}
    /\ ender \in {"idle", "checked", "over"}
    /\ hangup \in {"none", "armed", "simulated", "fired"}

(* A row at a terminal provider rank is closed, whoever wrote it last: the  *)
(* TwiML route overwrites the provider's status without looking at its rank *)
(* and relies on this.                                                     *)
TerminalRankIsClosed == row.rank = 100 => row.status \in ClosedStatuses

(* A closed call has an end time, whichever of the five writers closed it.  *)
ClosedHasEnd == row.status \in ClosedStatuses => row.ended

KeepsProgress ==
    /\ row'.rank >= row.rank
    /\ row'.sequence >= row.sequence
    /\ row.sid => row'.sid
    /\ row.ended => row'.ended
    /\ row.rank = 100 => row'.rank = 100 /\ row'.sequence = row.sequence

(* The provider's progress on the row never goes back: rank and sequence    *)
(* only rise, the leg's identity is never dropped, an end time is never     *)
(* cleared, and nothing of it moves once the rank is terminal.             *)
ProviderProgressMonotone == [][KeepsProgress]_vars

(* The delivery receipt on the operator action says how the leg really     *)
(* ended, and the row carries the same end.                                *)
DeliveryReceiptIsTrue ==
    /\ execution = "delivered" => leg = "completed" /\ row.rank = 100
    /\ execution = "terminal_failure" =>
         leg \in TerminalProviderStatuses \ {"completed"} /\ row.rank = 100

(* An outbound call whose row carries the leg's identity while the leg is   *)
(* still up is closed in the end and stays closed, however the callbacks    *)
(* are ordered.                                                            *)
BoundCallSettles ==
    (dispatcher # "inbound" /\ row.sid /\ leg \in {"queued", "ringing", "answered"}) ~>
        [](row.status \in ClosedStatuses)
================================================================================
