--------------------------- MODULE RealtimeEvents ---------------------------
(***************************************************************************)
(* The normaliser that turns a realtime provider's wire events into the    *)
(* events the client acts on (lib/realtime/client/events.ts).  It is       *)
(* stateful: it remembers which responses started and ended, and collects  *)
(* the function calls of a response until the response is terminal, since  *)
(* only then may a call be executed.                                       *)
(*                                                                         *)
(* A normaliser is a record:                                               *)
(*   started   responses whose response.created was seen                   *)
(*   terminal  what the terminal event of each response said               *)
(*   call      what is known of each function call                         *)
(*   tracked   identities of responses and calls that were reserved        *)
(* A wire event is a record [type, response, call, form, calls, of].       *)
(***************************************************************************)
EXTENDS Integers, Sequences, FiniteSets

CONSTANTS
  Responses,      \* identities a provider gives its responses
  Calls,          \* identities a provider gives its function calls
  MaxIdentities   \* maximumTrackedIdentities

NoResponse == "no response"
NoCall == "no call"

NullAssumption == NoResponse \notin Responses /\ NoCall \notin Calls

(***************************************************************************)
(* The status of a terminal event; "conflict" stands for status fields     *)
(* that contradict each other and for a status outside the closed list.    *)
(***************************************************************************)
TerminalStatuses == {"completed", "cancelled", "failed", "conflict"}

NoTerminal == [status |-> "open", calls |-> {}]

UnseenCall ==
  [state |-> "unseen", response |-> NoResponse, completed |-> FALSE,
   rejected |-> FALSE, cancelled |-> FALSE, conflict |-> FALSE,
   malformed |-> FALSE]

CallRecords ==
  [state : {"unseen", "pending", "settled"},
   response : Responses \cup {NoResponse}, completed : BOOLEAN,
   rejected : BOOLEAN, cancelled : BOOLEAN, conflict : BOOLEAN,
   malformed : BOOLEAN]

Normalizers ==
  [started : SUBSET Responses,
   terminal : [Responses ->
                [status : TerminalStatuses \cup {"open"}, calls : SUBSET Calls]],
   call : [Calls -> CallRecords],
   tracked : SUBSET (Responses \cup Calls)]

NewNormalizer ==
  [started |-> {},
   terminal |-> [r \in Responses |-> NoTerminal],
   call |-> [c \in Calls |-> UnseenCall],
   tracked |-> {}]

(***************************************************************************)
(* Normalised events, and the result of normalising one wire event.        *)
(***************************************************************************)
Event(type, response, status, calls, of) ==
  [type |-> type, response |-> response, status |-> status, calls |-> calls,
   of |-> of]

ResponseEvent(type, response) == Event(type, response, "none", {}, 0)

Result(n, events) == [normalizer |-> n, events |-> events]

(***************************************************************************)
(* A fatal protocol error.  The client stops at the first one, so what the *)
(* normaliser would list after it is left out.                             *)
(***************************************************************************)
Fatal == <<Event("error", NoResponse, "fatal", {}, 0)>>

(***************************************************************************)
(* reserveIdentity: identities are never evicted; the event that would     *)
(* exceed the ledger is an error.                                          *)
(***************************************************************************)
Identities(w) == ({w.response, w.call} \cup w.calls) \ {NoResponse, NoCall}

Reserved(n, w) == [n EXCEPT !.tracked = @ \cup Identities(w)]

Fits(n, w) == Cardinality(n.tracked \cup Identities(w)) <= MaxIdentities

(***************************************************************************)
(* upsertCall with the bindings an item or an arguments event makes.  A    *)
(* settled call is left alone; a call that another response already named  *)
(* keeps its response and is in conflict.                                  *)
(***************************************************************************)
Ingested(call, r, form) ==
  LET current == IF call.state = "unseen"
                 THEN [call EXCEPT !.state = "pending", !.response = r]
                 ELSE call
  IN  IF call.state = "settled"
      THEN call
      ELSE [current EXCEPT
              !.completed = @ \/ form \in {"done", "malformed"},
              !.rejected = @ \/ form = "incomplete",
              !.malformed = @ \/ form = "malformed",
              !.conflict = @ \/ current.response # r \/ form = "rewritten"]

(***************************************************************************)
(* The event records an identity error: it names a settled call, or is the *)
(* first to contradict what is known of the call.                          *)
(***************************************************************************)
IdentityError(call, r, form) ==
  \/ call.state = "settled"
  \/ Ingested(call, r, form).conflict /\ ~call.conflict

IngestItem(n, c, r, form) ==
  Result([n EXCEPT !.call[c] = Ingested(@, r, form)],
         IF IdentityError(n.call[c], r, form) THEN Fatal ELSE <<>>)

(***************************************************************************)
(* function_call_arguments.cancelled: the identity stays reserved until    *)
(* its response ends, so that it cannot be used again.                     *)
(***************************************************************************)
CancelCall(n, c, r) ==
  LET seen == Ingested(n.call[c], r, "added")
  IN  IF n.call[c].state = "settled"
      THEN Result(n, Fatal)
      ELSE Result([n EXCEPT !.call[c] =
                     [seen EXCEPT !.rejected = TRUE, !.cancelled = TRUE]],
                  IF IdentityError(n.call[c], r, "added")
                  THEN Fatal
                  ELSE <<Event("tool.cancelled", r, "none", {c}, 0)>>)

(***************************************************************************)
(* drainCalls: every pending call of the response is settled, and those    *)
(* that were completed without an objection are executable.                *)
(***************************************************************************)
PendingOf(n, r) ==
  {c \in Calls : n.call[c].state = "pending" /\ n.call[c].response = r}

Executable(n, r) ==
  {c \in PendingOf(n, r) :
     /\ n.call[c].completed
     /\ ~n.call[c].rejected
     /\ ~n.call[c].conflict
     /\ ~n.call[c].malformed}

DrainErrors(n, r) ==
  \E c \in PendingOf(n, r) :
     \/ n.call[c].conflict
     \/ n.call[c].malformed /\ n.call[c].completed /\ ~n.call[c].rejected

CancelledByDrain(n, r) ==
  {c \in PendingOf(n, r) \ Executable(n, r) : ~n.call[c].cancelled}

Drained(n, r) ==
  [n EXCEPT !.call =
     [c \in Calls |-> IF c \in PendingOf(n, r)
                      THEN [n.call[c] EXCEPT !.state = "settled"]
                      ELSE n.call[c]]]

(***************************************************************************)
(* A terminal event that omits a call the response is known to have made.  *)
(***************************************************************************)
OmitsPendingCall(n, r, status, calls) ==
  /\ status = "completed"
  /\ \E c \in PendingOf(n, r) \ calls : ~n.call[c].cancelled

(***************************************************************************)
(* A completed response of which some call cannot be executed: none of its *)
(* siblings may be executed either.                                        *)
(***************************************************************************)
InvalidBatch(n, r, status) ==
  status = "completed" /\ CancelledByDrain(n, r) # {}

(***************************************************************************)
(* What a terminal event announces, in order: the executable calls, the    *)
(* calls that are not, the usage, and the end of the response.             *)
(***************************************************************************)
TerminalEvents(n, r, status) ==
  LET runnable == IF status = "completed" THEN Executable(n, r) ELSE {}
      dropped == (PendingOf(n, r) \ runnable)
                   \ {c \in PendingOf(n, r) : n.call[c].cancelled}
  IN  (IF runnable # {}
       THEN <<Event("tool.calls", r, status, runnable, 0)>> ELSE <<>>)
      \o (IF dropped # {}
          THEN <<Event("tool.cancelled", r, "none", dropped, 0)>> ELSE <<>>)
      \o <<ResponseEvent("usage", r),
           Event("response.completed", r, status, {}, 0)>>

(***************************************************************************)
(* response.done and its variants.  The identity of the response is sealed *)
(* before its contents are looked at: an exact repetition is ignored and   *)
(* any other terminal event of the same response is an error.              *)
(***************************************************************************)
IngestAll(n, r, calls) ==
  [n EXCEPT !.call =
     [c \in Calls |-> IF c \in calls THEN Ingested(n.call[c], r, "done")
                      ELSE n.call[c]]]

Terminate(n, r, status, calls) ==
  LET content == [status |-> status, calls |-> calls]
      sealed == [n EXCEPT !.terminal[r] = content]
      full == IngestAll(sealed, r, calls)
  IN  CASE n.terminal[r] = content -> Result(n, <<>>)
        [] n.terminal[r] \notin {content, NoTerminal} -> Result(n, Fatal)
        [] n.terminal[r] = NoTerminal /\
           (status = "conflict" \/ OmitsPendingCall(n, r, status, calls)) ->
             Result(Drained(sealed, r), Fatal)
        [] OTHER ->
             Result(Drained(full, r),
                    IF \/ \E c \in calls : IdentityError(n.call[c], r, "done")
                       \/ DrainErrors(full, r)
                       \/ InvalidBatch(full, r, status)
                    THEN Fatal
                    ELSE TerminalEvents(full, r, status))

(***************************************************************************)
(* Nothing but its own repetition may follow the end of a response.  A     *)
(* truncation names an item and not its response, and may come later.      *)
(***************************************************************************)
Stale(n, w) ==
  /\ w.response # NoResponse
  /\ n.terminal[w.response] # NoTerminal
  /\ w.type \notin {"response.done", "item.truncated"}

(***************************************************************************)
(* response.created: an exact repetition is ignored; one whose contents    *)
(* differ is an error ("form" says which).                                 *)
(***************************************************************************)
StartResponse(n, r, form, of) ==
  CASE r \notin n.started ->
         Result([n EXCEPT !.started = @ \cup {r}],
                <<Event("response.started", r, "none", {}, of)>>)
    [] r \in n.started /\ form = "rewritten" -> Result(n, Fatal)
    [] OTHER -> Result(n, <<>>)

(***************************************************************************)
(* Events without a response, each announced under its own name.           *)
(***************************************************************************)
ControlEvent(w) ==
  CASE w.type = "session.updated" -> <<ResponseEvent("session.ready", NoResponse)>>
    [] w.type = "input_audio_buffer.committed" ->
         <<Event("input.committed", NoResponse, "none", {}, w.of)>>
    [] w.type = "speech_started" ->
         <<Event("input.speech", NoResponse, "started", {}, 0)>>
    [] w.type = "speech_stopped" ->
         <<Event("input.speech", NoResponse, "stopped", {}, 0)>>
    [] w.type = "error" -> <<Event("error", NoResponse, "provider", {}, 0)>>
    [] OTHER -> <<>>

(***************************************************************************)
(* normalize.                                                              *)
(***************************************************************************)
Normalize(n0, w) ==
  LET n == Reserved(n0, w)
  IN  CASE ~Fits(n0, w) -> Result(n0, Fatal)
        [] Fits(n0, w) /\ Stale(n0, w) -> Result(n, Fatal)
        [] OTHER ->
             CASE w.type = "response.created" ->
                    StartResponse(n, w.response, w.form, w.of)
               [] w.type = "function_call" ->
                    IngestItem(n, w.call, w.response, w.form)
               [] w.type = "function_call.cancelled" ->
                    CancelCall(n, w.call, w.response)
               [] w.type = "audio" ->
                    Result(n, <<ResponseEvent("output.audio", w.response)>>)
               [] w.type = "item.truncated" ->
                    Result(n, <<ResponseEvent("turn.interrupted", w.response)>>)
               [] w.type = "response.done" ->
                    Terminate(n, w.response, w.form, w.calls)
               [] OTHER -> Result(n, ControlEvent(w))
=============================================================================
