--------------------------- MODULE BrowserGateway ---------------------------
(***************************************************************************)
(* The tool calls of a call held in the browser: the provider's transport  *)
(* queues the batches of calls the model makes                             *)
(* (components/call/providers/openai-compatible-tools.ts and               *)
(* gemini-websocket.ts), the gateway client runs them one after the other  *)
(* over an MCP session it renews as its capability rotates                 *)
(* (capability-gateway.ts), and the MCP route executes them                *)
(* (app/api/mcp/route.ts).                                                 *)
(*                                                                         *)
(* A capability is known by its generation, an MCP session by the          *)
(* generation it was issued under, and the authority of a catalog by its   *)
(* epoch.  A request that was given up may still reach the server.         *)
(***************************************************************************)
EXTENDS Integers, Sequences, FiniteSets

CONSTANTS
  Responses,      \* identities of the provider's responses
  Calls,          \* identities of its native calls
  Batch,          \* the calls of each response, in order
  Flow,           \* the calls that change the flow (and have no receipt)
  Gemini,         \* the transport is Gemini's
  MaxEvents,      \* bound on the terminal events the provider sends
  MaxRotations    \* bound on the rotations of the capability

BatchAssumption ==
  /\ Batch \in [Responses -> Seq(Calls)]
  /\ Flow \subseteq Calls
  /\ Gemini \in BOOLEAN

VARIABLES
  server,   \* the epoch of the call's catalog, and how often each call ran
  net,      \* tool requests that were sent and not yet handled
  reply,    \* the answer to the request the gateway waits for
  gw,       \* the gateway client
  loop      \* the transport's queue of batches

vars == <<server, net, reply, gw, loop>>

None == "none"

NoAnswer == [result |-> None, epoch |-> 0, catalog |-> None]

Answers ==
  [result : {None, "done", "stale", "404"}, epoch : 0 .. Cardinality(Calls),
   catalog : {None, "active", "blocked", "synthetic"}]

NoBatch ==
  [response |-> None, authority |-> 0, next |-> 1, again |-> FALSE,
   last |-> NoAnswer]

NoReport == [made |-> FALSE, settled |-> {}, unresolved |-> {}]

(***************************************************************************)
(* The gateway:                                                            *)
(*   stopped, draining (acceptingCalls is false)                           *)
(*   token      rotationGeneration; age: where it is in its lifetime       *)
(*   rotating   rotationPromise; timer: the refresh timer is in use        *)
(*   session    generation the MCP session is bound to; -1: none           *)
(*   step       what executeBatchSerial is doing; batch: for which batch   *)
(*   sent       token of the request it waits for                          *)
(*   asked      how many tool requests were sent                           *)
(*   minted     session whose initialized notification is on its way       *)
(*   authority  activeCatalogAuthority; blocked: catalogBlocked            *)
(*   completed  completedCalls, with their results; inflight: inFlightCalls*)
(*   drained    the identities of a drain; report: its result              *)
(* It begins with the session its transport opens before it is ready.      *)
(***************************************************************************)
NewGateway ==
  [stopped |-> FALSE, draining |-> FALSE, token |-> 0, age |-> "young",
   rotating |-> FALSE, timer |-> TRUE, session |-> 0, step |-> "idle", batch |-> NoBatch,
   sent |-> 0, minted |-> -1, asked |-> 0, authority |-> 0, blocked |-> FALSE,
   completed |-> [c \in Calls |-> NoAnswer], inflight |-> {}, drained |-> {},
   report |-> NoReport]

(***************************************************************************)
(* The transport:                                                          *)
(*   queue     terminal events not yet processed, the first in process     *)
(*   sealed    sealedResponses                                             *)
(*   open      the provider's socket is open                               *)
(*   stopped   the loop was closed or failed; cause: why it failed         *)
(*   outputs   how often the outputs of a response were sent               *)
(*   told      the result the provider was last given for each call        *)
(***************************************************************************)
NewLoop ==
  [queue |-> <<>>, events |-> 0, sealed |-> {}, open |-> TRUE,
   stopped |-> FALSE, cause |-> None,
   outputs |-> [r \in Responses |-> 0], told |-> [c \in Calls |-> None]]

Init ==
  /\ server = [epoch |-> 0, ran |-> [c \in Calls |-> 0]]
  /\ net = {}
  /\ reply = NoAnswer
  /\ gw = NewGateway
  /\ loop = NewLoop

(***************************************************************************)
(* finalizeClose: nothing is retained, and the pending request is aborted. *)
(***************************************************************************)
Closed(g) ==
  IF g.stopped
  THEN g
  ELSE [g EXCEPT !.stopped = TRUE, !.session = -1, !.timer = FALSE,
                 !.inflight = {}, !.completed = [c \in Calls |-> NoAnswer]]

-----------------------------------------------------------------------------
(***************************************************************************)
(* The transport receives a terminal event with calls: response.done, or   *)
(* Gemini's toolCall.  A "changed" one repeats a response with different   *)
(* contents, omits a call or has an unknown status.  "authority" is what   *)
(* the gateway knew of the catalog when the event arrived.                 *)
(***************************************************************************)
Observe(r, form) ==
  /\ loop.open
  /\ ~loop.stopped
  /\ loop.events < MaxEvents
  /\ loop' = [loop EXCEPT
                !.events = @ + 1,
                !.queue = Append(@, [response |-> r, form |-> form,
                                     authority |-> gw.authority])]
  /\ UNCHANGED <<server, net, reply, gw>>

Done(l) == [l EXCEPT !.queue = Tail(@)]

Idle(g) == [g EXCEPT !.step = "idle", !.batch = NoBatch, !.inflight = {}]

(***************************************************************************)
(* The batch in process fails.  The OpenAI-compatible loop is stopped for  *)
(* good, with the gateway and the socket; Gemini's transport closes the    *)
(* socket and goes on with the batches it has queued until it is stopped.  *)
(***************************************************************************)
Fail(g, cause) ==
  LET first == IF loop.cause = None THEN cause ELSE loop.cause
  IN  /\ CASE loop.stopped ->
                gw' = Idle(g) /\ loop' = Done(loop)
           [] ~loop.stopped /\ Gemini ->
                /\ gw' = Idle(g)
                /\ loop' = [Done(loop) EXCEPT !.open = FALSE, !.cause = first]
           [] OTHER ->
                /\ gw' = Closed(Idle(g))
                /\ loop' = [loop EXCEPT !.queue = <<>>, !.open = FALSE,
                                        !.stopped = TRUE, !.cause = first]
      /\ reply' = NoAnswer

(***************************************************************************)
(* process and dispatchToolBatch up to executeBatch.  An exact repetition  *)
(* of a response is ignored by the OpenAI-compatible loop and given to the *)
(* gateway by Gemini's.                                                    *)
(***************************************************************************)
Ignored(e) ==
  ~Gemini /\ (e.form = "cancelled" \/ e.response \in loop.sealed)

Refusal(e) ==
  CASE e.form = "changed" -> "protocol"
    [] e.form # "changed" /\ (gw.stopped \/ gw.draining) -> "closed"
    [] e.form # "changed" /\ ~gw.stopped /\ ~gw.draining ->
         IF gw.blocked THEN "blocked" ELSE None

(***************************************************************************)
(* executeBatch captures the authority when it is called.                  *)
(***************************************************************************)
Begun(e) ==
  [gw EXCEPT !.step = "fresh",
             !.batch = [NoBatch EXCEPT !.response = e.response,
                                       !.authority = gw.authority]]

(***************************************************************************)
(* The response is sealed; its event stays at the head of the queue until  *)
(* it is dealt with.                                                       *)
(***************************************************************************)
Admitted(e) == [loop EXCEPT !.sealed = @ \cup {e.response}]

Process ==
  /\ loop.queue # <<>>
  /\ gw.step = "idle"
  /\ LET e == Head(loop.queue)
     IN  CASE ~loop.stopped /\ e.form # "changed" /\ Ignored(e) ->
                loop' = Done(Admitted(e)) /\ UNCHANGED <<gw, reply>>
           [] loop.stopped -> loop' = Done(loop) /\ UNCHANGED <<gw, reply>>
           [] OTHER -> IF Refusal(e) # None
                       THEN Fail(gw, Refusal(e))
                       ELSE gw' = Begun(e) /\ loop' = Admitted(e) /\ reply' = reply
  /\ UNCHANGED <<server, net>>

-----------------------------------------------------------------------------
(***************************************************************************)
(* initialize, first half: ensureFreshCapability.  A capability that is    *)
(* due is rotated first, together with whoever else waits for it.  With    *)
(* "again" the session is dropped (force).                                 *)
(***************************************************************************)
AwaitRotation ==
  /\ gw.step = "fresh"
  /\ ~gw.stopped
  /\ gw.age = "due"
  /\ ~gw.rotating
  /\ gw' = [gw EXCEPT !.rotating = TRUE]
  /\ UNCHANGED <<server, net, reply, loop>>

Expired ==
  /\ gw.step = "fresh"
  /\ ~gw.stopped
  /\ gw.age = "expired"
  /\ Fail(gw, "expired")
  /\ UNCHANGED <<server, net>>

(***************************************************************************)
(* initialize, second half.  With a session it arms the refresh timer and  *)
(* the calls begin; without one bootstrap sends the initialize request.    *)
(***************************************************************************)
Initialize ==
  /\ gw.step = "fresh"
  /\ ~gw.stopped
  /\ gw.age \in {"young", "old"}
  /\ gw' = IF gw.session # -1 /\ ~gw.batch.again
           THEN [gw EXCEPT !.step = "next", !.timer = ~gw.draining]
           ELSE [gw EXCEPT !.step = "initialize", !.session = -1,
                           !.sent = gw.token]
  /\ UNCHANGED <<server, net, reply, loop>>

(***************************************************************************)
(* bootstrap: the route answers an initialize request with a session bound *)
(* to the token of the request.  The notification that follows is sent     *)
(* under the token in force by then, and the route looks at both.          *)
(***************************************************************************)
InitializeAnswered ==
  /\ gw.step = "initialize"
  /\ ~gw.stopped
  /\ gw' = [gw EXCEPT !.step = "notify", !.minted = gw.sent, !.sent = gw.token]
  /\ UNCHANGED <<server, net, reply, loop>>

ValidSession(session, token) == session = token

NotificationAnswered ==
  /\ gw.step = "notify"
  /\ ~gw.stopped
  /\ IF ValidSession(gw.minted, gw.sent)
     THEN /\ gw' = [gw EXCEPT !.step = "next", !.session = gw.minted,
                              !.timer = ~gw.draining]
          /\ UNCHANGED <<reply, loop>>
     ELSE Fail(gw, "session")
  /\ UNCHANGED <<server, net>>

-----------------------------------------------------------------------------
(***************************************************************************)
(* The capability grows old.  Its lifetime is long against that of a       *)
(* batch: one that was just issued is not due before the batch ends.       *)
(***************************************************************************)
Age ==
  /\ gw.age # "expired"
  /\ gw.token < MaxRotations
  /\ gw.age = "young" => gw.step = "idle"
  /\ gw' = [gw EXCEPT !.age = CASE @ = "young" -> "old"
                                [] @ = "old" -> "due"
                                [] OTHER -> "expired"]
  /\ UNCHANGED <<server, net, reply, loop>>

(***************************************************************************)
(* The refresh timer: runScheduledRefresh.                                 *)
(***************************************************************************)
ScheduledRefresh ==
  /\ gw.timer
  /\ gw.age = "due"
  /\ ~gw.rotating
  /\ gw' = [gw EXCEPT !.rotating = TRUE]
  /\ UNCHANGED <<server, net, reply, loop>>

(***************************************************************************)
(* rotateCapability publishes the new generation and drops the session.    *)
(***************************************************************************)
RotationAnswered ==
  /\ gw.rotating
  /\ ~gw.stopped
  /\ gw' = [gw EXCEPT !.rotating = FALSE, !.token = @ + 1, !.age = "young",
                      !.session = -1]
  /\ UNCHANGED <<server, net, reply, loop>>

(***************************************************************************)
(* A rotation fails; a batch that waits for it fails with it.              *)
(***************************************************************************)
RotationFails ==
  LET failed == [gw EXCEPT !.rotating = FALSE]
  IN  /\ gw.rotating
      /\ IF gw.step = "fresh"
         THEN Fail(failed, "lost")
         ELSE gw' = failed /\ UNCHANGED <<reply, loop>>
      /\ UNCHANGED <<server, net>>

-----------------------------------------------------------------------------
(***************************************************************************)
(* The loop of executeBatchSerial.  A call that has a result keeps it;     *)
(* otherwise its request is sent, with the authority of the batch and the  *)
(* session of the moment.                                                  *)
(***************************************************************************)
BatchCalls == Batch[gw.batch.response]

Current == BatchCalls[gw.batch.next]

Request(c) ==
  [call |-> c, expect |-> gw.batch.authority, token |-> gw.token,
   session |-> gw.session, id |-> gw.asked + 1]

Advanced(g, answer) ==
  [g EXCEPT !.step = "next", !.inflight = {},
            !.batch = [@ EXCEPT !.next = @ + 1, !.again = FALSE,
                                !.last = answer]]

(***************************************************************************)
(* A batch of which only some calls have a result is refused.              *)
(***************************************************************************)
Mixed ==
  LET known == {i \in 1 .. Len(BatchCalls) :
                  gw.completed[BatchCalls[i]] # NoAnswer}
  IN  gw.batch.next = 1 /\ known # {} /\ known # 1 .. Len(BatchCalls)

NextCall ==
  /\ gw.step = "next"
  /\ gw.batch.next <= Len(BatchCalls)
  /\ CASE Mixed -> Fail(gw, "protocol") /\ net' = net
       [] ~Mixed /\ gw.completed[Current] # NoAnswer ->
            /\ gw' = Advanced(gw, NoAnswer)
            /\ UNCHANGED <<net, reply, loop>>
       [] OTHER ->
            IF gw.stopped
            THEN Fail(gw, "closed") /\ net' = net
            ELSE /\ gw' = [gw EXCEPT !.step = "call", !.inflight = {Current},
                                      !.asked = @ + 1]
                 /\ net' = net \cup {Request(Current)}
                 /\ UNCHANGED <<reply, loop>>
  /\ UNCHANGED server

(***************************************************************************)
(* The route's tools/call.  A session of another capability is refused     *)
(* before anything runs.  A call with a receipt is replayed; otherwise the *)
(* epoch the caller expects must be the current one.  The catalog of the   *)
(* answer is read afterwards: it may be blocked, or, when it cannot be     *)
(* read, be made up from the caller's expectation.                         *)
(***************************************************************************)
Runs(q) ==
  /\ ValidSession(q.session, q.token)
  /\ q.expect = server.epoch
  /\ q.call \in Flow \/ server.ran[q.call] = 0

Executed(q) ==
  IF Runs(q)
  THEN [epoch |-> IF q.call \in Flow THEN server.epoch + 1 ELSE server.epoch,
        ran |-> [server.ran EXCEPT ![q.call] = @ + 1]]
  ELSE server

Outcome(q) ==
  CASE ~ValidSession(q.session, q.token) -> "404"
    [] ValidSession(q.session, q.token)
       /\ (Runs(q) \/ (q.call \notin Flow /\ server.ran[q.call] > 0)) -> "done"
    [] OTHER -> "stale"

AnswerOf(q, catalog) ==
  CASE Outcome(q) = "404" -> [NoAnswer EXCEPT !.result = "404"]
    [] Outcome(q) # "404" /\ catalog = "synthetic" ->
         [result |-> Outcome(q), epoch |-> q.expect, catalog |-> catalog]
    [] OTHER ->
         [result |-> Outcome(q), epoch |-> Executed(q).epoch,
          catalog |-> catalog]

Awaited(q) ==
  /\ gw.step = "call"
  /\ ~gw.stopped
  /\ gw.asked = q.id
  /\ reply = NoAnswer

(***************************************************************************)
(* The server handles a request, whether or not somebody still waits for   *)
(* the answer; the answer may be lost.                                     *)
(***************************************************************************)
ServeCall(q, catalog) ==
  /\ q \in net
  /\ net' = net \ {q}
  /\ server' = Executed(q)
  /\ \/ reply' = reply
     \/ Awaited(q) /\ reply' = AnswerOf(q, catalog)
  /\ UNCHANGED <<gw, loop>>

(***************************************************************************)
(* verifiedResultEnvelope: the catalog is of the runtime the call was      *)
(* admitted with, and does not take the authority back.                    *)
(***************************************************************************)
Verified(answer) ==
  answer.catalog # "synthetic" /\ answer.epoch >= gw.authority

(***************************************************************************)
(* callTool and parseToolResult.  A refused session is renewed once and    *)
(* the same call is sent again.                                            *)
(***************************************************************************)
CallAnswered ==
  /\ gw.step = "call"
  /\ ~gw.stopped
  /\ reply # NoAnswer
  /\ CASE reply.result = "404" /\ ~gw.batch.again ->
            /\ gw' = [gw EXCEPT !.step = "fresh", !.batch.again = TRUE]
            /\ reply' = NoAnswer
            /\ loop' = loop
       [] reply.result = "404" /\ gw.batch.again -> Fail(gw, "session")
       [] OTHER ->
            IF Verified(reply)
            THEN /\ gw' = Advanced([gw EXCEPT !.completed[Current] = reply],
                                   reply)
                 /\ reply' = NoAnswer
                 /\ loop' = loop
            ELSE Fail(gw, "envelope")
  /\ UNCHANGED <<server, net>>


RequestLost ==
  /\ gw.step \in {"initialize", "notify", "call"}
  /\ ~gw.stopped
  /\ Fail(gw, "lost")
  /\ UNCHANGED <<server, net>>

(***************************************************************************)
(* A gateway that is stopped rejects what it waits for.                    *)
(***************************************************************************)
Aborted ==
  /\ gw.step \in {"fresh", "initialize", "notify", "call"}
  /\ gw.stopped
  /\ Fail(gw, "closed")
  /\ UNCHANGED <<server, net>>

(***************************************************************************)
(* The batch has all its results.  The authority moves to that of the last *)
(* answer, unless the batch was a repetition.  Every answer was compared   *)
(* with the authority in force when it arrived, which no other batch       *)
(* changes, so comparing them with each other again finds nothing.  Then   *)
(* the transport sends all outputs and asks for the next response.         *)
(***************************************************************************)
Learned(g) ==
  IF g.batch.last = NoAnswer
  THEN Idle(g)
  ELSE Idle([g EXCEPT !.authority = g.batch.last.epoch,
                      !.blocked = g.batch.last.catalog = "blocked"])

ToldOutputs(r) ==
  [loop EXCEPT !.queue = Tail(@), !.outputs[r] = @ + 1,
     !.told = [c \in Calls |-> IF \E i \in DOMAIN Batch[r] : Batch[r][i] = c
                               THEN gw.completed[c].result ELSE @[c]]]

FinishBatch ==
  /\ gw.step = "next"
  /\ gw.batch.next > Len(BatchCalls)
  /\ CASE loop.stopped \/ (Gemini /\ ~loop.open) ->
            gw' = Learned(gw) /\ loop' = Done(loop) /\ reply' = reply
       [] ~loop.stopped /\ ~Gemini /\ ~loop.open ->
            Fail(Learned(gw), "closed")
       [] OTHER ->
            /\ gw' = Learned(gw)
            /\ loop' = ToldOutputs(gw.batch.response)
            /\ reply' = reply
  /\ UNCHANGED <<server, net>>

-----------------------------------------------------------------------------
(***************************************************************************)
(* The provider's connection is lost.                                      *)
(***************************************************************************)
ProviderCloses ==
  /\ loop.open
  /\ loop' = [loop EXCEPT !.open = FALSE]
  /\ UNCHANGED <<server, net, reply, gw>>

(***************************************************************************)
(* The end of performDrain: of the calls that were in flight, those with a *)
(* result are settled.                                                     *)
(***************************************************************************)
Reported(g) ==
  LET settled == {c \in g.drained : g.completed[c] # NoAnswer}
  IN  [Closed(g) EXCEPT !.report =
         [made |-> TRUE, settled |-> settled,
          unresolved |-> g.drained \ settled]]

(***************************************************************************)
(* drainAndClose, after the connection was lost.  With no call in flight   *)
(* it ends at once.                                                        *)
(***************************************************************************)
DrainAndClose ==
  LET g == [gw EXCEPT !.draining = TRUE, !.timer = FALSE,
                      !.drained = gw.inflight]
  IN  /\ ~loop.open
      /\ ~gw.draining
      /\ gw' = IF gw.inflight = {} THEN Reported(g) ELSE g
      /\ UNCHANGED <<server, net, reply, loop>>

(***************************************************************************)
(* performDrain: when the calls that were in flight have settled, or at    *)
(* the deadline.                                                           *)
(***************************************************************************)
FinishDrain ==
  /\ gw.draining
  /\ ~gw.report.made
  /\ gw' = Reported(gw)
  /\ UNCHANGED <<server, net, reply, loop>>

(***************************************************************************)
(* The transport's stop.                                                   *)
(***************************************************************************)
Stop ==
  /\ ~loop.stopped
  /\ gw' = Closed(gw)
  /\ loop' = [loop EXCEPT !.stopped = TRUE, !.open = FALSE]
  /\ UNCHANGED <<server, net, reply>>

Forms == IF Gemini THEN {"completed", "changed"}
         ELSE {"completed", "cancelled", "changed"}

Transport ==
  \/ \E r \in Responses, form \in Forms : Observe(r, form)
  \/ ProviderCloses
  \/ DrainAndClose
  \/ Stop

Work ==
  \/ Process
  \/ AwaitRotation
  \/ Expired
  \/ Initialize
  \/ NextCall
  \/ CallAnswered
  \/ RequestLost
  \/ Aborted
  \/ FinishBatch

Network ==
  \/ InitializeAnswered
  \/ NotificationAnswered
  \/ RotationAnswered
  \/ \E q \in net, catalog \in {"active", "blocked", "synthetic"} :
       ServeCall(q, catalog)

Next ==
  \/ Transport
  \/ Work
  \/ Network
  \/ Age
  \/ ScheduledRefresh
  \/ RotationFails
  \/ FinishDrain

Spec == Init /\ [][Next]_vars

-----------------------------------------------------------------------------
(***************************************************************************)
(* Types; and only work in the queue, or a loop that stopped, keeps the    *)
(* gateway busy.                                                           *)
(***************************************************************************)
TypeOK ==
  /\ server.epoch \in 0 .. Cardinality(Calls)
  /\ server.ran \in [Calls -> 0 .. 2]
  /\ reply \in Answers
  /\ gw.step \in {"idle", "fresh", "initialize", "notify", "next", "call"}
  /\ gw.token \in 0 .. MaxRotations
  /\ gw.session \in -1 .. gw.token
  /\ gw.completed \in [Calls -> Answers]
  /\ gw.inflight \subseteq Calls
  /\ loop.outputs \in [Responses -> 0 .. MaxEvents]
  /\ gw.step # "idle" => loop.queue # <<>> \/ loop.stopped

(***************************************************************************)
(* What the provider is told of a call is what happened: it ran once, or   *)
(* was refused and did not run (callTool repeats a request only when its   *)
(* session was refused).  No call ever runs twice.                         *)
(***************************************************************************)
AnswersAreTrue ==
  \A c \in Calls :
    /\ server.ran[c] <= 1
    /\ loop.told[c] = "done" => server.ran[c] = 1
    /\ loop.told[c] = "stale" => server.ran[c] = 0

(***************************************************************************)
(* The provider is given the outputs of a response once, however often its *)
(* terminal event is repeated, unless the transport is Gemini's, which     *)
(* repeats the same answers (sealedResponses, completedCalls).             *)
(***************************************************************************)
AnsweredOnce ==
  /\ ~Gemini => \A r \in Responses : loop.outputs[r] <= 1
  /\ \A r \in Responses : loop.outputs[r] > 0 =>
       \A i \in DOMAIN Batch[r] : loop.told[Batch[r][i]] \in {"done", "stale"}

Dispatched(c) == server.ran[c] > 0 \/ \E q \in net : q.call = c

(***************************************************************************)
(* The calls of a response run in their order: none is sent before all     *)
(* before it are settled, so that a failure leaves the rest unsent.        *)
(***************************************************************************)
OrderIsKept ==
  \A r \in Responses : \A i, j \in DOMAIN Batch[r] :
    (i < j /\ Dispatched(Batch[r][j])) =>
       ~\E q \in net : q.call = Batch[r][i]

(***************************************************************************)
(* The report of a drain tells settled calls from uncertain ones: a call   *)
(* that was in flight when it began is in it, and a call it calls settled  *)
(* is no longer under way.                                                 *)
(***************************************************************************)
DrainAccounts ==
  gw.report.made =>
    /\ gw.report.settled \cup gw.report.unresolved = gw.drained
    /\ \A c \in gw.report.settled : ~\E q \in net : q.call = c

(***************************************************************************)
(* Every terminal event is dealt with: the queue empties, whatever happens *)
(* on the network.                                                         *)
(***************************************************************************)
EveryBatchSettles == loop.queue # <<>> ~> (loop.queue = <<>> /\ gw.step = "idle")

=============================================================================
