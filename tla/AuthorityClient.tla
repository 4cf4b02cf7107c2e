--------------------------- MODULE AuthorityClient ---------------------------
(***************************************************************************)
(* The bridge's client of the capability authority                         *)
(* (bridge/lib/authority-client.js): one tools/call per provider call,     *)
(* repeated over an unreliable network under one JSON-RPC identity, within *)
(* an MCP session that the server may drop at any time.                    *)
(*                                                                         *)
(*   client  the AuthorityClient: the calls it tracks, the operation that  *)
(*           performs each of them, its session and its initialisation     *)
(*   server  the authority: live sessions, receipts, effects (external)    *)
(*   net     tools/call requests that were sent and may still arrive       *)
(*   seen    what a bystander saw: requests sent and answers told for each *)
(*           call, and whether an attempt ended in doubt                   *)
(***************************************************************************)
EXTENDS Integers, Sequences, FiniteSets, SequencesExt

CONSTANTS
  Calls,        \* identities the provider gives its calls
  Bodies,       \* tools and arguments a call may come with
  MaxAttempts,  \* maximumAttempts
  MaxTracked,   \* MAX_TRACKED_CALLS
  MaxInFlight,  \* MAX_IN_FLIGHT_CALLS
  MaxRetained,  \* maximumRetainedResultBytes, in units of an error's size
  ResultSize,   \* ResultSize[c]: the size of the result of c
  MaxDropped    \* bound: how often the server drops its sessions

AuthorityAssumption ==
  /\ MaxAttempts \in Nat \ {0} /\ MaxTracked \in Nat /\ MaxInFlight \in Nat
  /\ MaxRetained \in Nat /\ MaxDropped \in Nat
  /\ ResultSize \in [Calls -> Nat \ {0}]

VARIABLES client, server, net, seen

vars == <<client, server, net, seen>>

NoSession == 0
NoBody == "no body"

Answers == {"result", "doubt", "definite"}

(***************************************************************************)
(* An error is in doubt ("indeterminate") or definite, and may be worth    *)
(* another attempt.                                                        *)
(***************************************************************************)
Error(answer, retryable) == [answer |-> answer, retryable |-> retryable]

Untracked == [state |-> "none", body |-> NoBody, answer |-> "none", size |-> 0]

NoOperation ==
  [at |-> "idle", attempt |-> 0, recovered |-> FALSE, session |-> NoSession,
   prior |-> "none"]

NoInitialization == [at |-> "none", attempt |-> 0, notices |-> 0, session |-> NoSession]

Init ==
  /\ client = [closed |-> FALSE, session |-> NoSession, init |-> NoInitialization,
               calls |-> [c \in Calls |-> Untracked],
               op |-> [c \in Calls |-> NoOperation],
               settled |-> <<>>, retained |-> 0, inFlight |-> 0]
  /\ server = [live |-> {}, issued |-> 0, dropped |-> 0, refusing |-> FALSE,
               receipt |-> [c \in Calls |-> NoBody], effects |-> [c \in Calls |-> 0]]
  /\ net = {}
  /\ seen = [sent |-> [c \in Calls |-> 0], told |-> [c \in Calls |-> {}],
             doubted |-> [c \in Calls |-> FALSE], established |-> 0]

Pending(k) == {c \in Calls : k.calls[c].state = "pending"}
Tracked(k) == {c \in Calls : k.calls[c].state # "none"}
Waiting(k, at) == {c \in Calls : k.op[c].at = at}

(***************************************************************************)
(* An attempt: the request is sent in the session the client has by now,   *)
(* which is none when another call has just found it expired.              *)
(***************************************************************************)
Sending(k, C) ==
  [k EXCEPT !.op = [c \in Calls |-> IF c \in C
                                    THEN [k.op[c] EXCEPT !.at = "waiting", !.session = k.session]
                                    ELSE k.op[c]]]

Requests(k, C) ==
  {[call |-> c, body |-> k.calls[c].body, session |-> k.session,
    number |-> seen.sent[c] + 1] : c \in C}

Count(sent, C) == [c \in Calls |-> IF c \in C THEN sent[c] + 1 ELSE sent[c]]

(***************************************************************************)
(* ensureInitialized: calls that find no session share one initialisation. *)
(***************************************************************************)
Awaiting(k, c, at) ==
  [k EXCEPT !.op[c].at = at,
            !.init = IF k.init.at = "none"
                     THEN [at |-> "initialize", attempt |-> 1, notices |-> 0,
                           session |-> NoSession]
                     ELSE k.init]

(***************************************************************************)
(* retainSettled: the oldest outcomes are dropped until the rest fits.  Of *)
(* a dropped outcome only this is kept: whether the call may have run.     *)
(***************************************************************************)
AfterEviction(answer) == IF answer = "definite" THEN "definite" ELSE "doubt"

Size(k, cs) == FoldSeq(LAMBDA c, n : n + k.calls[c].size, 0, cs)

Evicted(k) ==
  LET fits(n) == k.retained - Size(k, SubSeq(k.settled, 1, n)) <= MaxRetained
      n == CHOOSE m \in 0..Len(k.settled) : fits(m) /\ \A l \in 0..(m - 1) : ~fits(l)
      gone == {k.settled[i] : i \in 1..n}
  IN  [k EXCEPT
         !.retained = @ - Size(k, SubSeq(k.settled, 1, n)),
         !.settled = SubSeq(@, n + 1, Len(@)),
         !.calls = [c \in Calls |->
                      IF c \in gone
                      THEN [k.calls[c] EXCEPT !.state = "evicted", !.size = 0,
                                              !.answer = AfterEviction(@)]
                      ELSE k.calls[c]]]

(***************************************************************************)
(* settleResult and settleError.                                           *)
(***************************************************************************)
Settled(k, c, answer) ==
  LET size == IF answer = "result" THEN ResultSize[c] ELSE 1
  IN  Evicted([k EXCEPT !.inFlight = @ - 1, !.op[c] = NoOperation,
                        !.calls[c].state = "settled", !.calls[c].answer = answer,
                        !.calls[c].size = size,
                        !.retained = @ + size, !.settled = Append(@, c)])

-----------------------------------------------------------------------------
(***************************************************************************)
(* callCapabilityGateway.  A repetition of a call shares its outcome, and  *)
(* a call that reuses an identity for something else is refused locally    *)
(* (so is one beyond the limits); neither changes anything.                *)
(***************************************************************************)
Conflicts(c, body) == client.calls[c].state # "none" /\ client.calls[c].body # body

Begun(k, c, body) ==
  [k EXCEPT !.inFlight = @ + 1,
            !.calls[c] = [state |-> "pending", body |-> body, answer |-> "none", size |-> 0],
            !.op[c] = [NoOperation EXCEPT !.attempt = 1]]

CallCapabilityGateway(c, body) ==
  /\ ~client.closed
  /\ ~Conflicts(c, body)
  /\ client.calls[c].state = "none" \/ client.calls[c].body # body
  /\ Cardinality(Tracked(client)) < MaxTracked
  /\ client.inFlight < MaxInFlight
  /\ LET k == Begun(client, c, body)
     IN  IF client.session # NoSession
         THEN /\ client' = Sending(k, {c})
              /\ net' = net \cup Requests(k, {c})
              /\ seen' = [seen EXCEPT !.sent[c] = @ + 1]
         ELSE /\ client' = Awaiting(k, c, "starting")
              /\ UNCHANGED <<net, seen>>
  /\ UNCHANGED server

RepeatCall(c) ==
  /\ ~client.closed
  /\ client.calls[c].state \in {"settled", "evicted"}
  /\ seen' = [seen EXCEPT !.told[c] = @ \cup {client.calls[c].answer}]
  /\ UNCHANGED <<client, server, net>>

-----------------------------------------------------------------------------
(***************************************************************************)
(* initialize and sendInitializedNotification.  A failed notification is   *)
(* repeated; if it keeps failing the whole handshake is.                   *)
(***************************************************************************)
InitializeAnswered ==
  /\ client.init.at = "initialize"
  /\ ~server.refusing
  /\ server' = [server EXCEPT !.issued = @ + 1, !.live = @ \cup {server.issued + 1}]
  /\ client' = [client EXCEPT !.init.at = "notify", !.init.notices = 1,
                              !.init.session = server.issued + 1]
  /\ UNCHANGED <<net, seen>>

(***************************************************************************)
(* The session is published, and everything that waited for it is sent.    *)
(***************************************************************************)
NotificationAnswered ==
  /\ client.init.at = "notify"
  /\ ~server.refusing
  /\ client.init.session \in server.live
  /\ LET k == [client EXCEPT !.session = client.init.session, !.init = NoInitialization]
         C == Waiting(k, "starting") \cup Waiting(k, "recovering")
     IN  /\ client' = Sending(k, C)
         /\ net' = net \cup Requests(k, C)
         /\ seen' = [seen EXCEPT !.sent = Count(@, C), !.established = @ + 1]
  /\ UNCHANGED server

InitializationRetries ==
  /\ \/ /\ client.init.at = "notify"
        /\ client.init.notices < MaxAttempts
        /\ client' = [client EXCEPT !.init.notices = @ + 1]
     \/ /\ client.init.at = "initialize" \/ client.init.notices = MaxAttempts
        /\ client.init.at # "none"
        /\ client.init.attempt < MaxAttempts
        /\ client' = [client EXCEPT !.init =
                        [at |-> "initialize", attempt |-> client.init.attempt + 1,
                         notices |-> 0, session |-> NoSession]]
  /\ UNCHANGED <<server, net, seen>>

(***************************************************************************)
(* The handshake fails: it was refused, out of attempts, or out of time.   *)
(* A call that waited for it has the handshake's error, which is definite, *)
(* whether it was sent before or not.                                      *)
(***************************************************************************)
InitializationFails ==
  /\ client.init.at # "none"
  /\ client' = [client EXCEPT
                  !.init = NoInitialization,
                  !.op = [c \in Calls |-> IF client.op[c].at \in {"starting", "recovering"}
                                          THEN [client.op[c] EXCEPT !.at = "failed"]
                                          ELSE client.op[c]]]
  /\ UNCHANGED <<server, net, seen>>

InitializationThrown(c) ==
  /\ client.op[c].at = "failed"
  /\ client' = Settled(client, c, "definite")
  /\ seen' = [seen EXCEPT !.told[c] = @ \cup {"definite"}]
  /\ UNCHANGED <<server, net>>

-----------------------------------------------------------------------------
(***************************************************************************)
(* How rpcAttempt, parseRpcResponse and parseToolCallResult read an answer *)
(* that is no result: a response that cannot be read or is not a verified  *)
(* envelope, a status that may follow the dispatch (5xx, 408, 429) or that *)
(* precedes it (425), and any other refusal.                               *)
(***************************************************************************)
Unreadable == Error("doubt", FALSE)

Interrupted == Error("doubt", TRUE)


ErrorOf(reply) ==
  CASE reply = "unreadable" -> Unreadable
    [] reply = "busy" -> Interrupted
    [] reply = "early" -> Error("definite", TRUE)
    [] OTHER -> Error("definite", FALSE)

(***************************************************************************)
(* performCall after an attempt ("rest": the requests still under way): it *)
(* returns, waits before the next attempt, or gives up with the error of   *)
(* this attempt.                                                           *)
(***************************************************************************)
Returns(c, answer, rest) ==
  /\ client' = Settled(client, c, answer)
  /\ seen' = [seen EXCEPT !.told[c] = @ \cup {answer}]
  /\ net' = rest

MayRetry(c, error) == error.retryable /\ client.op[c].attempt < MaxAttempts

Fails(c, error, rest) ==
  IF MayRetry(c, error)
  THEN /\ client' = [client EXCEPT !.op[c].at = "delay", !.op[c].prior = error.answer]
       /\ seen' = [seen EXCEPT !.doubted[c] = @ \/ error.answer = "doubt"]
       /\ net' = rest
  ELSE Returns(c, error.answer, rest)

(***************************************************************************)
(* The session was found expired.  Only the session the request was sent   *)
(* in is given up (invalidateSession), and a call does this once.          *)
(***************************************************************************)
Invalidated(k, c) == IF k.session = k.op[c].session THEN [k EXCEPT !.session = NoSession] ELSE k

Recovers(c, rest) ==
  LET k == Invalidated([client EXCEPT !.op[c].recovered = TRUE], c)
  IN  IF k.session # NoSession
      THEN /\ client' = Sending(k, {c})
           /\ net' = rest \cup Requests(k, {c})
           /\ seen' = [seen EXCEPT !.sent[c] = @ + 1]
      ELSE /\ client' = Awaiting(k, c, "recovering")
           /\ net' = rest
           /\ UNCHANGED seen

(***************************************************************************)
(* The authority serves a request and runs a call once (its receipts are   *)
(* external to the bridge): a repetition is answered from the receipt.     *)
(***************************************************************************)
Replies(m) ==
  IF server.refusing THEN {"refused"}
  ELSE IF m.session \notin server.live THEN {"expired"}
  ELSE {"result", "unreadable", "busy", "early"}

Serve(m, reply) ==
  \/ /\ reply \in {"result", "unreadable", "busy"}
     /\ server.receipt[m.call] = NoBody
     /\ server' = [server EXCEPT !.receipt[m.call] = m.body, !.effects[m.call] = @ + 1]
  \/ /\ reply = "result" => server.receipt[m.call] # NoBody
     /\ UNCHANGED server

Awaited(m) ==
  /\ client.op[m.call].at = "waiting"
  /\ seen.sent[m.call] = m.number
  /\ ~client.closed

(***************************************************************************)
(* A request is served and its answer is read, or the answer finds nobody. *)
(***************************************************************************)
Answered(m) ==
  /\ Awaited(m)
  /\ \E reply \in Replies(m) :
       /\ Serve(m, reply)
       /\ IF reply = "result" THEN Returns(m.call, "result", net \ {m})
          ELSE IF reply = "expired" /\ ~client.op[m.call].recovered
               THEN Recovers(m.call, net \ {m})
               ELSE Fails(m.call, ErrorOf(reply), net \ {m})

AnswerLost(m) ==
  /\ \E reply \in Replies(m) : Serve(m, reply)
  /\ net' = net \ {m}
  /\ UNCHANGED <<client, seen>>

(***************************************************************************)
(* The connection fails; the request may still arrive.                     *)
(***************************************************************************)
TransportFails(c) ==
  /\ client.op[c].at = "waiting"
  /\ ~client.closed
  /\ Fails(c, Interrupted, net)
  /\ UNCHANGED server

(***************************************************************************)
(* The delay is over and the next attempt is made.                         *)
(***************************************************************************)
NextAttempt(c) ==
  /\ client.op[c].at = "delay"
  /\ ~client.closed
  /\ LET k == [client EXCEPT !.op[c].attempt = @ + 1]
     IN  /\ client' = Sending(k, {c})
         /\ net' = net \cup Requests(k, {c})
         /\ seen' = [seen EXCEPT !.sent[c] = @ + 1]
  /\ UNCHANGED server

(***************************************************************************)
(* abortFailure: the operation's time is over, or the client was closed.   *)
(* Before an answer the outcome is in doubt; during a delay it is what the *)
(* last attempt said; while a session is awaited it is definite.           *)
(***************************************************************************)
AbortAnswer(op) ==
  CASE op.at = "waiting" -> "doubt"
    [] op.at = "delay" -> op.prior
    [] OTHER -> "definite"

Aborts(c) ==
  /\ client.op[c].at # "idle"
  /\ Returns(c, AbortAnswer(client.op[c]), net)
  /\ UNCHANGED server

Close ==
  /\ ~client.closed
  /\ client' = [client EXCEPT !.closed = TRUE, !.init = NoInitialization]
  /\ UNCHANGED <<server, net, seen>>

-----------------------------------------------------------------------------
(***************************************************************************)
(* The server drops its sessions, or stops accepting the capability: it    *)
(* expired, or the call it is bound to has ended.                          *)
(***************************************************************************)
DropSessions ==
  /\ server.dropped < MaxDropped
  /\ server.live # {}
  /\ server' = [server EXCEPT !.live = {}, !.dropped = @ + 1]
  /\ UNCHANGED <<client, net, seen>>

Refuse ==
  /\ ~server.refusing
  /\ server' = [server EXCEPT !.refusing = TRUE]
  /\ UNCHANGED <<client, net, seen>>

Next ==
  \/ \E c \in Calls, body \in Bodies : CallCapabilityGateway(c, body)
  \/ \E c \in Calls :
       \/ RepeatCall(c) \/ InitializationThrown(c) \/ TransportFails(c)
       \/ NextAttempt(c) \/ Aborts(c)
  \/ InitializeAnswered \/ NotificationAnswered
  \/ InitializationRetries \/ InitializationFails
  \/ \E m \in net : Answered(m) \/ AnswerLost(m)
  \/ Close \/ DropSessions \/ Refuse

Spec == Init /\ [][Next]_vars

-----------------------------------------------------------------------------
TypeOK ==
  /\ client.calls \in [Calls -> [state : {"none", "pending", "settled", "evicted"},
                                 body : Bodies \cup {NoBody},
                                 answer : Answers \cup {"none"}, size : Nat]]
  /\ \A c \in Calls :
       /\ client.op[c].at \in {"idle", "starting", "recovering", "failed", "waiting", "delay"}
       /\ client.op[c].attempt \in 0..MaxAttempts
       /\ (client.op[c].at # "idle") = (client.calls[c].state = "pending")
  /\ client.init.at \in {"none", "initialize", "notify"}
  /\ client.init.attempt \in 0..MaxAttempts
  /\ client.session \in 0..server.issued
  /\ server.live \subseteq 1..server.issued

(***************************************************************************)
(* Whoever asks about a call, when and how often: nobody is told that it   *)
(* certainly has no outcome when somebody was given its result, not even   *)
(* after the result was evicted (retainSettled, callCapabilityGateway).    *)
(***************************************************************************)
AnswersAgree == \A c \in Calls : ~{"result", "definite"} \subseteq seen.told[c]

(***************************************************************************)
(* A definite error of a call none of whose attempts ended in doubt means  *)
(* that the authority has not run the call and no request of it is under   *)
(* way that might still run (the "indeterminate" flag of                   *)
(* AuthorityClientError).                                                  *)
(***************************************************************************)
DefiniteMeansNotRun ==
  \A c \in Calls :
    "definite" \in seen.told[c] /\ ~seen.doubted[c] =>
      server.effects[c] = 0 /\ \A m \in net : m.call # c

(***************************************************************************)
(* All that is ever sent under one identity is one request: the authority  *)
(* never has to decide between two bodies for a call, even when its first  *)
(* outcome is long evicted (callCapabilityGateway, AuthorityClient).       *)
(***************************************************************************)
OneBodyPerCall ==
  \A c \in Calls :
    Cardinality({m.body : m \in {n \in net : n.call = c}}
                  \cup ({server.receipt[c]} \ {NoBody})) <= 1

(***************************************************************************)
(* A call is sent at most maximumAttempts times and once more for a        *)
(* session that expired (performCall).                                     *)
(***************************************************************************)
SendsBounded == \A c \in Calls : seen.sent[c] <= MaxAttempts + 1

SendsNothingClosed == client.closed => UNCHANGED seen.sent

(***************************************************************************)
(* After close nothing is sent: a call that is waiting for a session, for  *)
(* its next attempt or for an answer is not sent again (close,             *)
(* performCall).                                                           *)
(***************************************************************************)
ClosedIsQuiet == [][SendsNothingClosed]_vars

(***************************************************************************)
(* Concurrent calls do not discard each other's sessions: the client never *)
(* makes more sessions than one and one for every time the server dropped  *)
(* them (ensureInitialized, invalidateSession).                            *)
(***************************************************************************)
SessionsAreShared == seen.established <= 1 + server.dropped

(***************************************************************************)
(* The counters behind the limits are exact: calls in flight, and the size *)
(* of the outcomes retained, which stays within its limit.                 *)
(***************************************************************************)
AccountsAreExact ==
  /\ client.inFlight = Cardinality(Pending(client))
  /\ client.retained = Size(client, client.settled)
  /\ client.retained <= MaxRetained
  /\ {client.settled[i] : i \in DOMAIN client.settled}
       = {c \in Calls : client.calls[c].state = "settled"}

(***************************************************************************)
(* Every call is answered, whatever the network, the server and the other  *)
(* calls do (the deadlines of callCapabilityGateway).                      *)
(***************************************************************************)
CallsAreAnswered ==
  \A c \in Calls : client.calls[c].state = "pending" ~> client.calls[c].state # "pending"

=============================================================================
