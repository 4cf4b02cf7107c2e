------------------------------ MODULE RemoteMcp -------------------------------
(***************************************************************************)
(* The client of remote MCP servers (web/lib/mcp-client.ts) and the        *)
(* runtime that executes one approved action through it                    *)
(* (web/lib/remote-mcp-runtime.ts).                                        *)
(*                                                                         *)
(* Operations of one client run concurrently and share its session: the    *)
(* handshake is one promise that everybody awaits and that is aborted when *)
(* the last one leaves, a close replaces the session under operations that *)
(* are still reading their streams, and answers to old sessions arrive     *)
(* late.  A step is what JavaScript runs until its next await.             *)
(*                                                                         *)
(* A session is named by the handshake that created it; 0 is none.         *)
(***************************************************************************)
EXTENDS Integers, Sequences, FiniteSets, SequencesExt

CONSTANTS
  Operations,      \* calls of initialize, listTools, callTool and close
  Wants,           \* what the caller of an operation may ask of the client
  Purposes,        \* what the runtime may be invoked for; {"none"}: nobody invokes it
  Tools,           \* names of remote tools
  Approved,        \* the tools of the manifest approved at registration
  Catalogs,        \* what a server may list
  Restricted,      \* whether the client has an allow list
  AllowList,       \* allowedTools
  MaxHandshakes,   \* initialize requests sent
  MaxCloses,       \* closes started
  MaxReplies,      \* MAX_PENDING_SSE_REPLIES
  MaxResumptions,  \* maxSseResumptions
  MaxNotices       \* bound on messages of the server and losses of its sessions

RemoteAssumption ==
  /\ Wants \in [Operations -> SUBSET {"initialize", "list", "call", "close"}]
  /\ Purposes \in {{"none"}} \cup SUBSET {"register", "verify", "invoke"}
  /\ Approved \subseteq Tools /\ Catalogs \subseteq SUBSET Tools
  /\ Restricted \in BOOLEAN /\ AllowList \subseteq Tools
  /\ MaxHandshakes \in Nat /\ MaxCloses \in Nat
  /\ MaxReplies \in Nat /\ MaxResumptions \in Nat /\ MaxNotices \in Nat

Handshakes == 1..MaxHandshakes
Closes == 1..MaxCloses

VARIABLES
  client,      \* private fields of the client
  handshakes,  \* the promises of initialize requests
  closes,      \* the promises of closes
  ops,         \* operations in progress
  replies,     \* sessions of queued answers to the server's own requests
  server,      \* its open sessions, the tool calls it has seen, and a bound on its messages
  registry,    \* the mcp_servers row, compared with the pinned manifest
  run          \* the invocation of the runtime

vars == <<client, handshakes, closes, ops, replies, server, registry, run>>

NoTransport == [session |-> 0, generation |-> 0]
NewOperation == [kind |-> "none", tool |-> "none", at |-> "new", on |-> 0, listing |-> FALSE,
                 transport |-> NoTransport, resumed |-> 0, result |-> "none", output |-> {}]

(* The operations are those of one invocation of the runtime: a discovery at
   registration, a verification at the start of a call, or an action. *)
Invocation == Purposes # {"none"}

Init ==
  /\ client = [session |-> 0, generation |-> 0, initializing |-> 0, pending |-> 0, teardown |-> 0,
               close |-> 0, closing |-> FALSE, advertised |-> {}, listedBy |-> 0]
  /\ handshakes = [h \in Handshakes |-> [at |-> "none", generation |-> 0, aborted |-> FALSE,
                                         id |-> FALSE]]
  /\ closes = [k \in Closes |-> [at |-> "none", session |-> 0, aborted |-> FALSE]]
  /\ ops = [o \in Operations |-> NewOperation]
  /\ replies = <<>>
  /\ server = [open |-> {}, calls |-> [o \in Operations |-> "none"], notices |-> 0]
  /\ registry = "pinned"
  /\ run \in [at : {IF Invocation THEN "validate" ELSE "none"},
              purpose : Purposes,
              on : {{}}, outcome : {"none"}, verified : {0}, cut : {FALSE}]

(* Operations. *)
Goes(o, op) == ops' = [ops EXCEPT ![o] = op]
Done(op, result) == [op EXCEPT !.at = "done", !.result = result]
Ends(o, result) == Goes(o, Done(ops[o], result))

WaitersOf(h) == {o \in Operations : ops[o].at = "awaits handshake" /\ ops[o].on = h}
ClosersOf(k) == {o \in Operations : ops[o].at = "closes" /\ ops[o].on = k}

Settled(promise) == promise.at \in {"done", "failed"}

(* What is still queued on the event loop: it runs before the next message of
   the network and before the next timer. *)
Microtasks ==
  \/ \E h \in Handshakes : handshakes[h].aborted /\ handshakes[h].at \in {"asking", "notifying"}
  \/ \E k \in Closes : \/ closes[k].at = "draining" /\ (closes[k].session = 0 \/ closes[k].aborted)
                       \/ closes[k].at = "deleting" /\ closes[k].aborted
  \/ \E o \in Operations :
       \/ ops[o].at \in {"initialized", "listed"}
       \/ ops[o].at = "awaits handshake" /\ Settled(handshakes[ops[o].on])
       \/ ops[o].at \in {"awaits close", "closes"} /\ Settled(closes[ops[o].on])

CurrentTransport == [session |-> client.session, generation |-> client.generation]
IsCurrent(transport) == client.session # 0 /\ transport = CurrentTransport

-----------------------------------------------------------------------------
(* Sessions to be deleted.  Only a session with an identifier can be; staging
   throws when another one is staged. *)
StageThrows(h) == h # 0 /\ handshakes[h].id /\ client.teardown \notin {0, h}
StageTeardown(h) ==
  IF h # 0 /\ handshakes[h].id /\ client.teardown = 0 THEN h ELSE client.teardown

HandshakeSettles(h, at, c) ==
  /\ client' = [c EXCEPT !.initializing = IF @ = h THEN 0 ELSE @]
  /\ handshakes' = [handshakes EXCEPT ![h].at = at]

(* A handshake that fails hands the session it owns over for deletion. *)
HandshakeGivesUp(h) ==
  HandshakeSettles(h, "failed",
    IF client.pending = h
    THEN [client EXCEPT !.pending = 0, !.teardown = StageTeardown(h)]
    ELSE client)

(* #initializeCore.  A close in progress is awaited first.  Then a pending
   deletion refuses, a published session is used, a handshake in progress is
   joined, and otherwise one is started. *)
AfterClose(o, op) ==
  \/ /\ client.teardown # 0
     /\ Goes(o, Done(op, "failed"))
     /\ UNCHANGED <<client, handshakes>>
  \/ /\ client.teardown = 0 /\ client.session # 0
     /\ Goes(o, [op EXCEPT !.at = "initialized"])
     /\ UNCHANGED <<client, handshakes>>
  \/ /\ client.teardown = 0 /\ client.session = 0 /\ client.initializing # 0
     /\ Goes(o, [op EXCEPT !.at = "awaits handshake", !.on = client.initializing])
     /\ UNCHANGED <<client, handshakes>>
  \/ /\ client.teardown = 0 /\ client.session = 0 /\ client.initializing = 0
     /\ \E h \in Handshakes :
          /\ handshakes[h].at = "none" /\ \A g \in 1..(h - 1) : handshakes[g].at # "none"
          /\ handshakes' = [handshakes EXCEPT ![h].at = "asking",
                                              ![h].generation = client.generation]
          /\ client' = [client EXCEPT !.initializing = h]
          /\ Goes(o, [op EXCEPT !.at = "awaits handshake", !.on = h])

InitializeCore(o, op) ==
  /\ closes' = closes
  /\ \/ /\ client.close # 0
        /\ Goes(o, [op EXCEPT !.at = "awaits close", !.on = client.close])
        /\ UNCHANGED <<client, handshakes>>
     \/ client.close = 0 /\ AfterClose(o, op)

(* #startClose: the session that is published or about to be is staged, all
   that is known of it is forgotten, and a handshake in progress is aborted.
   #closeCore joins a close in progress. *)
StartClose(o, op) ==
  LET h == IF client.pending # 0 THEN client.pending ELSE client.session IN
  \/ /\ StageThrows(h)
     /\ Goes(o, Done(op, "failed"))
     /\ UNCHANGED <<client, handshakes, closes>>
  \/ /\ ~StageThrows(h)
     /\ \E k \in Closes :
          /\ closes[k].at = "none" /\ \A j \in 1..(k - 1) : closes[j].at # "none"
          /\ closes' = [closes EXCEPT ![k].at = "draining", ![k].session = StageTeardown(h)]
          /\ client' = [client EXCEPT !.session = 0, !.generation = @ + 1, !.initializing = 0,
                                      !.pending = 0, !.teardown = StageTeardown(h), !.close = k,
                                      !.closing = TRUE, !.advertised = {}, !.listedBy = 0]
          /\ handshakes' = [g \in Handshakes |->
                              [handshakes[g] EXCEPT !.aborted = @ \/ g = client.initializing]]
          /\ Goes(o, [op EXCEPT !.at = "closes", !.on = k])

CloseCore(o, op) ==
  \/ /\ client.close # 0
     /\ Goes(o, [op EXCEPT !.at = "closes", !.on = client.close])
     /\ UNCHANGED <<client, handshakes, closes>>
  \/ client.close = 0 /\ StartClose(o, op)

(* initialize, listTools, callTool and close are called.  A tool off the allow
   list, and a name, arguments or metadata that do not validate, are refused
   before anything else happens. *)
MayCall(tool) == Restricted => tool \in AllowList

RefusesRequest(o, op) ==
  Goes(o, Done(op, "failed")) /\ UNCHANGED <<client, handshakes, closes>>

Starts(o, kind, tool) ==
  LET op == [NewOperation EXCEPT !.kind = kind, !.tool = tool] IN
  /\ ops[o].at = "new"
  /\ CASE kind = "close" -> CloseCore(o, op)
       [] kind = "call" ->
            \/ RefusesRequest(o, op)
            \/ MayCall(tool) /\ InitializeCore(o, op)
       [] OTHER -> InitializeCore(o, op)

Begin(o, kind, tool) ==
  /\ ~Invocation
  /\ Starts(o, kind, tool)
  /\ UNCHANGED <<replies, server, registry, run>>

-----------------------------------------------------------------------------
(* The handshake.  The server opens a session, with an identifier or without,
   and may ask something itself before it answers.  The client owns the session
   from the moment it has read the response, before it validates it. *)
MayReply == ~client.closing /\ Len(replies) < MaxReplies

HandshakeAnswered(h, id, asks) ==
  /\ handshakes[h].at = "asking" /\ ~handshakes[h].aborted /\ ~Microtasks
  /\ server' = [server EXCEPT !.open = IF id THEN @ \cup {h} ELSE @,
                              !.notices = IF asks THEN @ + 1 ELSE @]
  /\ asks => server.notices < MaxNotices
  /\ replies' = IF asks /\ MayReply THEN Append(replies, h) ELSE replies
  /\ asks => client.closing \/ MayReply
  /\ client' = [client EXCEPT !.pending = h]
  /\ handshakes' = [handshakes EXCEPT ![h].at = "notifying", ![h].id = id]
  /\ UNCHANGED <<closes, ops, registry, run>>

(* The result is not an initialize result of a supported version. *)
HandshakeInvalid(h, id) ==
  /\ handshakes[h].at = "asking" /\ ~handshakes[h].aborted /\ ~Microtasks
  /\ client' = [client EXCEPT !.initializing = IF @ = h THEN 0 ELSE @,
                              !.teardown = IF id /\ @ = 0 THEN h ELSE @,
                              !.pending = 0]
  /\ handshakes' = [handshakes EXCEPT ![h].at = "failed", ![h].id = id]
  /\ server' = [server EXCEPT !.open = IF id THEN @ \cup {h} ELSE @]
  /\ UNCHANGED <<closes, ops, replies, registry, run>>

(* The request, the reading of its response or the notification fails, runs
   out of time or is aborted; the server may have opened a session that the
   client never learned of. *)
HandshakeFails(h) ==
  /\ handshakes[h].at \in {"asking", "notifying"}
  /\ handshakes[h].aborted \/ ~Microtasks
  /\ HandshakeGivesUp(h)
  /\ \/ server' = server
     \/ handshakes[h].at = "asking" /\ server' = [server EXCEPT !.open = @ \cup {h}]
  /\ UNCHANGED <<closes, ops, replies, registry, run>>

(* The server has accepted notifications/initialized: the session is published
   unless a close intervened. *)
HandshakeDone(h) ==
  /\ handshakes[h].at = "notifying" /\ ~handshakes[h].aborted /\ ~Microtasks
  /\ IF handshakes[h].generation = client.generation /\ client.pending = h
     THEN HandshakeSettles(h, "done", [client EXCEPT !.session = h, !.pending = 0])
     ELSE HandshakeGivesUp(h)
  /\ UNCHANGED <<closes, ops, replies, server, registry, run>>

(* A caller's wait ends with the promise it waited for. *)
HandshakeAwaited(o) ==
  /\ ops[o].at = "awaits handshake" /\ Settled(handshakes[ops[o].on])
  /\ IF handshakes[ops[o].on].at = "done"
     THEN Goes(o, [ops[o] EXCEPT !.at = "initialized"])
     ELSE Ends(o, "failed")
  /\ UNCHANGED <<client, handshakes, closes, replies, server, registry, run>>

CloseAwaited(o) ==
  /\ ops[o].at = "awaits close" /\ Settled(closes[ops[o].on])
  /\ IF closes[ops[o].on].at = "done"
     THEN AfterClose(o, ops[o])
     ELSE Ends(o, "failed") /\ UNCHANGED <<client, handshakes>>
  /\ UNCHANGED <<closes, replies, server, registry, run>>

-----------------------------------------------------------------------------
(* With a session: initialize returns; listTools, and callTool when it has no
   list to check the name against, ask for the list; callTool otherwise checks
   the name.  The transport is the one of this moment. *)
NeedsList(op) ==
  \/ op.kind = "list" \/ op.listing
  \/ op.kind = "call" /\ ~Restricted /\ client.listedBy = 0

Asks(o, at) ==
  IF client.session = 0
  THEN Ends(o, "failed")
  ELSE Goes(o, [ops[o] EXCEPT !.at = at, !.transport = CurrentTransport, !.listing = FALSE])

CallsTool(o) ==
  IF ~Restricted /\ (client.listedBy = 0 \/ ops[o].tool \notin client.advertised)
  THEN Ends(o, "failed")
  ELSE Asks(o, "calling")

Continue(o) ==
  /\ ops[o].at = "initialized"
  /\ \/ /\ ops[o].kind = "initialize"
        /\ Ends(o, "ok")
        /\ UNCHANGED <<client, handshakes, closes>>
     \/ \* the server did not declare the tools capability
        /\ ops[o].kind # "initialize"
        /\ Ends(o, "failed")
        /\ UNCHANGED <<client, handshakes, closes>>
     \/ /\ ops[o].kind # "initialize" /\ NeedsList(ops[o])
        /\ IF ops[o].kind = "call" /\ ~ops[o].listing
           THEN InitializeCore(o, [ops[o] EXCEPT !.listing = TRUE])
           ELSE Asks(o, "listing") /\ UNCHANGED <<client, handshakes, closes>>
     \/ /\ ops[o].kind = "call" /\ ~NeedsList(ops[o])
        /\ CallsTool(o)
        /\ UNCHANGED <<client, handshakes, closes>>
  /\ UNCHANGED <<replies, server, registry, run>>

(* The endpoint policy accepts and the request is sent. *)
Send(o) ==
  /\ ops[o].at \in {"listing", "calling"} /\ ~Microtasks
  /\ Goes(o, [ops[o] EXCEPT !.at = IF @ = "listing" THEN "lists" ELSE "calls"])
  /\ server' = [server EXCEPT !.calls[o] = IF ops[o].at = "calling" THEN "sent" ELSE @]
  /\ UNCHANGED <<client, handshakes, closes, replies, registry, run>>

Streaming(o) == ops[o].at \in {"lists", "calls"} /\ ~Microtasks

(* The last page of the list.  What it says of the session is kept only if that
   session is still the client's. *)
ListAnswered(o, tools) ==
  /\ ops[o].at = "lists" /\ ~Microtasks
  /\ client' = IF IsCurrent(ops[o].transport)
               THEN [client EXCEPT !.advertised = tools, !.listedBy = ops[o].transport.session]
               ELSE client
  /\ Goes(o, IF ops[o].kind = "list"
             THEN [Done(ops[o], "ok") EXCEPT !.output = {t \in tools : MayCall(t)}]
             ELSE [ops[o] EXCEPT !.at = "listed"])
  /\ UNCHANGED <<handshakes, closes, replies, server, registry, run>>

Listed(o) ==
  /\ ops[o].at = "listed"
  /\ CallsTool(o)
  /\ UNCHANGED <<client, handshakes, closes, replies, server, registry, run>>

(* The server runs the tool, now or after everybody has stopped waiting. *)
ServerRuns(o) ==
  /\ server.calls[o] = "sent"
  /\ server' = [server EXCEPT !.calls[o] = "run"]
  /\ UNCHANGED <<client, handshakes, closes, ops, replies, registry, run>>

(* The result as it is extracted: content items, structured content and the
   error flag, or none of that. *)
ToolResults == {"ok", "tool error", "malformed"}

CallAnswered(o, result) ==
  /\ ops[o].at = "calls" /\ ~Microtasks
  /\ result = "ok" => server.calls[o] = "run"
  /\ Ends(o, result)
  /\ UNCHANGED <<client, handshakes, closes, replies, server, registry, run>>

(* A request fails.  The policy refuses the endpoint or the body is too large,
   before anything is sent; the body or the event stream cannot be read or is
   too large; the response is an error or not one to this request; or the list
   is malformed or has too many pages. *)
Fails(o, states) ==
  /\ ops[o].at \in states /\ ~Microtasks
  /\ Ends(o, "failed")
  /\ UNCHANGED <<client, handshakes, closes, replies, server, registry, run>>

EndpointRefused(o) == Fails(o, {"listing", "calling"})
BodyUnreadable(o) == Fails(o, {"lists", "calls"})
StreamUnreadable(o) == Fails(o, {"lists", "calls"})
ErrorAnswered(o) == Fails(o, {"lists", "calls"})
ListRefused(o) == Fails(o, {"lists"})


(* 404 to a request of a session with an identifier: the session is over for
   the client if it is still the current one. *)
ExpireSession(transport) ==
  IF IsCurrent(transport)
  THEN [client EXCEPT !.session = 0, !.initializing = 0, !.advertised = {}, !.listedBy = 0,
                      !.generation = @ + 1]
  ELSE client

SessionExpired(o) ==
  /\ Streaming(o)
  /\ handshakes[ops[o].transport.session].id /\ ops[o].transport.session \notin server.open
  /\ client' = ExpireSession(ops[o].transport)
  /\ Ends(o, "failed")
  /\ UNCHANGED <<handshakes, closes, replies, server, registry, run>>

(* An event stream that ends without the response is resumed. *)
ResumeSse(o) ==
  /\ Streaming(o) /\ ops[o].resumed < MaxResumptions
  /\ Goes(o, [ops[o] EXCEPT !.resumed = @ + 1])
  /\ UNCHANGED <<client, handshakes, closes, replies, server, registry, run>>

(* Messages of the server on the stream of a request. *)
Notices(o) ==
  /\ Streaming(o) /\ server.notices < MaxNotices
  /\ server' = [server EXCEPT !.notices = @ + 1]
  /\ UNCHANGED <<handshakes, closes, registry, run>>

ListChanged(o) ==
  /\ Notices(o)
  /\ client' = IF ~client.closing /\ IsCurrent(ops[o].transport)
               THEN [client EXCEPT !.advertised = {}, !.listedBy = 0]
               ELSE client
  /\ UNCHANGED <<ops, replies>>

ServerAsks(o) ==
  /\ Notices(o)
  /\ replies' = IF MayReply THEN Append(replies, ops[o].transport.session) ELSE replies
  /\ IF client.closing \/ MayReply THEN ops' = ops ELSE Ends(o, "failed")
  /\ client' = client

(* A queued answer has been delivered, or has failed within its own deadline. *)
ReplyEnds ==
  /\ replies # <<>> /\ ~Microtasks
  /\ replies' = Tail(replies)
  /\ UNCHANGED <<client, handshakes, closes, ops, server, registry, run>>

(* The server loses a session. *)
ServerForgets(h) ==
  /\ h \in server.open /\ server.notices < MaxNotices
  /\ server' = [server EXCEPT !.open = @ \ {h}, !.notices = @ + 1]
  /\ UNCHANGED <<client, handshakes, closes, ops, replies, registry, run>>

-----------------------------------------------------------------------------
(* #deleteStagedSession.  Nothing to delete ends it; otherwise the queued
   answers go out first. *)
CloseSettles(k, at, c) ==
  /\ closes' = [closes EXCEPT ![k].at = at]
  /\ client' = [c EXCEPT !.close = 0, !.closing = FALSE]

NothingToDelete(k) ==
  /\ closes[k].at = "draining" /\ closes[k].session = 0
  /\ CloseSettles(k, "done", client)
  /\ UNCHANGED <<handshakes, ops, replies, server, registry, run>>

SendDelete(k) ==
  /\ closes[k].at = "draining" /\ closes[k].session # 0 /\ ~Microtasks
  /\ replies = <<>>
  /\ closes' = [closes EXCEPT ![k].at = "deleting"]
  /\ UNCHANGED <<client, handshakes, ops, replies, server, registry, run>>

DeleteAnswered(k) ==
  /\ closes[k].at = "deleting" /\ ~Microtasks
  /\ CloseSettles(k, "done",
       [client EXCEPT !.teardown = IF @ = closes[k].session THEN 0 ELSE @])
  /\ server' = [server EXCEPT !.open = @ \ {closes[k].session}]
  /\ UNCHANGED <<handshakes, ops, replies, registry, run>>

CloseFails(k) ==
  /\ closes[k].at \in {"draining", "deleting"} /\ closes[k].session # 0
  /\ closes[k].aborted \/ ~Microtasks
  /\ CloseSettles(k, "failed", client)
  /\ \/ server' = server
     \/ /\ closes[k].at = "deleting"
        /\ server' = [server EXCEPT !.open = @ \ {closes[k].session}]
  /\ UNCHANGED <<handshakes, ops, replies, registry, run>>

Closed(o) ==
  /\ ops[o].at = "closes" /\ Settled(closes[ops[o].on])
  /\ Ends(o, IF closes[ops[o].on].at = "done" THEN "ok" ELSE "failed")
  /\ UNCHANGED <<client, handshakes, closes, replies, server, registry, run>>

(* The caller aborts, or the deadline of the operation passes.  The last one to
   leave a handshake or a close aborts it. *)
Abort(o) ==
  /\ ops[o].at \notin {"new", "done"}
  /\ Ends(o, "failed")
  /\ LET lastWaiter(h) == WaitersOf(h) = {o} /\ client.session = 0
         lastCloser(k) == ClosersOf(k) = {o}
     IN /\ handshakes' = [h \in Handshakes |->
             [handshakes[h] EXCEPT !.aborted = @ \/ lastWaiter(h)]]
        /\ client' = [client EXCEPT !.initializing = IF @ # 0 /\ lastWaiter(@) THEN 0 ELSE @]
        /\ closes' = [k \in Closes |-> [closes[k] EXCEPT !.aborted = @ \/ lastCloser(k)]]
  /\ UNCHANGED <<replies, server, registry, run>>

-----------------------------------------------------------------------------
Runs(at, outcome) == run' = [run EXCEPT !.at = at, !.outcome = outcome]
RunStarts(at, kind, tool) ==
  LET o == CHOOSE o \in Operations : ops[o].at = "new" IN
    /\ Starts(o, kind, tool)
    /\ run' = [run EXCEPT !.at = at, !.on = {o}]
Ended(result) == \E o \in run.on : ops[o].at = "done" /\ ops[o].result \in result
Untouched == UNCHANGED <<client, handshakes, closes, ops, replies, server, registry>>

Rejects(from) == run.at = from /\ Runs("ended", "rejected") /\ Untouched

(* Before there is a client: the context of the invocation, the tool and its
   arguments; the row of the registry; the deployment, the connector and the
   credential.  A registration has no manifest to compare the row with. *)
ContextRejected == run.purpose = "invoke" /\ Rejects("validate")
ArgumentsRejected == run.purpose = "invoke" /\ Rejects("validate")
Validate == run.at = "validate" /\ Runs("load", "none") /\ Untouched

RegistryMatches == registry = "pinned"

LoadRegistry ==
  /\ run.at = "load" /\ ~Microtasks
  /\ \/ Runs("ended", "rejected")
     \/ (run.purpose = "register" \/ RegistryMatches) /\ Runs("prepare", "none")
  /\ Untouched

DeploymentRefused == Rejects("prepare")
ConnectorRefused == Rejects("prepare")
AuthorizationRefused == Rejects("prepare")

Prepare ==
  /\ run.at = "prepare" /\ ~Microtasks
  /\ RunStarts("initialize", "initialize", "none")
  /\ UNCHANGED <<replies, server, registry>>

(* From here on every outcome closes the client first. *)
Discover ==
  /\ run.at = "initialize"
  /\ \/ /\ Ended({"failed"}) /\ Runs("close", "rejected")
        /\ UNCHANGED <<client, handshakes, closes, ops>>
     \/ Ended({"ok"}) /\ RunStarts("list", "list", "none")
  /\ UNCHANGED <<replies, server, registry>>

(* Every allowed tool must be listed and, except at registration, the list must
   be exactly what was approved.  A secret in it, a schema that does not compile
   or another protocol version are further reasons to reject. *)
AllowlistResolved(tools) == Restricted => tools = AllowList
MatchesManifest(tools) == run.purpose = "register" \/ tools = Approved
AfterVerification ==
  CASE run.purpose = "register" -> <<"close", "registered">>
    [] run.purpose = "verify" -> <<"close", "verified">>
    [] OTHER -> <<"reload", "none">>

SchemaRejected == run.at = "list" /\ Ended({"ok"}) /\ Runs("close", "rejected") /\ Untouched

Verify ==
  /\ run.at = "list"
  /\ \/ Ended({"failed"}) /\ Runs("close", "rejected")
     \/ \E o \in run.on :
          /\ ops[o].at = "done" /\ ops[o].result = "ok"
          /\ AllowlistResolved(ops[o].output) /\ MatchesManifest(ops[o].output)
          /\ run' = [run EXCEPT !.at = AfterVerification[1], !.outcome = AfterVerification[2],
                                !.verified = ops[o].transport.session]
  /\ Untouched

(* The registry is read once more, immediately before the call. *)
Reload ==
  /\ run.at = "reload" /\ ~Microtasks
  /\ \/ Runs("close", "rejected")
     \/ RegistryMatches /\ Runs("reloaded", "none")
  /\ Untouched

Dispatch(tool) ==
  /\ run.at = "reloaded"
  /\ RunStarts("call", "call", tool)
  /\ UNCHANGED <<replies, server, registry>>

(* After the call nothing can be rejected any more: a failure, a tool error, a
   result whose redaction collides and one that does not validate afterwards
   are all indeterminate. *)
RedactionRefused == run.at = "call" /\ Ended({"ok"}) /\ Runs("close", "indeterminate") /\ Untouched

Classify ==
  /\ run.at = "call"
  /\ \/ Ended({"failed", "tool error", "malformed"}) /\ Runs("close", "indeterminate")
     \/ Ended({"ok"}) /\ Runs("close", "succeeded")
  /\ Untouched

CloseQuietly ==
  /\ \/ run.at = "close" /\ RunStarts("closing", "close", "none")
     \/ /\ run.at = "closing" /\ Ended({"ok", "failed"})
        /\ Runs("ended", run.outcome)
        /\ UNCHANGED <<client, handshakes, closes, ops>>
  /\ UNCHANGED <<replies, server, registry>>

RuntimeStep ==
  \/ ContextRejected \/ ArgumentsRejected \/ Validate \/ LoadRegistry
  \/ DeploymentRefused \/ ConnectorRefused \/ AuthorizationRefused \/ Prepare
  \/ Discover \/ SchemaRejected \/ Verify \/ Reload \/ RedactionRefused \/ Classify \/ CloseQuietly
  \/ \E tool \in Approved : Dispatch(tool)

(* The operator revokes the registered server, once and for all. *)
RevokeRemoteMcpAuthority ==
  /\ run.purpose \in {"verify", "invoke"} /\ RegistryMatches
  /\ registry' = "revoked"
  /\ run' = [run EXCEPT !.cut = run.at \in {"validate", "load", "prepare", "initialize", "list", "reload"}]
  /\ UNCHANGED <<client, handshakes, closes, ops, replies, server>>

Next ==
  \/ \E o \in Operations :
       \/ \E kind \in Wants[o], tool \in Tools : (kind # "call" => tool = CHOOSE t \in Tools : TRUE)
            /\ Begin(o, kind, tool)
       \/ HandshakeAwaited(o) \/ CloseAwaited(o) \/ Continue(o) \/ Send(o) \/ Listed(o)
       \/ \E tools \in Catalogs : ListAnswered(o, tools)
       \/ \E result \in ToolResults : CallAnswered(o, result)
       \/ ServerRuns(o) \/ EndpointRefused(o) \/ BodyUnreadable(o) \/ StreamUnreadable(o)
       \/ ErrorAnswered(o) \/ ListRefused(o) \/ SessionExpired(o) \/ ResumeSse(o)
       \/ ListChanged(o) \/ ServerAsks(o) \/ Closed(o) \/ Abort(o)
  \/ \E h \in Handshakes :
       \/ \E id \in BOOLEAN, asks \in BOOLEAN : HandshakeAnswered(h, id, asks)
       \/ \E id \in BOOLEAN : HandshakeInvalid(h, id)
       \/ HandshakeFails(h) \/ HandshakeDone(h) \/ ServerForgets(h)
  \/ \E k \in Closes :
       NothingToDelete(k) \/ SendDelete(k) \/ DeleteAnswered(k) \/ CloseFails(k)
  \/ ReplyEnds
  \/ RuntimeStep \/ RevokeRemoteMcpAuthority

LoopRuns(o) ==
  HandshakeAwaited(o) \/ CloseAwaited(o) \/ Continue(o) \/ Listed(o) \/ Closed(o)
CloseEnds(k) == NothingToDelete(k) \/ CloseFails(k)

Spec == Init /\ [][Next]_vars

(* The event loop runs what is queued, an operation has a deadline, a request
   ends one way or another, and the runtime awaits what it started. *)
Fairness ==
  /\ \A o \in Operations : WF_vars(LoopRuns(o))
  /\ \A o \in Operations : WF_vars(Abort(o))
  /\ \A h \in Handshakes : WF_vars(HandshakeFails(h))
  /\ \A k \in Closes : WF_vars(CloseEnds(k))
  /\ WF_vars(RuntimeStep)

FairSpec == Spec /\ Fairness

-----------------------------------------------------------------------------
OperationStates == {"new", "awaits close", "awaits handshake", "initialized", "listing", "lists",
                    "listed", "calling", "calls", "closes", "done"}

(* Types of the client's fields, of its promises, and of the runtime. *)
TypeOK ==
  /\ client.session \in 0..MaxHandshakes /\ client.initializing \in 0..MaxHandshakes
  /\ client.pending \in 0..MaxHandshakes /\ client.teardown \in 0..MaxHandshakes
  /\ client.close \in 0..MaxCloses /\ client.closing = (client.close # 0)
  /\ client.generation \in Nat /\ client.advertised \subseteq Tools
  /\ \A h \in Handshakes : handshakes[h].at \in {"none", "asking", "notifying", "done", "failed"}
  /\ \A k \in Closes : closes[k].at \in {"none", "draining", "deleting", "done", "failed"}
  /\ \A o \in Operations : ops[o].at \in OperationStates
  /\ run.at \in {"none", "validate", "load", "prepare", "initialize", "list", "reload", "reloaded", "call", "close",
                 "closing", "ended"}
  /\ Len(replies) <= MaxReplies

(* The names callTool checks against were listed by the session that is
   published now: a list that arrives after its session was closed or expired
   is not taken for the next one's. *)
AdvertisedIsCurrent == client.listedBy # 0 => client.listedBy = client.session

(* A call without an allow list goes out over the session that advertised its
   tool, and a call with one names a tool on it. *)
SendsAdvertised ==
  \A o \in Operations :
    ops[o].at # "calling" /\ ops'[o].at = "calling" =>
      IF Restricted
      THEN ops[o].tool \in AllowList
      ELSE ops[o].tool \in client.advertised /\ client.listedBy = ops'[o].transport.session

(* A published session ends only with a close, or because the server answered
   404 to a request made over this very session. *)
EndsForCause ==
  client.session # 0 /\ client'.session # client.session =>
    \/ client'.close # client.close
    \/ \E o \in Operations :
         /\ ops[o].at \in {"lists", "calls"} /\ ops'[o].at = "done"
         /\ ops[o].transport.session = client.session /\ client.session \notin server.open

(* DELETE does not overtake an answer the server is owed. *)
RepliesPrecedeDelete == \A k \in Closes : closes[k].at = "deleting" => replies = <<>>

(* A session whose identifier the client has read stays known to it, published,
   about to be, or to be deleted, until it is deleted or lost by the server: in
   an invocation nothing else is left behind. *)
NoSessionForgotten ==
  Invocation =>
    \A h \in server.open :
      handshakes[h].id => h \in {client.session, client.pending, client.teardown}

(* In an invocation no session is in use while an older one is to be deleted. *)
TeardownBeforePublish == Invocation => client.teardown = 0 \/ client.session = 0

(* "rejected" promises that no tool was asked for, as do a registration and a
   verification, and "succeeded" that it ran: only the outcome "indeterminate" leaves that open. *)
OutcomesAreTrue ==
  /\ run.outcome \in {"rejected", "verified", "registered"} => \A o \in Operations : server.calls[o] = "none"
  /\ run.outcome = "succeeded" => \E o \in Operations : server.calls[o] = "run"

(* A revocation that precedes the second reading of the registry stops the
   call, however late in the discovery it arrives. *)
RevocationStopsTheCall == run.cut => \A o \in Operations : server.calls[o] = "none"

(* The call goes out over the session whose list was compared with the approved
   manifest, and no invocation calls more than once. *)
CallsTheVerified ==
  Invocation =>
    /\ \A o \in Operations :
         ops[o].kind = "call" /\ ops[o].at \in {"calling", "calls"} =>
           ops[o].transport.session = run.verified
    /\ Cardinality({o \in Operations : server.calls[o] # "none"}) <= 1

(* Every operation ends, and an invocation ends with an outcome after the
   session it opened has been asked to close. *)
OperationsEnd == \A o \in Operations : ops[o].at # "new" ~> ops[o].at = "done"
InvocationEnds == Invocation => <>(run.at = "ended" /\ run.outcome # "none")

=============================================================================
