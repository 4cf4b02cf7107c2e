--------------------------- MODULE ConversationLog ---------------------------
(***************************************************************************)
(* The durable conversation log: transactions of lib/conversation-runtime  *)
(* .ts over the compare-and-append of lib/conversation-store.ts and        *)
(* migrations 033 and 046, and the live route (lib/live-conversation-route *)
(* .ts with lib/conversation-call-coordinator.ts) that mirrors the Flow    *)
(* state into the log before it shows the conversation to the provider.    *)
(*                                                                         *)
(* An event's hash covers its position and, through the chain, everything  *)
(* before it: two stored events are the same bytes exactly when they are   *)
(* the same draft at the same position.  A draft is a record whose id is   *)
(* its event id; the idempotency key is derived from the same digest.      *)
(***************************************************************************)
EXTENDS ConversationKernel, SequencesExt

CONSTANTS Clients,
          Plans,         \* batches that hosts ask a turn to append
          CallGoal,      \* the goal `call-<id>` of the live call
          Runtime,       \* digest of the immutable Flow runtime
          MaxAttempts,   \* maximumAttempts of a transaction, 8 in the code
          MaxLog,        \* bound of the model: length of the log
          MaxRevision    \* bound of the model: revisions of the Flow state

LogAssumption == /\ MaxAttempts \in Nat \ {0} /\ MaxLog \in Nat /\ MaxRevision \in Nat
                        /\ CallGoal \in Goals

VARIABLES log,      \* voice_conversation_events, in sequence order
          kernel,   \* what the log folds to
          flow,     \* the call's Flow state as the gateway reads it
          clients

vars == <<log, kernel, flow, clients>>

NoClient == [pc |-> "idle", route |-> FALSE, plan |-> <<>>, head |-> 0, new |-> <<>>, attempt |-> 0,
             revision |-> 0, answer |-> "none", shown |-> None]

Init ==
    /\ log = <<>>
    /\ kernel = Genesis
    /\ flow = [revision |-> 1, terminal |-> FALSE]
    /\ clients = [c \in Clients |-> NoClient]

ApplyAll(s, es) == FoldLeft(Effect, s, es)

\* appendConversationEvents: each event is valid in the state the ones before it leave.
ValidBatch(s, es) == \A i \in DOMAIN es : Valid(ApplyAll(s, SubSeq(es, 1, i - 1)), es[i])

-----------------------------------------------------------------------------
(* transact: load, normalise the plan, validate, append, retry a conflict. *)

Position(e) == {p \in DOMAIN log : log[p].id = e.id}

Conflicts(plan) == \E e \in Range(plan), p \in DOMAIN log : log[p].id = e.id /\ log[p] # e

NewEvents(plan) == SelectSeq(plan, LAMBDA e : Position(e) = {})

\* What is left of a client once it is answered: its request, if the answer is a promise about it.
Answered(client, answer) ==
    [NoClient EXCEPT !.pc = "done", !.answer = answer, !.route = client.route, !.revision = client.revision,
                     !.plan = IF answer = "ok" THEN client.plan ELSE <<>>]

Finish(c, client, answer) ==
    clients' = [clients EXCEPT ![c] =
        IF client.route /\ answer = "ok" THEN [Answered(client, "ok") EXCEPT !.pc = "packet", !.answer = "none"]
        ELSE Answered(client, answer)]

\* One load of the log with the validation of the plan against what it folds to.
Attempt(c, client) ==
    LET new == NewEvents(client.plan)
    IN  IF Conflicts(client.plan) THEN Finish(c, client, "failed")
        ELSE IF new = <<>> THEN Finish(c, client, "ok")
        ELSE IF ~ValidBatch(kernel, new) THEN Finish(c, client, "failed")
        ELSE clients' = [clients EXCEPT ![c] =
                [client EXCEPT !.pc = "append", !.head = Len(log), !.new = new, !.attempt = @ + 1]]

Transact(c) ==
    /\ clients[c].pc = "transact"
    /\ Attempt(c, clients[c])
    /\ UNCHANGED <<log, kernel, flow>>

\* A host starts a turn, or repeats one that failed or whose answer it never saw.
Begin(c, plan) ==
    /\ clients[c].pc \in {"idle", "done"}
    /\ clients' = [clients EXCEPT ![c] = [NoClient EXCEPT !.pc = "transact", !.plan = plan]]
    /\ UNCHANGED <<log, kernel, flow>>

\* append_voice_conversation_events: exact replay, conflict, stale head, or append.
Exact(client, i) == client.head + i \in DOMAIN log /\ log[client.head + i] = client.new[i]

Present(client) == {i \in DOMAIN client.new : Position(client.new[i]) # {}}

MayAppend(client) == Present(client) = {} /\ client.head = Len(log)

Commit(c) ==
    /\ MayAppend(clients[c])
    /\ Len(log) + Len(clients[c].new) <= MaxLog
    /\ log' = log \o clients[c].new
    /\ kernel' = ApplyAll(kernel, clients[c].new)

AppendEvents(c) ==
    /\ clients[c].pc = "append"
    /\ Commit(c)
    /\ Finish(c, clients[c], "ok")
    /\ UNCHANGED flow

\* The statement commits and its answer is lost.
AppendLost(c) ==
    /\ clients[c].pc = "append"
    /\ Commit(c)
    /\ Finish(c, clients[c], "failed")
    /\ UNCHANGED flow

Replays(client) == Present(client) = DOMAIN client.new /\ \A i \in DOMAIN client.new : Exact(client, i)

AppendReplay(c) ==
    /\ clients[c].pc = "append"
    /\ Replays(clients[c])
    /\ Finish(c, clients[c], "ok")
    /\ UNCHANGED <<log, kernel, flow>>

\* A different or only partly stored batch under the same keys is refused.
AppendConflict(c) ==
    /\ clients[c].pc = "append"
    /\ Present(clients[c]) # {}
    /\ ~Replays(clients[c])
    /\ Finish(c, clients[c], "failed")
    /\ UNCHANGED <<log, kernel, flow>>

LastAttempt(client) == client.attempt = MaxAttempts

\* ConversationHeadConflictError: load again, or give up after the last attempt.
AppendStale(c) ==
    /\ clients[c].pc = "append"
    /\ Present(clients[c]) = {}
    /\ clients[c].head # Len(log)
    /\ IF LastAttempt(clients[c]) THEN Finish(c, clients[c], "failed")
       ELSE clients' = [clients EXCEPT ![c].pc = "transact", ![c].new = <<>>]
    /\ UNCHANGED <<log, kernel, flow>>

-----------------------------------------------------------------------------
(* prepare: mirror the Flow state, then compile the packet. *)

FlowAdvances ==
    /\ ~flow.terminal
    /\ flow.revision < MaxRevision
    /\ \E t \in BOOLEAN : flow' = [revision |-> flow.revision + 1, terminal |-> t]
    /\ UNCHANGED <<log, kernel, clients>>

ActivateEvent(revision) ==
    [id |-> <<"activate", revision>>, type |-> "goal.activated", goal |-> CallGoal]

CheckpointEvent(f) ==
    [id |-> <<"flow", f.revision>>, type |-> "flow.checkpoint_recorded", goal |-> CallGoal,
     digest |-> Runtime, revision |-> f.revision, epoch |-> f.revision, terminal |-> f.terminal]

\* The flow the route was asked to show, and the checks of prepare against the loaded log.
RouteRefused(f) ==
    \/ kernel.current \notin {None, CallGoal}
    \/ kernel.goals[CallGoal] \notin {"none", "active"}
    \/ kernel.checkpoints[CallGoal].revision > f.revision

RoutePlan(f) ==
    (IF kernel.goals[CallGoal] = "none" THEN <<ActivateEvent(f.revision)>> ELSE <<>>)
    \o (IF kernel.checkpoints[CallGoal].revision < f.revision THEN <<CheckpointEvent(f)>> ELSE <<>>)

\* prepare reads the Flow state and loads the log; the turn's events are fixed from then on.
Prepare(c) ==
    /\ clients[c].pc \in {"idle", "done"}
    /\ LET client == [NoClient EXCEPT !.route = TRUE, !.revision = flow.revision, !.plan = RoutePlan(flow)]
       IN  IF RouteRefused(flow) THEN Finish(c, client, "failed")
           ELSE clients' = [clients EXCEPT ![c] = [client EXCEPT
                    !.pc = IF client.plan = <<>> THEN "packet" ELSE "transact"]]
    /\ UNCHANGED <<log, kernel, flow>>

\* compilePacket: the packet shows what the log folds to when it is loaded.
CompilePacket(c) ==
    /\ clients[c].pc = "packet"
    /\ clients' = [clients EXCEPT ![c].pc = "done", ![c].answer = "ok", ![c].shown = Projection(kernel)]
    /\ UNCHANGED <<log, kernel, flow>>

ClientStep(c) ==
    \/ Transact(c) \/ AppendEvents(c) \/ AppendLost(c) \/ AppendReplay(c) \/ AppendConflict(c) \/ AppendStale(c)
    \/ Prepare(c) \/ CompilePacket(c)
    \/ \E plan \in Plans : Begin(c, plan)

Next == FlowAdvances \/ \E c \in Clients : ClientStep(c)

Spec == Init /\ [][Next]_vars
-----------------------------------------------------------------------------
\* The state of the log, of the fold and of every client is well formed.
TypeOK ==
    /\ Len(log) <= MaxLog
    /\ kernel = StateAt(log, Len(log))
    /\ flow.revision \in 1..MaxRevision /\ flow.terminal \in BOOLEAN
    /\ \A c \in Clients :
          /\ clients[c].pc \in {"idle", "transact", "append", "packet", "done"}
          /\ clients[c].answer \in {"none", "ok", "failed"}
          /\ clients[c].attempt \in 0..MaxAttempts
          /\ clients[c].head \in 0..MaxLog

\* Every event of the durable log is valid where it stands, although writers validate against a
\* log that others extend meanwhile: a load (foldConversation throws otherwise) never fails.
LogFolds == \A n \in DOMAIN log : Valid(StateAt(log, n - 1), log[n])

\* A host that was told its turn is durable finds each planned event in the log exactly once,
\* after lost answers, repeated turns and exact replays (transact, append_voice_conversation_events).
ToldIsLogged ==
    \A c \in Clients : clients[c].pc = "done" /\ clients[c].answer = "ok" =>
        \A e \in Range(clients[c].plan) : \E p \in DOMAIN log : log[p] = e /\ Position(e) = {p}

\* The current goal is the only active one (goal.activated suspends its predecessor).
OneActiveGoal == \A g \in Goals : kernel.goals[g] = "active" <=> kernel.current = g

\* No goal ever has more running workers than the limit: projectConversationContext throws
\* "conversation state exceeds the active worker invariant" otherwise.
WorkersBounded == \A g \in Goals : Cardinality(Running(kernel, g)) <= MaxActiveWorkers

SpawnOf(w) == {p \in DOMAIN log : log[p].type = "worker.spawned" /\ log[p].worker = w}

Disturbs(e, spawn) ==
    \/ e.type = "policy.advanced"
    \/ e.type = "fact.corrected" /\ e.key \in DOMAIN spawn.deps

\* A worker's facts are accepted only if, between the event that spawned it and the event that
\* delivered its result, no policy advance and no correction of a fact it depends on was logged.
AcceptedIsFresh ==
    \A q \in DOMAIN log :
        log[q].type = "worker.result_delivered"
        /\ ~Decided(StateAt(log, q - 1), log[q]) /\ Decision(StateAt(log, q - 1), log[q]) = "accepted" =>
            \E p \in SpawnOf(log[q].worker) :
                p < q /\ \A r \in p + 1 .. q - 1 : ~Disturbs(log[r], log[p])

\* Within a goal the recorded Flow checkpoints advance strictly and stop at a terminal one.
CheckpointsAdvance ==
    \A p, q \in DOMAIN log :
        p < q /\ log[p].type = "flow.checkpoint_recorded" /\ log[q].type = "flow.checkpoint_recorded"
        /\ log[p].goal = log[q].goal =>
            log[p].revision < log[q].revision /\ log[p].epoch <= log[q].epoch /\ ~log[p].terminal

\* The packet a route returns for the call's goal shows a Flow checkpoint at least as new as the
\* Flow state the route was asked to expose ("newer revisions are mirrored before ... routing").
RouteShowsItsFlow ==
    \A c \in Clients : clients[c].shown # None /\ clients[c].shown.goal = CallGoal =>
        clients[c].shown.checkpoint.revision >= clients[c].revision

KeepsDecisions ==
    /\ \A w \in Workers : kernel.workers[w].status \notin {"none", "running"} =>
           kernel'.workers[w] = kernel.workers[w]
    /\ \A d \in Deliveries : kernel.deliveries[d].status \in {"accepted", "rejected"} =>
           kernel'.deliveries[d] = kernel.deliveries[d]
    /\ kernel.accepted \subseteq kernel'.accepted

\* A worker that stopped running never changes again, and neither does a decided delivery.
DecisionsAreFinal == [][KeepsDecisions]_vars
==============================================================================
