------------------------- MODULE ConversationKernel --------------------------
(***************************************************************************)
(* The conversation kernel, lib/conversation-kernel.ts: what one event     *)
(* does to the folded state of a conversation and when it is refused.      *)
(* A throw of applyEvent is a state in which Valid is false.  Texts,       *)
(* values and advisories are left out: no decision reads them.             *)
(***************************************************************************)
EXTENDS Naturals, Sequences, FiniteSets

CONSTANTS Goals, FactKeys, Commitments, Workers, Deliveries,
          MaxActiveWorkers,   \* MAX_ACTIVE_WORKERS_PER_GOAL, 8 in the code
          None

KernelAssumption == MaxActiveWorkers \in Nat \ {0}

NoCheckpoint == [revision |-> 0, digest |-> None, epoch |-> 0, terminal |-> FALSE]
NoWorker == [status |-> "none", goal |-> None, epoch |-> 0, deps |-> None]
NoDelivery == [status |-> "none", content |-> None]

\* A fact is its revision, 0 when it was never asserted.
Genesis ==
    [facts |-> [k \in FactKeys |-> 0],
     goals |-> [g \in Goals |-> "none"],
     current |-> None,
     commitments |-> [c \in Commitments |-> "none"],
     epoch |-> 0,
     checkpoints |-> [g \in Goals |-> NoCheckpoint],
     workers |-> [w \in Workers |-> NoWorker],
     deliveries |-> [d \in Deliveries |-> NoDelivery],
     accepted |-> {}]

DependenciesCurrent(s, deps) == \A k \in DOMAIN deps : s.facts[k] = deps[k]

Running(s, g) == {w \in Workers : s.workers[w].status = "running" /\ s.workers[w].goal = g}

IsActive(s, g) == s.goals[g] = "active" /\ s.current = g

-----------------------------------------------------------------------------
(* Decisions on a worker's result. *)

MutantFresh(s, e) ==
    LET w == s.workers[e.worker]
    IN  e.goal = s.current /\ e.epoch = w.epoch /\ e.epoch = s.epoch /\ e.deps = w.deps

\* Nothing the worker was bound to has changed while it was running.
Fresh(s, e) ==
    LET w == s.workers[e.worker]
    IN  /\ e.goal = s.current
        /\ e.epoch = w.epoch
        /\ e.epoch = s.epoch
        /\ e.deps = w.deps
        /\ DependenciesCurrent(s, w.deps)

Bound(s, e) == s.workers[e.worker].status = "running" /\ e.goal = s.workers[e.worker].goal

Decision(s, e) ==
    CASE Bound(s, e) /\ s.goals[e.goal] = "suspended" -> "deferred"
      [] Bound(s, e) /\ s.goals[e.goal] # "suspended" /\ Fresh(s, e) -> "accepted"
      [] OTHER -> "rejected"

\* A terminal decision was already taken: the event is recorded as a duplicate.
Decided(s, e) == s.deliveries[e.delivery].status \in {"accepted", "rejected"}

Content(e) == [worker |-> e.worker, goal |-> e.goal, epoch |-> e.epoch, deps |-> e.deps]

AcceptedFact(e) == [worker |-> e.worker, goal |-> e.goal, epoch |-> e.epoch, deps |-> e.deps]

Delivered(s, e) ==
    LET d == Decision(s, e)
        decided == [s EXCEPT !.deliveries[e.delivery] = [status |-> d, content |-> Content(e)]]
    IN  CASE d = "accepted" -> [decided EXCEPT !.workers[e.worker].status = "completed",
                                               !.accepted = @ \cup {AcceptedFact(e)}]
          [] d = "rejected" /\ s.workers[e.worker].status = "running" ->
                [decided EXCEPT !.workers[e.worker].status = "superseded"]
          [] OTHER -> decided

-----------------------------------------------------------------------------
CheckpointAdvances(s, e) ==
    LET prior == s.checkpoints[e.goal]
    IN  /\ s.current = e.goal
        /\ prior # NoCheckpoint =>
              /\ ~prior.terminal
              /\ e.digest = prior.digest
              /\ e.revision > prior.revision
              /\ e.epoch >= prior.epoch

MaySpawn(s, e) ==
    /\ s.workers[e.worker].status = "none"
    /\ s.current = e.goal
    /\ e.epoch = s.epoch
    /\ Cardinality(Running(s, e.goal)) < MaxActiveWorkers
    /\ DependenciesCurrent(s, e.deps)

Valid(s, e) ==
    CASE e.type = "fact.asserted" -> s.facts[e.key] = 0
      [] e.type = "fact.corrected" -> s.facts[e.key] # 0 /\ e.revision = s.facts[e.key] + 1
      [] e.type = "goal.activated" -> s.goals[e.goal] = "none"
      [] e.type \in {"goal.completed", "goal.suspended"} -> IsActive(s, e.goal)
      [] e.type = "goal.resumed" -> s.goals[e.goal] = "suspended" /\ s.current = None
      [] e.type = "commitment.opened" -> s.commitments[e.commitment] = "none" /\ s.goals[e.goal] # "none"
      [] e.type = "commitment.resolved" -> s.commitments[e.commitment] = "open"
      [] e.type = "policy.advanced" -> e.epoch = s.epoch + 1
      [] e.type = "flow.checkpoint_recorded" -> CheckpointAdvances(s, e)
      [] e.type = "worker.spawned" -> MaySpawn(s, e)
      [] e.type \in {"worker.cancelled", "worker.finished"} -> s.workers[e.worker].status = "running"
      [] e.type = "worker.result_delivered" ->
            s.deliveries[e.delivery] # NoDelivery => s.deliveries[e.delivery].content = Content(e)
      [] e.type = "advisory.recorded" -> TRUE

\* Activating a goal suspends the one it replaces.
Activated(s, g) ==
    [s EXCEPT !.goals = [h \in Goals |-> IF h = g THEN "active"
                                         ELSE IF h = s.current /\ @[h] = "active" THEN "suspended" ELSE @[h]],
              !.current = g]

Checkpoint(e) == [revision |-> e.revision, digest |-> e.digest, epoch |-> e.epoch, terminal |-> e.terminal]

Effect(s, e) ==
    CASE e.type = "fact.asserted" -> [s EXCEPT !.facts[e.key] = 1]
      [] e.type = "fact.corrected" -> [s EXCEPT !.facts[e.key] = e.revision]
      [] e.type = "goal.activated" -> Activated(s, e.goal)
      [] e.type = "goal.completed" -> [s EXCEPT !.goals[e.goal] = "completed", !.current = None]
      [] e.type = "goal.suspended" -> [s EXCEPT !.goals[e.goal] = "suspended", !.current = None]
      [] e.type = "goal.resumed" -> [s EXCEPT !.goals[e.goal] = "active", !.current = e.goal]
      [] e.type = "commitment.opened" -> [s EXCEPT !.commitments[e.commitment] = "open"]
      [] e.type = "commitment.resolved" -> [s EXCEPT !.commitments[e.commitment] = "resolved"]
      [] e.type = "policy.advanced" -> [s EXCEPT !.epoch = e.epoch]
      [] e.type = "flow.checkpoint_recorded" -> [s EXCEPT !.checkpoints[e.goal] = Checkpoint(e)]
      [] e.type = "worker.spawned" ->
            [s EXCEPT !.workers[e.worker] =
                [status |-> "running", goal |-> e.goal, epoch |-> e.epoch, deps |-> e.deps]]
      [] e.type = "worker.cancelled" -> [s EXCEPT !.workers[e.worker].status = "cancelled"]
      [] e.type = "worker.finished" -> [s EXCEPT !.workers[e.worker].status = e.status]
      [] e.type = "worker.result_delivered" -> IF Decided(s, e) THEN s ELSE Delivered(s, e)
      [] e.type = "advisory.recorded" -> s

\* foldConversation, as a function of the length of the prefix.
StateAt(log, n) ==
    LET fold[i \in 0..Len(log)] == IF i = 0 THEN Genesis ELSE Effect(fold[i - 1], log[i])
    IN  fold[n]

-----------------------------------------------------------------------------
(* What the provider is shown: mandatory control state, and the worker     *)
(* facts that are still current.                                           *)

\* acceptedWorkerFacts of projectConversationContext.
CurrentWorkerFacts(s) ==
    {f \in s.accepted : f.goal = s.current /\ f.epoch = s.epoch /\ DependenciesCurrent(s, f.deps)}

Projection(s) ==
    [epoch |-> s.epoch,
     facts |-> s.facts,
     goal |-> s.current,
     checkpoint |-> IF s.current = None THEN NoCheckpoint ELSE s.checkpoints[s.current],
     commitments |-> {c \in Commitments : s.commitments[c] = "open"},
     workers |-> IF s.current = None THEN {} ELSE Running(s, s.current),
     workerFacts |-> CurrentWorkerFacts(s)]
==============================================================================
