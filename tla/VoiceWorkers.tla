---------------------------- MODULE VoiceWorkers -----------------------------
(***************************************************************************)
(* Durable voice workers: the job rows and the result inbox of migrations  *)
(* 032, 034, 043 and 044 behind lib/voice-workers/store.ts, the executor   *)
(* of lib/governed-call-worker-executor.ts started by launch_task and by   *)
(* the minute drain (lib/governed-worker-drain.ts), and the delivery of    *)
(* settled work into the conversation log by the live route                *)
(* (lib/live-conversation-route-postgres.ts).                              *)
(*                                                                         *)
(* The log is represented by its head and by what it folds to.  A runner   *)
(* or deliverer has a fresh token each time it starts; since it drops all  *)
(* it claimed when it ends, its name stands for the token.  A job has one  *)
(* inbox message, which carries its name.                                  *)
(***************************************************************************)
EXTENDS ConversationKernel

CONSTANTS Runners, Deliverers,
          HostEvents,      \* what hosts append beside the workers
          Start,           \* the folded conversation when the model begins
          MaxExecutions,   \* execution attempts of a job, 3 in the code
          MaxDeliveries,   \* times a message is handed out, 16 in the code
          MaxCancellations, \* bound of the model: cancellation requests for a job
          MaxHead          \* bound of the model: events appended to the log

\* A worker is spawned and ended in the log only by the transactions below.
HostTypes == {"fact.asserted", "fact.corrected", "goal.activated", "goal.completed", "goal.suspended",
              "goal.resumed", "commitment.opened", "commitment.resolved", "policy.advanced",
              "flow.checkpoint_recorded", "advisory.recorded"}

WorkerAssumption ==
    /\ MaxExecutions \in Nat \ {0} /\ MaxDeliveries \in Nat \ {0}
    /\ MaxCancellations \in Nat /\ MaxHead \in Nat
    /\ None \notin Runners
    /\ Deliveries = Workers
    /\ \A e \in HostEvents : e.type \in HostTypes
    /\ {"workers", "deliveries"} \subseteq DOMAIN Start
    /\ Start.workers = [w \in Workers |-> NoWorker]
    /\ Start.deliveries = [d \in Deliveries |-> NoDelivery]

VARIABLES kernel, head,
          at,           \* where the event of a worker's message stands in the log, 0 if nowhere
          jobs,         \* voice_worker_jobs
          inbox,        \* voice_conversation_inbox
          runners, deliverers,
          inferences    \* history: times a job was sent to the model provider

vars == <<kernel, head, at, jobs, inbox, runners, deliverers, inferences>>

NoJob == [status |-> "none", owner |-> None, live |-> FALSE, epoch |-> 0, held |-> 0, dispatched |-> FALSE,
          executions |-> 0]
NoMessage == [kind |-> "none", applied |-> FALSE, quarantined |-> FALSE, token |-> None, live |-> FALSE, count |-> 0]
NoRunner == [pc |-> "idle", worker |-> None]
NoDeliverer == [pc |-> "idle", todo |-> {}, message |-> None, head |-> 0]

Terminal == {"succeeded", "failed", "cancelled", "indeterminate"}

Init ==
    /\ kernel = Start
    /\ head = 0
    /\ at = [w \in Workers |-> 0]
    /\ jobs = [w \in Workers |-> NoJob]
    /\ inbox = [w \in Workers |-> NoMessage]
    /\ runners = [r \in Runners |-> NoRunner]
    /\ deliverers = [d \in Deliverers |-> NoDeliverer]
    /\ inferences = [w \in Workers |-> 0]

-----------------------------------------------------------------------------
(* The conversation the workers belong to. *)

HostAppends(e) ==
    /\ head < MaxHead
    /\ Valid(kernel, e)
    /\ kernel' = Effect(kernel, e)
    /\ head' = head + 1
    /\ UNCHANGED <<at, jobs, inbox, runners, deliverers, inferences>>

KnownFacts == {k \in FactKeys : kernel.facts[k] # 0}

SpawnEvent(w) ==
    [type |-> "worker.spawned", worker |-> w, goal |-> kernel.current, epoch |-> kernel.epoch,
     deps |-> [k \in KnownFacts |-> kernel.facts[k]]]

\* launch_task: the event and the job row are one transaction under the expected head.
Spawn(w) ==
    /\ head < MaxHead
    /\ kernel.current # None
    /\ Valid(kernel, SpawnEvent(w))
    /\ kernel' = Effect(kernel, SpawnEvent(w))
    /\ head' = head + 1
    /\ jobs' = [jobs EXCEPT ![w].status = "pending"]
    /\ UNCHANGED <<at, inbox, runners, deliverers, inferences>>

-----------------------------------------------------------------------------
(* The job row. *)

Settled(job, status) == [job EXCEPT !.status = status, !.owner = None, !.live = FALSE]

\* Any terminal status inserts the worker's one message: its result, or by trigger its end.
Record(w, job) ==
    /\ jobs' = [jobs EXCEPT ![w] = job]
    /\ inbox' = [inbox EXCEPT ![w].kind =
          IF job.status = "succeeded" THEN "result" ELSE IF job.status \in Terminal THEN "terminal" ELSE @]

RequestCancellation(w) ==
    /\ jobs[w].status \in {"pending", "running", "cancel_requested"}
    /\ jobs[w].epoch < MaxCancellations
    /\ Record(w, [jobs[w] EXCEPT !.epoch = @ + 1,
                                 !.status = IF @ = "pending" THEN "cancelled" ELSE "cancel_requested"])
    /\ UNCHANGED <<kernel, head, at, runners, deliverers, inferences>>

LeaseExpires(w) ==
    /\ jobs[w].live
    /\ jobs' = [jobs EXCEPT ![w].live = FALSE]
    /\ UNCHANGED <<kernel, head, at, inbox, runners, deliverers, inferences>>

Expired(job) == job.status \in {"running", "cancel_requested"} /\ ~job.live

Candidate(job) == job.status = "pending" \/ Expired(job)

Exhausted(job) == job.executions >= MaxExecutions

Claimed(job, r) ==
    [job EXCEPT !.status = "running", !.owner = r, !.live = TRUE, !.held = job.epoch, !.dispatched = FALSE,
                !.executions = @ + 1]

\* claim_voice_worker_job_exact on a candidate: a lost cancellation and an exhausted job are settled
\* here, everything else that is pending or whose process was lost starts another attempt.
Claim(r, w) ==
    /\ runners[r].pc = "idle"
    /\ Candidate(jobs[w])
    /\ IF jobs[w].status = "cancel_requested"
       THEN Record(w, Settled(jobs[w], "cancelled")) /\ UNCHANGED runners
       ELSE IF Exhausted(jobs[w])
       THEN Record(w, Settled(jobs[w], "failed")) /\ UNCHANGED runners
       ELSE Record(w, Claimed(jobs[w], r)) /\ runners' = [runners EXCEPT ![r] = [pc |-> "verify", worker |-> w]]
    /\ UNCHANGED <<kernel, head, at, deliverers, inferences>>

\* heartbeat_voice_worker_job_exact and mark_voice_worker_dispatch_started_exact.
Renews(r, job) == job.owner = r /\ job.status = "running" /\ job.live /\ job.held = job.epoch

MaySettle(r, job, status) ==
    /\ job.owner = r
    /\ job.status \in {"running", "cancel_requested"}
    /\ job.live
    /\ job.status = "cancel_requested" => status = "cancelled"

-----------------------------------------------------------------------------
(* runGovernedCallWorker.  An error at any point leads to "failing". *)

Goto(r, pc) == runners' = [runners EXCEPT ![r].pc = pc]

Stops(r) == runners' = [runners EXCEPT ![r] = NoRunner]

\* verifyWorkerAuthority, against the log as loaded now.
Authorised(w) ==
    LET worker == kernel.workers[w]
    IN  worker.goal = kernel.current /\ worker.epoch = kernel.epoch /\ DependenciesCurrent(kernel, worker.deps)

Verify(r) ==
    /\ runners[r].pc = "verify"
    /\ Goto(r, IF Authorised(runners[r].worker) THEN "dispatch" ELSE "failing")
    /\ UNCHANGED <<kernel, head, at, jobs, inbox, deliverers, inferences>>

Dispatch(r) ==
    LET w == runners[r].worker
    IN  /\ runners[r].pc = "dispatch"
        /\ IF Renews(r, jobs[w])
           THEN jobs' = [jobs EXCEPT ![w].dispatched = TRUE] /\ Goto(r, "infer")
           ELSE Goto(r, "failing") /\ UNCHANGED jobs
        /\ UNCHANGED <<kernel, head, at, inbox, deliverers, inferences>>

\* The bounded rounds of inference and read tools, each between two renewals of the lease.
Infer(r) ==
    LET w == runners[r].worker
    IN  /\ runners[r].pc = "infer"
        /\ IF Renews(r, jobs[w])
           THEN inferences' = [inferences EXCEPT ![w] = @ + 1] /\ Goto(r, "report")
           ELSE Goto(r, "failing") /\ UNCHANGED inferences
        /\ UNCHANGED <<kernel, head, at, jobs, inbox, deliverers>>

\* The last renewal, and the stop of the heartbeat.
Report(r) ==
    /\ runners[r].pc = "report"
    /\ Goto(r, IF Renews(r, jobs[runners[r].worker]) THEN "settle" ELSE "failing")
    /\ UNCHANGED <<kernel, head, at, jobs, inbox, deliverers, inferences>>

\* A provider error, an exhausted budget, a lost query.
Errs(r) ==
    /\ runners[r].pc \in {"verify", "dispatch", "infer", "report"}
    /\ Goto(r, "failing")
    /\ UNCHANGED <<kernel, head, at, jobs, inbox, deliverers, inferences>>

SettleSucceeded(r) ==
    LET w == runners[r].worker
    IN  /\ runners[r].pc = "settle"
        /\ IF MaySettle(r, jobs[w], "succeeded")
           THEN Record(w, Settled(jobs[w], "succeeded")) /\ Stops(r)
           ELSE Goto(r, "failing") /\ UNCHANGED <<jobs, inbox>>
        /\ UNCHANGED <<kernel, head, at, deliverers, inferences>>

\* settleFailureOrCancellation reads the status, then settles in a second statement.
ReadStatus(r) ==
    LET status == jobs[runners[r].worker].status
    IN  /\ runners[r].pc = "failing"
        /\ CASE status = "cancel_requested" -> Goto(r, "cancelled")
             [] status = "running" -> Goto(r, "failed")
             [] OTHER -> Stops(r)
        /\ UNCHANGED <<kernel, head, at, jobs, inbox, deliverers, inferences>>

SettleOtherwise(r) ==
    LET w == runners[r].worker
        status == runners[r].pc
    IN  /\ status \in {"cancelled", "failed"}
        /\ IF MaySettle(r, jobs[w], status) THEN Record(w, Settled(jobs[w], status)) ELSE UNCHANGED <<jobs, inbox>>
        /\ Stops(r)
        /\ UNCHANGED <<kernel, head, at, deliverers, inferences>>

\* The process is lost, or its host's lifetime ends.
Crash(r) ==
    /\ runners[r].pc # "idle"
    /\ Stops(r)
    /\ UNCHANGED <<kernel, head, at, jobs, inbox, deliverers, inferences>>

RunnerStep(r) ==
    Verify(r) \/ Dispatch(r) \/ Infer(r) \/ Report(r) \/ SettleSucceeded(r) \/ ReadStatus(r) \/ SettleOtherwise(r)

-----------------------------------------------------------------------------
(* The inbox and its delivery by the live route. *)

Waiting(m) == m.kind # "none" /\ ~m.applied /\ ~m.quarantined /\ ~m.live

Spent(m) == m.count >= MaxDeliveries

\* claim_voice_conversation_inbox: quarantine what was handed out too often, lease the rest.
ClaimInbox(d) ==
    LET ready == {w \in Workers : Waiting(inbox[w]) /\ ~Spent(inbox[w])}
    IN  /\ deliverers[d].pc = "idle"
        /\ \E w \in Workers : Waiting(inbox[w])
        /\ inbox' = [w \in Workers |->
              IF w \in ready THEN [inbox[w] EXCEPT !.token = d, !.live = TRUE, !.count = @ + 1]
              ELSE IF Waiting(inbox[w]) THEN [inbox[w] EXCEPT !.quarantined = TRUE, !.token = None]
              ELSE inbox[w]]
        /\ deliverers' = [deliverers EXCEPT ![d] =
              IF ready = {} THEN NoDeliverer ELSE [NoDeliverer EXCEPT !.pc = "load", !.todo = ready]]
        /\ UNCHANGED <<kernel, head, at, jobs, runners, inferences>>

DeliveryLeaseExpires(w) ==
    /\ inbox[w].live
    /\ inbox' = [inbox EXCEPT ![w].live = FALSE]
    /\ UNCHANGED <<kernel, head, at, jobs, runners, deliverers, inferences>>

\* The event the message becomes: workerResultConversationPayload, or worker.finished.
MessageEvent(w) ==
    IF inbox[w].kind = "result"
    THEN [type |-> "worker.result_delivered", delivery |-> w, worker |-> w, goal |-> kernel.workers[w].goal,
          epoch |-> kernel.workers[w].epoch, deps |-> kernel.workers[w].deps]
    ELSE [type |-> "worker.finished", worker |-> w, status |-> jobs[w].status]

Deferred(w) == inbox[w].kind = "result" /\ Decision(kernel, MessageEvent(w)) = "deferred"

\* The route throws and drops what it claimed, or goes on with the next message.
Throws(d) == deliverers' = [deliverers EXCEPT ![d] = NoDeliverer]

Continues(d, w) ==
    deliverers' = [deliverers EXCEPT ![d] =
        IF @.todo = {w} THEN NoDeliverer ELSE [NoDeliverer EXCEPT !.pc = "load", !.todo = deliverers[d].todo \ {w}]]

\* Load the log, build the event at its head and fold it: a deferred result is left to its lease.
Load(d, w) ==
    /\ deliverers[d].pc = "load"
    /\ w \in deliverers[d].todo
    /\ IF at[w] # 0 \/ ~Valid(kernel, MessageEvent(w)) THEN Throws(d)
       ELSE IF Deferred(w) THEN Continues(d, w)
       ELSE deliverers' = [deliverers EXCEPT ![d] = [@ EXCEPT !.pc = "apply", !.message = w, !.head = head]]
    /\ UNCHANGED <<kernel, head, at, jobs, inbox, runners, inferences>>

\* apply_voice_conversation_inbox.  Both comparisons are NULL, and pass, on a row without a token.
LeaseLost(d, m) == m.token # None /\ (m.token # d \/ ~m.live)

\* The CHECK voice_conversation_inbox_quarantine_valid: a quarantined row is never applied.
QuarantineValid(m) == ~m.quarantined

MayApply(d) ==
    LET w == deliverers[d].message
    IN  /\ at[w] = 0
        /\ deliverers[d].head = head
        /\ ~LeaseLost(d, inbox[w])
        /\ QuarantineValid(inbox[w])

\* apply_governed_voice_worker_result and _terminal: the event and the application in one transaction.
Apply(d) ==
    LET w == deliverers[d].message
    IN  /\ deliverers[d].pc = "apply"
        /\ MayApply(d)
        /\ head < MaxHead
        /\ kernel' = Effect(kernel, MessageEvent(w))
        /\ head' = head + 1
        /\ at' = [at EXCEPT ![w] = head + 1]
        /\ inbox' = [inbox EXCEPT ![w].applied = TRUE, ![w].token = None, ![w].live = FALSE]
        /\ Continues(d, w)
        /\ UNCHANGED <<jobs, runners, inferences>>

\* The same event already stands right after the head the deliverer loaded: an exact replay.
ApplyReplay(d) ==
    LET w == deliverers[d].message
    IN  /\ deliverers[d].pc = "apply"
        /\ at[w] = deliverers[d].head + 1
        /\ Continues(d, w)
        /\ UNCHANGED <<kernel, head, at, jobs, inbox, runners, inferences>>

\* A moved head, a lost lease or a violated constraint rolls the transaction back.
ApplyFails(d) ==
    LET w == deliverers[d].message
    IN  /\ deliverers[d].pc = "apply"
        /\ ~MayApply(d)
        /\ at[w] # deliverers[d].head + 1
        /\ Throws(d)
        /\ UNCHANGED <<kernel, head, at, jobs, inbox, runners, inferences>>

DelivererCrashes(d) ==
    /\ deliverers[d].pc # "idle"
    /\ Throws(d)
    /\ UNCHANGED <<kernel, head, at, jobs, inbox, runners, inferences>>

Next ==
    \/ \E e \in HostEvents : HostAppends(e)
    \/ \E w \in Workers : Spawn(w) \/ RequestCancellation(w) \/ LeaseExpires(w) \/ DeliveryLeaseExpires(w)
    \/ \E r \in Runners, w \in Workers : Claim(r, w)
    \/ \E r \in Runners : RunnerStep(r) \/ Errs(r) \/ Crash(r)
    \/ \E d \in Deliverers : ClaimInbox(d) \/ Apply(d) \/ ApplyReplay(d) \/ ApplyFails(d) \/ DelivererCrashes(d)
    \/ \E d \in Deliverers, w \in Workers : Load(d, w)

Spec == Init /\ [][Next]_vars

-----------------------------------------------------------------------------
\* Rows, runners and deliverers are well formed; an attempt counter never passes its CHECK.
TypeOK ==
    /\ head \in 0..MaxHead
    /\ \A w \in Workers :
          /\ jobs[w].status \in {"none", "pending", "running", "cancel_requested"} \cup Terminal
          /\ jobs[w].owner \in Runners \cup {None} /\ jobs[w].executions \in 0..MaxExecutions
          /\ inbox[w].kind \in {"none", "result", "terminal"} /\ inbox[w].token \in Deliverers \cup {None}
          /\ inbox[w].count \in 0..MaxDeliveries
          /\ at[w] \in 0..MaxHead
    /\ \A d \in Deliverers : deliverers[d].pc \in {"idle", "load", "apply"}

\* The model provider is asked at most MaxExecutions times, whatever crashes, lost leases and
\* reclaims happen in between (execution_attempt_count of claim_voice_worker_job_exact).
InferencesBounded == \A w \in Workers : inferences[w] <= jobs[w].executions /\ jobs[w].executions <= MaxExecutions

\* A worker whose cancellation was requested before it ended never delivers a result.
CancelledNeverSucceeds == \A w \in Workers : jobs[w].epoch > 0 => jobs[w].status # "succeeded"

\* The conversation event and the acknowledgement of the message are one: a message is applied
\* exactly when its event is logged and has decided about the worker, although the log is loaded
\* and folded before, and a message that was given up is never applied.
AppliedIsLogged ==
    \A w \in Workers :
        /\ inbox[w].applied <=> at[w] # 0
        /\ inbox[w].applied <=> kernel.workers[w].status \notin {"none", "running"}
        /\ inbox[w].quarantined => ~inbox[w].applied

SettlesItsOwn ==
    \A w \in Workers : jobs[w].status # "succeeded" /\ jobs'[w].status = "succeeded" =>
        /\ jobs[w].dispatched /\ inferences[w] > 0
        /\ \E r \in Runners : jobs[w].owner = r /\ runners[r].worker = w /\ runners'[r].pc = "idle"

\* A success settles only the attempt that reached the provider: a runner whose lease was taken
\* over never settles the attempt of its successor.
SettledByItsAttempt == [][SettlesItsOwn]_vars

\* What the promise sees of a job row, and of its message and the worker in the log.
OutcomeOf(job) ==
    IF job.status = "none" THEN "absent"
    ELSE IF job.status \in {"pending", "running"} THEN "open"
    ELSE IF job.status = "cancel_requested" THEN "stopping"
    ELSE job.status

ToldOf(message, worker) ==
    IF message.quarantined THEN "never"
    ELSE IF worker.status \in {"none", "running"} THEN "nothing"
    ELSE IF worker.status = "completed" THEN "accepted"
    ELSE IF worker.status = "superseded" THEN "refused"
    ELSE worker.status

Promise == INSTANCE WorkerPromise WITH
    Jobs <- Workers,
    outcome <- [w \in Workers |-> OutcomeOf(jobs[w])],
    told <- [w \in Workers |-> ToldOf(inbox[w], kernel.workers[w])]

PromiseStarts == Promise!Init
PromiseSteps == [Promise!Next]_(Promise!vars)

\* Rows, executor and delivery together keep the promise of WorkerPromise: one end, only
\* cancelled after a request to stop, and one truthful report or none.
ImplementsPromise == PromiseStarts /\ [][PromiseSteps]_vars

\* Every spawned worker ends, through any number of process losses: the drain and the attempt
\* limit see to it (governed-worker-drain.ts, "Bounded crash-recovery backstop").
EveryWorkerEnds == \A w \in Workers : jobs[w].status = "pending" ~> jobs[w].status \in Terminal
==============================================================================
