------------------------- MODULE VoiceWorkersSteps ---------------------------
(***************************************************************************)
(* The inductive invariant of VoiceWorkers, what each part of it needs of  *)
(* a step, and the steps of the conversation and of the deliverers.        *)
(* VoiceWorkersProofs has the runners' steps and the theorems.             *)
(***************************************************************************)
EXTENDS VoiceWorkers, TLAPS

(* The time the provers have for a step that names none itself. *)
USE SMTT(60), ZenonT(60)

Statuses == {"none", "pending", "running", "cancel_requested"} \cup Terminal

JobRows == [status : Statuses, owner : Runners \cup {None}, live : BOOLEAN, epoch : Nat, held : Nat,
            dispatched : BOOLEAN, executions : 0..MaxExecutions]
Messages == [kind : {"none", "result", "terminal"}, applied : BOOLEAN, quarantined : BOOLEAN,
             token : Deliverers \cup {None}, live : BOOLEAN, count : 0..MaxDeliveries]
RunnerPcs == {"idle", "verify", "dispatch", "infer", "report", "settle", "failing", "cancelled", "failed"}
RunnerStates == [pc : RunnerPcs, worker : Workers \cup {None}]
DelivererStates == [pc : {"idle", "load", "apply"}, todo : SUBSET Workers,
                    message : Workers \cup {None}, head : 0..MaxHead]

(* How a worker stands in the log. *)
Ends == {"completed", "superseded", "failed", "cancelled", "indeterminate"}

Shape ==
    /\ head \in 0..MaxHead
    /\ at \in [Workers -> 0..MaxHead]
    /\ jobs \in [Workers -> JobRows]
    /\ inbox \in [Workers -> Messages]
    /\ runners \in [Runners -> RunnerStates]
    /\ deliverers \in [Deliverers -> DelivererStates]
    /\ inferences \in [Workers -> Nat]

KernelShape(s) ==
    /\ {"workers", "deliveries"} \subseteq DOMAIN s
    /\ DOMAIN s.workers = Workers
    /\ DOMAIN s.deliveries = Workers
    /\ \A w \in Workers : "status" \in DOMAIN s.workers[w] /\ s.workers[w].status \in {"none", "running"} \cup Ends

KindOf(status) ==
    IF status = "succeeded" THEN "result" ELSE IF status \in Terminal THEN "terminal" ELSE "none"

(* The job, its message and the worker in the log agree; a request to stop is
   only ever followed by the end it asks for. *)
JobSound(w) ==
    /\ jobs[w].status = "none" <=> kernel.workers[w].status = "none"
    /\ inbox[w].kind = KindOf(jobs[w].status)
    /\ jobs[w].epoch > 0 => jobs[w].status \in {"cancel_requested", "cancelled"}

(* The message is applied with its event, which is the one that decided. *)
MessageSound(w) ==
    /\ inbox[w].applied <=> at[w] # 0
    /\ inbox[w].applied <=> kernel.workers[w].status \in Ends
    /\ inbox[w].applied \/ inbox[w].quarantined => inbox[w].kind # "none"
    /\ ~(inbox[w].applied /\ inbox[w].quarantined)
    /\ kernel.deliveries[w].status \in {"accepted", "rejected"} => kernel.workers[w].status \in Ends

(* While a runner owns the row it is in the attempt it claimed, and has asked
   the provider in this attempt only once it is past that point. *)
RunnerSound(r) ==
    LET w == runners[r].worker
    IN  /\ runners[r].pc # "idle" => w \in Workers
        /\ runners[r].pc \in {"verify", "dispatch", "infer"} /\ jobs[w].owner = r =>
              inferences[w] < jobs[w].executions
        /\ runners[r].pc \in {"infer", "report", "settle"} /\ jobs[w].owner = r => jobs[w].dispatched
        /\ runners[r].pc \in {"report", "settle"} /\ jobs[w].owner = r => inferences[w] > 0

(* What a deliverer found when it folded the log still holds at the same head. *)
DelivererSound(d) ==
    /\ \A w \in deliverers[d].todo : inbox[w].kind # "none"
    /\ deliverers[d].pc = "apply" =>
         /\ deliverers[d].message \in Workers
         /\ inbox[deliverers[d].message].kind # "none"
         /\ deliverers[d].head <= head
         /\ deliverers[d].head = head => ~Deferred(deliverers[d].message)

Inv ==
    /\ Shape
    /\ KernelShape(kernel)
    /\ \A w \in Workers : JobSound(w) /\ MessageSound(w) /\ inferences[w] <= jobs[w].executions
    /\ \A r \in Runners : RunnerSound(r)
    /\ \A d \in Deliverers : DelivererSound(d)

-----------------------------------------------------------------------------
(* What an event does to the workers and the deliveries of a conversation. *)

(* An event of a host does nothing to them. *)
LEMMA HostEffect ==
    ASSUME NEW s, NEW e, KernelShape(s), e.type \in HostTypes
    PROVE  /\ Effect(s, e).workers = s.workers
           /\ Effect(s, e).deliveries = s.deliveries
           /\ KernelShape(Effect(s, e))
<1>. DEFINE t == Effect(s, e)
<1>1. SUFFICES /\ {"workers", "deliveries"} \subseteq DOMAIN t
               /\ t.workers = s.workers
               /\ t.deliveries = s.deliveries
  BY DEF KernelShape
<1>. DEFINE Same == /\ {"workers", "deliveries"} \subseteq DOMAIN t
                    /\ t.workers = s.workers
                    /\ t.deliveries = s.deliveries
<1>2. {"workers", "deliveries"} \subseteq DOMAIN s
  BY DEF KernelShape
<1>3. CASE e.type = "fact.asserted"
  <2>1. t = [s EXCEPT !.facts[e.key] = 1]
    BY <1>3 DEF Effect
  <2>. QED
    BY <1>2, <2>1
<1>4. CASE e.type = "fact.corrected"
  <2>1. t = [s EXCEPT !.facts[e.key] = e.revision]
    BY <1>4 DEF Effect
  <2>. QED
    BY <1>2, <2>1
<1>5. CASE e.type = "goal.activated"
  <2>1. t = Activated(s, e.goal)
    BY <1>5 DEF Effect
  <2>. QED
    BY <1>2, <2>1 DEF Activated
<1>6. CASE e.type = "goal.completed"
  <2>1. t = [s EXCEPT !.goals[e.goal] = "completed", !.current = None]
    BY <1>6 DEF Effect
  <2>. QED
    BY <1>2, <2>1
<1>7. CASE e.type = "goal.suspended"
  <2>1. t = [s EXCEPT !.goals[e.goal] = "suspended", !.current = None]
    BY <1>7 DEF Effect
  <2>. QED
    BY <1>2, <2>1
<1>8. CASE e.type = "goal.resumed"
  <2>1. t = [s EXCEPT !.goals[e.goal] = "active", !.current = e.goal]
    BY <1>8 DEF Effect
  <2>. QED
    BY <1>2, <2>1
<1>9. CASE e.type = "commitment.opened"
  <2>1. t = [s EXCEPT !.commitments[e.commitment] = "open"]
    BY <1>9 DEF Effect
  <2>. QED
    BY <1>2, <2>1
<1>10. CASE e.type = "commitment.resolved"
  <2>1. t = [s EXCEPT !.commitments[e.commitment] = "resolved"]
    BY <1>10 DEF Effect
  <2>. QED
    BY <1>2, <2>1
<1>11. CASE e.type = "policy.advanced"
  <2>1. t = [s EXCEPT !.epoch = e.epoch]
    BY <1>11 DEF Effect
  <2>. QED
    BY <1>2, <2>1
<1>12. CASE e.type = "flow.checkpoint_recorded"
  <2>1. t = [s EXCEPT !.checkpoints[e.goal] = Checkpoint(e)]
    BY <1>12 DEF Effect
  <2>. QED
    BY <1>2, <2>1
<1>13. CASE e.type = "advisory.recorded"
  <2>1. t = s
    BY <1>13 DEF Effect
  <2>. QED
    BY <1>2, <2>1
<1>. QED
  BY <1>3, <1>4, <1>5, <1>6, <1>7, <1>8, <1>9, <1>10, <1>11, <1>12, <1>13 DEF HostTypes

(* An event of one worker changes its status and nothing of the others. *)
Tells(s, t, w, statuses) ==
    /\ KernelShape(t)
    /\ t.workers[w].status \in statuses
    /\ \A v \in Workers \ {w} : t.workers[v] = s.workers[v] /\ t.deliveries[v] = s.deliveries[v]

LEMMA SpawnEffect ==
    ASSUME NEW s, NEW e, KernelShape(s), e.type = "worker.spawned", e.worker \in Workers
    PROVE  /\ Tells(s, Effect(s, e), e.worker, {"running"})
           /\ Effect(s, e).deliveries = s.deliveries
<1>. DEFINE row == [status |-> "running", goal |-> e.goal, epoch |-> e.epoch, deps |-> e.deps]
            t == Effect(s, e)
<1>1. t = [s EXCEPT !.workers[e.worker] = row]
  BY DEF Effect
<1>2. row.status = "running" /\ "status" \in DOMAIN row
  OBVIOUS
<1>. HIDE DEF row, t
<1>3. /\ {"workers", "deliveries"} \subseteq DOMAIN t
      /\ t.deliveries = s.deliveries
      /\ t.workers = [s.workers EXCEPT ![e.worker] = row]
  BY <1>1 DEF KernelShape
<1>. QED
  BY <1>2, <1>3 DEF KernelShape, Tells, t

LEMMA FinishEffect ==
    ASSUME NEW s, NEW e, KernelShape(s), e.type = "worker.finished", e.worker \in Workers, e.status \in Ends
    PROVE  /\ Tells(s, Effect(s, e), e.worker, {e.status})
           /\ Effect(s, e).deliveries = s.deliveries
<1>. DEFINE row == [s.workers[e.worker] EXCEPT !.status = e.status]
            t == Effect(s, e)
<1>1. t = [s EXCEPT !.workers[e.worker] = row]
  BY DEF Effect
<1>2. row.status = e.status /\ "status" \in DOMAIN row
  BY DEF KernelShape
<1>. HIDE DEF row, t
<1>3. /\ {"workers", "deliveries"} \subseteq DOMAIN t
      /\ t.deliveries = s.deliveries
      /\ t.workers = [s.workers EXCEPT ![e.worker] = row]
  BY <1>1 DEF KernelShape
<1>. QED
  BY <1>2, <1>3 DEF KernelShape, Tells, t

LEMMA DeliverEffect ==
    ASSUME NEW s, NEW e, KernelShape(s), e.type = "worker.result_delivered",
           e.worker \in Workers, e.delivery = e.worker,
           s.workers[e.worker].status = "running",
           s.deliveries[e.worker].status \notin {"accepted", "rejected"},
           Decision(s, e) # "deferred"
    PROVE  Tells(s, Effect(s, e), e.worker, {"completed", "superseded"})
<1>. DEFINE w == e.worker
            made == [status |-> Decision(s, e), content |-> Content(e)]
            decided == [s EXCEPT !.deliveries[e.delivery] = made]
            done == [s.workers[w] EXCEPT !.status = "completed"]
            gone == [s.workers[w] EXCEPT !.status = "superseded"]
            t == Effect(s, e)
<1>1. t = Delivered(s, e)
  BY DEF Effect, Decided
<1>2. Decision(s, e) \in {"accepted", "rejected"}
  BY DEF Decision
<1>3. /\ done.status = "completed" /\ "status" \in DOMAIN done
      /\ gone.status = "superseded" /\ "status" \in DOMAIN gone
  BY DEF KernelShape
<1>4. /\ {"workers", "deliveries"} \subseteq DOMAIN decided
      /\ decided.deliveries = [s.deliveries EXCEPT ![w] = made]
      /\ decided.workers = s.workers
  <2>. HIDE DEF made
  <2>. QED
    BY DEF KernelShape
<1>5. CASE Decision(s, e) = "accepted"
  <2>1. t = [decided EXCEPT !.workers[w].status = "completed", !.accepted = @ \cup {AcceptedFact(e)}]
    BY <1>1, <1>5 DEF Delivered
  <2>. HIDE DEF decided, made, t
  <2>2. /\ {"workers", "deliveries"} \subseteq DOMAIN t
        /\ t.deliveries = decided.deliveries
        /\ t.workers = [s.workers EXCEPT ![w] = done]
    BY <1>4, <2>1
  <2>. HIDE DEF done
  <2>. QED
    BY <1>3, <1>4, <2>2 DEF KernelShape, Tells, t, Ends
<1>6. CASE Decision(s, e) = "rejected"
  <2>1. t = [decided EXCEPT !.workers[w].status = "superseded"]
    BY <1>1, <1>6 DEF Delivered
  <2>. HIDE DEF decided, made, t
  <2>2. /\ {"workers", "deliveries"} \subseteq DOMAIN t
        /\ t.deliveries = decided.deliveries
        /\ t.workers = [s.workers EXCEPT ![w] = gone]
    BY <1>4, <2>1
  <2>. HIDE DEF gone
  <2>. QED
    BY <1>3, <1>4, <2>2 DEF KernelShape, Tells, t, Ends
<1>. QED
  BY <1>2, <1>5, <1>6

-----------------------------------------------------------------------------
LEMMA InitInv == WorkerAssumption /\ Init => Inv
<1>. SUFFICES ASSUME WorkerAssumption, Init PROVE Inv
  OBVIOUS
<1>1. Shape
  BY DEF Init, Shape, WorkerAssumption, NoJob, NoMessage, NoRunner, NoDeliverer, JobRows, Messages,
         RunnerStates, DelivererStates, Statuses, RunnerPcs
<1>2. KernelShape(kernel)
  BY DEF Init, WorkerAssumption, KernelShape, NoWorker
<1>3. ASSUME NEW w \in Workers
      PROVE  JobSound(w) /\ MessageSound(w) /\ inferences[w] <= jobs[w].executions
  BY DEF Init, WorkerAssumption, JobSound, MessageSound, KindOf, Terminal, Ends, NoJob, NoMessage, NoWorker,
         NoDelivery
<1>4. ASSUME NEW r \in Runners PROVE RunnerSound(r)
  BY DEF Init, RunnerSound, NoRunner
<1>5. ASSUME NEW d \in Deliverers PROVE DelivererSound(d)
  BY DEF Init, DelivererSound, NoDeliverer
<1>. QED
  BY <1>1, <1>2, <1>3, <1>4, <1>5 DEF Inv

(* A deliverer's finding rests on the message and the log alone. *)
LEMMA FindingKept ==
    ASSUME NEW w \in Workers, kernel' = kernel, inbox'[w].kind = inbox[w].kind, ~Deferred(w)
    PROVE  ~Deferred(w)'
BY DEF Deferred, MessageEvent, Decision, Bound, Fresh, DependenciesCurrent

(* What is left alone stays sound. *)
LEMMA DelivererFrame ==
    ASSUME Inv, NEW d \in Deliverers, deliverers'[d] = deliverers[d], Shape',
           \A w \in Workers : inbox[w].kind # "none" => inbox'[w].kind = inbox[w].kind,
           (kernel' = kernel /\ head' = head) \/ head' = head + 1
    PROVE  DelivererSound(d)'
<1>. DEFINE m == deliverers[d].message
<1>1. deliverers[d] \in DelivererStates /\ head \in Nat /\ deliverers[d].head \in Nat
  BY DEF Inv, Shape, DelivererStates
<1>2. \A w \in deliverers'[d].todo : inbox'[w].kind # "none"
  BY <1>1 DEF Inv, DelivererSound, DelivererStates
<1>3. ASSUME deliverers[d].pc = "apply"
      PROVE  /\ m \in Workers
             /\ inbox'[m].kind # "none"
             /\ inbox'[m].kind = inbox[m].kind
             /\ deliverers[d].head <= head
             /\ deliverers[d].head = head => ~Deferred(m)
  BY <1>3 DEF Inv, DelivererSound
<1>4. ASSUME deliverers[d].pc = "apply", deliverers[d].head = head'
      PROVE  ~Deferred(m)'
  <2>1. kernel' = kernel /\ head' = head
    BY <1>1, <1>3, <1>4
  <2>. QED
    BY <1>3, <1>4, <2>1, FindingKept
<1>. QED
  BY <1>1, <1>2, <1>3, <1>4 DEF DelivererSound

LEMMA RunnerFrame ==
    ASSUME Inv, NEW r \in Runners, runners'[r] = runners[r], Shape',
           \A w \in Workers :
               /\ jobs'[w].owner = r =>
                    /\ jobs[w].owner = r
                    /\ jobs'[w].executions >= jobs[w].executions
                    /\ jobs[w].dispatched => jobs'[w].dispatched
               /\ jobs'[w].owner = r => inferences'[w] = inferences[w]
    PROVE  RunnerSound(r)'
<1>. DEFINE w == runners[r].worker
<1>1. CASE runners[r].pc = "idle"
  BY <1>1 DEF RunnerSound
<1>2. CASE runners[r].pc # "idle"
  <2>1. w \in Workers
    BY <1>2 DEF Inv, RunnerSound
  <2>2. /\ inferences[w] \in Nat /\ jobs[w].executions \in Nat /\ jobs'[w].executions \in Nat
    BY <2>1 DEF Inv, Shape, JobRows
  <2>3. RunnerSound(r)
    BY DEF Inv
  <2>. QED
    BY <1>2, <2>1, <2>2, <2>3 DEF RunnerSound
<1>. QED
  BY <1>1, <1>2

LEMMA MessageFrame ==
    ASSUME Inv, NEW w \in Workers, kernel'.workers[w] = kernel.workers[w],
           kernel'.deliveries[w] = kernel.deliveries[w], at'[w] = at[w],
           inbox'[w].applied = inbox[w].applied, inbox'[w].quarantined = inbox[w].quarantined,
           inbox[w].kind # "none" => inbox'[w].kind = inbox[w].kind
    PROVE  MessageSound(w)'
BY DEF Inv, MessageSound

(* The promise sees nothing of a step that leaves the outcomes and the reports. *)
Quiet(w) ==
    /\ OutcomeOf(jobs'[w]) = OutcomeOf(jobs[w])
    /\ ToldOf(inbox'[w], kernel'.workers[w]) = ToldOf(inbox[w], kernel.workers[w])

LEMMA QuietStep == (\A w \in Workers : Quiet(w)) => PromiseSteps
BY DEF Quiet, PromiseSteps, Promise!vars

(* The rows a claim, a request or an attempt may write over an open job. *)
Allowed(old, new) ==
    \/ OutcomeOf(new) = OutcomeOf(old)
    \/ OutcomeOf(old) = "open" /\ OutcomeOf(new) = "stopping"
    \/ OutcomeOf(old) = "open" /\ new.status \in Terminal
    \/ OutcomeOf(old) = "stopping" /\ new.status = "cancelled"

Open == {"pending", "running", "cancel_requested"}

LEMMA Recorded ==
    ASSUME Inv, NEW w \in Workers, NEW job \in JobRows, Record(w, job), Shape',
           UNCHANGED <<kernel, head, at, deliverers>>,
           jobs[w].status \in Open, job.status \in Open \cup Terminal,
           job.epoch > 0 => job.status \in {"cancel_requested", "cancelled"},
           Allowed(jobs[w], job)
    PROVE  /\ KernelShape(kernel')
           /\ \A v \in Workers : JobSound(v)' /\ MessageSound(v)'
           /\ \A d \in Deliverers : DelivererSound(d)'
           /\ PromiseSteps
<1>1. jobs \in [Workers -> JobRows] /\ inbox \in [Workers -> Messages]
  BY DEF Inv, Shape
<1>2. jobs' = [jobs EXCEPT ![w] = job]
  BY DEF Record
<1>3. jobs'[w] = job /\ \A v \in Workers \ {w} : jobs'[v] = jobs[v]
  BY <1>1, <1>2
<1>4. inbox[w].kind = "none"
  BY DEF Inv, JobSound, KindOf, Open, Terminal
<1>5. /\ inbox'[w].kind = KindOf(job.status)
      /\ inbox'[w].applied = inbox[w].applied
      /\ inbox'[w].quarantined = inbox[w].quarantined
  BY <1>1, <1>4 DEF Record, KindOf, Messages
<1>6. \A v \in Workers \ {w} : inbox'[v] = inbox[v]
  BY <1>1 DEF Record
<1>7. JobSound(w)'
  BY <1>3, <1>5 DEF Inv, JobSound, Open, Terminal
<1>8. \A v \in Workers \ {w} : JobSound(v)'
  BY <1>3, <1>6 DEF Inv, JobSound
<1>9. \A v \in Workers : MessageSound(v)'
  BY <1>4, <1>5, <1>6, MessageFrame
<1>10. \A d \in Deliverers : DelivererSound(d)'
  BY <1>4, <1>6, DelivererFrame
<1>11. PromiseSteps
  <2>. DEFINE out == [v \in Workers |-> OutcomeOf(jobs[v])]
              new == [v \in Workers |-> OutcomeOf(jobs'[v])]
  <2>1. \A v \in Workers : ToldOf(inbox'[v], kernel'.workers[v]) = ToldOf(inbox[v], kernel.workers[v])
    BY <1>5, <1>6 DEF ToldOf
  <2>2. [v \in Workers |-> ToldOf(inbox'[v], kernel'.workers[v])] = [v \in Workers |-> ToldOf(inbox[v], kernel.workers[v])]
    BY <2>1
  <2>3. new = [out EXCEPT ![w] = OutcomeOf(job)]
    BY <1>3, ZenonT(60)
  <2>4. out[w] = OutcomeOf(jobs[w])
    OBVIOUS
  <2>5. job.status \in Terminal => OutcomeOf(job) = job.status
    BY DEF OutcomeOf, Terminal
  <2>6. CASE OutcomeOf(job) = OutcomeOf(jobs[w])
    BY <1>3, <2>1, <2>6, QuietStep DEF Quiet
  <2>7. CASE OutcomeOf(jobs[w]) = "open" /\ OutcomeOf(job) = "stopping"
    <3>1. Promise!Stop(w)
      BY <2>2, <2>3, <2>4, <2>7, ZenonT(60) DEF Promise!Stop
    <3>. QED
      BY <3>1 DEF PromiseSteps, Promise!Next
  <2>8. CASE OutcomeOf(jobs[w]) = "open" /\ job.status \in Terminal
    <3>1. Promise!End(w)
      BY <2>2, <2>3, <2>4, <2>5, <2>8, ZenonT(60) DEF Promise!End, Promise!Ended, Terminal
    <3>. QED
      BY <3>1 DEF PromiseSteps, Promise!Next
  <2>9. CASE OutcomeOf(jobs[w]) = "stopping" /\ job.status = "cancelled"
    <3>1. Promise!End(w)
      BY <2>2, <2>3, <2>4, <2>5, <2>9 DEF Promise!End, Promise!Ended, Terminal
    <3>. QED
      BY <3>1 DEF PromiseSteps, Promise!Next
  <2>. QED
    BY <2>6, <2>7, <2>8, <2>9 DEF Allowed
<1>. QED
  BY <1>7, <1>8, <1>9, <1>10, <1>11 DEF Inv

-----------------------------------------------------------------------------
(* One lemma per kind of step: it keeps the invariant, is a step of the
   promise, and settles only what is its own. *)
Keeps == Inv' /\ PromiseSteps /\ SettlesItsOwn

LEMMA HostKeeps ==
    ASSUME WorkerAssumption, Inv, NEW e \in HostEvents, HostAppends(e)
    PROVE  Keeps
<1>1. /\ kernel'.workers = kernel.workers
      /\ kernel'.deliveries = kernel.deliveries
      /\ KernelShape(kernel')
  BY HostEffect DEF HostAppends, WorkerAssumption, Inv
<1>2. Shape'
  BY DEF HostAppends, Inv, Shape, WorkerAssumption
<1>3. \A w \in Workers : JobSound(w)' /\ MessageSound(w)'
  BY <1>1, MessageFrame DEF HostAppends, Inv, JobSound
<1>4. \A r \in Runners : RunnerSound(r)'
  BY DEF HostAppends, Inv, RunnerSound
<1>5. \A d \in Deliverers : DelivererSound(d)'
  BY <1>2, DelivererFrame DEF HostAppends
<1>6. PromiseSteps
  BY <1>1, QuietStep DEF HostAppends, Quiet
<1>7. SettlesItsOwn
  BY DEF HostAppends, SettlesItsOwn
<1>. QED
  BY <1>1, <1>2, <1>3, <1>4, <1>5, <1>6, <1>7 DEF Keeps, Inv, HostAppends

LEMMA SpawnKeeps ==
    ASSUME WorkerAssumption, Inv, NEW w \in Workers, Spawn(w)
    PROVE  Keeps
<1>. DEFINE e == SpawnEvent(w)
<1>1. e.type = "worker.spawned" /\ e.worker = w
  BY DEF SpawnEvent
<1>2. kernel.workers[w].status = "none"
  BY <1>1 DEF Spawn, Valid, MaySpawn
<1>3. Tells(kernel, kernel', w, {"running"}) /\ kernel'.deliveries = kernel.deliveries
  BY <1>1, SpawnEffect DEF Spawn, Inv
<1>4. jobs[w].status = "none"
  BY <1>2 DEF Inv, JobSound
<1>5. jobs \in [Workers -> JobRows] /\ jobs[w] \in JobRows
  BY DEF Inv, Shape
<1>6. /\ jobs'[w].status = "pending"
      /\ jobs'[w].epoch = jobs[w].epoch
      /\ jobs'[w].owner = jobs[w].owner
      /\ jobs'[w].executions = jobs[w].executions
      /\ jobs'[w].dispatched = jobs[w].dispatched
      /\ jobs'[w] \in JobRows
      /\ \A v \in Workers \ {w} : jobs'[v] = jobs[v]
      /\ jobs' \in [Workers -> JobRows]
  BY <1>5 DEF Spawn, JobRows, Statuses
<1>7. Shape'
  BY <1>6 DEF Spawn, Inv, Shape, WorkerAssumption
<1>8. inbox[w].kind = "none" /\ ~inbox[w].applied /\ jobs[w].epoch = 0
  BY <1>4, <1>5 DEF Inv, JobSound, MessageSound, KindOf, Terminal, JobRows
<1>9. JobSound(w)' /\ MessageSound(w)'
  BY <1>2, <1>3, <1>6, <1>8 DEF Spawn, Inv, JobSound, MessageSound, KindOf, Terminal, Tells, Ends
<1>10. ASSUME NEW v \in Workers \ {w} PROVE JobSound(v)' /\ MessageSound(v)'
  BY <1>3, <1>6, MessageFrame DEF Spawn, Inv, JobSound, Tells
<1>11. \A r \in Runners : RunnerSound(r)'
  <2>1. \A v \in Workers : /\ jobs'[v].owner = jobs[v].owner
                           /\ jobs'[v].executions = jobs[v].executions
                           /\ jobs'[v].dispatched = jobs[v].dispatched
    BY <1>6
  <2>. QED
    BY <2>1 DEF Spawn, Inv, RunnerSound
<1>12. \A d \in Deliverers : DelivererSound(d)'
  BY <1>7, DelivererFrame DEF Spawn
<1>13. \A v \in Workers : inferences'[v] <= jobs'[v].executions
  BY <1>6 DEF Spawn, Inv
<1>14. PromiseSteps
  <2>. DEFINE out == [v \in Workers |-> OutcomeOf(jobs[v])]
              new == [v \in Workers |-> OutcomeOf(jobs'[v])]
  <2>1. \A v \in Workers : ToldOf(inbox'[v], kernel'.workers[v]) = ToldOf(inbox[v], kernel.workers[v])
    BY <1>2, <1>3 DEF ToldOf, Tells, Spawn
  <2>2. [v \in Workers |-> ToldOf(inbox'[v], kernel'.workers[v])] = [v \in Workers |-> ToldOf(inbox[v], kernel.workers[v])]
    BY <2>1
  <2>3. OutcomeOf(jobs[w]) = "absent" /\ OutcomeOf(jobs'[w]) = "open"
    BY <1>4, <1>6 DEF OutcomeOf
  <2>4. new = [out EXCEPT ![w] = "open"] /\ out[w] = "absent"
    BY <1>6, <2>3, ZenonT(60)
  <2>5. Promise!Spawn(w)
    BY <2>2, <2>4, ZenonT(60) DEF Promise!Spawn
  <2>. QED
    BY <2>5 DEF PromiseSteps, Promise!Next
<1>15. SettlesItsOwn
  BY <1>6 DEF SettlesItsOwn
<1>. QED
  BY <1>3, <1>7, <1>9, <1>10, <1>11, <1>12, <1>13, <1>14, <1>15 DEF Keeps, Inv, Tells

LEMMA RequestKeeps ==
    ASSUME WorkerAssumption, Inv, NEW w \in Workers, RequestCancellation(w)
    PROVE  Keeps
<1>. DEFINE old == jobs[w]
            job == [old EXCEPT !.epoch = @ + 1,
                               !.status = IF @ = "pending" THEN "cancelled" ELSE "cancel_requested"]
<1>1. old \in JobRows /\ jobs \in [Workers -> JobRows] /\ inbox \in [Workers -> Messages]
  BY DEF Inv, Shape
<1>2. /\ job.status = IF old.status = "pending" THEN "cancelled" ELSE "cancel_requested"
      /\ job.epoch = old.epoch + 1
      /\ job.owner = old.owner
      /\ job.executions = old.executions
      /\ job.dispatched = old.dispatched
      /\ job \in JobRows
  <2>. HIDE DEF old
  <2>1. old.epoch + 1 \in Nat /\ old.status \in Statuses
    BY <1>1 DEF JobRows
  <2>2. PICK status \in Statuses : status = IF old.status = "pending" THEN "cancelled" ELSE "cancel_requested"
    BY DEF Statuses, Terminal
  <2>3. job = [old EXCEPT !.epoch = old.epoch + 1, !.status = status]
    BY <1>1, <2>2 DEF JobRows
  <2>. QED
    BY <1>1, <2>1, <2>2, <2>3, ZenonT(60) DEF JobRows
<1>3. Record(w, job) /\ old.status \in Open
  BY DEF RequestCancellation, Open
<1>. HIDE DEF job
<1>4. jobs'[w] = job /\ (\A v \in Workers \ {w} : jobs'[v] = jobs[v]) /\ jobs' \in [Workers -> JobRows]
  BY <1>1, <1>2, <1>3 DEF Record
<1>5. inbox' \in [Workers -> Messages]
  BY <1>1, <1>3 DEF Record, Messages
<1>6. Shape'
  BY <1>4, <1>5 DEF RequestCancellation, Inv, Shape
<1>7. Allowed(old, job)
  BY <1>2, <1>3 DEF Allowed, OutcomeOf, Terminal, Open
<1>8. /\ KernelShape(kernel')
      /\ \A v \in Workers : JobSound(v)' /\ MessageSound(v)'
      /\ \A d \in Deliverers : DelivererSound(d)'
      /\ PromiseSteps
  <2>1. job.status \in Open \cup Terminal /\ job.status \in {"cancel_requested", "cancelled"}
    BY <1>2 DEF Open, Terminal
  <2>. QED
    BY <1>2, <1>3, <1>6, <1>7, <2>1, Recorded DEF RequestCancellation
<1>9. \A r \in Runners : RunnerSound(r)'
  <2>1. \A v \in Workers : /\ jobs'[v].owner = jobs[v].owner
                           /\ jobs'[v].executions = jobs[v].executions
                           /\ jobs'[v].dispatched = jobs[v].dispatched
    BY <1>2, <1>4
  <2>. QED
    BY <2>1 DEF RequestCancellation, Inv, RunnerSound
<1>10. \A v \in Workers : inferences'[v] <= jobs'[v].executions
  BY <1>2, <1>4 DEF RequestCancellation, Inv
<1>11. SettlesItsOwn
  BY <1>2, <1>4 DEF SettlesItsOwn
<1>. QED
  BY <1>6, <1>8, <1>9, <1>10, <1>11 DEF Keeps, Inv

(* Steps that only move leases, runners or deliverers. *)
Alike ==
    /\ UNCHANGED <<kernel, head, at>>
    /\ \A w \in Workers :
         /\ jobs'[w].status = jobs[w].status
         /\ jobs'[w].epoch = jobs[w].epoch
         /\ jobs'[w].owner = jobs[w].owner
         /\ jobs'[w].executions = jobs[w].executions
         /\ jobs[w].dispatched => jobs'[w].dispatched
         /\ inbox'[w].kind = inbox[w].kind
         /\ inbox'[w].applied = inbox[w].applied
         /\ inbox'[w].quarantined = inbox[w].quarantined

LEMMA AlikeKeeps ==
    ASSUME Inv, Alike
    PROVE  /\ KernelShape(kernel')
           /\ \A w \in Workers : JobSound(w)' /\ MessageSound(w)'
           /\ PromiseSteps
           /\ SettlesItsOwn
<1>1. \A w \in Workers : JobSound(w)'
  BY DEF Inv, Alike, JobSound
<1>2. \A w \in Workers : MessageSound(w)'
  BY MessageFrame DEF Alike
<1>3. PromiseSteps
  BY QuietStep DEF Alike, Quiet, OutcomeOf, ToldOf
<1>4. SettlesItsOwn
  BY DEF Alike, SettlesItsOwn
<1>. QED
  BY <1>1, <1>2, <1>3, <1>4 DEF Inv, Alike

LEMMA LeaseKeeps ==
    ASSUME Inv, NEW w \in Workers, LeaseExpires(w) \/ DeliveryLeaseExpires(w)
    PROVE  Keeps
<1>1. jobs \in [Workers -> JobRows] /\ inbox \in [Workers -> Messages]
  BY DEF Inv, Shape
<1>2. Shape' /\ Alike
  <2>1. CASE LeaseExpires(w)
    BY <1>1, <2>1, ZenonT(60) DEF LeaseExpires, Inv, Shape, Alike, JobRows
  <2>2. CASE DeliveryLeaseExpires(w)
    BY <1>1, <2>2, ZenonT(120) DEF DeliveryLeaseExpires, Inv, Shape, Alike, Messages
  <2>. QED
    BY <2>1, <2>2
<1>3. UNCHANGED <<runners, deliverers, inferences>>
  BY DEF LeaseExpires, DeliveryLeaseExpires
<1>4. \A r \in Runners : RunnerSound(r)'
  BY <1>2, <1>3 DEF Inv, RunnerSound, Alike
<1>5. \A d \in Deliverers : DelivererSound(d)'
  BY <1>2, <1>3, DelivererFrame DEF Alike
<1>6. \A v \in Workers : inferences'[v] <= jobs'[v].executions
  BY <1>2, <1>3 DEF Inv, Alike
<1>. QED
  BY <1>2, <1>4, <1>5, <1>6, AlikeKeeps DEF Keeps, Inv

(* A deliverer that throws, stops or goes on with what it claimed. *)
LEMMA Delivering ==
    ASSUME Inv, NEW d \in Deliverers, NEW next \in DelivererStates, Shape',
           deliverers' = [deliverers EXCEPT ![d] = next], next.pc # "apply",
           \A w \in next.todo : inbox'[w].kind # "none",
           \A w \in Workers : inbox[w].kind # "none" => inbox'[w].kind = inbox[w].kind,
           (kernel' = kernel /\ head' = head) \/ head' = head + 1
    PROVE  \A c \in Deliverers : DelivererSound(c)'
<1>1. deliverers'[d] = next /\ \A c \in Deliverers \ {d} : deliverers'[c] = deliverers[c]
  BY DEF Inv, Shape
<1>2. DelivererSound(d)'
  BY <1>1 DEF DelivererSound
<1>3. ASSUME NEW c \in Deliverers \ {d} PROVE DelivererSound(c)'
  BY <1>1, DelivererFrame
<1>. QED
  BY <1>2, <1>3

LEMMA LoadsNext ==
    ASSUME WorkerAssumption, NEW rest \in SUBSET Workers
    PROVE  LET next == [NoDeliverer EXCEPT !.pc = "load", !.todo = rest]
           IN  next \in DelivererStates /\ next.pc = "load" /\ next.todo = rest
<1>1. 0 \in 0..MaxHead
  BY DEF WorkerAssumption
<1>2. NoDeliverer \in DelivererStates
  BY <1>1 DEF NoDeliverer, DelivererStates
<1>. QED
  BY <1>2, ZenonT(60) DEF DelivererStates

LEMMA ContinuesWith ==
    ASSUME Inv, WorkerAssumption, NEW d \in Deliverers, NEW w, Continues(d, w)
    PROVE  \E next \in DelivererStates :
              /\ deliverers' = [deliverers EXCEPT ![d] = next]
              /\ next.pc # "apply"
              /\ next.todo \subseteq deliverers[d].todo
<1>. DEFINE next == IF deliverers[d].todo = {w} THEN NoDeliverer
                    ELSE [NoDeliverer EXCEPT !.pc = "load", !.todo = deliverers[d].todo \ {w}]
<1>1. deliverers \in [Deliverers -> DelivererStates] /\ deliverers[d].todo \subseteq Workers
  BY DEF Inv, Shape, DelivererStates
<1>2. deliverers' = [deliverers EXCEPT ![d] = next]
  BY <1>1 DEF Continues
<1>3. /\ next \in DelivererStates
      /\ next.pc # "apply"
      /\ next.todo \subseteq deliverers[d].todo
  <2>. DEFINE rest == deliverers[d].todo \ {w}
  <2>2. rest \in SUBSET Workers /\ 0 \in 0..MaxHead
    BY <1>1 DEF WorkerAssumption
  <2>3. CASE deliverers[d].todo = {w}
    BY <2>2, <2>3 DEF NoDeliverer, DelivererStates
  <2>4. CASE deliverers[d].todo # {w}
    BY <2>2, <2>4, LoadsNext, ZenonT(60)
  <2>. QED
    BY <2>3, <2>4
<1>. QED
  BY <1>2, <1>3, ZenonT(60)

LEMMA ThrowsWith ==
    ASSUME WorkerAssumption
    PROVE  NoDeliverer \in DelivererStates /\ NoDeliverer.pc # "apply" /\ NoDeliverer.todo = {}
BY DEF NoDeliverer, DelivererStates, WorkerAssumption

LEMMA DelivererQuietKeeps ==
    ASSUME Inv, WorkerAssumption, NEW d \in Deliverers, NEW w,
           Load(d, w) \/ ApplyReplay(d) \/ ApplyFails(d) \/ DelivererCrashes(d)
    PROVE  Keeps
<1>1. UNCHANGED <<kernel, head, at, jobs, inbox, runners, inferences>>
  BY DEF Load, ApplyReplay, ApplyFails, DelivererCrashes
<1>2. Alike
  BY <1>1 DEF Alike
<1>. DEFINE Finds == [deliverers[d] EXCEPT !.pc = "apply", !.message = w, !.head = head]
<1>3. \/ Throws(d)
      \/ \E v : Continues(d, v)
      \/ /\ w \in deliverers[d].todo
         /\ ~Deferred(w)
         /\ deliverers' = [deliverers EXCEPT ![d] = Finds]
  BY DEF Load, ApplyReplay, ApplyFails, DelivererCrashes
<1>4. Shape' /\ \A c \in Deliverers : DelivererSound(c)'
  <2>0. deliverers \in [Deliverers -> DelivererStates] /\ deliverers[d] \in DelivererStates /\ head \in 0..MaxHead
    BY DEF Inv, Shape
  <2>1. \A v \in deliverers[d].todo : inbox'[v].kind # "none"
    BY <1>1 DEF Inv, DelivererSound
  <2>2. ASSUME NEW next \in DelivererStates, deliverers' = [deliverers EXCEPT ![d] = next]
        PROVE  Shape'
    BY <1>1, <2>0, <2>2 DEF Inv, Shape
  <2>3. CASE Throws(d)
    BY <1>1, <2>2, <2>3, ThrowsWith, Delivering, ZenonT(60) DEF Throws
  <2>4. ASSUME NEW v, Continues(d, v) PROVE Shape' /\ \A c \in Deliverers : DelivererSound(c)'
    <3>1. PICK next \in DelivererStates : /\ deliverers' = [deliverers EXCEPT ![d] = next]
                                          /\ next.pc # "apply"
                                          /\ next.todo \subseteq deliverers[d].todo
      BY <2>4, ContinuesWith
    <3>. QED
      BY <1>1, <2>1, <2>2, <3>1, Delivering, ZenonT(60)
  <2>5. CASE /\ w \in deliverers[d].todo
             /\ ~Deferred(w)
             /\ deliverers' = [deliverers EXCEPT ![d] = Finds]
    <3>0. w \in Workers
      BY <2>0, <2>5 DEF DelivererStates
    <3>1. /\ Finds \in DelivererStates
          /\ Finds.pc = "apply" /\ Finds.message = w /\ Finds.head = head
          /\ Finds.todo = deliverers[d].todo
      BY <2>0, <3>0, ZenonT(60) DEF DelivererStates
    <3>. HIDE DEF Finds
    <3>2. deliverers'[d] = Finds /\ \A c \in Deliverers \ {d} : deliverers'[c] = deliverers[c]
      BY <2>0, <2>5
    <3>3. Shape'
      BY <2>2, <2>5, <3>1, ZenonT(60)
    <3>4. ~Deferred(w)'
      BY <1>1, <2>5, <3>0, FindingKept
    <3>5. DelivererSound(d)'
      BY <1>1, <2>0, <2>1, <2>5, <3>0, <3>1, <3>2, <3>4 DEF DelivererSound
    <3>6. ASSUME NEW c \in Deliverers \ {d} PROVE DelivererSound(c)'
      BY <1>1, <3>2, <3>3, DelivererFrame
    <3>. QED
      BY <3>3, <3>5, <3>6
  <2>. QED
    BY <1>3, <2>3, <2>4, <2>5
<1>5. \A r \in Runners : RunnerSound(r)'
  BY <1>1 DEF Inv, RunnerSound
<1>. QED
  BY <1>1, <1>2, <1>4, <1>5, AlikeKeeps DEF Keeps, Inv

LEMMA ClaimInboxKeeps ==
    ASSUME Inv, WorkerAssumption, NEW d \in Deliverers, ClaimInbox(d)
    PROVE  Keeps
<1>. DEFINE ready == {w \in Workers : Waiting(inbox[w]) /\ ~Spent(inbox[w])}
            gone == {w \in Workers : Waiting(inbox[w]) /\ Spent(inbox[w])}
            next == IF ready = {} THEN NoDeliverer ELSE [NoDeliverer EXCEPT !.pc = "load", !.todo = ready]
<1>1. UNCHANGED <<kernel, head, at, jobs, runners, inferences>>
  BY ZenonT(60) DEF ClaimInbox
<1>2. deliverers' = [deliverers EXCEPT ![d] = next]
  BY ZenonT(60) DEF ClaimInbox
<1>3. \A w \in Workers : inbox[w] \in Messages
  BY DEF Inv, Shape
<1>4. ASSUME NEW w \in Workers
      PROVE  /\ inbox'[w] \in Messages
             /\ inbox'[w].kind = inbox[w].kind
             /\ inbox'[w].applied = inbox[w].applied
             /\ inbox'[w].quarantined = (inbox[w].quarantined \/ w \in gone)
  <2>1. inbox'[w] = IF w \in ready THEN [inbox[w] EXCEPT !.token = d, !.live = TRUE, !.count = @ + 1]
                    ELSE IF Waiting(inbox[w]) THEN [inbox[w] EXCEPT !.quarantined = TRUE, !.token = None]
                    ELSE inbox[w]
    BY ZenonT(60) DEF ClaimInbox
  <2>2. CASE w \in ready
    <3>1. inbox[w].count + 1 \in 0..MaxDeliveries
      BY <1>3, <2>2 DEF Spent, Messages, WorkerAssumption
    <3>2. w \notin gone
      BY <2>2
    <3>. QED
      BY <1>3, <2>1, <2>2, <3>1, <3>2, ZenonT(60) DEF Messages
  <2>3. CASE w \in gone
    BY <1>3, <2>1, <2>3, ZenonT(60) DEF Messages
  <2>4. CASE w \notin ready \cup gone
    BY <1>3, <2>1, <2>4, ZenonT(60) DEF Messages
  <2>. QED
    BY <2>2, <2>3, <2>4
<1>5. DOMAIN inbox' = Workers /\ inbox' \in [Workers -> Messages]
  BY <1>4, ZenonT(60) DEF ClaimInbox
<1>6. /\ next \in DelivererStates
      /\ next.pc # "apply"
      /\ next.todo \subseteq ready
  <2>2. ready \in SUBSET Workers /\ 0 \in 0..MaxHead
    BY DEF WorkerAssumption
  <2>. HIDE DEF ready
  <2>3. CASE ready = {}
    BY <2>2, <2>3 DEF NoDeliverer, DelivererStates
  <2>4. CASE ready # {}
    BY <2>2, <2>4, LoadsNext, ZenonT(60)
  <2>. QED
    BY <2>3, <2>4
<1>. HIDE DEF next
<1>7. Shape'
  BY <1>1, <1>2, <1>5, <1>6 DEF Inv, Shape
<1>8. \A w \in ready : inbox'[w].kind # "none"
  BY <1>4 DEF Waiting
<1>9. \A c \in Deliverers : DelivererSound(c)'
  BY <1>1, <1>2, <1>4, <1>6, <1>7, <1>8, Delivering, ZenonT(60)
<1>10. ASSUME NEW w \in gone
       PROVE  ~inbox[w].applied /\ ~inbox[w].quarantined /\ inbox[w].kind # "none"
  BY DEF Waiting
<1>11. \A w \in Workers : JobSound(w)' /\ MessageSound(w)'
  BY <1>1, <1>4, <1>10, ZenonT(120) DEF Inv, JobSound, MessageSound
<1>12. PromiseSteps
  <2>1. \A w \in Workers : ToldOf(inbox'[w], kernel'.workers[w]) =
                           IF w \in gone THEN "never" ELSE ToldOf(inbox[w], kernel.workers[w])
    <3>. HIDE DEF gone
    <3>. QED
      BY <1>1, <1>4, ZenonT(60) DEF ToldOf
  <2>2. ASSUME NEW w \in gone
        PROVE  ToldOf(inbox[w], kernel.workers[w]) = "nothing" /\ OutcomeOf(jobs[w]) \in Terminal
    <3>1. kernel.workers[w].status \in {"none", "running"}
      BY <1>10 DEF Inv, MessageSound, KernelShape
    <3>2. jobs[w].status \in Terminal
      BY <1>10 DEF Inv, JobSound, KindOf, Terminal
    <3>. QED
      BY <1>10, <3>1, <3>2 DEF ToldOf, OutcomeOf, Terminal
  <2>3. Promise!Abandon(gone)
    <3>. HIDE DEF gone
    <3>1. gone \subseteq Workers
      BY DEF gone
    <3>. QED
      BY <1>1, <2>1, <2>2, <3>1 DEF Promise!Abandon, Promise!Ended, Terminal
  <2>4. gone \in SUBSET Workers
    OBVIOUS
  <2>. QED
    BY <2>3, <2>4 DEF PromiseSteps, Promise!Next
<1>13. \A r \in Runners : RunnerSound(r)'
  BY <1>1, ZenonT(60) DEF Inv, RunnerSound
<1>14. SettlesItsOwn
  BY <1>1 DEF SettlesItsOwn
<1>. QED
  BY <1>1, <1>7, <1>9, <1>11, <1>12, <1>13, <1>14 DEF Keeps, Inv

LEMMA ApplyKeeps ==
    ASSUME Inv, WorkerAssumption, NEW d \in Deliverers, Apply(d)
    PROVE  Keeps
<1>0. PICK w \in Workers : w = deliverers[d].message
  BY DEF Apply, Inv, DelivererSound
<1>. DEFINE e == MessageEvent(w)
<1>1. UNCHANGED <<jobs, runners, inferences>> /\ head' = head + 1
  BY DEF Apply
<1>2. w \in Workers /\ inbox[w].kind # "none" /\ ~Deferred(w)
  BY <1>0 DEF Apply, MayApply, Inv, DelivererSound
<1>3. at[w] = 0 /\ ~inbox[w].quarantined
  BY <1>0 DEF Apply, MayApply, QuarantineValid
<1>4. ~inbox[w].applied /\ jobs[w].status \in Terminal /\ inbox[w].kind = KindOf(jobs[w].status)
  <2>1. MessageSound(w) /\ JobSound(w)
    BY <1>2 DEF Inv
  <2>2. ~inbox[w].applied
    BY <1>3, <2>1, ZenonT(60) DEF MessageSound
  <2>. QED
    BY <1>2, <2>1, <2>2 DEF JobSound, KindOf, Terminal
<1>5. /\ kernel.workers[w].status = "running"
      /\ kernel.deliveries[w].status \notin {"accepted", "rejected"}
  BY <1>2, <1>4 DEF Inv, MessageSound, JobSound, KernelShape, Terminal, Ends
<1>. DEFINE ends == IF jobs[w].status = "succeeded" THEN {"completed", "superseded"} ELSE {jobs[w].status}
<1>6. Tells(kernel, kernel', w, ends)
  <2>1. kernel' = Effect(kernel, e) /\ KernelShape(kernel)
    BY <1>0 DEF Apply, Inv
  <2>2. CASE jobs[w].status = "succeeded"
    <3>1. inbox[w].kind = "result"
      BY <1>4, <2>2 DEF KindOf
    <3>2. e.type = "worker.result_delivered" /\ e.worker = w /\ e.delivery = w
      BY <3>1 DEF MessageEvent
    <3>3. Decision(kernel, e) # "deferred"
      BY <1>2, <3>1 DEF Deferred
    <3>. HIDE DEF e
    <3>. QED
      BY <1>2, <1>5, <2>1, <2>2, <3>2, <3>3, DeliverEffect
  <2>3. CASE jobs[w].status # "succeeded"
    <3>1. inbox[w].kind # "result"
      BY <1>4, <2>3 DEF KindOf
    <3>2. e.type = "worker.finished" /\ e.worker = w /\ e.status = jobs[w].status
      BY <3>1 DEF MessageEvent
    <3>3. jobs[w].status \in Ends
      BY <1>4, <2>3 DEF Ends, Terminal
    <3>. HIDE DEF e
    <3>. QED
      BY <1>2, <2>1, <2>3, <3>2, <3>3, FinishEffect
  <2>. QED
    BY <2>2, <2>3
<1>. HIDE DEF e
<1>7. /\ inbox'[w].applied = TRUE
      /\ inbox'[w].quarantined = inbox[w].quarantined
      /\ inbox'[w].kind = inbox[w].kind
      /\ \A v \in Workers \ {w} : inbox'[v] = inbox[v]
      /\ inbox' \in [Workers -> Messages]
  <2>1. inbox \in [Workers -> Messages] /\ inbox[w] \in Messages
    BY <1>2 DEF Inv, Shape
  <2>. DEFINE old == inbox[w]
              new == [old EXCEPT !.applied = TRUE, !.token = None, !.live = FALSE]
  <2>2. inbox' = [inbox EXCEPT ![w] = new]
    BY <1>0, <2>1, ZenonT(60) DEF Apply
  <2>3. new.applied = TRUE /\ new.quarantined = old.quarantined /\ new.kind = old.kind /\ new \in Messages
    <3>. HIDE DEF old
    <3>1. old \in Messages
      BY <2>1 DEF old
    <3>. QED
      BY <3>1, ZenonT(60) DEF Messages
  <2>. HIDE DEF new
  <2>. QED
    BY <1>2, <2>1, <2>2, <2>3
<1>8. at' = [at EXCEPT ![w] = head + 1] /\ head + 1 \in 1..MaxHead
  BY <1>0 DEF Apply, Inv, Shape, WorkerAssumption
<1>9. at'[w] # 0 /\ (\A v \in Workers \ {w} : at'[v] = at[v]) /\ at' \in [Workers -> 0..MaxHead]
  BY <1>2, <1>8 DEF Inv, Shape
<1>10. PICK next \in DelivererStates : /\ deliverers' = [deliverers EXCEPT ![d] = next]
                                       /\ next.pc # "apply"
                                       /\ next.todo \subseteq deliverers[d].todo
  BY ContinuesWith DEF Apply
<1>11. Shape'
  BY <1>1, <1>7, <1>8, <1>9, <1>10, ZenonT(60) DEF Inv, Shape
<1>12. \A v \in Workers : inbox'[v].kind = inbox[v].kind
  BY <1>7
<1>13. \A c \in Deliverers : DelivererSound(c)'
  <2>1. \A v \in next.todo : inbox'[v].kind # "none"
    BY <1>7, <1>10 DEF Inv, DelivererSound, DelivererStates
  <2>. QED
    BY <1>1, <1>10, <1>11, <1>12, <2>1, Delivering, ZenonT(60)
<1>14. kernel'.workers[w].status \in ends /\ ends \subseteq Ends
  BY <1>4, <1>6 DEF Tells, Terminal, Ends
<1>15. JobSound(w)' /\ MessageSound(w)'
  <2>1. JobSound(w) /\ inbox'[w].applied /\ ~inbox'[w].quarantined /\ inbox'[w].kind # "none"
    BY <1>2, <1>3, <1>7 DEF Inv
  <2>2. kernel'.workers[w].status \in Ends
    BY <1>14
  <2>3. MessageSound(w)'
    BY <1>9, <2>1, <2>2, ZenonT(60) DEF MessageSound
  <2>4. JobSound(w)'
    BY <1>1, <1>5, <1>7, <2>1, <2>2 DEF JobSound, Ends
  <2>. QED
    BY <2>3, <2>4
<1>16. ASSUME NEW v \in Workers \ {w} PROVE JobSound(v)' /\ MessageSound(v)'
  BY <1>1, <1>6, <1>7, <1>9, MessageFrame, ZenonT(120) DEF Inv, JobSound, Tells
<1>17. \A r \in Runners : RunnerSound(r)'
  BY <1>1, ZenonT(60) DEF Inv, RunnerSound
<1>18. PromiseSteps
  <2>. DEFINE said == [v \in Workers |-> ToldOf(inbox[v], kernel.workers[v])]
              says == [v \in Workers |-> ToldOf(inbox'[v], kernel'.workers[v])]
              new == ToldOf(inbox'[w], kernel'.workers[w])
  <2>1. \A v \in Workers \ {w} : ToldOf(inbox'[v], kernel'.workers[v]) = ToldOf(inbox[v], kernel.workers[v])
    BY <1>6, <1>7 DEF Tells
  <2>2. says = [said EXCEPT ![w] = new]
    <3>. HIDE DEF new
    <3>. QED
      BY <1>2, <2>1, ZenonT(60) DEF new
  <2>3. said[w] = "nothing"
    BY <1>2, <1>3, <1>5 DEF ToldOf
  <2>4. OutcomeOf(jobs[w]) = jobs[w].status
    BY <1>4 DEF OutcomeOf, Terminal
  <2>5. new \in IF jobs[w].status = "succeeded" THEN {"accepted", "refused"} ELSE {jobs[w].status}
    BY <1>3, <1>4, <1>7, <1>14 DEF ToldOf, Terminal
  <2>6. Promise!Tell(w)
    <3>. DEFINE out == [v \in Workers |-> OutcomeOf(jobs[v])]
    <3>1. out[w] = jobs[w].status /\ jobs[w].status \in Promise!Ended
      BY <1>2, <1>4, <2>4 DEF Promise!Ended, Terminal
    <3>2. [v \in Workers |-> OutcomeOf(jobs'[v])] = out
      BY <1>1
    <3>. HIDE DEF new, said, says, out
    <3>3. \E t \in IF out[w] = "succeeded" THEN {"accepted", "refused"} ELSE {out[w]} :
             says = [said EXCEPT ![w] = t]
      BY <2>2, <2>5, <3>1, ZenonT(60)
    <3>. QED
      BY <2>3, <3>1, <3>2, <3>3, ZenonT(60) DEF Promise!Tell, says, said, out
  <2>. QED
    BY <1>2, <2>6 DEF PromiseSteps, Promise!Next
<1>19. SettlesItsOwn
  BY <1>1 DEF SettlesItsOwn
<1>. QED
  <2>1. KernelShape(kernel')
    BY <1>6 DEF Tells
  <2>2. \A v \in Workers : JobSound(v)' /\ MessageSound(v)' /\ inferences'[v] <= jobs'[v].executions
    BY <1>1, <1>15, <1>16 DEF Inv
  <2>. QED
    BY <1>11, <1>13, <1>17, <1>18, <1>19, <2>1, <2>2 DEF Keeps, Inv

=============================================================================
