------------------------- MODULE VoiceWorkersProofs --------------------------
(***************************************************************************)
(* Proofs about VoiceWorkers: for any number of workers, runners and       *)
(* deliverers, whatever the conversation does beside them.                 *)
(***************************************************************************)
EXTENDS VoiceWorkersSteps

(* The time the provers have for a step that names none itself. *)
USE SMTT(60), ZenonT(60)

-----------------------------------------------------------------------------
(* The rows a claim and a settlement write. *)
LEMMA SettledRow ==
    ASSUME NEW job \in JobRows, NEW status \in Terminal
    PROVE  /\ Settled(job, status) \in JobRows
           /\ Settled(job, status).status = status
           /\ Settled(job, status).owner = None
           /\ Settled(job, status).epoch = job.epoch
           /\ Settled(job, status).executions = job.executions
           /\ Settled(job, status).dispatched = job.dispatched
<1>1. status \in Statuses
  BY DEF Statuses
<1>. QED
  BY <1>1, ZenonT(60) DEF Settled, JobRows

LEMMA ClaimedRow ==
    ASSUME WorkerAssumption, NEW job \in JobRows, NEW r \in Runners, ~Exhausted(job)
    PROVE  /\ Claimed(job, r) \in JobRows
           /\ Claimed(job, r).status = "running"
           /\ Claimed(job, r).owner = r
           /\ Claimed(job, r).epoch = job.epoch
           /\ Claimed(job, r).executions = job.executions + 1
<1>1. job.executions + 1 \in 0..MaxExecutions
  BY DEF Exhausted, JobRows, WorkerAssumption
<1>2. "running" \in Statuses
  BY DEF Statuses
<1>. QED
  BY <1>1, <1>2, ZenonT(60) DEF Claimed, JobRows

(* An open job is settled as the request to stop demands, and no runner's
   attempt is in progress on it afterwards. *)
LEMMA SettlementKeeps ==
    ASSUME WorkerAssumption, Inv, NEW w \in Workers, NEW status \in Terminal, jobs[w].status \in Open,
           jobs[w].status = "cancel_requested" => status = "cancelled",
           Record(w, Settled(jobs[w], status)),
           UNCHANGED <<kernel, head, at, deliverers, inferences>>,
           runners' \in [Runners -> RunnerStates],
           \A r \in Runners : runners'[r] = runners[r] \/ runners'[r] = NoRunner
    PROVE  Inv' /\ PromiseSteps
<1>. DEFINE job == Settled(jobs[w], status)
<1>1. jobs \in [Workers -> JobRows] /\ jobs[w] \in JobRows /\ inbox \in [Workers -> Messages]
  BY DEF Inv, Shape
<1>2. /\ job \in JobRows
      /\ job.status = status
      /\ job.owner = None
      /\ job.epoch = jobs[w].epoch
      /\ job.executions = jobs[w].executions
      /\ job.dispatched = jobs[w].dispatched
  BY <1>1, SettledRow
<1>. HIDE DEF job
<1>3. Record(w, job)
  BY DEF job
<1>4. jobs'[w] = job /\ (\A v \in Workers \ {w} : jobs'[v] = jobs[v]) /\ jobs' \in [Workers -> JobRows]
  BY <1>1, <1>2, <1>3 DEF Record
<1>5. inbox' \in [Workers -> Messages]
  BY <1>1, <1>3 DEF Record, Messages
<1>6. Shape'
  BY <1>4, <1>5 DEF Inv, Shape
<1>7. Allowed(jobs[w], job)
  BY <1>2 DEF Allowed, OutcomeOf, Terminal, Open
<1>8. job.epoch > 0 => job.status \in {"cancel_requested", "cancelled"}
  BY <1>2, ZenonT(60) DEF Inv, JobSound, Open
<1>9. /\ KernelShape(kernel')
      /\ \A v \in Workers : JobSound(v)' /\ MessageSound(v)'
      /\ \A d \in Deliverers : DelivererSound(d)'
      /\ PromiseSteps
  BY <1>2, <1>3, <1>6, <1>7, <1>8, Recorded
<1>10. ASSUME NEW r \in Runners PROVE RunnerSound(r)'
  <2>1. CASE runners'[r] = NoRunner
    BY <2>1 DEF RunnerSound, NoRunner
  <2>2. CASE runners'[r] = runners[r]
    <3>0. r # None
      BY DEF WorkerAssumption
    <3>1. \A v \in Workers : /\ jobs'[v].owner = r => jobs[v].owner = r
                             /\ jobs'[v].executions = jobs[v].executions
                             /\ jobs'[v].dispatched = jobs[v].dispatched
      BY <1>2, <1>4, <3>0
    <3>2. \A v \in Workers : jobs'[v].executions \in Nat
      BY <1>4 DEF JobRows
    <3>. QED
      <4>1. \A v \in Workers :
                /\ jobs'[v].owner = r =>
                     /\ jobs[v].owner = r
                     /\ jobs'[v].executions >= jobs[v].executions
                     /\ jobs[v].dispatched => jobs'[v].dispatched
                /\ jobs'[v].owner = r => inferences'[v] = inferences[v]
        BY <3>1, <3>2
      <4>. QED
        BY <1>6, <2>2, <4>1, RunnerFrame, ZenonT(60)
  <2>. QED
    BY <2>1, <2>2
<1>11. \A v \in Workers : inferences'[v] <= jobs'[v].executions
  BY <1>2, <1>4 DEF Inv
<1>. QED
  BY <1>6, <1>9, <1>10, <1>11 DEF Inv

LEMMA ClaimKeeps ==
    ASSUME WorkerAssumption, Inv, NEW r \in Runners, NEW w \in Workers, Claim(r, w)
    PROVE  Keeps
<1>1. UNCHANGED <<kernel, head, at, deliverers, inferences>> /\ runners[r].pc = "idle"
  BY DEF Claim
<1>2. /\ jobs \in [Workers -> JobRows] /\ jobs[w] \in JobRows
      /\ inbox \in [Workers -> Messages]
      /\ runners \in [Runners -> RunnerStates]
      /\ inferences[w] \in Nat /\ inferences[w] <= jobs[w].executions
  BY DEF Inv, Shape
<1>3. jobs[w].status \in Open
  BY DEF Claim, Candidate, Expired, Open
<1>4. ASSUME NEW status \in {"cancelled", "failed"}, Record(w, Settled(jobs[w], status)), UNCHANGED runners,
             jobs[w].status = "cancel_requested" => status = "cancelled"
      PROVE  Keeps
  <2>1. Inv' /\ PromiseSteps
    BY <1>1, <1>2, <1>3, <1>4, SettlementKeeps DEF Terminal
  <2>2. Settled(jobs[w], status).status = status
    BY <1>2, SettledRow DEF Terminal
  <2>3. SettlesItsOwn
    BY <1>2, <1>4, <2>2 DEF SettlesItsOwn, Record
  <2>. QED
    BY <2>1, <2>3 DEF Keeps
<1>5. ASSUME ~Exhausted(jobs[w]), jobs[w].status # "cancel_requested", Record(w, Claimed(jobs[w], r)),
             runners' = [runners EXCEPT ![r] = [pc |-> "verify", worker |-> w]]
      PROVE  Keeps
  <2>. DEFINE job == Claimed(jobs[w], r)
  <2>1. /\ job \in JobRows
        /\ job.status = "running"
        /\ job.owner = r
        /\ job.epoch = jobs[w].epoch
        /\ job.executions = jobs[w].executions + 1
    BY <1>2, <1>5, ClaimedRow
  <2>2. Record(w, job)
    BY <1>5
  <2>. HIDE DEF job
  <2>3. jobs'[w] = job /\ (\A v \in Workers \ {w} : jobs'[v] = jobs[v]) /\ jobs' \in [Workers -> JobRows]
    BY <1>2, <2>1, <2>2 DEF Record
  <2>4. inbox' \in [Workers -> Messages]
    BY <1>2, <2>2 DEF Record, Messages
  <2>5. [pc |-> "verify", worker |-> w] \in RunnerStates
    BY DEF RunnerStates, RunnerPcs
  <2>6. /\ runners' \in [Runners -> RunnerStates]
        /\ runners'[r].pc = "verify" /\ runners'[r].worker = w
        /\ \A q \in Runners \ {r} : runners'[q] = runners[q]
    BY <1>2, <1>5, <2>5
  <2>7. Shape'
    BY <1>1, <2>3, <2>4, <2>6 DEF Inv, Shape
  <2>8. Allowed(jobs[w], job)
    BY <1>3, <1>5, <2>1 DEF Allowed, OutcomeOf, Open
  <2>9. /\ KernelShape(kernel')
        /\ \A v \in Workers : JobSound(v)' /\ MessageSound(v)'
        /\ \A d \in Deliverers : DelivererSound(d)'
        /\ PromiseSteps
    <3>1. ~(jobs[w].epoch > 0)
      BY <1>3, <1>5 DEF Inv, JobSound, Open
    <3>. QED
      BY <1>1, <1>3, <2>1, <2>2, <2>7, <2>8, <3>1, Recorded, ZenonT(60) DEF Open
  <2>10. RunnerSound(r)'
    BY <1>1, <1>2, <2>1, <2>3, <2>6 DEF RunnerSound, JobRows
  <2>11. ASSUME NEW q \in Runners \ {r} PROVE RunnerSound(q)'
    <3>1. \A v \in Workers : jobs'[v].owner = q => jobs'[v] = jobs[v]
      BY <2>1, <2>3
    <3>2. \A v \in Workers : jobs'[v].executions \in Nat
      BY <2>3 DEF JobRows
    <3>. QED
      BY <1>1, <2>6, <2>7, <3>1, <3>2, RunnerFrame
  <2>12. \A v \in Workers : inferences'[v] <= jobs'[v].executions
    BY <1>1, <1>2, <2>1, <2>3 DEF Inv, JobRows
  <2>13. SettlesItsOwn
    BY <2>1, <2>3 DEF SettlesItsOwn
  <2>. QED
    BY <2>7, <2>9, <2>10, <2>11, <2>12, <2>13 DEF Keeps, Inv
<1>. QED
  BY <1>4, <1>5 DEF Claim

-----------------------------------------------------------------------------
(* The steps of a runner. *)
LEMMA RunnerType ==
    ASSUME Inv, NEW r \in Runners
    PROVE  /\ runners \in [Runners -> RunnerStates]
           /\ runners[r] \in RunnerStates
           /\ \A pc \in RunnerPcs : Goto(r, pc) =>
                /\ runners' \in [Runners -> RunnerStates]
                /\ runners'[r].pc = pc /\ runners'[r].worker = runners[r].worker
                /\ \A q \in Runners \ {r} : runners'[q] = runners[q]
           /\ Stops(r) =>
                /\ runners' \in [Runners -> RunnerStates]
                /\ runners'[r] = NoRunner
                /\ \A q \in Runners \ {r} : runners'[q] = runners[q]
<1>1. runners \in [Runners -> RunnerStates] /\ runners[r] \in RunnerStates
  BY DEF Inv, Shape
<1>2. NoRunner \in RunnerStates
  BY DEF NoRunner, RunnerStates, RunnerPcs
<1>3. ASSUME NEW pc \in RunnerPcs, Goto(r, pc)
      PROVE  /\ runners' \in [Runners -> RunnerStates]
             /\ runners'[r].pc = pc /\ runners'[r].worker = runners[r].worker
             /\ \A q \in Runners \ {r} : runners'[q] = runners[q]
  BY <1>1, <1>3 DEF Goto, RunnerStates
<1>. QED
  BY <1>1, <1>2, <1>3 DEF Stops

(* A runner that only moves on, to a point where nothing more is asked of it. *)
LEMMA MovesOn ==
    ASSUME Inv, NEW r \in Runners, UNCHANGED <<kernel, head, at, jobs, inbox, deliverers, inferences>>,
           runners' \in [Runners -> RunnerStates],
           \A q \in Runners \ {r} : runners'[q] = runners[q],
           RunnerSound(r)'
    PROVE  Keeps
<1>1. Shape' /\ Alike
  BY DEF Inv, Shape, Alike
<1>2. \A q \in Runners \ {r} : RunnerSound(q)'
  BY DEF Inv, RunnerSound
<1>3. \A d \in Deliverers : DelivererSound(d)'
  BY <1>1, DelivererFrame
<1>. QED
  BY <1>1, <1>2, <1>3, AlikeKeeps DEF Keeps, Inv

LEMMA MovingKeeps ==
    ASSUME Inv, NEW r \in Runners,
           Verify(r) \/ Report(r) \/ Errs(r) \/ ReadStatus(r) \/ Crash(r)
    PROVE  Keeps
<1>1. UNCHANGED <<kernel, head, at, jobs, inbox, deliverers, inferences>>
  BY DEF Verify, Report, Errs, ReadStatus, Crash
<1>2. /\ runners[r].pc # "idle"
      /\ \/ Stops(r)
         \/ \E pc \in {"failing", "cancelled", "failed"} : Goto(r, pc)
         \/ runners[r].pc = "verify" /\ Goto(r, "dispatch")
         \/ runners[r].pc = "report" /\ Goto(r, "settle")
  BY DEF Verify, Report, Errs, ReadStatus, Crash
<1>3. PICK w \in Workers : w = runners[r].worker
  BY <1>2 DEF Inv, RunnerSound
<1>4. RunnerSound(r)
  BY DEF Inv
<1>5. CASE Stops(r)
  <2>1. RunnerSound(r)'
    BY <1>5, RunnerType DEF RunnerSound, NoRunner
  <2>. QED
    BY <1>1, <1>5, <2>1, RunnerType, MovesOn
<1>6. ASSUME NEW pc \in {"failing", "cancelled", "failed"}, Goto(r, pc) PROVE Keeps
  <2>1. pc \in RunnerPcs
    BY DEF RunnerPcs
  <2>2. RunnerSound(r)'
    BY <1>3, <1>6, <2>1, RunnerType, ZenonT(60) DEF RunnerSound
  <2>. QED
    BY <1>1, <1>6, <2>1, <2>2, RunnerType, MovesOn
<1>7. CASE runners[r].pc = "verify" /\ Goto(r, "dispatch")
  <2>1. "dispatch" \in RunnerPcs
    BY DEF RunnerPcs
  <2>2. RunnerSound(r)'
    BY <1>1, <1>3, <1>4, <1>7, <2>1, RunnerType, ZenonT(60) DEF RunnerSound
  <2>. QED
    BY <1>1, <1>7, <2>1, <2>2, RunnerType, MovesOn
<1>8. CASE runners[r].pc = "report" /\ Goto(r, "settle")
  <2>1. "settle" \in RunnerPcs
    BY DEF RunnerPcs
  <2>2. RunnerSound(r)'
    BY <1>1, <1>3, <1>4, <1>8, <2>1, RunnerType, ZenonT(60) DEF RunnerSound
  <2>. QED
    BY <1>1, <1>8, <2>1, <2>2, RunnerType, MovesOn
<1>. QED
  BY <1>2, <1>5, <1>6, <1>7, <1>8, ZenonT(60)

(* The attempt that still owns the row marks it before it asks the provider. *)
LEMMA DispatchKeeps ==
    ASSUME Inv, NEW r \in Runners, Dispatch(r)
    PROVE  Keeps
<1>1. UNCHANGED <<kernel, head, at, inbox, deliverers, inferences>> /\ runners[r].pc = "dispatch"
  BY DEF Dispatch
<1>2. PICK w \in Workers : w = runners[r].worker
  BY <1>1 DEF Inv, RunnerSound
<1>3. RunnerSound(r)
  BY DEF Inv
<1>4. CASE Goto(r, "failing") /\ UNCHANGED jobs
  <2>1. "failing" \in RunnerPcs
    BY DEF RunnerPcs
  <2>2. RunnerSound(r)'
    BY <1>2, <1>4, <2>1, RunnerType DEF RunnerSound
  <2>. QED
    BY <1>1, <1>4, <2>1, <2>2, RunnerType, MovesOn
<1>5. CASE jobs' = [jobs EXCEPT ![w].dispatched = TRUE] /\ Goto(r, "infer")
  <2>1. "infer" \in RunnerPcs
    BY DEF RunnerPcs
  <2>2. jobs \in [Workers -> JobRows] /\ jobs[w] \in JobRows
    BY DEF Inv, Shape
  <2>3. /\ jobs' \in [Workers -> JobRows]
        /\ jobs'[w].dispatched = TRUE
        /\ jobs'[w].status = jobs[w].status
        /\ jobs'[w].epoch = jobs[w].epoch
        /\ jobs'[w].owner = jobs[w].owner
        /\ jobs'[w].executions = jobs[w].executions
        /\ \A v \in Workers \ {w} : jobs'[v] = jobs[v]
    BY <1>5, <2>2, ZenonT(60) DEF JobRows
  <2>4. /\ runners' \in [Runners -> RunnerStates]
        /\ runners'[r].pc = "infer" /\ runners'[r].worker = w
        /\ \A q \in Runners \ {r} : runners'[q] = runners[q]
    BY <1>2, <1>5, <2>1, RunnerType
  <2>5. Shape' /\ Alike
    BY <1>1, <2>3, <2>4 DEF Inv, Shape, Alike
  <2>6. RunnerSound(r)'
    BY <1>1, <1>2, <1>3, <2>3, <2>4, ZenonT(60) DEF RunnerSound
  <2>7. ASSUME NEW q \in Runners \ {r} PROVE RunnerSound(q)'
    <3>1. \A v \in Workers : jobs'[v].executions \in Nat
      BY <2>3 DEF JobRows
    <3>2. \A v \in Workers :
            /\ jobs'[v].owner = q =>
                 /\ jobs[v].owner = q
                 /\ jobs'[v].executions >= jobs[v].executions
                 /\ jobs[v].dispatched => jobs'[v].dispatched
            /\ jobs'[v].owner = q => inferences'[v] = inferences[v]
      BY <1>1, <2>5, <3>1 DEF Alike
    <3>3. runners'[q] = runners[q]
      BY <2>4
    <3>. QED
      BY <2>5, <3>2, <3>3, RunnerFrame, ZenonT(60)
  <2>8. \A d \in Deliverers : DelivererSound(d)'
    BY <1>1, <2>5, DelivererFrame
  <2>9. \A v \in Workers : inferences'[v] <= jobs'[v].executions
    BY <1>1, <2>5 DEF Inv, Alike
  <2>. QED
    BY <2>5, <2>6, <2>7, <2>8, <2>9, AlikeKeeps DEF Keeps, Inv
<1>. QED
  BY <1>2, <1>4, <1>5 DEF Dispatch

LEMMA InferKeeps ==
    ASSUME Inv, NEW r \in Runners, Infer(r)
    PROVE  Keeps
<1>1. UNCHANGED <<kernel, head, at, jobs, inbox, deliverers>> /\ runners[r].pc = "infer"
  BY DEF Infer
<1>2. PICK w \in Workers : w = runners[r].worker
  BY <1>1 DEF Inv, RunnerSound
<1>3. RunnerSound(r)
  BY DEF Inv
<1>4. CASE Goto(r, "failing") /\ UNCHANGED inferences
  <2>1. "failing" \in RunnerPcs
    BY DEF RunnerPcs
  <2>2. RunnerSound(r)'
    BY <1>2, <1>4, <2>1, RunnerType DEF RunnerSound
  <2>. QED
    BY <1>1, <1>4, <2>1, <2>2, RunnerType, MovesOn
<1>5. CASE jobs[w].owner = r /\ inferences' = [inferences EXCEPT ![w] = @ + 1] /\ Goto(r, "report")
  <2>1. "report" \in RunnerPcs
    BY DEF RunnerPcs
  <2>2. /\ inferences \in [Workers -> Nat]
        /\ inferences'[w] = inferences[w] + 1
        /\ \A v \in Workers \ {w} : inferences'[v] = inferences[v]
        /\ inferences' \in [Workers -> Nat]
    BY <1>5 DEF Inv, Shape
  <2>3. /\ runners' \in [Runners -> RunnerStates]
        /\ runners'[r].pc = "report" /\ runners'[r].worker = w
        /\ \A q \in Runners \ {r} : runners'[q] = runners[q]
    BY <1>2, <1>5, <2>1, RunnerType
  <2>4. Shape' /\ Alike
    BY <1>1, <2>2, <2>3 DEF Inv, Shape, Alike
  <2>5. inferences[w] < jobs[w].executions /\ jobs[w].dispatched /\ jobs[w].executions \in Nat
    BY <1>1, <1>2, <1>3, <1>5 DEF RunnerSound, Inv, Shape, JobRows
  <2>6. RunnerSound(r)'
    BY <1>1, <2>2, <2>3, <2>5 DEF RunnerSound
  <2>7. ASSUME NEW q \in Runners \ {r} PROVE RunnerSound(q)'
    <3>1. \A v \in Workers : jobs[v].owner = q => inferences'[v] = inferences[v]
      BY <1>5, <2>2
    <3>2. \A v \in Workers : jobs[v].executions \in Nat
      BY DEF Inv, Shape, JobRows
    <3>3. \A v \in Workers :
            /\ jobs'[v].owner = q =>
                 /\ jobs[v].owner = q
                 /\ jobs'[v].executions >= jobs[v].executions
                 /\ jobs[v].dispatched => jobs'[v].dispatched
            /\ jobs'[v].owner = q => inferences'[v] = inferences[v]
      BY <1>1, <3>1, <3>2
    <3>4. runners'[q] = runners[q]
      BY <2>3
    <3>. QED
      BY <2>4, <3>3, <3>4, RunnerFrame, ZenonT(60)
  <2>8. \A d \in Deliverers : DelivererSound(d)'
    BY <1>1, <2>4, DelivererFrame
  <2>9. \A v \in Workers : inferences'[v] <= jobs'[v].executions
    BY <1>1, <2>2, <2>5 DEF Inv
  <2>. QED
    BY <2>4, <2>6, <2>7, <2>8, <2>9, AlikeKeeps DEF Keeps, Inv
<1>. QED
  BY <1>2, <1>4, <1>5 DEF Infer, Renews

(* Only the owner of a live lease settles, and a success only by the attempt
   that was dispatched and asked the provider. *)
LEMMA SettleKeeps ==
    ASSUME WorkerAssumption, Inv, NEW r \in Runners, SettleSucceeded(r) \/ SettleOtherwise(r)
    PROVE  Keeps
<1>1. UNCHANGED <<kernel, head, at, deliverers, inferences>> /\ runners[r].pc \in {"settle", "cancelled", "failed"}
  BY DEF SettleSucceeded, SettleOtherwise
<1>2. PICK w \in Workers : w = runners[r].worker
  BY <1>1 DEF Inv, RunnerSound
<1>3. RunnerSound(r)
  BY DEF Inv
<1>. DEFINE pc == runners[r].pc
            status == IF pc = "settle" THEN "succeeded" ELSE pc
<1>4. \/ Stops(r) /\ MaySettle(r, jobs[w], status) /\ Record(w, Settled(jobs[w], status))
      \/ (Stops(r) \/ Goto(r, "failing")) /\ UNCHANGED <<jobs, inbox>>
  BY <1>2 DEF SettleSucceeded, SettleOtherwise
<1>5. CASE Stops(r) /\ MaySettle(r, jobs[w], status) /\ Record(w, Settled(jobs[w], status))
  <2>1. /\ runners' \in [Runners -> RunnerStates]
        /\ runners'[r] = NoRunner
        /\ \A q \in Runners \ {r} : runners'[q] = runners[q]
    BY <1>5, RunnerType
  <2>2. status \in Terminal
    BY <1>1 DEF Terminal
  <2>3. /\ jobs[w].owner = r
        /\ jobs[w].status \in Open
        /\ jobs[w].status = "cancel_requested" => status = "cancelled"
    BY <1>5 DEF MaySettle, Open
  <2>4. Inv' /\ PromiseSteps
    BY <1>1, <1>5, <2>1, <2>2, <2>3, SettlementKeeps, ZenonT(60)
  <2>5. \A v \in Workers \ {w} : jobs'[v] = jobs[v]
    BY <1>5 DEF Record, Inv, Shape
  <2>6. jobs'[w] = Settled(jobs[w], status) /\ Settled(jobs[w], status).status = status
    BY <1>5, <2>2, SettledRow DEF Record, Inv, Shape
  <2>7. status = "succeeded" => jobs[w].dispatched /\ inferences[w] > 0
    BY <1>1, <1>2, <1>3, <2>3, ZenonT(60) DEF RunnerSound
  <2>8. SettlesItsOwn
    BY <1>2, <2>1, <2>3, <2>5, <2>6, <2>7 DEF SettlesItsOwn, NoRunner
  <2>. QED
    BY <2>4, <2>8 DEF Keeps
<1>6. CASE (Stops(r) \/ Goto(r, "failing")) /\ UNCHANGED <<jobs, inbox>>
  <2>1. "failing" \in RunnerPcs
    BY DEF RunnerPcs
  <2>2. /\ runners' \in [Runners -> RunnerStates]
        /\ \A q \in Runners \ {r} : runners'[q] = runners[q]
        /\ \/ runners'[r] = NoRunner
           \/ runners'[r].pc = "failing" /\ runners'[r].worker = w
    BY <1>2, <1>6, <2>1, RunnerType
  <2>3. RunnerSound(r)'
    BY <2>2 DEF RunnerSound, NoRunner
  <2>. QED
    BY <1>1, <1>6, <2>2, <2>3, MovesOn
<1>. QED
  BY <1>4, <1>5, <1>6

LEMMA NextKeeps ==
    ASSUME WorkerAssumption, Inv, Next
    PROVE  Keeps
<1>1. ASSUME NEW e \in HostEvents, HostAppends(e) PROVE Keeps
  BY <1>1, HostKeeps
<1>2. ASSUME NEW w \in Workers, Spawn(w) \/ RequestCancellation(w) \/ LeaseExpires(w) \/ DeliveryLeaseExpires(w)
      PROVE  Keeps
  BY <1>2, SpawnKeeps, RequestKeeps, LeaseKeeps
<1>3. ASSUME NEW r \in Runners, NEW w \in Workers, Claim(r, w) PROVE Keeps
  BY <1>3, ClaimKeeps
<1>4. ASSUME NEW r \in Runners, RunnerStep(r) \/ Errs(r) \/ Crash(r) PROVE Keeps
  BY <1>4, MovingKeeps, DispatchKeeps, InferKeeps, SettleKeeps DEF RunnerStep
<1>5. ASSUME NEW d \in Deliverers, ClaimInbox(d) PROVE Keeps
  BY <1>5, ClaimInboxKeeps
<1>6. ASSUME NEW d \in Deliverers, Apply(d) PROVE Keeps
  BY <1>6, ApplyKeeps
<1>7. ASSUME NEW d \in Deliverers, ApplyReplay(d) \/ ApplyFails(d) \/ DelivererCrashes(d) PROVE Keeps
  BY <1>7, DelivererQuietKeeps
<1>8. ASSUME NEW d \in Deliverers, NEW w \in Workers, Load(d, w) PROVE Keeps
  BY <1>8, DelivererQuietKeeps
<1>. QED
  BY <1>1, <1>2, <1>3, <1>4, <1>5, <1>6, <1>7, <1>8 DEF Next

LEMMA StutterKeeps == Inv /\ UNCHANGED vars => Inv' /\ PromiseSteps /\ SettlesItsOwn
<1>. SUFFICES ASSUME Inv, UNCHANGED vars PROVE Inv' /\ PromiseSteps /\ SettlesItsOwn
  OBVIOUS
<1>1. Shape' /\ Alike
  BY DEF Inv, Shape, Alike, vars
<1>2. \A r \in Runners : RunnerSound(r)'
  BY DEF Inv, RunnerSound, vars
<1>3. \A d \in Deliverers : DelivererSound(d)'
  BY <1>1, DelivererFrame DEF vars
<1>. QED
  BY <1>1, <1>2, <1>3, AlikeKeeps DEF Inv, vars

-----------------------------------------------------------------------------
(* The inductive invariant, which every result below rests on. *)
THEOREM WorkersInvariant == ASSUME WorkerAssumption PROVE Spec => []Inv
<1>1. Init => Inv
  BY InitInv
<1>2. Inv /\ [Next]_vars => Inv'
  BY NextKeeps, StutterKeeps DEF Keeps
<1>. QED
  BY <1>1, <1>2, PTL DEF Spec

(* Rows, runners and deliverers are well formed in every reachable state. *)
THEOREM WorkersTyped == ASSUME WorkerAssumption PROVE Spec => []TypeOK
<1>1. Inv => TypeOK
  BY DEF Inv, Shape, TypeOK, JobRows, Messages, DelivererStates, Statuses
<1>. QED
  BY <1>1, WorkersInvariant, PTL

(* The provider is asked about a job at most as often as it may be executed,
   across any number of lost processes and reclaimed leases. *)
THEOREM InferencesStayBounded == ASSUME WorkerAssumption PROVE Spec => []InferencesBounded
<1>1. ASSUME Inv, NEW w \in Workers
      PROVE  inferences[w] <= jobs[w].executions /\ jobs[w].executions <= MaxExecutions
  <2>1. jobs[w].executions \in 0..MaxExecutions /\ inferences[w] \in Nat
    BY <1>1 DEF Inv, Shape, JobRows
  <2>2. inferences[w] <= jobs[w].executions
    BY <1>1 DEF Inv
  <2>. QED
    BY <2>1, <2>2 DEF WorkerAssumption
<1>2. Inv => InferencesBounded
  BY <1>1 DEF InferencesBounded
<1>. QED
  BY <1>2, WorkersInvariant, PTL

(* A worker that was asked to stop before it ended never delivers a result. *)
THEOREM StoppedWorkersNeverSucceed == ASSUME WorkerAssumption PROVE Spec => []CancelledNeverSucceeds
<1>1. Inv => CancelledNeverSucceeds
  BY DEF Inv, JobSound, CancelledNeverSucceeds
<1>. QED
  BY <1>1, WorkersInvariant, PTL

(* A message is applied exactly when its event is in the log and has decided
   about the worker, and a message that was given up is never applied. *)
THEOREM ApplicationsAreLogged == ASSUME WorkerAssumption PROVE Spec => []AppliedIsLogged
<1>1. ASSUME Inv PROVE AppliedIsLogged
  <2>. SUFFICES ASSUME NEW w \in Workers
                PROVE  /\ inbox[w].applied <=> at[w] # 0
                       /\ inbox[w].applied <=> kernel.workers[w].status \notin {"none", "running"}
                       /\ inbox[w].quarantined => ~inbox[w].applied
    BY DEF AppliedIsLogged
  <2>1. MessageSound(w)
    BY <1>1 DEF Inv
  <2>2. kernel.workers[w].status \in Ends <=> kernel.workers[w].status \notin {"none", "running"}
    BY <1>1 DEF Inv, KernelShape, Ends
  <2>. QED
    BY <2>1, <2>2, ZenonT(60) DEF MessageSound
<1>. QED
  BY <1>1, WorkersInvariant, PTL

(* A success settles only the attempt that was dispatched and reached the
   provider, and ends the runner that made it. *)
THEOREM SettledByItsOwnAttempt == ASSUME WorkerAssumption PROVE Spec => SettledByItsAttempt
<1>1. Inv /\ [Next]_vars => [SettlesItsOwn]_vars
  BY NextKeeps DEF Keeps
<1>. QED
  BY <1>1, WorkersInvariant, PTL DEF Spec, SettledByItsAttempt

(* Job rows, runners, inbox and log together implement WorkerPromise: every
   worker ends once, only as cancelled once it was asked to stop, and the
   conversation is told that end once and truthfully, or never. *)
THEOREM WorkersKeepThePromise == ASSUME WorkerAssumption PROVE Spec => ImplementsPromise
<1>1. Init => PromiseStarts
  <2>. SUFFICES ASSUME Init PROVE PromiseStarts
    OBVIOUS
  <2>1. \A w \in Workers : OutcomeOf(jobs[w]) = "absent"
    BY DEF Init, NoJob, OutcomeOf
  <2>2. \A w \in Workers : ToldOf(inbox[w], kernel.workers[w]) = "nothing"
    BY DEF Init, NoMessage, NoWorker, ToldOf, WorkerAssumption
  <2>. QED
    BY <2>1, <2>2, ZenonT(60) DEF PromiseStarts, Promise!Init
<1>2. Inv /\ [Next]_vars => [PromiseSteps]_vars
  BY NextKeeps DEF Keeps
<1>. QED
  BY <1>1, <1>2, WorkersInvariant, PTL DEF Spec, ImplementsPromise
==============================================================================
