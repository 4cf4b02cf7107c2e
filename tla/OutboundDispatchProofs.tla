----------------------- MODULE OutboundDispatchProofs ------------------------
(***************************************************************************)
(* Proofs about OutboundDispatch: for any campaign and any number of other  *)
(* calls, dialers, claims and crashes.                                      *)
(***************************************************************************)
EXTENDS OutboundDispatch, TLAPS

(* The time the provers have for a step that names none itself. *)
USE SMTT(60), ZenonT(60)

(* Where a dialer has the boundary of the job behind it. *)
Beyond == {"posting", "accepted", "done", "failed", "indeterminate"}

(* The row of a job, the row of its call and the provider agree. *)
RowsAgree(j) ==
    /\ placed[j] <= 1
    /\ job[j].boundary = "none" <=> call[j].status = "none"
    /\ job[j].boundary = "none" => placed[j] = 0
    /\ job[j].status \in {"none", "pending"} => job[j].boundary = "none"
    /\ job[j].status \in {"failed", "canceled"} => placed[j] = 0
    /\ job[j].status = "done" => placed[j] = 1 /\ call[j].sid

(* A dialer beyond the boundary is the only one for its job, and knows how far
   the provider is. *)
DialerAgrees(d, j) ==
    LET pc == work[d][j].pc
    IN  pc \in Beyond =>
          /\ job[j].boundary # "none"
          /\ job[j].status \notin {"failed", "canceled"}
          /\ \A e \in Dialers : work[e][j].pc \in Beyond => e = d
          /\ pc \in {"posting", "failed"} => placed[j] = 0
          /\ pc \in {"accepted", "done"} => placed[j] = 1
          /\ pc = "done" => call[j].sid

JobInv(j) == RowsAgree(j) /\ \A d \in Dialers : DialerAgrees(d, j)

(* A campaign exists with its launch, and until then none of its jobs does. *)
CampaignInv ==
    /\ launch = "launched" <=> campaign.status # "none"
    /\ launch # "launched" => \A j \in CampaignJobs : job[j].status = "none"
    /\ DoneCampaignIsKnown
    /\ CampaignAsApproved
    /\ QuarantineIsFinal

Inv == TypeOK /\ (\A j \in Jobs : JobInv(j)) /\ CampaignInv

------------------------------------------------------------------------------
(* Types, with a name for every kind of row. *)
Leases == {"none", "live", "expired", "stale"}
Boundaries == {"none", "fresh", "old"}
Pcs == {"idle", "claimed", "posting", "accepted", "done", "failed", "indeterminate", "threw", "threw2"}
JobRow == [status: JobStatuses, token: Nat, attempts: Nat, lease: Leases, boundary: Boundaries]
CallRow == [status: {"none", "live", "closed"}, sid: BOOLEAN]
WorkRow == [pc: Pcs, token: Nat]
Lifecycle(r) == (r.status = "dialing" <=> r.lease # "none") /\ (r.status = "dialing" <=> r.token # 0)

RowTypes ==
    /\ job \in [Jobs -> JobRow]
    /\ \A j \in Jobs : Lifecycle(job[j])
    /\ call \in [Jobs -> CallRow]
    /\ placed \in [Jobs -> Nat]
    /\ work \in [Dialers -> [Jobs -> WorkRow]]

CampaignTypes ==
    /\ campaign \in [status: {"none", "scheduled", "running", "done", "canceled", "indeterminate"},
                     age: {"fresh", "old"}, receipt: BOOLEAN]
    /\ execution \in {"dispatching", "succeeded", "indeterminate"}
    /\ book \in [targets: SUBSET CampaignJobs, flow: {0, 1}]
    /\ launch \in {"idle", "preflighted", "launched", "refused"}
    /\ dialer \in [Dialers -> {"idle", "promoted", "working", "closing", "immediate"}]
    /\ crashes \in 0 .. MaxCrashes

LEMMA TypesSplit == (TypeOK <=> RowTypes /\ CampaignTypes) /\ (TypeOK' <=> RowTypes' /\ CampaignTypes')
BY Zenon DEF TypeOK, RowTypes, CampaignTypes, JobRow, CallRow, WorkRow, Leases, Boundaries, Pcs, Lifecycle

(* The row r of a job has these fields. *)
IsJob(r, status, token, attempts, lease, boundary) ==
    /\ r.status = status /\ r.token = token /\ r.attempts = attempts
    /\ r.lease = lease /\ r.boundary = boundary

LEMMA FreeRow ==
    ASSUME NEW r \in JobRow, NEW s \in JobStatuses \ {"dialing"}
    PROVE  /\ Free(s, r) \in JobRow
           /\ Lifecycle(Free(s, r))
           /\ IsJob(Free(s, r), s, 0, r.attempts, "none", r.boundary)
<1>1. Free(s, r) \in JobRow /\ IsJob(Free(s, r), s, 0, r.attempts, "none", r.boundary)
  BY Zenon DEF Free, JobRow, IsJob, Leases
<1>. QED
  BY <1>1 DEF Lifecycle, IsJob

LEMMA ClaimedRow ==
    ASSUME NEW r \in JobRow
    PROVE  /\ Claimed(r) \in JobRow
           /\ Lifecycle(Claimed(r))
           /\ IsJob(Claimed(r), "dialing", r.attempts + 1, r.attempts + 1, "live", r.boundary)
<1>. DEFINE n == r.attempts + 1
            y == [r EXCEPT !.status = "dialing", !.attempts = n, !.token = n, !.lease = "live"]
<1>1. n \in Nat /\ n # 0
  BY DEF JobRow
<1>2. Claimed(r) = y
  BY Zenon DEF Claimed
<1>. HIDE DEF n
<1>3. y \in JobRow /\ IsJob(y, "dialing", n, n, "live", r.boundary)
  BY <1>1, Zenon DEF JobRow, IsJob, Leases, JobStatuses
<1>. HIDE DEF y
<1>4. Lifecycle(y)
  BY <1>1, <1>3 DEF Lifecycle, IsJob
<1>. QED
  BY <1>2, <1>3, <1>4, Zenon DEF n

(* Only the work of dialer d on job j changes, to pc. *)
WorkMoves(d, j, pc) ==
    /\ work' \in [Dialers -> [Jobs -> WorkRow]]
    /\ \A e \in Dialers, k \in Jobs : e # d \/ k # j => work'[e][k] = work[e][k]
    /\ work'[d][j].pc = pc

LEMMA GoesUpdate ==
    ASSUME RowTypes, NEW d \in Dialers, NEW j \in Jobs, NEW pc \in Pcs, Goes(d, j, pc)
    PROVE  WorkMoves(d, j, pc)
<1>. DEFINE x == work[d][j]
            y == [x EXCEPT !.pc = pc]
<1>1. y \in WorkRow /\ y.pc = pc
  <2>1. x \in WorkRow
    BY DEF RowTypes
  <2>. HIDE DEF x
  <2>. QED
    BY <2>1 DEF WorkRow
<1>2. work' = [work EXCEPT ![d] = [work[d] EXCEPT ![j] = y]]
  BY Zenon DEF Goes
<1>. HIDE DEF y
<1>. QED
  BY <1>1, <1>2 DEF WorkMoves, RowTypes

LEMMA DropsUpdate ==
    ASSUME RowTypes, NEW d \in Dialers, NEW j \in Jobs, Drops(d, j)
    PROVE  WorkMoves(d, j, "idle")
<1>1. Idle \in WorkRow /\ Idle.pc = "idle"
  BY DEF Idle, WorkRow, Pcs
<1>2. work' = [work EXCEPT ![d] = [work[d] EXCEPT ![j] = Idle]]
  BY Zenon DEF Drops
<1>. QED
  BY <1>1, <1>2 DEF WorkMoves, RowTypes

------------------------------------------------------------------------------
(* What a step has to keep. *)

(* Nothing of job k changes. *)
Untouched(k) ==
    /\ job'[k] = job[k] /\ call'[k] = call[k] /\ placed'[k] = placed[k]
    /\ \A e \in Dialers : work'[e][k] = work[e][k]

LEMMA UntouchedKeeps ==
    ASSUME NEW k \in Jobs, JobInv(k), Untouched(k)
    PROVE  JobInv(k)'
BY Zenon DEF JobInv, RowsAgree, DialerAgrees, Untouched

Terminal == {"done", "failed", "canceled", "indeterminate"}

(* A job comes into being with the launch only, keeps its final status, and
   has a call that is live only from a claim on. *)
JobMoves(j) ==
    /\ job'[j].status = "none" <=> job[j].status = "none"
    /\ job[j].status \in Terminal => job'[j].status = job[j].status
    /\ call'[j].status = "live" => call[j].status = "live" \/ job[j].status = "dialing"

LEMMA CampaignKeeps ==
    ASSUME CampaignInv, TypeOK, UNCHANGED <<campaign, launch, book>>, \A j \in Jobs : JobMoves(j)
    PROVE  CampaignInv'
<1>1. CampaignJobs \subseteq Jobs /\ \A j \in CampaignJobs : job[j].status \in JobStatuses
  BY DEF CampaignJobs, TypeOK
<1>2. DoneCampaignIsKnown'
  BY <1>1 DEF CampaignInv, DoneCampaignIsKnown, JobMoves, Terminal
<1>3. CampaignAsApproved'
  BY <1>1 DEF CampaignInv, CampaignAsApproved, JobMoves, OfCampaign
<1>4. QuarantineIsFinal'
  BY <1>1 DEF CampaignInv, QuarantineIsFinal, JobMoves, Terminal, JobStatuses
<1>. QED
  BY <1>1, <1>2, <1>3, <1>4 DEF CampaignInv, JobMoves

(* A step of one dialer on one job. *)
LEMMA OneJobKeeps ==
    ASSUME Inv, UNCHANGED <<campaign, launch, book>>, NEW j \in Jobs, RowTypes', CampaignTypes',
           \A k \in Jobs \ {j} : Untouched(k), JobMoves(j), JobInv(j)'
    PROVE  Inv'
<1>1. TypeOK'
  BY TypesSplit
<1>2. \A k \in Jobs : JobInv(k)'
  BY UntouchedKeeps DEF Inv
<1>3. \A k \in Jobs \ {j} : JobMoves(k)
  BY DEF Untouched, JobMoves
<1>. QED
  BY <1>1, <1>2, <1>3, CampaignKeeps DEF Inv

(* What the invariant says of job j while dialer d is beyond its boundary. *)
LEMMA OneBeyond ==
    ASSUME Inv, NEW d \in Dialers, NEW j \in Jobs
    PROVE  /\ RowTypes /\ CampaignTypes /\ JobInv(j)
           /\ job[j] \in JobRow /\ call[j] \in CallRow /\ placed[j] \in Nat /\ work[d][j].pc \in Pcs
           /\ Lifecycle(job[j])
BY TypesSplit DEF Inv, RowTypes, WorkRow

(* The other jobs of a step that changes one entry of each table. *)
LEMMA OthersUntouched ==
    ASSUME RowTypes, NEW d \in Dialers, NEW j \in Jobs, NEW pc, WorkMoves(d, j, pc),
           \A k \in Jobs \ {j} : job'[k] = job[k] /\ call'[k] = call[k] /\ placed'[k] = placed[k]
    PROVE  /\ \A k \in Jobs \ {j} : Untouched(k)
           /\ \A e \in Dialers \ {d} : work'[e][j] = work[e][j]
BY DEF Untouched, WorkMoves

LEMMA AdmitKeeps ==
    ASSUME Inv, NEW d \in Dialers, NEW j \in Jobs, Admit(d, j)
    PROVE  Inv'
<1>1. /\ RowTypes /\ CampaignTypes /\ JobInv(j)
      /\ job[j] \in JobRow /\ call[j] \in CallRow /\ Lifecycle(job[j])
  BY OneBeyond
<1>2. PICK pc \in {"posting", "threw"} : WorkMoves(d, j, pc)
  BY <1>1, GoesUpdate DEF Admit, Pcs
<1>3. /\ job' \in [Jobs -> JobRow]
      /\ \A k \in Jobs \ {j} : job'[k] = job[k]
      /\ IsJob(job'[j], job[j].status, job[j].token, job[j].attempts, job[j].lease, "fresh")
  BY <1>1 DEF Admit, JobRow, IsJob, Boundaries, RowTypes
<1>4. /\ call' \in [Jobs -> CallRow]
      /\ \A k \in Jobs \ {j} : call'[k] = call[k]
      /\ call'[j].status = "live" /\ call'[j].sid = call[j].sid
  BY <1>1 DEF Admit, CallRow, RowTypes
<1>5. /\ job[j].status = "dialing" /\ job[j].boundary = "none"
      /\ UNCHANGED <<campaign, execution, book, launch, placed, dialer, crashes>>
  BY DEF Admit, Admissible, Owns
<1>6. RowTypes' /\ CampaignTypes'
  BY <1>1, <1>2, <1>3, <1>4, <1>5 DEF RowTypes, CampaignTypes, IsJob, Lifecycle, WorkMoves
<1>7. (\A k \in Jobs \ {j} : Untouched(k)) /\ \A e \in Dialers \ {d} : work'[e][j] = work[e][j]
  BY <1>1, <1>2, <1>3, <1>4, <1>5, OthersUntouched
<1>8. JobInv(j)'
  BY <1>1, <1>2, <1>3, <1>4, <1>5, <1>7
     DEF JobInv, RowsAgree, DialerAgrees, IsJob, WorkMoves, Beyond
<1>9. JobMoves(j)
  BY <1>3, <1>5 DEF JobMoves, IsJob, Terminal
<1>. QED
  BY <1>5, <1>6, <1>7, <1>8, <1>9, OneJobKeeps

(* The identity of the provider's call is stamped on the row. *)
LEMMA SidUpdate ==
    ASSUME RowTypes, NEW j \in Jobs, call' = [call EXCEPT ![j].sid = TRUE]
    PROVE  /\ call' \in [Jobs -> CallRow]
           /\ \A k \in Jobs \ {j} : call'[k] = call[k]
           /\ call'[j].status = call[j].status
           /\ call'[j].sid
<1>. DEFINE x == call[j]
            y == [x EXCEPT !.sid = TRUE]
<1>1. y \in CallRow /\ y.status = x.status /\ y.sid
  <2>1. x \in CallRow
    BY DEF RowTypes
  <2>. HIDE DEF x
  <2>. QED
    BY <2>1, Zenon DEF CallRow
<1>2. call' = [call EXCEPT ![j] = y]
  BY Zenon
<1>. HIDE DEF y
<1>. QED
  BY <1>1, <1>2, Zenon DEF RowTypes

(* Steps after which only the work on the job, the provider and the call's row differ. *)
LEMMA ProviderKeeps ==
    ASSUME Inv, NEW d \in Dialers, NEW j \in Jobs, AdmitThrows(d, j) \/ Post(d, j) \/ Stamp(d, j)
    PROVE  Inv'
<1>1. /\ RowTypes /\ CampaignTypes /\ JobInv(j)
      /\ job[j] \in JobRow /\ call[j] \in CallRow /\ placed[j] \in Nat
  BY OneBeyond
<1>2. UNCHANGED <<campaign, execution, book, launch, job, dialer, crashes>>
  BY DEF AdmitThrows, Post, Stamp
<1>3. PICK pc \in {"threw", "accepted", "failed", "indeterminate", "done"} :
        /\ WorkMoves(d, j, pc)
        /\ call' \in [Jobs -> CallRow] /\ placed' \in [Jobs -> Nat]
        /\ \A k \in Jobs \ {j} : call'[k] = call[k] /\ placed'[k] = placed[k]
        /\ call'[j].status = call[j].status
        /\ \/ pc = "threw" /\ placed'[j] = placed[j] /\ call'[j].sid = call[j].sid
           \/ /\ work[d][j].pc = "posting" /\ call'[j].sid = call[j].sid
              /\ \/ pc \in {"accepted", "indeterminate"} /\ placed'[j] = placed[j] + 1
                 \/ pc \in {"failed", "indeterminate"} /\ placed'[j] = placed[j]
           \/ pc = "done" /\ placed'[j] = placed[j] /\ work[d][j].pc = "accepted" /\ call'[j].sid
  <2>1. CASE AdmitThrows(d, j)
    <3>1. WorkMoves(d, j, "threw")
      BY <1>1, <2>1, GoesUpdate DEF AdmitThrows, Pcs
    <3>. QED
      BY <1>1, <2>1, <3>1 DEF AdmitThrows, RowTypes
  <2>2. CASE Post(d, j)
    <3>1. PICK pc \in {"accepted", "failed", "indeterminate"} :
            /\ Goes(d, j, pc)
            /\ \/ pc \in {"accepted", "indeterminate"} /\ placed' = [placed EXCEPT ![j] = @ + 1]
               \/ pc \in {"failed", "indeterminate"} /\ UNCHANGED placed
      BY <2>2 DEF Post
    <3>2. WorkMoves(d, j, pc)
      BY <1>1, <3>1, GoesUpdate DEF Pcs
    <3>3. UNCHANGED call /\ work[d][j].pc = "posting"
      BY <2>2 DEF Post, At
    <3>. QED
      BY <1>1, <3>1, <3>2, <3>3 DEF RowTypes
  <2>3. CASE Stamp(d, j)
    <3>1. PICK pc \in {"done", "threw"} :
            /\ Goes(d, j, pc)
            /\ \/ pc = "done" /\ call' = [call EXCEPT ![j].sid = TRUE]
               \/ pc = "threw" /\ UNCHANGED call
      BY <2>3 DEF Stamp
    <3>2. WorkMoves(d, j, pc)
      BY <1>1, <3>1, GoesUpdate DEF Pcs
    <3>3. UNCHANGED placed /\ work[d][j].pc = "accepted"
      BY <2>3 DEF Stamp, At
    <3>4. /\ call' \in [Jobs -> CallRow]
          /\ \A k \in Jobs \ {j} : call'[k] = call[k]
          /\ call'[j].status = call[j].status
          /\ pc = "done" => call'[j].sid
          /\ pc = "threw" => call'[j].sid = call[j].sid
      BY <1>1, <3>1, SidUpdate DEF RowTypes
    <3>. QED
      BY <1>1, <3>1, <3>2, <3>3, <3>4 DEF RowTypes
  <2>. QED
    BY <2>1, <2>2, <2>3
<1>4. RowTypes' /\ CampaignTypes'
  BY <1>1, <1>2, <1>3 DEF RowTypes, CampaignTypes, WorkMoves
<1>5. (\A k \in Jobs \ {j} : Untouched(k)) /\ \A e \in Dialers \ {d} : work'[e][j] = work[e][j]
  BY <1>1, <1>2, <1>3, OthersUntouched
<1>6. JobInv(j)'
  <2>1. RowsAgree(j)'
    BY <1>1, <1>2, <1>3 DEF JobInv, RowsAgree, DialerAgrees, Beyond
  <2>2. ASSUME NEW e \in Dialers \ {d} PROVE DialerAgrees(e, j)'
    BY <1>1, <1>2, <1>3, <1>5, <2>2 DEF JobInv, DialerAgrees, WorkMoves, Beyond
  <2>3. DialerAgrees(d, j)'
    BY <1>1, <1>2, <1>3, <1>5 DEF JobInv, RowsAgree, DialerAgrees, WorkMoves, Beyond
  <2>. QED
    BY <2>1, <2>2, <2>3 DEF JobInv
<1>7. JobMoves(j)
  BY <1>2, <1>3 DEF JobMoves
<1>. QED
  BY <1>2, <1>4, <1>5, <1>6, <1>7, OneJobKeeps

LEMMA SettleKeeps ==
    ASSUME Inv, NEW d \in Dialers, NEW j \in Jobs, NEW o \in {"done", "failed", "indeterminate"},
           Settle(d, j, o)
    PROVE  Inv'
<1>1. /\ RowTypes /\ CampaignTypes /\ JobInv(j)
      /\ job[j] \in JobRow /\ call[j] \in CallRow /\ placed[j] \in Nat
  BY OneBeyond
<1>2. /\ UNCHANGED <<campaign, execution, book, launch, placed, dialer, crashes>>
      /\ work[d][j].pc = o
  BY DEF Settle, At
<1>3. CASE Goes(d, j, "threw") /\ UNCHANGED <<job, call>>
  <2>1. WorkMoves(d, j, "threw")
    BY <1>1, <1>3, GoesUpdate DEF Pcs
  <2>2. RowTypes' /\ CampaignTypes'
    BY <1>1, <1>2, <1>3, <2>1 DEF RowTypes, CampaignTypes, WorkMoves
  <2>3. (\A k \in Jobs \ {j} : Untouched(k)) /\ \A e \in Dialers \ {d} : work'[e][j] = work[e][j]
    BY <1>1, <1>2, <1>3, <2>1, OthersUntouched
  <2>4. JobInv(j)' /\ JobMoves(j)
    BY <1>1, <1>2, <1>3, <2>1, <2>3
       DEF JobInv, RowsAgree, DialerAgrees, WorkMoves, Beyond, JobMoves
  <2>. QED
    BY <1>2, <2>2, <2>3, <2>4, OneJobKeeps
<1>4. CASE /\ MaySettle(d, j, o)
           /\ job' = [job EXCEPT ![j] = Free(o, @)]
           /\ call' = [call EXCEPT ![j].status = IF o = "done" THEN @ ELSE "closed",
                                   ![j].sid = @ \/ o = "done"]
           /\ Drops(d, j)
  <2>1. WorkMoves(d, j, "idle")
    BY <1>1, <1>4, DropsUpdate
  <2>2. /\ job' \in [Jobs -> JobRow]
        /\ \A k \in Jobs \ {j} : job'[k] = job[k]
        /\ IsJob(job'[j], o, 0, job[j].attempts, "none", job[j].boundary)
        /\ Lifecycle(job'[j])
    BY <1>1, <1>4, FreeRow DEF RowTypes, JobStatuses
  <2>3. /\ call' \in [Jobs -> CallRow]
        /\ \A k \in Jobs \ {j} : call'[k] = call[k]
        /\ call'[j].status \in {call[j].status, "closed"}
        /\ o = "done" => call'[j].sid
    <3>. DEFINE s == IF o = "done" THEN call[j].status ELSE "closed"
                b == call[j].sid \/ o = "done"
                y == [call[j] EXCEPT !.status = s, !.sid = b]
    <3>1. s \in {"none", "live", "closed"} /\ b \in BOOLEAN /\ (o = "done" => b) /\ s \in {call[j].status, "closed"}
      BY <1>1 DEF CallRow
    <3>2. call' = [call EXCEPT ![j] = y]
      BY <1>4, Zenon
    <3>. HIDE DEF s, b
    <3>3. y \in CallRow /\ y.status = s /\ y.sid = b
      BY <1>1, <3>1, Zenon DEF CallRow
    <3>. HIDE DEF y
    <3>. QED
      BY <1>1, <3>1, <3>2, <3>3 DEF RowTypes
  <2>4. RowTypes' /\ CampaignTypes'
    BY <1>1, <1>2, <2>1, <2>2, <2>3 DEF RowTypes, CampaignTypes, WorkMoves
  <2>5. (\A k \in Jobs \ {j} : Untouched(k)) /\ \A e \in Dialers \ {d} : work'[e][j] = work[e][j]
    BY <1>1, <1>2, <2>1, <2>2, <2>3, OthersUntouched
  <2>6. /\ job[j].boundary # "none"
        /\ job[j].status = "dialing" \/ job[j].status = o
    BY <1>4 DEF MaySettle, Owns
  <2>7. \A e \in Dialers : work'[e][j].pc \notin Beyond
    <3>1. \A e \in Dialers \ {d} : work[e][j].pc \notin Beyond
      BY <1>1, <1>2 DEF JobInv, DialerAgrees, Beyond
    <3>. QED
      BY <2>1, <2>5, <3>1 DEF WorkMoves, Beyond
  <2>8. RowsAgree(j)'
    BY <1>1, <1>2, <2>2, <2>3, <2>6 DEF JobInv, RowsAgree, DialerAgrees, IsJob, Beyond, CallRow
  <2>9. JobMoves(j)
    BY <1>1, <2>2, <2>3, <2>6 DEF JobMoves, IsJob, Terminal, JobRow, JobStatuses
  <2>10. JobInv(j)'
    BY <2>7, <2>8 DEF JobInv, DialerAgrees
  <2>. QED
    BY <1>2, <2>4, <2>5, <2>9, <2>10, OneJobKeeps
<1>. QED
  BY <1>3, <1>4 DEF Settle

(* A statement that frees a claim, or leaves the row alone. *)
LEMMA FreeKeeps ==
    ASSUME Inv, NEW d \in Dialers, NEW j \in Jobs, NEW pc \in Pcs \ Beyond, WorkMoves(d, j, pc),
           NEW s \in {"failed", "indeterminate"},
           UNCHANGED <<campaign, execution, book, launch, call, placed, dialer, crashes>>,
           \/ UNCHANGED job
           \/ /\ job' = [job EXCEPT ![j] = Free(s, @)]
              /\ job[j].status = "dialing"
              /\ s = "failed" => job[j].boundary = "none"
              /\ s = "indeterminate" => job[j].boundary # "none"
    PROVE  Inv'
<1>1. /\ RowTypes /\ CampaignTypes /\ JobInv(j)
      /\ job[j] \in JobRow /\ call[j] \in CallRow /\ placed[j] \in Nat
  BY OneBeyond
<1>2. /\ job' \in [Jobs -> JobRow]
      /\ \A k \in Jobs \ {j} : job'[k] = job[k]
      /\ Lifecycle(job'[j])
      /\ job'[j].boundary = job[j].boundary
      /\ \/ job'[j].status = job[j].status
         \/ /\ job[j].status = "dialing" /\ job'[j].status = s
            /\ s = "failed" => job[j].boundary = "none"
            /\ s = "indeterminate" => job[j].boundary # "none"
  BY <1>1, FreeRow DEF RowTypes, JobStatuses, IsJob
<1>3. RowTypes' /\ CampaignTypes'
  BY <1>1, <1>2 DEF RowTypes, CampaignTypes, WorkMoves
<1>4. (\A k \in Jobs \ {j} : Untouched(k)) /\ \A e \in Dialers \ {d} : work'[e][j] = work[e][j]
  BY <1>1, <1>2, OthersUntouched
<1>5. RowsAgree(j)'
  BY <1>1, <1>2 DEF JobInv, RowsAgree
<1>6. \A e \in Dialers : DialerAgrees(e, j)'
  BY <1>1, <1>2, <1>4 DEF JobInv, DialerAgrees, WorkMoves, Beyond
<1>7. JobMoves(j)
  BY <1>1, <1>2 DEF JobMoves, Terminal
<1>. QED
  BY <1>3, <1>4, <1>5, <1>6, <1>7, OneJobKeeps DEF JobInv

LEMMA ThrowKeeps ==
    ASSUME Inv, NEW d \in Dialers, NEW j \in Jobs, ThrowReleases(d, j) \/ ThrowMarks(d, j)
    PROVE  Inv'
<1>. USE DEF Pcs, Beyond
<1>1. RowTypes
  BY OneBeyond
<1>2. CASE ThrowReleases(d, j)
  <2>1. CASE UNCHANGED job /\ Goes(d, j, "threw2")
    BY <1>1, <1>2, <2>1, GoesUpdate, FreeKeeps DEF ThrowReleases
  <2>2. CASE /\ ReleasesPreDispatch(d, j)
             /\ job' = [job EXCEPT ![j] = Free("failed", @)] /\ Drops(d, j)
    BY <1>1, <1>2, <2>2, DropsUpdate, FreeKeeps, Zenon DEF ThrowReleases, ReleasesPreDispatch, Owns
  <2>. QED
    BY <1>2, <2>1, <2>2 DEF ThrowReleases, ReleaseOrNext
<1>3. CASE ThrowMarks(d, j)
  BY <1>1, <1>3, DropsUpdate, FreeKeeps DEF ThrowMarks, Owns
<1>. QED
  BY <1>2, <1>3

------------------------------------------------------------------------------
(* Steps on many rows at once. *)

(* The status of a row moves as a claim, a cancellation or a reconciliation does. *)
RowMoves(j) ==
    /\ call'[j] = call[j] /\ placed'[j] = placed[j]
    /\ job'[j].boundary = "none" <=> job[j].boundary = "none"
    /\ \/ job'[j].status = job[j].status
       \/ /\ job[j].status \in {"pending", "dialing"} /\ job[j].boundary = "none"
          /\ job'[j].status \in {"dialing", "canceled"}
       \/ /\ job[j].status = "dialing" /\ job[j].boundary # "none"
          /\ job'[j].status = "indeterminate"

(* No dialer gets beyond a boundary. *)
WorkShrinks(j) == \A e \in Dialers : work'[e][j].pc \in Beyond => work'[e][j] = work[e][j]

LEMMA RowKeeps ==
    ASSUME NEW j \in Jobs, JobInv(j), RowMoves(j), WorkShrinks(j)
    PROVE  JobInv(j)' /\ JobMoves(j)
<1>1. RowsAgree(j)'
  BY DEF JobInv, RowsAgree, RowMoves
<1>2. ASSUME NEW d \in Dialers PROVE DialerAgrees(d, j)'
  BY DEF JobInv, RowsAgree, DialerAgrees, RowMoves, WorkShrinks
<1>3. JobMoves(j)
  BY DEF RowMoves, JobMoves, Terminal
<1>. QED
  BY <1>1, <1>2, <1>3 DEF JobInv

LEMMA RowsKeep ==
    ASSUME Inv, RowTypes', CampaignTypes', \A j \in Jobs : RowMoves(j) /\ WorkShrinks(j),
           UNCHANGED <<campaign, launch, book>>
    PROVE  Inv'
<1>1. \A j \in Jobs : JobInv(j)' /\ JobMoves(j)
  BY RowKeeps DEF Inv
<1>. QED
  BY <1>1, TypesSplit, CampaignKeeps DEF Inv

(* A campaign that was open is closed, or was indeterminate and stays so. *)
LEMMA ClosingKeeps ==
    ASSUME Inv, RowTypes', CampaignTypes', \A j \in Jobs : RowMoves(j) /\ WorkShrinks(j),
           UNCHANGED <<launch, book>>,
           campaign.status \in {"scheduled", "running", "indeterminate"},
           campaign'.status \in {"canceled", "indeterminate"},
           campaign.status = "indeterminate" => campaign'.status = "indeterminate",
           campaign'.receipt = campaign.receipt
    PROVE  Inv'
<1>1. \A j \in Jobs : JobInv(j)' /\ JobMoves(j)
  BY RowKeeps DEF Inv
<1>2. CampaignJobs \subseteq Jobs /\ \A j \in CampaignJobs : job[j].status \in JobStatuses
  BY DEF Inv, CampaignJobs, TypeOK
<1>3. DoneCampaignIsKnown' /\ CampaignAsApproved'
  BY DEF DoneCampaignIsKnown, CampaignAsApproved
<1>4. QuarantineIsFinal'
  BY <1>1, <1>2 DEF Inv, CampaignInv, QuarantineIsFinal, JobMoves, Terminal, JobStatuses
<1>5. CampaignInv'
  BY <1>1, <1>2, <1>3, <1>4 DEF Inv, CampaignInv, JobMoves
<1>. QED
  BY <1>1, <1>5, TypesSplit DEF Inv

LEMMA CanceledRows ==
    ASSUME NEW jobs \in [Jobs -> JobRow], \A j \in Jobs : Lifecycle(jobs[j])
    PROVE  /\ SafeRemainderCanceled(jobs) \in [Jobs -> JobRow]
           /\ \A j \in Jobs :
                /\ Lifecycle(SafeRemainderCanceled(jobs)[j])
                /\ SafeRemainderCanceled(jobs)[j].boundary = jobs[j].boundary
                /\ \/ SafeRemainderCanceled(jobs)[j].status = jobs[j].status
                   \/ /\ jobs[j].status = "pending" \/ (jobs[j].status = "dialing" /\ jobs[j].boundary = "none")
                      /\ SafeRemainderCanceled(jobs)[j].status = "canceled"
<1>. DEFINE f == SafeRemainderCanceled(jobs)
<1>1. \A j \in Jobs :
        \/ f[j] = jobs[j]
        \/ /\ jobs[j].status = "pending" \/ (jobs[j].status = "dialing" /\ jobs[j].boundary = "none")
           /\ f[j] = Free("canceled", jobs[j])
  <2>. TAKE j \in Jobs
  <2>. DEFINE safe == /\ j \in CampaignJobs
                      /\ \/ jobs[j].status = "pending"
                         \/ jobs[j].status = "dialing" /\ jobs[j].boundary = "none"
  <2>1. f[j] = IF safe THEN Free("canceled", jobs[j]) ELSE jobs[j]
    BY DEF SafeRemainderCanceled
  <2>. QED
    BY <2>1
<1>2. \A j \in Jobs :
        /\ Free("canceled", jobs[j]) \in JobRow
        /\ Lifecycle(Free("canceled", jobs[j]))
        /\ IsJob(Free("canceled", jobs[j]), "canceled", 0, jobs[j].attempts, "none", jobs[j].boundary)
  BY FreeRow DEF JobStatuses
<1>3. f \in [Jobs -> JobRow]
  BY <1>2 DEF SafeRemainderCanceled
<1>. HIDE DEF f
<1>. QED
  BY <1>1, <1>2, <1>3 DEF IsJob, f

LEMMA CloseMarksKeeps ==
    ASSUME Inv, (\E d \in Dialers : CloseMarks(d)) \/ CancelCampaign
    PROVE  Inv'
<1>1. /\ RowTypes /\ CampaignTypes /\ \A j \in Jobs : JobInv(j)
  BY TypesSplit DEF Inv
<1>2. UNCHANGED <<execution, book, launch, call, placed, work, crashes>>
      /\ dialer' \in [Dialers -> {"idle", "promoted", "working", "closing", "immediate"}]
  BY <1>1 DEF CloseMarks, CancelCampaign, CampaignTypes
<1>3. \A j \in Jobs : WorkShrinks(j)
  BY <1>2 DEF WorkShrinks
<1>4. CASE UNCHANGED <<campaign, job>>
  BY <1>1, <1>2, <1>3, <1>4, RowsKeep DEF RowTypes, CampaignTypes, RowMoves
<1>5. CASE job' = SafeRemainderCanceled(job)
  <2>1. RowTypes'
    BY <1>1, <1>2, <1>5, CanceledRows DEF RowTypes
  <2>2. \A j \in Jobs : RowMoves(j)
    BY <1>1, <1>2, <1>5, CanceledRows DEF RowTypes, RowMoves, JobInv, RowsAgree
  <2>3. CASE campaign' = [campaign EXCEPT !.status = "indeterminate"]
              /\ campaign.status \in {"running", "scheduled"}
    <3>1. CampaignTypes'
      BY <1>1, <1>2, <2>3 DEF CampaignTypes
    <3>. QED
      BY <1>1, <1>2, <1>3, <2>1, <2>2, <2>3, <3>1, ClosingKeeps DEF CampaignTypes
  <2>4. CASE /\ campaign' = [campaign EXCEPT !.status = IF @ = "indeterminate" THEN @ ELSE "canceled"]
             /\ campaign.status \in {"scheduled", "running", "indeterminate"}
    <3>. DEFINE s == IF campaign.status = "indeterminate" THEN campaign.status ELSE "canceled"
    <3>1. campaign' = [campaign EXCEPT !.status = s]
      BY <2>4
    <3>2. s \in {"canceled", "indeterminate"} /\ (campaign.status = "indeterminate" => s = "indeterminate")
      OBVIOUS
    <3>. HIDE DEF s
    <3>3. CampaignTypes' /\ campaign'.status = s /\ campaign'.receipt = campaign.receipt
      BY <1>1, <1>2, <3>1, <3>2 DEF CampaignTypes
    <3>. QED
      BY <1>1, <1>2, <1>3, <2>1, <2>2, <2>4, <3>2, <3>3, ClosingKeeps
  <2>. QED
    BY <1>4, <1>5, <2>3, <2>4 DEF CloseMarks, CancelCampaign
<1>. QED
  BY <1>4, <1>5 DEF CloseMarks, CancelCampaign

LEMMA ReconcileKeeps ==
    ASSUME Inv, Reconcile
    PROVE  Inv'
<1>. DEFINE marked == [j \in Jobs |-> IF j \in CampaignJobs /\ Orphaned(j)
                                      THEN Free("indeterminate", job[j]) ELSE job[j]]
<1>1. /\ RowTypes /\ CampaignTypes /\ \A j \in Jobs : JobInv(j)
  BY TypesSplit DEF Inv
<1>2. \A j \in Jobs :
        /\ Free("indeterminate", job[j]) \in JobRow
        /\ Lifecycle(Free("indeterminate", job[j]))
        /\ IsJob(Free("indeterminate", job[j]), "indeterminate", 0, job[j].attempts, "none", job[j].boundary)
  BY <1>1, FreeRow DEF RowTypes, JobStatuses
<1>3. \A j \in Jobs :
        \/ marked[j] = job[j]
        \/ /\ job[j].status = "dialing" /\ job[j].boundary # "none"
           /\ marked[j] = Free("indeterminate", job[j])
  BY DEF Orphaned
<1>4. marked \in [Jobs -> JobRow] /\ \A j \in Jobs : Lifecycle(marked[j])
  BY <1>1, <1>2 DEF RowTypes
<1>5. /\ job' = SafeRemainderCanceled(marked)
      /\ campaign' = [campaign EXCEPT !.status = "indeterminate"]
      /\ campaign.status \in {"scheduled", "running", "indeterminate"}
      /\ UNCHANGED <<execution, book, launch, call, placed, dialer, work, crashes>>
  BY DEF Reconcile
<1>. HIDE DEF marked
<1>6. RowTypes'
  BY <1>1, <1>4, <1>5, CanceledRows DEF RowTypes
<1>7. \A j \in Jobs : RowMoves(j)
  <2>. TAKE j \in Jobs
  <2>1. /\ job'[j].boundary = marked[j].boundary
        /\ \/ job'[j].status = marked[j].status
           \/ /\ marked[j].status = "pending" \/ (marked[j].status = "dialing" /\ marked[j].boundary = "none")
              /\ job'[j].status = "canceled"
    BY <1>4, <1>5, CanceledRows
  <2>2. JobInv(j)
    BY <1>1
  <2>3. CASE marked[j] = job[j]
    BY <1>5, <2>1, <2>2, <2>3 DEF RowMoves, JobInv, RowsAgree
  <2>4. CASE /\ job[j].status = "dialing" /\ job[j].boundary # "none"
             /\ marked[j] = Free("indeterminate", job[j])
    BY <1>2, <1>5, <2>1, <2>4 DEF RowMoves, IsJob
  <2>. QED
    BY <1>3, <2>3, <2>4
<1>8. \A j \in Jobs : WorkShrinks(j)
  BY <1>5 DEF WorkShrinks
<1>9. CampaignTypes' /\ campaign'.status = "indeterminate" /\ campaign'.receipt = campaign.receipt
  BY <1>1, <1>5 DEF CampaignTypes
<1>. QED
  BY <1>5, <1>6, <1>7, <1>8, <1>9, ClosingKeeps

(* Both kinds of claims. *)
LEMMA ClaimsKeep ==
    ASSUME Inv, NEW d \in Dialers, DialClaims(d) \/ \E j \in Jobs : ImmediateClaims(d, j)
    PROVE  Inv'
<1>1. /\ RowTypes /\ CampaignTypes /\ \A j \in Jobs : JobInv(j)
  BY TypesSplit DEF Inv
<1>2. PICK S \in SUBSET Jobs :
        /\ \A j \in S : job[j].status = "pending" \/ (job[j].status = "dialing" /\ job[j].boundary = "none")
        /\ job' = [j \in Jobs |-> IF j \in S THEN Claimed(job[j]) ELSE job[j]]
        /\ work' = [work EXCEPT ![d] = [j \in Jobs |->
                      IF j \in S THEN [pc |-> "claimed", token |-> job[j].attempts + 1] ELSE work[d][j]]]
  <2>1. CASE DialClaims(d)
    <3>1. PICK S \in Batches({j \in Jobs : Claimable(j) /\ job[j].attempts < MaxAttempts}) :
            /\ job' = [j \in Jobs |-> IF j \in S THEN Claimed(job[j]) ELSE job[j]]
            /\ work' = [work EXCEPT ![d] = [j \in Jobs |->
                          IF j \in S THEN [pc |-> "claimed", token |-> job[j].attempts + 1] ELSE work[d][j]]]
      BY <2>1, Zenon DEF DialClaims
    <3>2. S \subseteq {j \in Jobs : Claimable(j)}
      BY DEF Batches
    <3>3. S \in SUBSET Jobs
      BY <3>2
    <3>4. \A j \in S : job[j].status = "pending" \/ (job[j].status = "dialing" /\ job[j].boundary = "none")
      BY <3>2 DEF Claimable
    <3>. QED
      BY <3>1, <3>3, <3>4, Zenon
  <2>2. ASSUME NEW i \in Jobs, ImmediateClaims(d, i)
        PROVE  \E S \in SUBSET Jobs :
                  /\ \A j \in S : job[j].status = "pending" \/ (job[j].status = "dialing" /\ job[j].boundary = "none")
                  /\ job' = [j \in Jobs |-> IF j \in S THEN Claimed(job[j]) ELSE job[j]]
                  /\ work' = [work EXCEPT ![d] = [j \in Jobs |->
                                IF j \in S THEN [pc |-> "claimed", token |-> job[j].attempts + 1]
                                ELSE work[d][j]]]
    <3>1. job[i].status = "pending" /\ job' = [job EXCEPT ![i] = Claimed(job[i])]
      BY <2>2 DEF ImmediateClaims
    <3>2. job' = [j \in Jobs |-> IF j \in {i} THEN Claimed(job[j]) ELSE job[j]]
      BY <1>1, <3>1, Zenon DEF RowTypes
    <3>3. work' = [work EXCEPT ![d] = [work[d] EXCEPT ![i] = [pc |-> "claimed", token |-> job[i].attempts + 1]]]
      BY <2>2, Zenon DEF ImmediateClaims
    <3>4. [work[d] EXCEPT ![i] = [pc |-> "claimed", token |-> job[i].attempts + 1]]
            = [j \in Jobs |-> IF j \in {i} THEN [pc |-> "claimed", token |-> job[j].attempts + 1] ELSE work[d][j]]
      BY <1>1 DEF RowTypes
    <3>5. work' = [work EXCEPT ![d] = [j \in Jobs |->
                     IF j \in {i} THEN [pc |-> "claimed", token |-> job[j].attempts + 1] ELSE work[d][j]]]
      BY <3>3, <3>4, Zenon
    <3>6. \A j \in {i} : job[j].status = "pending"
      BY <3>1, Zenon
    <3>7. {i} \in SUBSET Jobs
      BY Zenon
    <3>. QED
      BY <3>2, <3>5, <3>6, <3>7, Zenon
  <2>. QED
    BY <2>1, <2>2
<1>3. /\ UNCHANGED <<campaign, execution, book, launch, call, placed, crashes>>
      /\ dialer' \in [Dialers -> {"idle", "promoted", "working", "closing", "immediate"}]
  BY <1>1 DEF DialClaims, ImmediateClaims, CampaignTypes
<1>4. \A j \in Jobs : /\ Claimed(job[j]) \in JobRow
                      /\ Lifecycle(Claimed(job[j]))
                      /\ Claimed(job[j]).status = "dialing"
                      /\ Claimed(job[j]).boundary = job[j].boundary
  BY <1>1, ClaimedRow DEF RowTypes, IsJob
<1>5. \A j \in Jobs : [pc |-> "claimed", token |-> job[j].attempts + 1] \in WorkRow
  BY <1>1 DEF RowTypes, WorkRow, JobRow, Pcs
<1>6. work' \in [Dialers -> [Jobs -> WorkRow]]
  BY <1>1, <1>2, <1>5 DEF RowTypes
<1>7. RowTypes' /\ CampaignTypes'
  BY <1>1, <1>2, <1>3, <1>4, <1>6 DEF RowTypes, CampaignTypes
<1>8. \A j \in Jobs : RowMoves(j)
  BY <1>1, <1>2, <1>3, <1>4 DEF RowMoves, JobInv, RowsAgree
<1>9. \A j \in Jobs : WorkShrinks(j)
  <2>. TAKE j \in Jobs
  <2>1. \A e \in Dialers \ {d} : work'[e][j] = work[e][j]
    BY <1>1, <1>2 DEF RowTypes
  <2>2. work'[d][j] = work[d][j] \/ work'[d][j].pc = "claimed"
    BY <1>1, <1>2 DEF RowTypes
  <2>. QED
    BY <2>1, <2>2 DEF WorkShrinks, Beyond
<1>. QED
  BY <1>3, <1>7, <1>8, <1>9, RowsKeep

(* The passing of time, the loss of a dialer and a pending call that is canceled. *)
LEMMA TimeKeeps ==
    ASSUME OutboundAssumption, Inv,
           (\E j \in Jobs : LeaseAges(j) \/ CancelPending(j)) \/ \E d \in Dialers : DialerCrashes(d)
    PROVE  Inv'
<1>1. /\ RowTypes /\ CampaignTypes /\ \A j \in Jobs : JobInv(j)
  BY TypesSplit DEF Inv
<1>2. CASE \E d \in Dialers : DialerCrashes(d)
  <2>1. PICK d \in Dialers : DialerCrashes(d)
    BY <1>2
  <2>2. Idle \in WorkRow /\ Idle.pc = "idle"
    BY DEF Idle, WorkRow, Pcs
  <2>3. RowTypes'
    BY <1>1, <2>1, <2>2 DEF DialerCrashes, RowTypes
  <2>6. CampaignTypes'
    BY <1>1, <2>1 DEF DialerCrashes, CampaignTypes, OutboundAssumption
  <2>4. \A j \in Jobs : WorkShrinks(j)
    BY <1>1, <2>1, <2>2 DEF DialerCrashes, RowTypes, WorkShrinks, Beyond
  <2>5. \A j \in Jobs : RowMoves(j)
    BY <2>1 DEF DialerCrashes, RowMoves
  <2>. QED
    BY <2>1, <2>3, <2>4, <2>5, <2>6, RowsKeep DEF DialerCrashes
<1>3. ASSUME NEW j \in Jobs, LeaseAges(j) \/ CancelPending(j)
      PROVE  Inv'
  <2>1. /\ UNCHANGED <<campaign, execution, book, launch, call, placed, dialer, work, crashes>>
        /\ CampaignTypes' /\ \A k \in Jobs : WorkShrinks(k)
    BY <1>1, <1>3 DEF LeaseAges, CancelPending, CampaignTypes, WorkShrinks
  <2>2. /\ job' \in [Jobs -> JobRow]
        /\ \A k \in Jobs \ {j} : job'[k] = job[k]
        /\ Lifecycle(job'[j]) /\ job'[j].boundary = job[j].boundary
        /\ \/ job'[j].status = job[j].status
           \/ job[j].status = "pending" /\ job'[j].status = "canceled"
    <3>1. job[j] \in JobRow /\ Lifecycle(job[j])
      BY <1>1 DEF RowTypes
    <3>2. CASE LeaseAges(j)
      <4>. DEFINE l == IF job[j].lease = "live" THEN "expired" ELSE "stale"
                  y == [job[j] EXCEPT !.lease = l]
      <4>1. l \in Leases \ {"none"} /\ job[j].lease # "none"
        BY <3>2 DEF Leases, LeaseAges
      <4>2. job' = [job EXCEPT ![j] = y]
        BY <3>2 DEF LeaseAges
      <4>. HIDE DEF l
      <4>3. y \in JobRow /\ IsJob(y, job[j].status, job[j].token, job[j].attempts, l, job[j].boundary)
        BY <3>1, <4>1 DEF JobRow, IsJob
      <4>. HIDE DEF y
      <4>. QED
        BY <1>1, <3>1, <4>1, <4>2, <4>3 DEF RowTypes, IsJob, Lifecycle
    <3>3. CASE CancelPending(j)
      <4>. DEFINE y == [job[j] EXCEPT !.status = "canceled"]
      <4>1. job[j].status = "pending" /\ job' = [job EXCEPT ![j] = y]
        BY <3>3 DEF CancelPending
      <4>2. y \in JobRow /\ IsJob(y, "canceled", job[j].token, job[j].attempts, job[j].lease, job[j].boundary)
        BY <3>1 DEF JobRow, IsJob, JobStatuses
      <4>. HIDE DEF y
      <4>. QED
        BY <1>1, <3>1, <4>1, <4>2 DEF RowTypes, IsJob, Lifecycle
    <3>. QED
      BY <1>3, <3>2, <3>3
  <2>3. RowTypes'
    BY <1>1, <2>1, <2>2 DEF RowTypes
  <2>4. \A k \in Jobs : RowMoves(k)
    BY <1>1, <2>1, <2>2 DEF RowMoves, JobInv, RowsAgree
  <2>. QED
    BY <2>1, <2>3, <2>4, RowsKeep
<1>. QED
  BY <1>2, <1>3

LEMMA DayKeeps ==
    ASSUME Inv, DayPasses
    PROVE  Inv'
<1>1. /\ RowTypes /\ CampaignTypes /\ \A j \in Jobs : JobInv(j)
  BY TypesSplit DEF Inv
<1>2. /\ UNCHANGED <<execution, book, launch, call, placed, dialer, work, crashes>>
      /\ campaign.status = "indeterminate"
      /\ campaign' = [campaign EXCEPT !.age = "old"]
  BY DEF DayPasses
<1>3. \A j \in Jobs : \/ job'[j] = job[j]
                      \/ job[j].boundary = "fresh" /\ job'[j] = [job[j] EXCEPT !.boundary = "old"]
  BY <1>1 DEF DayPasses
<1>4. \A j \in Jobs : /\ job'[j] \in JobRow /\ Lifecycle(job'[j]) /\ job'[j].status = job[j].status
                      /\ job'[j].boundary = "none" <=> job[j].boundary = "none"
  <2>. TAKE j \in Jobs
  <2>. DEFINE y == [job[j] EXCEPT !.boundary = "old"]
  <2>1. job[j] \in JobRow /\ Lifecycle(job[j])
    BY <1>1 DEF RowTypes
  <2>2. y \in JobRow /\ IsJob(y, job[j].status, job[j].token, job[j].attempts, job[j].lease, "old")
    BY <2>1 DEF JobRow, IsJob, Boundaries
  <2>3. job'[j] = job[j] \/ (job[j].boundary = "fresh" /\ job'[j] = y)
    BY <1>3
  <2>. HIDE DEF y
  <2>. QED
    BY <2>1, <2>2, <2>3 DEF IsJob, Lifecycle
<1>5. RowTypes' /\ CampaignTypes' /\ campaign'.status = "indeterminate" /\ campaign'.receipt = campaign.receipt
  <2>1. job' \in [Jobs -> JobRow]
    BY <1>4 DEF DayPasses
  <2>. QED
    BY <1>1, <1>2, <1>4, <2>1 DEF RowTypes, CampaignTypes
<1>6. \A j \in Jobs : RowMoves(j) /\ WorkShrinks(j)
  BY <1>2, <1>4 DEF RowMoves, WorkShrinks
<1>. QED
  BY <1>2, <1>5, <1>6, ClosingKeeps

LEMMA LegKeeps ==
    ASSUME Inv, NEW j \in Jobs, LegAnswers(j) \/ LegEnds(j)
    PROVE  Inv'
<1>1. /\ RowTypes /\ CampaignTypes /\ JobInv(j) /\ call[j] \in CallRow
  BY TypesSplit DEF Inv, RowTypes
<1>2. /\ UNCHANGED <<campaign, execution, book, launch, job, placed, dialer, work, crashes>>
      /\ call[j].status = "live"
  BY DEF LegAnswers, LegEnds
<1>3. /\ call' \in [Jobs -> CallRow]
      /\ \A k \in Jobs \ {j} : call'[k] = call[k]
      /\ call'[j].status \in {"live", "closed"}
      /\ call[j].sid => call'[j].sid
  <2>1. CASE LegAnswers(j)
    BY <1>1, <1>2, <2>1, SidUpdate, Zenon DEF LegAnswers
  <2>2. CASE LegEnds(j)
    <3>. DEFINE y == [call[j] EXCEPT !.status = "closed"]
    <3>1. y \in CallRow /\ y.status = "closed" /\ y.sid = call[j].sid
      BY <1>1, Zenon DEF CallRow
    <3>2. call' = [call EXCEPT ![j] = y]
      BY <2>2, Zenon DEF LegEnds
    <3>. HIDE DEF y
    <3>. QED
      BY <1>1, <3>1, <3>2 DEF RowTypes
  <2>. QED
    BY <2>1, <2>2
<1>4. RowTypes' /\ CampaignTypes'
  BY <1>1, <1>2, <1>3 DEF RowTypes, CampaignTypes
<1>5. \A k \in Jobs \ {j} : Untouched(k)
  BY <1>2, <1>3 DEF Untouched
<1>6. JobInv(j)' /\ JobMoves(j)
  BY <1>1, <1>2, <1>3, ZenonT(60) DEF JobInv, RowsAgree, DialerAgrees, JobMoves
<1>. QED
  BY <1>2, <1>4, <1>5, <1>6, OneJobKeeps

(* Steps that leave all rows alone. *)
LEMMA RestKeeps ==
    ASSUME Inv, UNCHANGED <<job, call, placed, work, crashes>>, CampaignTypes', CampaignInv'
    PROVE  Inv'
<1>1. RowTypes' /\ \A j \in Jobs : RowMoves(j) /\ WorkShrinks(j)
  BY TypesSplit DEF Inv, RowTypes, RowMoves, WorkShrinks
<1>. QED
  BY <1>1, RowKeeps, TypesSplit DEF Inv

LEMMA BookKeeps ==
    ASSUME Inv, EditDataset \/ UpdateFlow \/ LaunchPreflight \/ ExecutionSettles \/ Quarantine
    PROVE  Inv'
<1>1. CampaignTypes /\ CampaignInv /\ UNCHANGED <<job, call, placed, work, dialer, crashes>>
  BY TypesSplit DEF Inv, EditDataset, UpdateFlow, LaunchPreflight, ExecutionSettles, Quarantine
<1>2. CampaignTypes'
  <2>1. CASE EditDataset
    BY <1>1, <2>1 DEF CampaignTypes, EditDataset
  <2>2. CASE UpdateFlow
    BY <1>1, <2>2 DEF CampaignTypes, UpdateFlow
  <2>3. CASE LaunchPreflight \/ ExecutionSettles
    BY <1>1, <2>3 DEF CampaignTypes, LaunchPreflight, ExecutionSettles
  <2>4. CASE Quarantine
    BY <1>1, <2>4, Zenon DEF CampaignTypes, Quarantine
  <2>. QED
    BY <2>1, <2>2, <2>3, <2>4
<1>3. CASE Quarantine
  <2>1. campaign'.status = campaign.status /\ campaign.status = "indeterminate" /\ UNCHANGED <<book, launch>>
    BY <1>1, <1>3 DEF Quarantine, CampaignTypes
  <2>2. QuarantineIsFinal'
    BY <1>1, <1>3, <2>1 DEF Quarantine, Quarantinable, QuarantineIsFinal
  <2>3. DoneCampaignIsKnown' /\ CampaignAsApproved'
    BY <2>1 DEF DoneCampaignIsKnown, CampaignAsApproved
  <2>. QED
    BY <1>1, <1>2, <2>1, <2>2, <2>3, RestKeeps DEF CampaignInv
<1>4. CASE UNCHANGED campaign /\ (launch' = "launched" <=> launch = "launched")
             /\ (campaign.status \in {"scheduled", "running"} => book'.flow = book.flow)
  BY <1>1, <1>2, <1>4, RestKeeps
     DEF CampaignInv, DoneCampaignIsKnown, CampaignAsApproved, QuarantineIsFinal, OfCampaign
<1>5. CASE EditDataset \/ UpdateFlow \/ LaunchPreflight \/ ExecutionSettles
  <2>1. UNCHANGED campaign /\ (launch' = "launched" <=> launch = "launched")
    BY <1>5 DEF EditDataset, UpdateFlow, LaunchPreflight, ExecutionSettles
  <2>2. campaign.status \in {"scheduled", "running"} => book'.flow = book.flow
    BY <1>1, <1>5 DEF EditDataset, UpdateFlow, LaunchPreflight, ExecutionSettles, CampaignTypes, FlowLocked
  <2>. QED
    BY <1>4, <2>1, <2>2
<1>. QED
  BY <1>3, <1>5

LEMMA DialerKeeps ==
    ASSUME Inv, NEW d \in Dialers, DialPromotes(d) \/ CloseDone(d) \/ ImmediateReturns(d)
    PROVE  Inv'
<1>1. CampaignTypes /\ CampaignInv /\ UNCHANGED <<execution, book, launch, job, call, placed, work, crashes>>
  BY TypesSplit DEF Inv, DialPromotes, CloseDone, ImmediateReturns
<1>2. CampaignTypes'
  BY <1>1 DEF CampaignTypes, DialPromotes, CloseDone, ImmediateReturns
<1>3. CASE UNCHANGED campaign
  BY <1>1, <1>2, <1>3, RestKeeps
     DEF CampaignInv, DoneCampaignIsKnown, CampaignAsApproved, QuarantineIsFinal, OfCampaign
<1>4. CASE campaign.status = "scheduled" /\ campaign' = [campaign EXCEPT !.status = "running"]
  <2>1. campaign'.status = "running" /\ campaign'.receipt = campaign.receipt
    BY <1>1, <1>4 DEF CampaignTypes
  <2>. QED
    BY <1>1, <1>2, <1>4, <2>1, RestKeeps
       DEF CampaignInv, DoneCampaignIsKnown, CampaignAsApproved, QuarantineIsFinal, OfCampaign
<1>5. CASE campaign.status \in {"running", "scheduled"} /\ Finished /\ campaign' = [campaign EXCEPT !.status = "done"]
  <2>1. campaign'.status = "done" /\ campaign'.receipt = campaign.receipt
    BY <1>1, <1>5 DEF CampaignTypes
  <2>2. \A j \in CampaignJobs : job[j].status \in JobStatuses
    BY DEF Inv, TypeOK, CampaignJobs
  <2>3. DoneCampaignIsKnown'
    BY <1>1, <1>5, <2>2 DEF DoneCampaignIsKnown, Finished, JobStatuses
  <2>. QED
    BY <1>1, <1>2, <1>5, <2>1, <2>3, RestKeeps DEF CampaignInv, CampaignAsApproved, QuarantineIsFinal
<1>. QED
  BY <1>3, <1>4, <1>5 DEF DialPromotes, CloseDone, ImmediateReturns

(* The launch makes the rows of the approved targets, and of no others. *)
LEMMA LaunchKeeps ==
    ASSUME Inv, LaunchMaterializes
    PROVE  Inv'
<1>1. /\ RowTypes /\ CampaignTypes /\ CampaignInv /\ \A j \in Jobs : JobInv(j)
  BY TypesSplit DEF Inv
<1>2. /\ launch = "preflighted"
      /\ UNCHANGED <<execution, book, call, placed, dialer, work, crashes>>
  BY DEF LaunchMaterializes
<1>3. CASE ~StillApproved
  <2>1. launch' = "refused" /\ UNCHANGED <<campaign, job>>
    BY <1>3 DEF LaunchMaterializes
  <2>. QED
    BY <1>1, <1>2, <2>1, RestKeeps
       DEF CampaignTypes, CampaignInv, DoneCampaignIsKnown, CampaignAsApproved, QuarantineIsFinal, OfCampaign
<1>4. CASE StillApproved
  <2>1. PICK s \in {"scheduled", "running"} : campaign' = [campaign EXCEPT !.status = s]
    BY <1>4 DEF LaunchMaterializes
  <2>2. campaign'.status = s /\ campaign'.receipt = campaign.receipt /\ launch' = "launched" /\ CampaignTypes'
    BY <1>1, <1>2, <1>4, <2>1 DEF CampaignTypes, LaunchMaterializes
  <2>3. /\ CampaignJobs \subseteq Jobs
        /\ \A j \in CampaignJobs : job[j].status = "none"
        /\ campaign.status = "none"
        /\ book.targets = CampaignJobs /\ book.flow = 0
    BY <1>1, <1>2, <1>4 DEF CampaignInv, CampaignJobs, StillApproved, Approved
  <2>4. \A j \in Jobs :
          job'[j] = IF j \in CampaignJobs THEN [job[j] EXCEPT !.status = "pending"] ELSE job[j]
    BY <1>4, <2>3 DEF LaunchMaterializes, CampaignJobs
  <2>5. \A j \in Jobs :
          /\ job'[j] \in JobRow /\ Lifecycle(job'[j]) /\ job'[j].boundary = job[j].boundary
          /\ j \in CampaignJobs => job'[j].status = "pending"
          /\ j \notin CampaignJobs => job'[j] = job[j]
    <3>. TAKE j \in Jobs
    <3>. DEFINE y == [job[j] EXCEPT !.status = "pending"]
    <3>1. job[j] \in JobRow /\ Lifecycle(job[j])
      BY <1>1 DEF RowTypes
    <3>2. y \in JobRow /\ IsJob(y, "pending", job[j].token, job[j].attempts, job[j].lease, job[j].boundary)
      BY <3>1 DEF JobRow, IsJob, JobStatuses
    <3>3. job'[j] = IF j \in CampaignJobs THEN y ELSE job[j]
      BY <2>4
    <3>. HIDE DEF y
    <3>. QED
      BY <2>3, <3>1, <3>2, <3>3 DEF IsJob, Lifecycle
  <2>6. RowTypes'
    <3>1. job' \in [Jobs -> JobRow]
      BY <1>4, <2>5 DEF LaunchMaterializes
    <3>. QED
      BY <1>1, <1>2, <2>5, <3>1 DEF RowTypes
  <2>7. ASSUME NEW j \in Jobs PROVE JobInv(j)'
    BY <1>1, <1>2, <2>3, <2>5, <2>7 DEF JobInv, RowsAgree, DialerAgrees
  <2>8. ~campaign.receipt
    BY <1>1, <2>3 DEF CampaignInv, QuarantineIsFinal
  <2>9. CampaignInv'
    BY <1>2, <2>2, <2>3, <2>5, <2>8
       DEF CampaignInv, DoneCampaignIsKnown, CampaignAsApproved, QuarantineIsFinal, OfCampaign, Approved
  <2>. QED
    BY <2>2, <2>6, <2>7, <2>9, TypesSplit DEF Inv
<1>. QED
  BY <1>3, <1>4

LEMMA InitInv ==
    ASSUME OutboundAssumption, Init
    PROVE  Inv
<1>1. NoJob \in JobRow /\ IsJob(NoJob, "none", 0, 0, "none", "none")
  BY DEF NoJob, JobRow, IsJob, JobStatuses, Leases, Boundaries
<1>. DEFINE y == [NoJob EXCEPT !.status = "pending"]
<1>2. y \in JobRow /\ IsJob(y, "pending", 0, 0, "none", "none")
  BY DEF NoJob, JobRow, IsJob, JobStatuses, Leases, Boundaries
<1>3. \A j \in Jobs : job[j] = IF Kind[j] = "campaign" THEN NoJob ELSE y
  BY DEF Init
<1>4. job \in [Jobs -> JobRow]
  BY <1>1, <1>2 DEF Init
<1>. HIDE DEF y
<1>5. \A j \in Jobs : Lifecycle(job[j]) /\ job[j].boundary = "none" /\ job[j].status \in {"none", "pending"}
                      /\ (j \in CampaignJobs => job[j].status = "none")
  BY <1>1, <1>2, <1>3 DEF IsJob, Lifecycle, CampaignJobs
<1>6. NoCall \in CallRow /\ NoCall.status = "none"
  BY Zenon DEF NoCall, CallRow
<1>7. Idle \in WorkRow /\ Idle.pc = "idle"
  BY DEF Idle, WorkRow, Pcs
<1>8. RowTypes
  BY <1>4, <1>5, <1>6, <1>7, Zenon DEF Init, RowTypes
<1>9. CampaignTypes
  <2>1. campaign \in [status: {"none", "scheduled", "running", "done", "canceled", "indeterminate"},
                      age: {"fresh", "old"}, receipt: BOOLEAN]
    BY Zenon DEF Init
  <2>2. book \in [targets: SUBSET CampaignJobs, flow: {0, 1}]
    BY DEF Init, Approved
  <2>. QED
    BY <2>1, <2>2 DEF Init, CampaignTypes, OutboundAssumption
<1>10. \A j \in Jobs : JobInv(j)
  BY <1>5, <1>6, <1>7 DEF Init, JobInv, RowsAgree, DialerAgrees, Beyond
<1>11. CampaignInv
  <2>1. campaign.status = "none" /\ ~campaign.receipt /\ launch = "idle"
    BY Zenon DEF Init
  <2>2. CampaignJobs \subseteq Jobs
    BY DEF CampaignJobs
  <2>. QED
    BY <1>5, <2>1, <2>2 DEF CampaignInv, DoneCampaignIsKnown, CampaignAsApproved, QuarantineIsFinal
<1>. QED
  BY <1>8, <1>9, <1>10, <1>11, TypesSplit DEF Inv

LEMMA NextInv ==
    ASSUME OutboundAssumption, Inv, [Next]_vars
    PROVE  Inv'
<1>1. CASE UNCHANGED vars
  <2>1. CampaignTypes' /\ CampaignInv' /\ UNCHANGED <<job, call, placed, work, crashes>>
    BY <1>1, TypesSplit
       DEF vars, Inv, CampaignTypes, CampaignInv, DoneCampaignIsKnown, CampaignAsApproved, QuarantineIsFinal,
           OfCampaign
  <2>. QED
    BY <2>1, RestKeeps
<1>2. ASSUME NEW d \in Dialers, Dials(d) PROVE Inv'
  <2>1. ASSUME NEW j \in Jobs, Works(d, j) PROVE Inv'
    BY <2>1, AdmitKeeps, ProviderKeeps, SettleKeeps, ThrowKeeps DEF Works
  <2>. QED
    BY <1>2, <2>1, ClaimsKeep, CloseMarksKeeps, DialerKeeps DEF Dials
<1>. QED
  BY <1>1, <1>2, CloseMarksKeeps, BookKeeps, LaunchKeeps, ReconcileKeeps, TimeKeeps, DayKeeps, LegKeeps DEF Next

------------------------------------------------------------------------------
(* What holds of every behaviour. *)

(* The rows, the dialers and the campaign agree, for any number of each. *)
THEOREM DispatchInvariant == ASSUME OutboundAssumption PROVE Spec => []Inv
<1>1. Init => Inv
  BY InitInv
<1>2. Inv /\ [Next]_vars => Inv'
  BY NextInv
<1>. QED
  BY <1>1, <1>2, PTL DEF Spec

(* "automatic redial is forbidden": the provider places at most one call of a
   job, and only after its boundary and its calls row are durable. *)
THEOREM ProviderAskedOnce == ASSUME OutboundAssumption PROVE Spec => []AtMostOneCall
<1>1. Inv => AtMostOneCall
  BY DEF Inv, JobInv, RowsAgree, AtMostOneCall, TypeOK
<1>. QED
  BY <1>1, DispatchInvariant, PTL

(* The final status of a job tells the truth about the provider. *)
THEOREM FinalStatusIsTrue == ASSUME OutboundAssumption PROVE Spec => []OutcomeIsTrue
<1>1. Inv => OutcomeIsTrue
  BY DEF Inv, JobInv, RowsAgree, OutcomeIsTrue
<1>. QED
  BY <1>1, DispatchInvariant, PTL

(* A campaign that is done stays one whose every effect is terminal and known;
   an open one has exactly the approved targets and its approved flow; a
   quarantine receipt is final. *)
THEOREM CampaignStaysKnown ==
    ASSUME OutboundAssumption
    PROVE  Spec => [](DoneCampaignIsKnown /\ CampaignAsApproved /\ QuarantineIsFinal)
<1>1. Inv => DoneCampaignIsKnown /\ CampaignAsApproved /\ QuarantineIsFinal
  BY DEF Inv, CampaignInv
<1>. QED
  BY <1>1, DispatchInvariant, PTL

(* The boundary of a job is crossed by its admission only. *)
LEMMA OnlyAdmitCrosses ==
    ASSUME Inv, Next, NEW j \in Jobs, job[j].boundary = "none", job'[j].boundary # "none"
    PROVE  \E d \in Dialers : Admit(d, j)
<1>1. RowTypes /\ \A k \in Jobs : Lifecycle(job[k])
  BY TypesSplit DEF Inv, RowTypes
<1>2. job' # job
  OBVIOUS
<1>3. job' # SafeRemainderCanceled(job)
  BY <1>1, CanceledRows DEF RowTypes
<1>4. \A k \in Jobs, s \in {"done", "failed", "indeterminate"} : job' # [job EXCEPT ![k] = Free(s, job[k])]
  BY <1>1, FreeRow DEF RowTypes, IsJob, JobStatuses
<1>5. \A k \in Jobs : job' # [job EXCEPT ![k] = Claimed(job[k])]
  BY <1>1, ClaimedRow DEF RowTypes, IsJob
<1>6. ASSUME NEW d \in Dialers, NEW k \in Jobs, Works(d, k) PROVE Admit(d, k) /\ k = j
  <2>1. CASE Admit(d, k)
    BY <1>1, <2>1 DEF Admit, RowTypes
  <2>. QED
    BY <1>2, <1>4, <1>6, <2>1
       DEF Works, AdmitThrows, Post, Stamp, Settle, ThrowReleases, ReleaseOrNext, ThrowMarks
<1>7. ASSUME NEW d \in Dialers, Dials(d) PROVE \E k \in Jobs : Works(d, k)
  <2>1. ~DialClaims(d)
    <3>1. \A k \in Jobs : Claimed(job[k]).boundary = job[k].boundary
      BY <1>1, ClaimedRow DEF RowTypes, IsJob
    <3>. QED
      BY <1>1, <3>1, Zenon DEF DialClaims, RowTypes
  <2>2. ~\E k \in Jobs : ImmediateClaims(d, k)
    BY <1>5 DEF ImmediateClaims
  <2>. QED
    BY <1>2, <1>3, <1>7, <2>1, <2>2 DEF Dials, DialPromotes, CloseMarks, CloseDone, ImmediateReturns
<1>8. ~Reconcile
  <2>. DEFINE marked == [k \in Jobs |-> IF k \in CampaignJobs /\ Orphaned(k)
                                        THEN Free("indeterminate", job[k]) ELSE job[k]]
  <2>1. \A k \in Jobs : /\ Free("indeterminate", job[k]) \in JobRow
                        /\ Lifecycle(Free("indeterminate", job[k]))
                        /\ Free("indeterminate", job[k]).boundary = job[k].boundary
    BY <1>1, FreeRow DEF RowTypes, JobStatuses, IsJob
  <2>2. marked \in [Jobs -> JobRow] /\ \A k \in Jobs : Lifecycle(marked[k])
    BY <1>1, <2>1 DEF RowTypes
  <2>3. marked[j].boundary = "none"
    BY <2>1
  <2>4. Reconcile => job' = SafeRemainderCanceled(marked)
    BY DEF Reconcile
  <2>. HIDE DEF marked
  <2>. QED
    BY <2>2, <2>3, <2>4, CanceledRows
<1>9. ~LaunchMaterializes
  BY <1>1, <1>2 DEF LaunchMaterializes, RowTypes, JobRow
<1>10. ~DayPasses /\ \A k \in Jobs : ~LeaseAges(k) /\ ~CancelPending(k)
  <2>1. ~DayPasses
    BY <1>1 DEF DayPasses, RowTypes, JobRow
  <2>2. ASSUME NEW k \in Jobs PROVE ~LeaseAges(k)
    BY <1>1 DEF LeaseAges, RowTypes, JobRow
  <2>3. ASSUME NEW k \in Jobs PROVE ~CancelPending(k)
    BY <1>1 DEF CancelPending, RowTypes, JobRow
  <2>. QED
    BY <2>1, <2>2, <2>3, Zenon
<1>11. ~CancelCampaign /\ ~Quarantine /\ ~EditDataset /\ ~UpdateFlow /\ ~LaunchPreflight /\ ~ExecutionSettles
       /\ (\A k \in Jobs : ~LegAnswers(k) /\ ~LegEnds(k)) /\ \A d \in Dialers : ~DialerCrashes(d)
  BY <1>2, <1>3
     DEF CancelCampaign, Quarantine, EditDataset, UpdateFlow, LaunchPreflight, ExecutionSettles, LegAnswers,
         LegEnds, DialerCrashes
<1>12. PICK d \in Dialers : Dials(d)
  BY <1>8, <1>9, <1>10, <1>11 DEF Next
<1>. QED
  BY <1>6, <1>7, <1>12

(* No job of a canceled, done or indeterminate campaign crosses the boundary to
   the provider any more: cancellation and dispatch exclude each other. *)
THEOREM ClosedCampaignIsQuiet == ASSUME OutboundAssumption PROVE Spec => ClosedCampaignDialsNoMore
<1>1. Inv /\ [Next]_vars => [NoneCrosses]_vars
  <2>. SUFFICES ASSUME Inv, Next, campaign.status \in {"canceled", "done", "indeterminate"},
                       NEW j \in CampaignJobs, job[j].boundary = "none", job'[j].boundary # "none"
                PROVE  FALSE
    BY DEF NoneCrosses
  <2>1. j \in Jobs /\ Kind[j] = "campaign"
    BY DEF CampaignJobs
  <2>2. PICK d \in Dialers : Admit(d, j)
    BY <2>1, OnlyAdmitCrosses
  <2>. QED
    BY <2>1, <2>2 DEF Admit, Admissible
<1>. QED
  BY <1>1, DispatchInvariant, PTL DEF Spec, ClosedCampaignDialsNoMore
==============================================================================
