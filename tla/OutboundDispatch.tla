--------------------------- MODULE OutboundDispatch ----------------------------
(***************************************************************************)
(* Outbound calls from an approved action to the provider: a campaign is   *)
(* materialised as one scheduled call per target, dialers (runs of the     *)
(* scheduler, the fast start of a campaign) claim due calls under a lease, *)
(* originateCall crosses the durable boundary before it asks the provider  *)
(* for the call, and what happens to a call of unknown outcome is          *)
(* reconciliation and quarantine, never a second attempt.                  *)
(*                                                                         *)
(* A claim token is the number of the claim.  A lease is live, expired, or *)
(* stale (expired by more than the grace period); the two ages of 24 hours *)
(* are "old".  Of the calls row the module keeps whether it is there,      *)
(* still live, and carries the provider's identity.                        *)
(***************************************************************************)
EXTENDS Integers, FiniteSets

CONSTANTS
    Jobs,          \* the scheduled calls
    Kind,          \* Jobs -> {"campaign", "scheduled", "immediate"}
    Dialers,       \* processes that run dialDue or an approved immediate call
    MaxAttempts,   \* bound: claims of one job
    MaxCrashes,    \* bound: dialers lost
    SlowDialers    \* whether a dialer may outlive the lease of its claim

OutboundAssumption ==
    /\ Kind \in [Jobs -> {"campaign", "scheduled", "immediate"}]
    /\ MaxAttempts \in Nat /\ MaxCrashes \in Nat /\ SlowDialers \in BOOLEAN

VARIABLES
    campaign,   \* status, age of its ambiguity, quarantine receipt
    execution,  \* the operator execution that launched the campaign
    book,       \* the dataset and the flow as they are now
    launch,     \* launchCampaign between its preflight and its transaction
    job,        \* the scheduled_calls rows
    call,       \* the calls rows
    placed,     \* calls the provider has really placed, per job
    dialer,     \* where each dialDue is
    work,       \* where each dialer is with each job it claimed
    crashes

vars == <<campaign, execution, book, launch, job, call, placed, dialer, work, crashes>>

CampaignJobs == {j \in Jobs : Kind[j] = "campaign"}

(* What the operator saw and approved: every campaign target, flow 0.      *)
Approved == [targets |-> CampaignJobs, flow |-> 0]

Idle == [pc |-> "idle", token |-> 0]

NoCall == [status |-> "none", sid |-> FALSE]

NoJob == [status |-> "none", token |-> 0, attempts |-> 0, lease |-> "none", boundary |-> "none"]

Free(s, r) == [r EXCEPT !.status = s, !.token = 0, !.lease = "none"]

Init ==
    /\ campaign = [status |-> "none", age |-> "fresh", receipt |-> FALSE]
    /\ execution = "dispatching"
    /\ book = Approved
    /\ launch = "idle"
    /\ job = [j \in Jobs |-> IF Kind[j] = "campaign" THEN NoJob
                             ELSE [NoJob EXCEPT !.status = "pending"]]
    /\ call = [j \in Jobs |-> NoCall]
    /\ placed = [j \in Jobs |-> 0]
    /\ dialer = [d \in Dialers |-> "idle"]
    /\ work = [d \in Dialers |-> [j \in Jobs |-> Idle]]
    /\ crashes = 0

--------------------------------------------------------------------------------
(* Launching a campaign.                                                   *)

(* The dataset is read by the launch alone; later edits are left out.      *)
EditDataset ==
    /\ launch \in {"idle", "preflighted"}
    /\ \E t \in SUBSET CampaignJobs : book' = [book EXCEPT !.targets = t]
    /\ UNCHANGED <<campaign, execution, launch, job, call, placed, dialer, work, crashes>>

(* A flow is locked while a campaign of it is open or its ambiguity has no  *)
(* quarantine receipt.                                                     *)
FlowLocked ==
    \/ campaign.status \in {"scheduled", "running"}
    \/ campaign.status = "indeterminate" /\ ~campaign.receipt

UpdateFlow ==
    /\ ~FlowLocked
    /\ book' = [book EXCEPT !.flow = 1 - @]
    /\ UNCHANGED <<campaign, execution, launch, job, call, placed, dialer, work, crashes>>

LaunchPreflight ==
    /\ launch = "idle" /\ execution = "dispatching" /\ Approved.targets # {}
    /\ launch' = IF book = Approved THEN "preflighted" ELSE "refused"
    /\ UNCHANGED <<campaign, execution, book, job, call, placed, dialer, work, crashes>>


StillApproved == execution = "dispatching" /\ book = Approved

LaunchMaterializes ==
    /\ launch = "preflighted"
    /\ IF StillApproved
       THEN /\ launch' = "launched"
            /\ \E s \in {"scheduled", "running"} : campaign' = [campaign EXCEPT !.status = s]
            /\ job' = [j \in Jobs |-> IF j \in book.targets /\ Kind[j] = "campaign"
                                      THEN [job[j] EXCEPT !.status = "pending"] ELSE job[j]]
       ELSE launch' = "refused" /\ UNCHANGED <<campaign, job>>
    /\ UNCHANGED <<execution, book, call, placed, dialer, work, crashes>>

(* The execution succeeds with the launch; a launch that failed, or whose   *)
(* success could not be recorded, leaves it indeterminate.                 *)
ExecutionSettles ==
    /\ execution = "dispatching" /\ launch \in {"launched", "refused"}
    /\ execution' \in IF launch = "launched" THEN {"succeeded", "indeterminate"}
                      ELSE {"indeterminate"}
    /\ UNCHANGED <<campaign, book, launch, job, call, placed, dialer, work, crashes>>

--------------------------------------------------------------------------------
(* dialDue: promote, claim, dial each claimed job, close.                  *)

DialPromotes(d) ==
    /\ dialer[d] = "idle"
    /\ dialer' = [dialer EXCEPT ![d] = "promoted"]
    /\ campaign' = IF campaign.status = "scheduled" /\ execution = "succeeded"
                   THEN [campaign EXCEPT !.status = "running"] ELSE campaign
    /\ UNCHANGED <<execution, book, launch, job, call, placed, work, crashes>>

Claimable(j) ==
    /\ \/ job[j].status = "pending"
       \/ /\ job[j].status = "dialing" /\ job[j].boundary = "none"
          /\ job[j].lease \in {"expired", "stale"}
    /\ \/ Kind[j] = "campaign" /\ campaign.status = "running" /\ execution = "succeeded"
       \/ Kind[j] = "scheduled"

Batches(due) == IF due = {} THEN {{}} ELSE SUBSET due \ {{}}

Claimed(r) ==
    [r EXCEPT !.status = "dialing", !.attempts = @ + 1, !.token = r.attempts + 1, !.lease = "live"]

(* The batch is limited, so a part of the due rows may be claimed; rows     *)
(* that another dialer has locked are claimed by the time they are skipped. *)
DialClaims(d) ==
    /\ dialer[d] = "promoted"
    /\ dialer' = [dialer EXCEPT ![d] = "working"]
    /\ \E S \in Batches({j \in Jobs : Claimable(j) /\ job[j].attempts < MaxAttempts}) :
          /\ job' = [j \in Jobs |-> IF j \in S THEN Claimed(job[j]) ELSE job[j]]
          /\ work' = [work EXCEPT ![d] = [j \in Jobs |->
                IF j \in S THEN [pc |-> "claimed", token |-> job[j].attempts + 1]
                ELSE work[d][j]]]
    /\ UNCHANGED <<campaign, execution, book, launch, call, placed, crashes>>

(* An approved immediate call is claimed once, by its own request.          *)
ImmediateClaims(d, j) ==
    /\ dialer[d] = "idle"
    /\ Kind[j] = "immediate" /\ job[j].status = "pending"
    /\ job' = [job EXCEPT ![j] = Claimed(@)]
    /\ dialer' = [dialer EXCEPT ![d] = "immediate"]
    /\ work' = [work EXCEPT ![d][j] = [pc |-> "claimed", token |-> job[j].attempts + 1]]
    /\ UNCHANGED <<campaign, execution, book, launch, call, placed, crashes>>

At(d, j, pc) == work[d][j].pc = pc

Owns(d, j) == job[j].token = work[d][j].token /\ job[j].status = "dialing"

Goes(d, j, pc) == work' = [work EXCEPT ![d][j].pc = pc]

Drops(d, j) == work' = [work EXCEPT ![d][j] = Idle]

(* The admission transaction of originateCall: the exclusive claim, the     *)
(* authority it was made under, and no call of that identity yet.          *)
Admissible(d, j) ==
    /\ Owns(d, j) /\ job[j].lease = "live"
    /\ job[j].boundary = "none" /\ call[j].status = "none"
    /\ Kind[j] = "campaign" => campaign.status = "running" /\ execution = "succeeded"

(* The boundary commits with the calls row.  When the acknowledgement of    *)
(* the commit is lost the dialer does not go on to the provider.           *)
Admit(d, j) ==
    /\ At(d, j, "claimed") /\ Admissible(d, j)
    /\ job' = [job EXCEPT ![j].boundary = "fresh"]
    /\ call' = [call EXCEPT ![j].status = "live"]
    /\ \/ Goes(d, j, "posting") \/ Goes(d, j, "threw")
    /\ UNCHANGED <<campaign, execution, book, launch, placed, dialer, crashes>>

AdmitThrows(d, j) ==
    /\ At(d, j, "claimed")
    /\ Goes(d, j, "threw")
    /\ UNCHANGED <<campaign, execution, book, launch, job, call, placed, dialer, crashes>>

(* The provider's answer: an identity, a definite refusal, or no usable     *)
(* answer, in which case the call may or may not have been placed.         *)
Post(d, j) ==
    /\ At(d, j, "posting")
    /\ \/ placed' = [placed EXCEPT ![j] = @ + 1] /\ Goes(d, j, "accepted")
       \/ UNCHANGED placed /\ Goes(d, j, "failed")
       \/ placed' = [placed EXCEPT ![j] = @ + 1] /\ Goes(d, j, "indeterminate")
       \/ UNCHANGED placed /\ Goes(d, j, "indeterminate")
    /\ UNCHANGED <<campaign, execution, book, launch, job, call, dialer, crashes>>

Stamp(d, j) ==
    /\ At(d, j, "accepted")
    /\ \/ call' = [call EXCEPT ![j].sid = TRUE] /\ Goes(d, j, "done")
       \/ UNCHANGED call /\ Goes(d, j, "threw")
    /\ UNCHANGED <<campaign, execution, book, launch, job, placed, dialer, crashes>>

(* settleDispatch: both rows in one transaction, or neither.               *)
MaySettle(d, j, outcome) ==
    /\ job[j].boundary # "none"
    /\ Owns(d, j) \/ (job[j].token = 0 /\ job[j].status = outcome)

Settle(d, j, outcome) ==
    /\ At(d, j, outcome)
    /\ \/ /\ MaySettle(d, j, outcome)
          /\ job' = [job EXCEPT ![j] = Free(outcome, @)]
          /\ call' = [call EXCEPT ![j].status = IF outcome = "done" THEN @ ELSE "closed",
                                  ![j].sid = @ \/ outcome = "done"]
          /\ Drops(d, j)
       \/ Goes(d, j, "threw") /\ UNCHANGED <<job, call>>
    /\ UNCHANGED <<campaign, execution, book, launch, placed, dialer, crashes>>

(* What the caller of originateCall does with an exception, in two          *)
(* statements either of which the database may refuse to run.              *)
ReleasesPreDispatch(d, j) ==
    /\ Owns(d, j) /\ job[j].boundary = "none"
    /\ Kind[j] = "immediate" \/ job[j].lease = "live"

ReleaseOrNext(d, j) ==
    \/ /\ ReleasesPreDispatch(d, j)
       /\ job' = [job EXCEPT ![j] = Free("failed", @)] /\ Drops(d, j)
    \/ UNCHANGED job /\ Goes(d, j, "threw2")

ThrowReleases(d, j) ==
    /\ At(d, j, "threw")
    /\ ReleaseOrNext(d, j)
    /\ UNCHANGED <<campaign, execution, book, launch, call, placed, dialer, crashes>>

ThrowMarks(d, j) ==
    /\ At(d, j, "threw2")
    /\ \/ /\ Owns(d, j) /\ job[j].boundary # "none"
          /\ job' = [job EXCEPT ![j] = Free("indeterminate", @)]
       \/ UNCHANGED job
    /\ Drops(d, j)
    /\ UNCHANGED <<campaign, execution, book, launch, call, placed, dialer, crashes>>

AllDropped(d) == \A j \in Jobs : work[d][j] = Idle

ImmediateReturns(d) ==
    /\ dialer[d] = "immediate" /\ AllDropped(d)
    /\ dialer' = [dialer EXCEPT ![d] = "idle"]
    /\ UNCHANGED <<campaign, execution, book, launch, job, call, placed, work, crashes>>

--------------------------------------------------------------------------------
(* closeFinishedCampaigns and the scheduler's sweeps.                      *)

OfCampaign(r) == r.status # "none"

(* The jobs of the campaign that have not reached the boundary are canceled. *)
SafeRemainderCanceled(jobs) ==
    [j \in Jobs |-> IF /\ j \in CampaignJobs
                       /\ \/ jobs[j].status = "pending"
                          \/ jobs[j].status = "dialing" /\ jobs[j].boundary = "none"
                    THEN Free("canceled", jobs[j]) ELSE jobs[j]]

CloseMarks(d) ==
    /\ dialer[d] = "working" /\ AllDropped(d)
    /\ dialer' = [dialer EXCEPT ![d] = "closing"]
    /\ IF /\ campaign.status \in {"running", "scheduled"}
          /\ \E j \in CampaignJobs : job[j].status = "indeterminate"
       THEN /\ campaign' = [campaign EXCEPT !.status = "indeterminate"]
            /\ job' = SafeRemainderCanceled(job)
       ELSE UNCHANGED <<campaign, job>>
    /\ UNCHANGED <<execution, book, launch, call, placed, work, crashes>>

Finished ==
    /\ \A j \in CampaignJobs : job[j].status \notin {"pending", "dialing", "indeterminate"}
    /\ \A j \in CampaignJobs : call[j].status # "live"
    /\ \E j \in CampaignJobs : OfCampaign(job[j])

CloseDone(d) ==
    /\ dialer[d] = "closing"
    /\ dialer' = [dialer EXCEPT ![d] = "idle"]
    /\ campaign' = IF campaign.status \in {"running", "scheduled"} /\ Finished
                   THEN [campaign EXCEPT !.status = "done"] ELSE campaign
    /\ UNCHANGED <<execution, book, launch, job, call, placed, work, crashes>>


Orphaned(j) ==
    /\ job[j].status = "dialing" /\ job[j].boundary # "none" /\ call[j].status # "none"
    /\ job[j].lease = "stale"

Reconcile ==
    /\ campaign.status \in {"scheduled", "running", "indeterminate"}
    /\ \E j \in CampaignJobs : Orphaned(j)
    /\ job' = SafeRemainderCanceled(
                [j \in Jobs |-> IF j \in CampaignJobs /\ Orphaned(j)
                                THEN Free("indeterminate", job[j]) ELSE job[j]])
    /\ campaign' = [campaign EXCEPT !.status = "indeterminate"]
    /\ UNCHANGED <<execution, book, launch, call, placed, dialer, work, crashes>>

Quarantinable ==
    /\ campaign.age = "old"
    /\ \E j \in CampaignJobs : job[j].status = "indeterminate"
    /\ \A j \in CampaignJobs :
          /\ job[j].status \notin {"pending", "dialing"}
          /\ job[j].status = "indeterminate" => job[j].boundary = "old"
          /\ call[j].status # "live"

Quarantine ==
    /\ campaign.status = "indeterminate" /\ ~campaign.receipt
    /\ Quarantinable
    /\ campaign' = [campaign EXCEPT !.receipt = TRUE]
    /\ UNCHANGED <<execution, book, launch, job, call, placed, dialer, work, crashes>>

CancelCampaign ==
    /\ campaign.status \in {"scheduled", "running", "indeterminate"}
    /\ campaign' = [campaign EXCEPT !.status = IF @ = "indeterminate" THEN @ ELSE "canceled"]
    /\ job' = SafeRemainderCanceled(job)
    /\ UNCHANGED <<execution, book, launch, call, placed, dialer, work, crashes>>

CancelPending(j) ==
    /\ job[j].status = "pending"
    /\ job' = [job EXCEPT ![j].status = "canceled"]
    /\ UNCHANGED <<campaign, execution, book, launch, call, placed, dialer, work, crashes>>

--------------------------------------------------------------------------------
(* The provider's leg, as CallStatus has it in full: an answered leg binds  *)
(* its identity to a live row, and its end is applied to the row that has   *)
(* the identity.                                                           *)
LegAnswers(j) ==
    /\ placed[j] > 0 /\ call[j].status = "live" /\ ~call[j].sid
    /\ call' = [call EXCEPT ![j].sid = TRUE]
    /\ UNCHANGED <<campaign, execution, book, launch, job, placed, dialer, work, crashes>>

LegEnds(j) ==
    /\ placed[j] > 0 /\ call[j].status = "live" /\ call[j].sid
    /\ call' = [call EXCEPT ![j].status = "closed"]
    /\ UNCHANGED <<campaign, execution, book, launch, job, placed, dialer, work, crashes>>

(* Time: leases expire and go stale; after a day every lease is stale.      *)
LeaseAges(j) ==
    /\ job[j].lease \in {"live", "expired"}
    /\ SlowDialers \/ \A d \in Dialers : ~(Owns(d, j) /\ work[d][j] # Idle)
    /\ job' = [job EXCEPT ![j].lease = IF @ = "live" THEN "expired" ELSE "stale"]
    /\ UNCHANGED <<campaign, execution, book, launch, call, placed, dialer, work, crashes>>

DayPasses ==
    /\ campaign.status = "indeterminate"
    /\ \A j \in Jobs : job[j].lease \notin {"live", "expired"}
    /\ campaign' = [campaign EXCEPT !.age = "old"]
    /\ job' = [j \in Jobs |-> IF job[j].boundary = "fresh"
                              THEN [job[j] EXCEPT !.boundary = "old"] ELSE job[j]]
    /\ UNCHANGED <<execution, book, launch, call, placed, dialer, work, crashes>>

DialerCrashes(d) ==
    /\ crashes < MaxCrashes /\ dialer[d] # "idle"
    /\ crashes' = crashes + 1
    /\ dialer' = [dialer EXCEPT ![d] = "idle"]
    /\ work' = [work EXCEPT ![d] = [j \in Jobs |-> Idle]]
    /\ UNCHANGED <<campaign, execution, book, launch, job, call, placed>>

Works(d, j) ==
    \/ Admit(d, j) \/ AdmitThrows(d, j) \/ Post(d, j) \/ Stamp(d, j)
    \/ \E o \in {"done", "failed", "indeterminate"} : Settle(d, j, o)
    \/ ThrowReleases(d, j) \/ ThrowMarks(d, j)

Dials(d) ==
    \/ DialPromotes(d) \/ DialClaims(d) \/ CloseMarks(d) \/ CloseDone(d)
    \/ \E j \in Jobs : ImmediateClaims(d, j)
    \/ ImmediateReturns(d)
    \/ \E j \in Jobs : Works(d, j)

Next ==
    \/ EditDataset \/ UpdateFlow
    \/ LaunchPreflight \/ LaunchMaterializes \/ ExecutionSettles
    \/ \E d \in Dialers : Dials(d) \/ DialerCrashes(d)
    \/ Reconcile \/ Quarantine \/ CancelCampaign
    \/ \E j \in Jobs : CancelPending(j) \/ LegAnswers(j) \/ LegEnds(j) \/ LeaseAges(j)
    \/ DayPasses

Spec == Init /\ [][Next]_vars

--------------------------------------------------------------------------------
JobStatuses == {"none", "pending", "dialing", "done", "failed", "indeterminate", "canceled"}

(* Type invariant, with the lifecycle of a claim: a job has a token and a   *)
(* lease exactly while it is dialing.                                      *)
TypeOK ==
    /\ campaign \in [status: {"none", "scheduled", "running", "done", "canceled", "indeterminate"},
                     age: {"fresh", "old"}, receipt: BOOLEAN]
    /\ execution \in {"dispatching", "succeeded", "indeterminate"}
    /\ book \in [targets: SUBSET CampaignJobs, flow: {0, 1}]
    /\ launch \in {"idle", "preflighted", "launched", "refused"}
    /\ job \in [Jobs -> [status: JobStatuses, token: Nat, attempts: Nat,
                         lease: {"none", "live", "expired", "stale"},
                         boundary: {"none", "fresh", "old"}]]
    /\ \A j \in Jobs : /\ job[j].status = "dialing" <=> job[j].lease # "none"
                       /\ job[j].status = "dialing" <=> job[j].token # 0
    /\ call \in [Jobs -> [status: {"none", "live", "closed"}, sid: BOOLEAN]]
    /\ placed \in [Jobs -> Nat]
    /\ dialer \in [Dialers -> {"idle", "promoted", "working", "closing", "immediate"}]
    /\ work \in [Dialers -> [Jobs -> [pc: {"idle", "claimed", "posting", "accepted", "done",
                                           "failed", "indeterminate", "threw", "threw2"},
                                      token: Nat]]]
    /\ crashes \in 0..MaxCrashes

(* "automatic redial is forbidden": whatever is lost, retried or run twice, *)
(* the provider is asked for a job's call once, and only after the boundary *)
(* and the calls row are durable.                                          *)
AtMostOneCall ==
    \A j \in Jobs :
        /\ placed[j] <= 1
        /\ placed[j] > 0 => job[j].boundary # "none" /\ call[j].status # "none"

(* A job's final status tells the truth about the provider: done is a call  *)
(* that was placed and is identified, failed and canceled are calls that   *)
(* never happened.                                                         *)
OutcomeIsTrue ==
    \A j \in Jobs :
        /\ job[j].status = "done" => placed[j] = 1 /\ call[j].sid
        /\ job[j].status \in {"failed", "canceled", "pending"} => placed[j] = 0

NoneCrosses ==
    campaign.status \in {"canceled", "done", "indeterminate"} =>
        \A j \in CampaignJobs : job[j].boundary = "none" => job'[j].boundary = "none"

(* Once a campaign is canceled, done or indeterminate no job of it crosses  *)
(* the boundary: cancellation and dispatch take the campaign lock in the    *)
(* same order and one of them wins.                                        *)
ClosedCampaignDialsNoMore == [][NoneCrosses]_vars

(* "Marks campaigns done only when every effect is terminal and known", and *)
(* nothing makes it untrue afterwards.                                     *)
DoneCampaignIsKnown ==
    campaign.status = "done" =>
        \A j \in CampaignJobs : /\ job[j].status \in {"none", "done", "failed", "canceled"}
                                /\ call[j].status # "live"

(* A campaign dials exactly the approved targets, and the flow they were    *)
(* approved with is the current one for as long as the campaign is open.   *)
CampaignAsApproved ==
    campaign.status \in {"scheduled", "running"} =>
        /\ \A j \in CampaignJobs : OfCampaign(job[j])
        /\ book.flow = Approved.flow

(* A quarantine receipt unlocks the flow only of a campaign in which        *)
(* nothing can move any more.                                              *)
QuarantineIsFinal ==
    campaign.receipt =>
        /\ campaign.status = "indeterminate"
        /\ \A j \in CampaignJobs : /\ job[j].status \notin {"pending", "dialing"}
                                   /\ call[j].status # "live"

(* Every campaign whose launch is recorded ends once it runs, unless a *)
(* job has used up the claims this model allows: no crash, outage or        *)
(* ambiguous commit leaves it running.                                     *)
EveryCampaignEnds ==
    (campaign.status = "running" /\ execution = "succeeded") ~>
        \/ campaign.status \in {"done", "canceled", "indeterminate"}
        \/ \E j \in CampaignJobs : job[j].attempts = MaxAttempts
================================================================================
