---------------------------- MODULE ProofBudget ----------------------------
(***************************************************************************)
(* Paid proof runs and the two ledgers that admit them: the standing       *)
(* aggregate (v2/budget/standing-aggregate-budget.ts), which all child     *)
(* ledgers share, and the dual-envelope child ledgers                      *)
(* (v2/budget/dual-envelope-budget.ts).  A runner (v2/runner/paid-runner)  *)
(* works through a schedule of units; for each it asks for admission, and  *)
(* only a newly granted permit lets it open the network.                   *)
(*                                                                         *)
(* Every ledger is one file replaced by rename under a lock directory.  A  *)
(* read outside the lock sees the last file written.  Runners may crash at *)
(* any point, leave a lock behind, and be started again with the same      *)
(* schedule.                                                               *)
(***************************************************************************)
EXTENDS Integers, Sequences, FiniteSets, FiniteSetsExt, Functions, TLC

CONSTANTS
  Runners,          \* processes running a schedule
  Children,         \* child ledgers
  LedgerOf,         \* the child ledger a runner uses
  Schedule,         \* the signed schedule of a runner
  Ceiling,          \* of each envelope of a child ledger
  Genesis,          \* exposure registered before the first reservation
  HardCeiling,      \* exclusive ceiling of the standing aggregate
  Costs,            \* costs a provider may bill
  MaxCrashes,       \* bound on crashes and restarts together
  MaxClock          \* bound on the clock

Aggregate == "aggregate"
Free == "free"
Stale == "stale"       \* a lock whose owner died
Unset == "unset"
NotSettled == -1

Ledgers == Children \cup {Aggregate}

(***************************************************************************)
(* assertScheduleBody: units are distinct, testing comes before benchmark, *)
(* and pairs are adjacent, in positions 1 and 2, alike but for the arm,    *)
(* which alternates from pair to pair.                                     *)
(***************************************************************************)
WellScheduled(s) ==
  /\ Len(s) > 0 /\ Len(s) % 2 = 0
  /\ \A i, j \in DOMAIN s : s[i].unit = s[j].unit => i = j
  /\ \A i, j \in DOMAIN s :
        i < j /\ s[i].phase = "benchmark" => s[j].phase = "benchmark"
  /\ \A i \in DOMAIN s : s[i].maximum > 0
  /\ \A i \in {k \in DOMAIN s : k % 2 = 1} :
        /\ s[i].pair = s[i + 1].pair
        /\ s[i].phase = s[i + 1].phase
        /\ s[i].maximum = s[i + 1].maximum
        /\ s[i].arm = (IF (i \div 2) % 2 = 0 THEN "native" ELSE "hacc")
        /\ s[i + 1].arm # s[i].arm

SchedulesAreSound == \A r \in Runners : WellScheduled(Schedule[r])

UnitsOf(r) == {Schedule[r][i].unit : i \in DOMAIN Schedule[r]}

Units == UNION {UnitsOf(r) : r \in Runners}

Phases == {"testing", "benchmark"}

VARIABLES
  clock,      \* wall clock
  aggregate,  \* the standing aggregate: its reservations
  child,      \* the child ledgers
  lock,       \* holder of each lock directory
  run,        \* the state of each runner
  opened,     \* how often the network was opened for each unit
  crashes

vars == <<clock, aggregate, child, lock, run, opened, crashes>>

-----------------------------------------------------------------------------
(***************************************************************************)
(* Ledgers.  A session is named after the schedule and the unit, so the    *)
(* same unit in two schedules has two sessions and one trial.  Operation   *)
(* identities are built from the unit alone.                               *)
(***************************************************************************)
SessionOf(r, unit) == <<Schedule[r], unit>>

Sessions == {SessionOf(r, u) : r \in Runners, u \in Units}

OperationOf(kind, unit) == <<kind, unit>>

TrialOf(session) == session[2]

Larger(a, b) == IF a > b THEN a ELSE b

NoFunction == [x \in {} |-> 0]

NewChild == [created |-> 0, updated |-> 0, session |-> NoFunction, op |-> NoFunction]

(***************************************************************************)
(* aggregateSnapshot: what is registered counts in full, settled or not.   *)
(***************************************************************************)
AggregateExposure(a) ==
  Genesis + MapThenSumSet(LAMBDA k : a[k].conservative, DOMAIN a)

AggregateOpen(a) == AggregateExposure(a) < HardCeiling - 1

(***************************************************************************)
(* assertValidStandingAggregateBudgetLedger: a trial is registered once,   *)
(* and what counts is the larger of its reservation and its cost.          *)
(***************************************************************************)
ValidAggregate(a) ==
  /\ \A j, k \in DOMAIN a : TrialOf(j[2]) = TrialOf(k[2]) => j = k
  /\ \A k \in DOMAIN a :
        a[k].conservative = Larger(a[k].maximum, a[k].settled)

(***************************************************************************)
(* envelopeSnapshot: a settled session counts for the larger of what was   *)
(* reserved and what it cost, any other for what was reserved.             *)
(***************************************************************************)
ConservativeCost(s) ==
  IF s.status = "settled" THEN Larger(s.maximum, s.cost) ELSE s.maximum

EnvelopeExposure(c, phase) ==
  MapThenSumSet(LAMBDA k : ConservativeCost(c.session[k]),
                {k \in DOMAIN c.session : c.session[k].phase = phase})

EnvelopeFits(c, u) ==
  /\ EnvelopeExposure(c, u.phase) < Ceiling
  /\ EnvelopeExposure(c, u.phase) + u.maximum <= Ceiling

(***************************************************************************)
(* assertValidDualEnvelopeBudgetLedger, applied to every file read and to  *)
(* every file about to be written: trials are unique, the operations match *)
(* the state of the sessions, and no session is admitted before the ledger *)
(* was created or after it was last updated.                               *)
(***************************************************************************)
ValidChild(c) ==
  /\ \A j, k \in DOMAIN c.session : TrialOf(j) = TrialOf(k) => j = k
  /\ \A k \in DOMAIN c.session :
        /\ c.created <= c.session[k].at /\ c.session[k].at <= c.updated
        /\ OperationOf("admit", TrialOf(k)) \in DOMAIN c.op
  /\ Cardinality(DOMAIN c.op)
       = Cardinality(DOMAIN c.session)
         + Cardinality({k \in DOMAIN c.session : c.session[k].status # "opened"})
         + Cardinality({k \in DOMAIN c.session : c.session[k].status = "settled"})

-----------------------------------------------------------------------------
(***************************************************************************)
(* Runners.  "call" is the ledger operation under way: admission, terminal *)
(* outcome, settlement, or the outcome "ambiguous" recorded after a        *)
(* failure.  "itt" is the intention-to-treat ledger of the run, kept in    *)
(* memory.                                                                 *)
(***************************************************************************)
Dispositions == {"completed", "failed", "ambiguous"}

NoEntry == [opened |-> FALSE, disposition |-> Unset]

NewRun(r) ==
  [pc |-> "start", index |-> 1, call |-> Unset, at |-> 0, admitted |-> FALSE,
   permit |-> FALSE, cost |-> 0, disposition |-> Unset,
   itt |-> [u \in UnitsOf(r) |-> NoEntry], refused |-> Unset, stop |-> FALSE]

Unit(r) == Schedule[r][run[r].index]

Session(r) == SessionOf(r, Unit(r).unit)

ChildOf(r) == child[LedgerOf[r]]

Init ==
  /\ clock = 0
  /\ aggregate = NoFunction
  /\ child = [c \in Children |-> NewChild]
  /\ lock = [l \in Ledgers |-> Free]
  /\ run = [r \in Runners |-> NewRun(r)]
  /\ opened = [u \in Units |-> 0]
  /\ crashes = 0

At(r, pc) == run[r].pc = pc

Tick ==
  /\ clock < MaxClock
  /\ clock' = clock + 1
  /\ UNCHANGED <<aggregate, child, lock, run, opened, crashes>>

(***************************************************************************)
(* The gates of runHaccProof before the first unit: every provider's       *)
(* readiness report must match, or the run stops with nothing opened.  (A  *)
(* schedule or a frozen binding that does not match throws before that.)   *)
(***************************************************************************)
Preflight(r) ==
  /\ At(r, "start")
  /\ \E ready \in BOOLEAN :
        run' = [run EXCEPT ![r].pc = IF ready THEN "unit" ELSE "report",
                           ![r].stop = ~ready]
  /\ UNCHANGED <<clock, aggregate, child, lock, opened, crashes>>

(***************************************************************************)
(* A unit that throws.  Before an admission was obtained nothing is        *)
(* recorded; after it the outcome is recorded as ambiguous first.          *)
(***************************************************************************)
Throw(r, why) ==
  [run EXCEPT ![r].pc = IF run[r].admitted THEN "lock child" ELSE "report",
              ![r].call = IF run[r].admitted THEN "ambiguous" ELSE Unset,
              ![r].refused = why,
              ![r].stop = TRUE]

(***************************************************************************)
(* A ledger call that throws.  The outcome recorded after a failure is     *)
(* best effort: its own failure is ignored.                                *)
(***************************************************************************)
CallThrows(r, why) ==
  IF run[r].call = "ambiguous"
  THEN [run EXCEPT ![r].pc = "mark ambiguous"]
  ELSE Throw(r, why)

(***************************************************************************)
(* admitDualEnvelopeSession, before any lock: the caller's plan is         *)
(* compiled and compared, the child ledger is read as it stands, and the   *)
(* time of the admission is taken.                                         *)
(***************************************************************************)
Replayed(c, r, kind) ==
  /\ OperationOf(kind, Unit(r).unit) \in DOMAIN c.op
  /\ c.op[OperationOf(kind, Unit(r).unit)].session = Session(r)

Conflicts(c, r, kind) ==
  /\ OperationOf(kind, Unit(r).unit) \in DOMAIN c.op
  /\ c.op[OperationOf(kind, Unit(r).unit)].session # Session(r)

DuplicateTrial(c, r) ==
  \E k \in DOMAIN c.session : TrialOf(k) = Unit(r).unit

AdmissionRefusal(c, r) ==
  CASE Conflicts(c, r, "admit") -> "operation_conflict"
    [] Replayed(c, r, "admit") -> Unset
    [] DuplicateTrial(c, r) -> "duplicate_trial"
    [] ~EnvelopeFits(c, Unit(r)) -> "envelope_exhausted"
    [] OTHER -> Unset

AdmitUnit(r) ==
  /\ At(r, "unit")
  /\ run[r].index <= Len(Schedule[r])
  /\ \/ run' = Throw(r, "caller plan mismatch")
     \/ LET refusal == AdmissionRefusal(ChildOf(r), r)
        IN  run' = IF refusal # Unset
                   THEN Throw(r, refusal)
                   ELSE [run EXCEPT ![r].pc = "lock aggregate",
                                    ![r].call = "admit", ![r].at = clock]
  /\ UNCHANGED <<clock, aggregate, child, lock, opened, crashes>>

(***************************************************************************)
(* withLock: the lock directory is created, or the wait times out.         *)
(***************************************************************************)
LedgerWanted(r) ==
  IF At(r, "lock aggregate") THEN Aggregate ELSE LedgerOf[r]

Lock(r) ==
  /\ run[r].pc \in {"lock aggregate", "lock child"}
  /\ lock[LedgerWanted(r)] = Free
  /\ lock' = [lock EXCEPT ![LedgerWanted(r)] = r]
  /\ run' = [run EXCEPT ![r].pc = IF At(r, "lock aggregate")
                                  THEN "write aggregate" ELSE "write child"]
  /\ UNCHANGED <<clock, aggregate, child, opened, crashes>>

LockTimeout(r) ==
  /\ run[r].pc \in {"lock aggregate", "lock child"}
  /\ lock[LedgerWanted(r)] # Free
  /\ run' = CallThrows(r, "lock_timeout")
  /\ UNCHANGED <<clock, aggregate, child, lock, opened, crashes>>

(***************************************************************************)
(* reserveStandingAggregateBudget: an operation that was applied is        *)
(* replayed; a reservation or a trial is registered once; the exposure     *)
(* stays below the exclusive ceiling.                                      *)
(***************************************************************************)
ReservationOf(r) == <<LedgerOf[r], Session(r)>>

Registered(a, unit) == \E k \in DOMAIN a : TrialOf(k[2]) = unit

AggregateRefusal(a, r) ==
  CASE ReservationOf(r) \in DOMAIN a -> Unset
    [] ReservationOf(r) \notin DOMAIN a /\ Registered(a, Unit(r).unit) ->
         "duplicate_trial"
    [] ~AggregateOpen(a)
       \/ AggregateExposure(a) + Unit(r).maximum >= HardCeiling -> "aggregate_exhausted"
    [] OTHER -> Unset

Reserved(a, r) ==
  IF ReservationOf(r) \in DOMAIN a
  THEN a
  ELSE a @@ (ReservationOf(r) :> [maximum |-> Unit(r).maximum,
                                   conservative |-> Unit(r).maximum,
                                   settled |-> NotSettled])

(***************************************************************************)
(* settleStandingAggregateBudget: once, and an exact repetition is         *)
(* accepted; the conservative amount is never below the reservation.       *)
(***************************************************************************)
SettlementRefusal(a, r) ==
  CASE ReservationOf(r) \notin DOMAIN a -> "unknown_reservation"
    [] OTHER ->
       IF a[ReservationOf(r)].settled \in {NotSettled, run[r].cost}
       THEN Unset ELSE "invalid_transition"

Settled(a, r) ==
  [a EXCEPT ![ReservationOf(r)] =
     [@ EXCEPT !.settled = run[r].cost,
               !.conservative = Larger(@, run[r].cost)]]

WriteAggregate(r) ==
  LET refusal == IF run[r].call = "admit" THEN AggregateRefusal(aggregate, r)
                 ELSE SettlementRefusal(aggregate, r)
  IN  /\ At(r, "write aggregate")
      /\ aggregate' = IF refusal # Unset THEN aggregate
                      ELSE IF run[r].call = "admit" THEN Reserved(aggregate, r)
                      ELSE Settled(aggregate, r)
      /\ run' = [run EXCEPT ![r].pc = "unlock aggregate", ![r].refused = refusal]
      /\ UNCHANGED <<clock, child, lock, opened, crashes>>

UnlockAggregate(r) ==
  /\ At(r, "unlock aggregate")
  /\ lock' = [lock EXCEPT ![Aggregate] = Free]
  /\ run' = IF run[r].refused # Unset THEN CallThrows(r, run[r].refused)
            ELSE [run EXCEPT ![r].pc = "lock child"]
  /\ UNCHANGED <<clock, aggregate, child, opened, crashes>>

(***************************************************************************)
(* mutate on the child ledger: the operation is replayed or refused        *)
(* against the file as it is under the lock, applied, and the new file     *)
(* validated before it is written.  The time of the last update is the     *)
(* time the caller took, which for an admission and a settlement is before *)
(* the aggregate was locked.                                               *)
(***************************************************************************)
TerminalCalls == {"terminal", "ambiguous"}

Kind(r) == IF run[r].call \in TerminalCalls THEN "terminal" ELSE run[r].call

Content(r) ==
  CASE run[r].call = "terminal" -> run[r].disposition
    [] run[r].call = "ambiguous" -> "ambiguous"
    [] OTHER -> Unset

AlreadyApplied(c, r) ==
  /\ Replayed(c, r, Kind(r))
  /\ c.op[OperationOf(Kind(r), Unit(r).unit)].content = Content(r)

ChildRefusal(c, r) ==
  CASE OperationOf(Kind(r), Unit(r).unit) \in DOMAIN c.op
         /\ ~AlreadyApplied(c, r) -> "operation_conflict"
    [] AlreadyApplied(c, r) -> Unset
    [] run[r].call = "admit" -> AdmissionRefusal(c, r)
    [] OTHER ->
       IF c.session[Session(r)].status
            = (IF run[r].call = "settle" THEN "terminal" ELSE "opened")
       THEN Unset ELSE "invalid_transition"

NewSession(r) ==
  Session(r) :> [at |-> run[r].at, phase |-> Unit(r).phase,
                 maximum |-> Unit(r).maximum, status |-> "opened", cost |-> 0]

ChildSessions(c, r) ==
  CASE run[r].call = "admit" -> NewSession(r) @@ c.session
    [] run[r].call = "settle" ->
         [c.session EXCEPT ![Session(r)] =
            [@ EXCEPT !.status = "settled", !.cost = run[r].cost]]
    [] OTHER -> [c.session EXCEPT ![Session(r)].status = "terminal"]

NextChild(c, r) ==
  [c EXCEPT
     !.updated = IF run[r].call \in TerminalCalls THEN clock ELSE run[r].at,
     !.session = ChildSessions(c, r),
     !.op = @ @@ (OperationOf(Kind(r), Unit(r).unit) :>
                    [session |-> Session(r), content |-> Content(r)])]

Writable(c) == ValidChild(c)

(***************************************************************************)
(* The answer to an admission: a permit when the session was just admitted *)
(* and a quarantine when the operation is a replay, since the first caller *)
(* may have opened the network.                                            *)
(***************************************************************************)
MutantPermit(c, r) == TRUE

Permit(c, r) == ~AlreadyApplied(c, r)

WriteChild(r) ==
  LET c == ChildOf(r)
      refusal == ChildRefusal(c, r)
      applies == refusal = Unset /\ ~AlreadyApplied(c, r)
      next == NextChild(c, r)
  IN  /\ At(r, "write child")
      /\ child' = IF applies /\ Writable(next)
                  THEN [child EXCEPT ![LedgerOf[r]] = next] ELSE child
      /\ run' = [run EXCEPT
                   ![r].pc = "unlock child",
                   ![r].refused = IF refusal # Unset THEN refusal
                                  ELSE IF applies /\ ~Writable(next)
                                       THEN "corrupt_ledger" ELSE Unset,
                   ![r].permit = refusal = Unset /\ run[r].call = "admit"
                                 /\ Permit(c, r)]
      /\ UNCHANGED <<clock, aggregate, lock, opened, crashes>>

AfterCall(r) ==
  CASE run[r].call = "admit" /\ run[r].permit ->
         [run EXCEPT ![r].pc = "open", ![r].admitted = TRUE]
    [] run[r].call = "admit" /\ ~run[r].permit ->
         [run EXCEPT ![r].pc = "lock child", ![r].call = "ambiguous",
                     ![r].admitted = TRUE, ![r].stop = TRUE]
    [] run[r].call = "terminal" ->
         [run EXCEPT ![r].pc = "lock aggregate", ![r].call = "settle",
                     ![r].at = clock]
    [] run[r].call = "settle" -> [run EXCEPT ![r].pc = "finish"]
    [] OTHER -> [run EXCEPT ![r].pc = "mark ambiguous"]

UnlockChild(r) ==
  /\ At(r, "unlock child")
  /\ lock' = [lock EXCEPT ![LedgerOf[r]] = Free]
  /\ run' = IF run[r].refused # Unset THEN CallThrows(r, run[r].refused)
            ELSE AfterCall(r)
  /\ UNCHANGED <<clock, aggregate, child, opened, crashes>>

-----------------------------------------------------------------------------
(***************************************************************************)
(* evidence.begin and openPaid.  Opening may fail after the provider was   *)
(* reached.                                                                *)
(***************************************************************************)
OpenPaid(r) ==
  /\ At(r, "open")
  /\ \/ /\ run' = Throw(r, "evidence")
        /\ UNCHANGED opened
     \/ /\ opened' = [opened EXCEPT ![Unit(r).unit] = @ + 1]
        /\ \/ run' = Throw(r, "open failed")
           \/ run' = [run EXCEPT ![r].pc = "running",
                                 ![r].itt[Unit(r).unit].opened = TRUE]
  /\ UNCHANGED <<clock, aggregate, child, lock, crashes>>

(***************************************************************************)
(* The provider session runs; it throws, or reports an outcome and a bill. *)
(***************************************************************************)
RunSession(r) ==
  /\ At(r, "running")
  /\ \/ run' = Throw(r, "session failed")
     \/ \E d \in Dispositions, cost \in Costs :
           run' = [run EXCEPT ![r].pc = "lock child", ![r].call = "terminal",
                              ![r].disposition = d, ![r].cost = cost]
  /\ UNCHANGED <<clock, aggregate, child, lock, opened, crashes>>

(***************************************************************************)
(* After the settlement: the outcome enters the intention-to-treat ledger, *)
(* then the evidence is finalised and replayed.  An outcome other than     *)
(* "completed", or a replay that fails, stops the run; finalising may      *)
(* throw, since it rejects a reason that is empty or too long.             *)
(***************************************************************************)
Finish(r) ==
  LET marked == [run EXCEPT ![r].itt[Unit(r).unit].disposition = run[r].disposition]
  IN  /\ At(r, "finish")
      /\ \/ \E replays \in BOOLEAN :
              LET stops == ~replays \/ run[r].disposition # "completed"
              IN  run' = [marked EXCEPT
                            ![r].pc = IF stops THEN "report" ELSE "unit",
                            ![r].index = IF stops THEN @ ELSE @ + 1,
                            ![r].admitted = FALSE, ![r].call = Unset,
                            ![r].stop = stops]
         \/ run' = [marked EXCEPT ![r].pc = "lock child", ![r].call = "ambiguous",
                                  ![r].stop = TRUE]
      /\ UNCHANGED <<clock, aggregate, child, lock, opened, crashes>>

(***************************************************************************)
(* The handler of a failed unit that was admitted: the intention-to-treat  *)
(* ledger accepts one outcome for each unit, and refuses a second one with *)
(* an exception of its own, which leaves the run without a result.         *)
(***************************************************************************)
MarkAmbiguous(r) ==
  /\ At(r, "mark ambiguous")
  /\ run' = IF run[r].itt[Unit(r).unit].disposition # Unset
            THEN [run EXCEPT ![r].pc = "thrown", ![r].call = Unset]
            ELSE [run EXCEPT ![r].pc = "report", ![r].call = Unset,
                             ![r].itt[Unit(r).unit] =
                               [opened |-> TRUE, disposition |-> "ambiguous"]]
  /\ UNCHANGED <<clock, aggregate, child, lock, opened, crashes>>

(***************************************************************************)
(* The end of the run: units never opened are marked so.                   *)
(***************************************************************************)
StopUnopened(itt) ==
  [u \in DOMAIN itt |->
     IF ~itt[u].opened /\ itt[u].disposition = Unset
     THEN [itt[u] EXCEPT !.disposition = "not opened"] ELSE itt[u]]

Report(r) ==
  /\ \/ At(r, "report")
     \/ At(r, "unit") /\ run[r].index > Len(Schedule[r])
  /\ run' = [run EXCEPT ![r].pc = "done", ![r].itt = StopUnopened(@)]
  /\ UNCHANGED <<clock, aggregate, child, lock, opened, crashes>>

(***************************************************************************)
(* A process dies, leaving its lock directory behind; an operator removes  *)
(* the directory and starts the schedule again.                            *)
(***************************************************************************)
Ended == {"start", "done", "thrown", "crashed"}

Crash(r) ==
  /\ crashes < MaxCrashes
  /\ run[r].pc \notin Ended
  /\ crashes' = crashes + 1
  /\ run' = [run EXCEPT ![r] = [NewRun(r) EXCEPT !.pc = "crashed"]]
  /\ lock' = [l \in Ledgers |-> IF lock[l] = r THEN Stale ELSE lock[l]]
  /\ UNCHANGED <<clock, aggregate, child, opened>>

Restart(r) ==
  /\ run[r].pc \in {"done", "crashed", "thrown"}
  /\ crashes < MaxCrashes
  /\ crashes' = crashes + 1
  /\ run' = [run EXCEPT ![r] = NewRun(r)]
  /\ UNCHANGED <<clock, aggregate, child, lock, opened>>

RemoveStaleLock(l) ==
  /\ lock[l] = Stale
  /\ lock' = [lock EXCEPT ![l] = Free]
  /\ UNCHANGED <<clock, aggregate, child, run, opened, crashes>>

Step(r) ==
  \/ Preflight(r) \/ AdmitUnit(r) \/ Lock(r) \/ LockTimeout(r)
  \/ WriteAggregate(r) \/ UnlockAggregate(r) \/ WriteChild(r) \/ UnlockChild(r)
  \/ OpenPaid(r) \/ RunSession(r) \/ Finish(r) \/ MarkAmbiguous(r) \/ Report(r)

Next ==
  \/ Tick
  \/ \E r \in Runners : Step(r) \/ Crash(r) \/ Restart(r)
  \/ \E l \in Ledgers : RemoveStaleLock(l)

Spec == Init /\ [][Next]_vars

-----------------------------------------------------------------------------
(***************************************************************************)
(* Types; and a lock directory belongs to the process whose position in    *)
(* withLock says so (withLock of both ledgers).                            *)
(***************************************************************************)
TypeOK ==
  /\ clock \in 0..MaxClock
  /\ crashes \in 0..MaxCrashes
  /\ DOMAIN aggregate \subseteq Children \X Sessions
  /\ \A c \in Children : DOMAIN child[c].session \subseteq Sessions
  /\ opened \in [Units -> Nat]
  /\ \A r \in Runners :
        /\ run[r].index \in 1..(Len(Schedule[r]) + 1)
        /\ (lock[Aggregate] = r) =
             (run[r].pc \in {"write aggregate", "unlock aggregate"})
        /\ (lock[LedgerOf[r]] = r) =
             (run[r].pc \in {"write child", "unlock child"})

(***************************************************************************)
(* The network is opened at most once for a unit, whichever processes run  *)
(* it, in whichever schedules and ledgers, and however they crash and are  *)
(* started again (network_may_open, runHaccProof).                         *)
(***************************************************************************)
OnePermit == \A u \in Units : opened[u] <= 1

(***************************************************************************)
(* What was reserved never outgrows the money: in each phase of a child    *)
(* the reservations stay within its envelope, and all of them with the     *)
(* genesis exposure stay below the exclusive ceiling, whatever the         *)
(* sessions turn out to cost (envelopeSnapshot, aggregateSnapshot).        *)
(***************************************************************************)
ReservationsFit ==
  /\ \A c \in Children, phase \in Phases :
        MapThenSumSet(LAMBDA k : child[c].session[k].maximum,
                      {k \in DOMAIN child[c].session :
                         child[c].session[k].phase = phase}) <= Ceiling
  /\ Genesis + MapThenSumSet(LAMBDA k : aggregate[k].maximum, DOMAIN aggregate)
       < HardCeiling

AdmissionFits ==
  DOMAIN aggregate' # DOMAIN aggregate =>
    Genesis + MapThenSumSet(
                LAMBDA k : Larger(aggregate'[k].maximum, aggregate'[k].settled),
                DOMAIN aggregate') < HardCeiling

(***************************************************************************)
(* A cost above its reservation is not forgotten: nothing is admitted that *)
(* would take the true exposure over the ceiling (an action property).     *)
(***************************************************************************)
AdmissionsFit == [][AdmissionFits]_vars

(***************************************************************************)
(* The standing aggregate covers its children: every session has its       *)
(* reservation there, for at least what the child counts, and is settled   *)
(* there before it is settled in the child (settleDualEnvelopeSession).    *)
(***************************************************************************)
AggregateCovers ==
  \A c \in Children : \A k \in DOMAIN child[c].session :
     /\ <<c, k>> \in DOMAIN aggregate
     /\ aggregate[<<c, k>>].conservative >= ConservativeCost(child[c].session[k])
     /\ child[c].session[k].status = "settled" =>
          aggregate[<<c, k>>].settled = child[c].session[k].cost

(***************************************************************************)
(* A run that reports a result accounts for each of its units, and calls a *)
(* unit completed only if the durable ledger says so as well and its bill  *)
(* is settled (IntentionToTreatLedger, recordDualEnvelopeTerminal).        *)
(***************************************************************************)
ReportsAgree ==
  \A r \in Runners : run[r].pc = "done" =>
    \A u \in UnitsOf(r) :
      LET c == ChildOf(r)
          entry == run[r].itt[u]
      IN  /\ entry.disposition # Unset
          /\ entry.disposition = "not opened" => ~entry.opened
          /\ entry.disposition = "completed" =>
               /\ c.op[OperationOf("terminal", u)].content = "completed"
               /\ c.session[SessionOf(r, u)].status = "settled"

(***************************************************************************)
(* Whatever is written can be read again (readLedger validates each file). *)
(***************************************************************************)
LedgersReadable ==
  ValidAggregate(aggregate) /\ \A c \in Children : ValidChild(child[c])

(***************************************************************************)
(* Every run comes to an end or its process dies: no lock, however stale,  *)
(* holds one up for ever (the wait in withLock is bounded).                *)
(***************************************************************************)
EveryRunEnds ==
  \A r \in Runners :
    run[r].pc = "unit" ~> run[r].pc \in {"done", "thrown", "crashed"}
=============================================================================
