----------------------------- MODULE MCBenchmark ----------------------------
(***************************************************************************)
(* The benchmark harness: its components side by side, one instance of one *)
(* of them to a behaviour.                                                 *)
(*                                                                         *)
(* Each component keeps its own variables. The variable part says which    *)
(* instance a behaviour is about; that instance takes its steps and every  *)
(* other component rests in its initial state, so the states of this       *)
(* module are the sum of the states of the instances and not their         *)
(* product. Two instances of a component share its variables and differ in *)
(* its constants.                                                          *)
(***************************************************************************)
EXTENDS Integers, Sequences, TLC

CONSTANTS
  Parts,        \* the instances a run explores
  v1, v2, v3, v4

(* Two units of one pair, the arms of which the runner opens in this order. *)
PairOf(a, b, phase) ==
  LET u(unit, arm) == [unit |-> unit, pair |-> a, phase |-> phase,
                       maximum |-> 2, arm |-> arm]
  IN  <<u(a, "native"), u(b, "hacc")>>

OneSchedule == [r \in {"r1", "r2"} |-> PairOf("u1", "u2", "testing")]

OwnSchedules ==
  [r \in {"r1", "r2"} |-> IF r = "r1" THEN PairOf("u1", "u2", "testing")
                          ELSE PairOf("u3", "u4", "testing")]

OverlappingSchedules ==
  [r \in {"r1", "r2"} |-> IF r = "r1" THEN PairOf("u1", "u2", "testing")
                          ELSE PairOf("u1", "u2", "benchmark")]

SharedLedger == [r \in {"r1", "r2"} |-> "c1"]

OwnLedgers == [r \in {"r1", "r2"} |-> IF r = "r1" THEN "c1" ELSE "c2"]

VARIABLES
  part,        \* the instance this behaviour is about
  proofClock, aggregate, child, proofLock, proofRun, opened, proofCrashes,
  paidStore, late, stage, plan, paidJournal, paidContacts, paidFaults,
  rollbacks,
  store, clock, lease, journal, lock, expired, runlog, prefixes, run, evidence,
  package, proc, contacts, faults,
  scope, context, turn, seen, queue, fatal, runs, client, exchange,
  conversation, sealed,
  session, step, inFlight, playback, segmentTurn, reply, errors, woken,
  provider, outcome,
  pc, at, count, ledger, gap, sliceSession, chain, failure, saved, paid, result

proofVars == <<proofClock, aggregate, child, proofLock, proofRun, opened,
  proofCrashes>>
paidVars == <<paidStore, late, stage, plan, paidJournal, paidContacts,
  paidFaults, rollbacks>>
devVars == <<store, clock, lease, journal, lock, expired, runlog, prefixes,
  run, evidence, package, proc, contacts, faults>>
gatewayVars == <<scope, context, turn, seen, queue, fatal, runs, client,
  exchange, conversation, sealed>>
segmentVars == <<session, step, inFlight, playback, segmentTurn, reply,
  errors, woken, provider, outcome>>
sliceVars == <<pc, at, count, ledger, gap, sliceSession, chain, failure,
  saved, paid, result>>

all == <<part, proofVars, paidVars, devVars, gatewayVars, segmentVars,
  sliceVars>>

TightSchedule == INSTANCE ProofBudget WITH
  Runners <- {"r1", "r2"}, Children <- {"c1"}, LedgerOf <- SharedLedger,
  Schedule <- OneSchedule, Ceiling <- 3, Genesis <- 1, HardCeiling <- 6,
  Costs <- {1}, MaxCrashes <- 1, MaxClock <- 0, clock <- proofClock,
  lock <- proofLock, run <- proofRun, crashes <- proofCrashes

SameSchedule == INSTANCE ProofBudget WITH
  Runners <- {"r1", "r2"}, Children <- {"c1"}, LedgerOf <- SharedLedger,
  Schedule <- OneSchedule, Ceiling <- 6, Genesis <- 1, HardCeiling <- 6,
  Costs <- {1, 3}, MaxCrashes <- 1, MaxClock <- 0, clock <- proofClock,
  lock <- proofLock, run <- proofRun, crashes <- proofCrashes

TwoSchedules == INSTANCE ProofBudget WITH
  Runners <- {"r1", "r2"}, Children <- {"c1"}, LedgerOf <- SharedLedger,
  Schedule <- OwnSchedules, Ceiling <- 5, Genesis <- 1, HardCeiling <- 8,
  Costs <- {1}, MaxCrashes <- 0, MaxClock <- 1, clock <- proofClock,
  lock <- proofLock, run <- proofRun, crashes <- proofCrashes

TwoLedgers == INSTANCE ProofBudget WITH
  Runners <- {"r1", "r2"}, Children <- {"c1", "c2"},
  LedgerOf <- OwnLedgers, Schedule <- OverlappingSchedules, Ceiling <- 4,
  Genesis <- 1, HardCeiling <- 8, Costs <- {1, 3}, MaxCrashes <- 1,
  MaxClock <- 0, clock <- proofClock, lock <- proofLock, run <- proofRun,
  crashes <- proofCrashes

OnePaid == INSTANCE PaidRuns WITH
  Reservations <- {"x1"}, OperatorIds <- {}, Maximum <- 2,
  SchedulingStop <- 3, Ceiling <- 3, MaxFaults <- 1, MaxRollbacks <- 0,
  store <- paidStore, journal <- paidJournal, contacts <- paidContacts,
  faults <- paidFaults

Paid == INSTANCE PaidRuns WITH
  Reservations <- {v1, v2}, OperatorIds <- {"o1"}, Maximum <- 2,
  SchedulingStop <- 3, Ceiling <- 3, MaxFaults <- 0, MaxRollbacks <- 0,
  store <- paidStore, journal <- paidJournal, contacts <- paidContacts,
  faults <- paidFaults

Faulty == INSTANCE PaidRuns WITH
  Reservations <- {v1, v2}, OperatorIds <- {}, Maximum <- 2,
  SchedulingStop <- 3, Ceiling <- 3, MaxFaults <- 1, MaxRollbacks <- 0,
  store <- paidStore, journal <- paidJournal, contacts <- paidContacts,
  faults <- paidFaults

RolledBack == INSTANCE PaidRuns WITH
  Reservations <- {v1, v2}, OperatorIds <- {}, Maximum <- 2,
  SchedulingStop <- 3, Ceiling <- 3, MaxFaults <- 1, MaxRollbacks <- 1,
  store <- paidStore, journal <- paidJournal, contacts <- paidContacts,
  faults <- paidFaults

DevTwo == INSTANCE DevRun WITH
  Reservations <- {"c1"}, Maximum <- 1, SchedulingStop <- 2, Ceiling <- 2,
  Schedule <- <<"c1">>, Operators <- {"o1", "o2"}, MaxFaults <- 0,
  AbsentCount <- 0, Clocks <- {"open"}

Dev == INSTANCE DevRun WITH
  Reservations <- {"c1", "c2"}, Maximum <- 1, SchedulingStop <- 2,
  Ceiling <- 2, Schedule <- <<"c1", "c2">>, Operators <- {"o1"},
  MaxFaults <- 2, AbsentCount <- 0, Clocks <- {"open", "expired", "over"}

GatewayPair == INSTANCE GatewayTurns WITH
  Calls <- {"k1", "k2"}, Responses <- {"r1", "r2"}, Gemini <- FALSE,
  AnnouncesReadiness <- FALSE, Horizon <- 1, MaxBatches <- 2,
  MaxRejected <- 1, MaxCalls <- 2, MaxTurns <- 9, MaxBytes <- 12,
  TextBytes <- 1, MaxArguments <- 1, CallerBytes <- 1, RepairBytes <- 1

Gateway == INSTANCE GatewayTurns WITH
  Calls <- {v1, v2, v3}, Responses <- {"r1", "r2"}, Gemini <- FALSE,
  AnnouncesReadiness <- FALSE, Horizon <- 1, MaxBatches <- 2,
  MaxRejected <- 1, MaxCalls <- 2, MaxTurns <- 9, MaxBytes <- 13,
  TextBytes <- 1, MaxArguments <- 1, CallerBytes <- 1, RepairBytes <- 1

GatewayRotation == INSTANCE GatewayTurns WITH
  Calls <- {v1, v2}, Responses <- {"r1"}, Gemini <- TRUE,
  AnnouncesReadiness <- FALSE, Horizon <- 2, MaxBatches <- 2,
  MaxRejected <- 1, MaxCalls <- 2, MaxTurns <- 10, MaxBytes <- 14,
  TextBytes <- 2, MaxArguments <- 1, CallerBytes <- 1, RepairBytes <- 1

VadSegment == INSTANCE ProviderSegment WITH
  Mode <- "xai vad", Horizon <- 1, Responses <- {"r1"}, Strays <- FALSE,
  turn <- segmentTurn

Segment == INSTANCE ProviderSegment WITH
  Mode <- "xai manual", Horizon <- 2, Responses <- {v1, v2},
  Strays <- FALSE, turn <- segmentTurn

ManualSegment == INSTANCE ProviderSegment WITH
  Mode <- "manual", Horizon <- 2, Responses <- {v1, v2, v3},
  Strays <- FALSE, turn <- segmentTurn

ShortSlice == INSTANCE DevSlice WITH
  Episodes <- 2, Segments <- 2, Turns <- 1, MaxNew <- 1,
  session <- sliceSession

Slice == INSTANCE DevSlice WITH
  Episodes <- 2, Segments <- 2, Turns <- 2, MaxNew <- 1,
  session <- sliceSession

ASSUME InstancesAreSound ==
  /\ TightSchedule!SchedulesAreSound
  /\ SameSchedule!SchedulesAreSound
  /\ TwoSchedules!SchedulesAreSound
  /\ TwoLedgers!SchedulesAreSound
  /\ OnePaid!BudgetAssumption
  /\ Paid!BudgetAssumption
  /\ Faulty!BudgetAssumption
  /\ RolledBack!BudgetAssumption
  /\ DevTwo!BudgetAssumption
  /\ DevTwo!ScheduleAssumption
  /\ Dev!BudgetAssumption
  /\ Dev!ScheduleAssumption
  /\ GatewayPair!EnvelopeAssumption
  /\ Gateway!EnvelopeAssumption
  /\ GatewayRotation!EnvelopeAssumption
  /\ VadSegment!ModeAssumption
  /\ VadSegment!NullAssumption
  /\ Segment!ModeAssumption
  /\ Segment!NullAssumption
  /\ ManualSegment!ModeAssumption
  /\ ManualSegment!NullAssumption
  /\ ShortSlice!BoundsAssumption
  /\ Slice!BoundsAssumption

(***************************************************************************)
(* A component that is not the subject of a behaviour rests in its initial *)
(* state.                                                                  *)
(***************************************************************************)
Init ==
  /\ part \in Parts
  /\ \/ part = "proof" /\ SameSchedule!Init
     \/ part = "proof shared" /\ TwoSchedules!Init
     \/ part = "proof ledgers" /\ TwoLedgers!Init
     \/ part \notin {"proof", "proof shared", "proof ledgers"} /\ TightSchedule!Init
  /\ \/ part = "paid" /\ Paid!Init
     \/ part = "paid faults" /\ Faulty!Init
     \/ part = "paid rollback" /\ RolledBack!Init
     \/ part \notin {"paid", "paid faults", "paid rollback"} /\ OnePaid!Init
  /\ \/ part = "dev" /\ Dev!Init
     \/ part # "dev" /\ DevTwo!Init
  /\ \/ part = "gateway" /\ Gateway!Init
     \/ part = "gateway rotation" /\ GatewayRotation!Init
     \/ part \notin {"gateway", "gateway rotation"} /\ GatewayPair!Init
  /\ \/ part = "segment" /\ Segment!Init
     \/ part = "segment manual" /\ ManualSegment!Init
     \/ part \notin {"segment", "segment manual"} /\ VadSegment!Init
  /\ \/ part = "slice" /\ Slice!Init
     \/ part # "slice" /\ ShortSlice!Init

ProofMoves ==
  /\ \/ part = "proof ends" /\ TightSchedule!Next
     \/ part = "proof" /\ SameSchedule!Next
     \/ part = "proof shared" /\ TwoSchedules!Next
     \/ part = "proof ledgers" /\ TwoLedgers!Next
  /\ UNCHANGED <<part, paidVars, devVars, gatewayVars, segmentVars,
                   sliceVars>>

PaidMoves ==
  /\ \/ part = "paid ends" /\ OnePaid!Next
     \/ part = "paid" /\ Paid!Next
     \/ part = "paid faults" /\ Faulty!Next
     \/ part = "paid rollback" /\ RolledBack!Next
  /\ UNCHANGED <<part, proofVars, devVars, gatewayVars, segmentVars,
                   sliceVars>>

DevMoves ==
  /\ \/ part = "dev two" /\ DevTwo!Next
     \/ part = "dev" /\ Dev!Next
  /\ UNCHANGED <<part, proofVars, paidVars, gatewayVars, segmentVars,
                   sliceVars>>

GatewayMoves ==
  /\ \/ part = "gateway ends" /\ GatewayPair!Next
     \/ part = "gateway" /\ Gateway!Next
     \/ part = "gateway rotation" /\ GatewayRotation!Next
  /\ UNCHANGED <<part, proofVars, paidVars, devVars, segmentVars, sliceVars>>

SegmentMoves ==
  /\ \/ part = "segment ends" /\ VadSegment!Next
     \/ part = "segment" /\ Segment!Next
     \/ part = "segment manual" /\ ManualSegment!Next
  /\ UNCHANGED <<part, proofVars, paidVars, devVars, gatewayVars, sliceVars>>

SliceMoves ==
  /\ \/ part = "slice ends" /\ ShortSlice!Next
     \/ part = "slice" /\ Slice!Next
  /\ UNCHANGED <<part, proofVars, paidVars, devVars, gatewayVars,
                   segmentVars>>

Next ==
  \/ ProofMoves
  \/ PaidMoves
  \/ DevMoves
  \/ GatewayMoves
  \/ SegmentMoves
  \/ SliceMoves

Spec == Init /\ [][Next]_all

(***************************************************************************)
(* What the process and its event loop guarantee: a living runner, run,    *)
(* invocation or slice goes on, every await and every exchange is bounded  *)
(* by a timer, and an operator who can start the command does. Nothing is  *)
(* assumed of the provider. The fairness of an invocation of the command   *)
(* is weak fairness with the condition under which it is enabled spelled   *)
(* out.                                                                    *)
(***************************************************************************)
LiveSpec ==
  /\ Spec
  /\ \A r \in {"r1", "r2"} : WF_proofVars(part = "proof ends" /\ TightSchedule!Step(r))
  /\ WF_paidVars(part = "paid ends" /\ OnePaid!Works("x1"))
  /\ WF_devVars(part = "dev two" /\ \E o \in {"o1", "o2"} : DevTwo!Start(o))
  /\ \A o \in {"o1", "o2"} :
       \/ []<>~(part = "dev two" /\ DevTwo!Runnable(o))
       \/ []<><<DevTwo!Invocation(o)>>_devVars
  /\ WF_gatewayVars(part = "gateway ends" /\ GatewayPair!Work)
  /\ WF_gatewayVars(part = "gateway ends" /\ GatewayPair!Ends)
  /\ WF_segmentVars(part = "segment ends" /\ VadSegment!Exchanging)
  /\ WF_sliceVars(part = "slice ends" /\ ShortSlice!Work)
  /\ WF_sliceVars(part = "slice ends" /\ ShortSlice!LateOpenEnds)

-----------------------------------------------------------------------------
(***************************************************************************)
(* The dual-envelope budget of the proof runs (ProofBudget): one live      *)
(* permit at most for a unit, the aggregate ledger covers what every child *)
(* may spend, an admission fits the ceilings that hold when it is made,    *)
(* reports agree with the ledgers, and no interleaving of the two locks    *)
(* leaves a ledger nobody can read.                                        *)
(***************************************************************************)
BudgetIsKept ==
  /\ [](/\ part = "proof" =>
             /\ SameSchedule!TypeOK
             /\ SameSchedule!OnePermit
             /\ SameSchedule!AggregateCovers
             /\ SameSchedule!ReportsAgree
        /\ part = "proof shared" =>
             /\ TwoSchedules!LedgersReadable
             /\ TwoSchedules!ReservationsFit
        /\ part = "proof ledgers" =>
             /\ TwoLedgers!OnePermit
             /\ TwoLedgers!AggregateCovers)
  /\ [][part = "proof" => SameSchedule!AdmissionFits]_proofVars

(***************************************************************************)
(* The filesystem budget ledger under paid runs (PaidRuns, BudgetLedger):  *)
(* a provider is contacted only for money that is reserved and stays       *)
(* counted, an operation that is repeated after a lost answer takes effect *)
(* once, spending stops at the scheduling limit, a plan confirmed for one  *)
(* head of the ledger is executed once although the ledger is rolled back, *)
(* and the log only grows.                                                 *)
(***************************************************************************)
SpendIsAccounted ==
  /\ [](/\ part = "paid" =>
             /\ Paid!TypeOK
             /\ Paid!ContactIsCovered
             /\ Paid!SpendIsScheduled
             /\ Paid!EffectIsOnce
        /\ part = "paid faults" =>
             /\ Faulty!ContactIsCovered
             /\ Faulty!SpendIsScheduled
             /\ Faulty!EffectIsOnce
        /\ part = "paid rollback" => RolledBack!HeadIsSpentOnce)
  /\ [][/\ part = "paid" => Paid!LogGrows
        /\ part = "paid faults" => Faulty!LogGrows]_paidVars



(***************************************************************************)
(* The live slice (DevSlice): a finished slice has exactly the exchanges   *)
(* it was asked for, the use it reports is not inflated, runner and        *)
(* adapter agree on the previous exchange after every repair, the first    *)
(* failure survives the ones that follow it, and no session is left open.  *)
(***************************************************************************)
SliceIsExact ==
  part = "slice" =>
          /\ Slice!TypeOK
          /\ Slice!FinishedIsExact
          /\ Slice!UseIsNotInflated
          /\ Slice!ChainsAgree
          /\ Slice!PrimaryFailureSurvives
          /\ Slice!NoSessionIsLeft


Symmetry == Permutations({v1, v2})
=============================================================================
