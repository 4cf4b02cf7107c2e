-------------------------------- MODULE DevRun --------------------------------
(***************************************************************************)
(* A paid development run (the "run" command of                            *)
(* lib/benchmark/lc4-development-operator-cli.ts with                      *)
(* lc4-development-budget.ts).  An operator starts the command as often as *)
(* it takes, at times twice at once, and every invocation works from the   *)
(* files it finds: the spend ledger, the lease, the cell journal, the run  *)
(* ledger with its intent, the prefix artifact of each completed cell, the *)
(* terminal run, and the pair of budget evidence and package that          *)
(* publishes it.                                                           *)
(*                                                                         *)
(* The journal is changed under a lock directory that names its owner's    *)
(* process.  A lock whose owner died is removed by whoever finds it: its   *)
(* name is read twice and then whatever is there is removed.               *)
(***************************************************************************)
EXTENDS BudgetLedger

CONSTANTS
  Schedule,       \* the cells, in the order they are run
  Operators,      \* invocations of the command that may be alive at once
  MaxFaults,      \* failures and deaths of processes, and lost journals
  AbsentCount,    \* what the command counts in a prefix that is absent
  Clocks          \* how far time may pass: "open", "expired" and "over"

(***************************************************************************)
(* The journal of a development run (lib/benchmark/                        *)
(* lc4-cell-resume-journal.ts): one chained log that says, for each cell   *)
(* of a fixed schedule, who may open it and whether the network was ever   *)
(* reached.  A cell that was not opened may change hands; one that was is  *)
(* completed by its owner or quarantined for good.                         *)
(*                                                                         *)
(* An entry is a record [type, cell, owner, budget], where "budget" is the *)
(* length of the spend ledger's log when the entry was made and stands for *)
(* the hash of its head.  The journal's own value stands for its head.     *)
(***************************************************************************)
ScheduleAssumption ==
  /\ Schedule \in Seq(Reservations)
  /\ ToSet(Schedule) = Reservations
  /\ IsInjective(Schedule)

Cells == Reservations

NoCell == "no cell"
NoOwner == <<>>

Entry(type, cell, owner, budget) ==
  [type |-> type, cell |-> cell, owner |-> owner, budget |-> budget]

EntryTypes ==
  {"intent", "paused", "takeover", "claimed", "emission", "completed",
   "ambiguous", "custody"}

Quarantines == {"ambiguous", "custody"}

(***************************************************************************)
(* stateFor: the latest entry of each cell, and what follows from them.    *)
(***************************************************************************)
Latest(j, c) ==
  LET of == {i \in 1..Len(j) : j[i].cell = c}
  IN  IF of = {} THEN "none" ELSE j[Max(of)].type

CompletedCells(j) == {c \in Cells : Latest(j, c) = "completed"}

QuarantinedCells(j) == {c \in Cells : Latest(j, c) \in Quarantines}

FirstWith(P(_)) ==
  LET found == {i \in 1..Len(Schedule) : P(Schedule[i])}
  IN  IF found = {} THEN NoCell ELSE Schedule[Min(found)]

ActiveCell(j) ==
  FirstWith(LAMBDA c : Latest(j, c) \notin {"none", "completed"} \cup Quarantines)

NextCell(j) == FirstWith(LAMBDA c : Latest(j, c) = "none")

Condition(j) ==
  LET type == IF ActiveCell(j) = NoCell THEN "none" ELSE Latest(j, ActiveCell(j))
  IN  CASE QuarantinedCells(j) # {} \/ type = "emission" -> "network_ambiguous"
        [] QuarantinedCells(j) = {} /\ CompletedCells(j) = Cells -> "completed"
        [] QuarantinedCells(j) = {} /\ type \in {"paused", "takeover"} ->
             "paused_before_network"
        [] QuarantinedCells(j) = {} /\ type \in {"intent", "claimed"} ->
             "owned_before_network"
        [] OTHER -> "ready"

AllCompleted(j) == CompletedCells(j) = Cells /\ QuarantinedCells(j) = {}

(***************************************************************************)
(* verifyFile: which entry may follow which.  Every read and every write   *)
(* of the journal checks it.                                               *)
(***************************************************************************)
MayFollow ==
  [intent |-> {"none"}, paused |-> {"intent", "claimed"},
   takeover |-> {"paused", "takeover"}, claimed |-> {"takeover"},
   emission |-> {"intent", "claimed"}, completed |-> {"emission"},
   ambiguous |-> {"emission"}, custody |-> {"none"}]

Extends(j, e) ==
  /\ Latest(j, e.cell) \in MayFollow[e.type]
  /\ e.type = "custody" => j = <<>>

(***************************************************************************)
(* What the mutations of the journal demand of its last entry, beyond the  *)
(* exact head; "expired" holds the owners whose lease ran out.             *)
(***************************************************************************)
Unopened == {"intent", "claimed"}

LastIs(j, types) == j # <<>> /\ Last(j).type \in types

Owns(j, c, owner, types) ==
  /\ LastIs(j, types)
  /\ Last(j).cell = c
  /\ Last(j).owner = owner

(***************************************************************************)
(* The spend ledger is paused and resumed inside a mutation of the         *)
(* journal, before its entry is written.  A process that dies in between   *)
(* leaves a ledger event that its successor recognises by its operation    *)
(* and by the head it followed.                                            *)
(***************************************************************************)
PauseEvent(j) ==
  Event(<<Last(j).cell, "pause", Len(j) + 1>>, "paused", NoReservation, 0)

ResumeEvent(j) ==
  Event(<<Last(j).cell, "resume", Len(j)>>, "resumed", NoReservation, 0)

Recognised(log, j, e) ==
  /\ log # <<>>
  /\ Last(log) = e
  /\ Len(log) - 1 = Last(j).budget

VARIABLES
  store,      \* the spend ledger
  clock,      \* "open", "expired" (the preflight) or "over" (the deadline)
  lease,      \* the lease artifact exists
  journal,    \* the cell journal, [at, log]
  lock,       \* who holds the journal's lock directory
  expired,    \* owners whose lease of a cell ran out
  runlog,     \* the run ledger: [at, cells, beyond]
  prefixes,   \* cells whose prefix artifact was written
  run,        \* the terminal run artifact
  evidence,   \* length of the ledger the budget evidence describes, or 0
  package,    \* the run package is published
  proc,       \* the invocations
  contacts,   \* how often the provider was contacted for each cell
  faults

files == <<lease, runlog, prefixes, run, evidence, package>>
vars == <<store, clock, lease, journal, lock, expired, runlog, prefixes, run,
          evidence, package, proc, contacts, faults>>

N == Len(Schedule)

Free == "free"
Dead == "dead"

NoRun == [status |-> "none", completed |-> 0]

(***************************************************************************)
(* An invocation: its stage, the journal mutation it is in ("op", and      *)
(* whether it has read or will write "next" inside), the journal it knows, *)
(* the owner it acts as, the cells it knows completed, whether it found a  *)
(* lease ("had") or at least a ledger ("continued"), whether a journal it  *)
(* misses was lost after the run began, and whether it is about to remove  *)
(* a lock it saw held by a dead process.                                   *)
(***************************************************************************)
Idle ==
  [stage |-> "idle", op |-> "none", inside |-> "no", next |-> <<>>,
   known |-> <<>>, owner |-> NoOwner, count |-> 0, had |-> FALSE,
   continued |-> FALSE, crossed |-> FALSE, thief |-> FALSE]

Stages ==
  {"idle", "surveying", "reserving", "opening", "deciding", "building", "cell",
   "admitted", "announced", "contacted", "running", "ended", "finishing",
   "stopping", "publishing", "failing", "closing", "sealing", "sealed"}

Ops == {"none", "create", "custody", "quarantine", "recover", "begin",
        "takeover", "claim", "mark", "complete", "stop"}

TypeOK ==
  /\ store.torn \in BOOLEAN /\ store.locked \in BOOLEAN
  /\ clock \in Clocks
  /\ lease \in BOOLEAN /\ package \in BOOLEAN
  /\ journal.at \in {"missing", "present"}
  /\ \A i \in 1..Len(journal.log) : journal.log[i].type \in EntryTypes
  /\ lock \in Operators \cup {Free, Dead}
  /\ runlog.at \in {"none", "open"} /\ runlog.cells \in 0..N
  /\ prefixes \subseteq Cells
  /\ run.status \in {"none", "failed", "completed"} /\ run.completed \in 0..N
  /\ evidence \in Nat
  /\ \A p \in Operators : proc[p].stage \in Stages /\ proc[p].op \in Ops
  /\ contacts \in [Cells -> Nat]
  /\ faults \in 0..MaxFaults

Init ==
  /\ store = NoStore
  /\ clock = "open"
  /\ lease = FALSE
  /\ journal = [at |-> "missing", log |-> <<>>]
  /\ lock = Free
  /\ expired = {}
  /\ runlog = [at |-> "none", cells |-> 0, beyond |-> FALSE]
  /\ prefixes = {}
  /\ run = NoRun
  /\ evidence = 0
  /\ package = FALSE
  /\ proc = [p \in Operators |-> Idle]
  /\ contacts = [c \in Cells |-> 0]
  /\ faults = 0

Spends(fault) ==
  /\ faults' = faults + (IF fault THEN 1 ELSE 0)
  /\ faults' <= MaxFaults

Late == clock = "over"

Expired(owner) == Late \/ owner \in expired

Becomes(p, r) == proc' = [proc EXCEPT ![p] = r]

Stage(p, stage) == [proc[p] EXCEPT !.stage = stage]

Mutating(r, op) == [r EXCEPT !.op = op, !.inside = "no", !.next = <<>>]

CellOf(p) == Schedule[proc[p].count + 1]

(***************************************************************************)
(* An operation of the spend ledger by p: it goes on as "done" or "thrown" *)
(* or it dies.                                                             *)
(***************************************************************************)
Calls(p, e, anchors, precondition, done, thrown) ==
  \E o \in Mutations(store, e, Late, anchors, precondition) :
     /\ store' = o.store
     /\ Spends(o.fault)
     /\ Becomes(p, CASE o.result = "ok" -> done
                     [] o.result = "failed" -> thrown
                     [] o.result = "crashed" -> Idle)

-------------------------------------------------------------------------------
(***************************************************************************)
(* The start of an invocation.  A terminal run is only closed.  Otherwise  *)
(* the reservations are made or completed, unless there is a lease; the    *)
(* preflight must not have expired unless something was found on disk.     *)
(***************************************************************************)
Present(s) == s # NoStore

Starts(p) ==
  LET found == [Idle EXCEPT !.had = lease, !.continued = lease \/ Present(store)]
  IN  CASE run # NoRun ->
             CASE evidence # 0 -> [found EXCEPT !.stage = "sealed"]
               [] evidence = 0 /\ ~package -> [found EXCEPT !.stage = "closing"]
               [] OTHER -> Idle
        [] run = NoRun /\ lease -> [found EXCEPT !.stage = "opening"]
        [] run = NoRun /\ ~lease /\ (Present(store) \/ clock = "open") ->
             [found EXCEPT !.stage = "surveying"]
        [] OTHER -> Idle

Start(p) ==
  /\ proc[p].stage = "idle"
  /\ Starts(p) # Idle
  /\ Becomes(p, Starts(p))
  /\ UNCHANGED <<store, clock, journal, lock, expired, files, contacts, faults>>

(***************************************************************************)
(* reserveLc4DevRunBudget: all cells are reserved, one after the other,    *)
(* before the lease is written; the first reservation consumes the plan.   *)
(* A part of a reservation set that already saw a provider is not          *)
(* extended.                                                               *)
(***************************************************************************)
Unreserved == {i \in 1..N : StatusOf(store.log, Schedule[i]) = "none"}

Extensible ==
  /\ Readable(store)
  /\ Unreserved # {} =>
       \A i \in 1..N : StatusOf(store.log, Schedule[i]) \in {"none", "reserved"}
  /\ Cardinality(Unreserved) = N => clock = "open"

Initialize(p) ==
  /\ proc[p].stage = "surveying"
  /\ ~Present(store)
  /\ \E o \in Initializations :
        /\ store' = o.store
        /\ Spends(o.fault)
        /\ Becomes(p, IF o.result = "ok" THEN proc[p] ELSE Idle)
  /\ UNCHANGED <<clock, journal, lock, expired, files, contacts>>

Survey(p) ==
  /\ proc[p].stage = "surveying"
  /\ Present(store)
  /\ Becomes(p, IF Extensible
                THEN [proc[p] EXCEPT !.stage = "reserving",
                                     !.count = N - Cardinality(Unreserved)]
                ELSE Idle)
  /\ UNCHANGED <<store, clock, journal, lock, expired, files, contacts, faults>>

Reserve(p) ==
  /\ proc[p].stage = "reserving"
  /\ proc[p].count < N
  /\ Calls(p, Event(<<CellOf(p), "reserve">>, "created", CellOf(p), 0),
           IF proc[p].count = 0 THEN {"plan"} ELSE {},
           proc[p].count = 0 => store.log = <<Initialized>>,
           [proc[p] EXCEPT !.count = @ + 1], Idle)
  /\ UNCHANGED <<clock, journal, lock, expired, files, contacts>>

(***************************************************************************)
(* The lease is linked once, and only over a complete set of active        *)
(* reservations; an invocation that comes second fails.                    *)
(***************************************************************************)
Leasable(p) ==
  /\ Readable(store)
  /\ \A c \in Cells : StatusOf(store.log, c) \in Active
  /\ proc[p].continued \/ clock = "open"
  /\ ~lease

WriteLease(p) ==
  /\ proc[p].stage = "reserving"
  /\ proc[p].count = N
  /\ lease' = (lease \/ Leasable(p))
  /\ Becomes(p, IF Leasable(p)
                THEN [proc[p] EXCEPT !.stage = "opening", !.count = 0] ELSE Idle)
  /\ UNCHANGED <<store, clock, journal, lock, expired, runlog, prefixes, run,
                 evidence, package, contacts, faults>>
-------------------------------------------------------------------------------
(***************************************************************************)
(* What a mutation of the journal j does under the lock: the journal to    *)
(* write, and what became of the spend ledger meanwhile.                   *)
(***************************************************************************)
Work(next, o) ==
  [next |-> next, store |-> o.store, result |-> o.result, fault |-> o.fault]

Writes(j, e) ==
  IF Extends(j, e) THEN {Work(Append(j, e), Outcome(store, "ok", FALSE))}
  ELSE {Work(j, Outcome(store, "failed", FALSE))}

Declines(j) == {Work(j, Outcome(store, "failed", FALSE))}

If(guard, j, works) == IF guard THEN works ELSE Declines(j)

Paused == StateOf(store.log).paused

(***************************************************************************)
(* A new owner is one nobody was before: the invocation, and the place of  *)
(* its entry.                                                              *)
(***************************************************************************)
NewOwner(p, j) == <<p, Len(j) + 1>>

Begin(p, j) ==
  If(/\ Condition(j) = "ready"
     /\ NextCell(j) = CellOf(p)
     /\ ~Late
     /\ Readable(store)
     /\ ~Paused,
     j, Writes(j, Entry("intent", CellOf(p), NewOwner(p, j), Len(store.log))))

(***************************************************************************)
(* recoverExpiredLc4CellBeforeNetwork: the ledger is paused, and so is the *)
(* cell, whose owner let its lease run out.                                *)
(***************************************************************************)
Switches(j, event, entry(_)) ==
  IF Recognised(store.log, j, event)
  THEN Writes(j, entry(Len(store.log)))
  ELSE {Work(IF o.result = "ok" THEN Append(j, entry(Len(o.store.log))) ELSE j, o) :
          o \in Mutations(store, event, Late, {}, TRUE)}

Recover(j) ==
  If(/\ LastIs(j, Unopened)
     /\ Expired(Last(j).owner)
     /\ Readable(store)
     /\ Paused => Recognised(store.log, j, PauseEvent(j)),
     j, Switches(j, PauseEvent(j),
                 LAMBDA head : Entry("paused", Last(j).cell, Last(j).owner, head)))

(***************************************************************************)
(* claimLc4PausedCell, in two mutations: an intent to take the cell over,  *)
(* which is kept if it is still somebody's or if the ledger was already    *)
(* resumed under it, and the claim, which resumes the ledger for the owner *)
(* the intent names.                                                       *)
(***************************************************************************)
Kept(j) ==
  /\ LastIs(j, {"takeover"})
  /\ ~Expired(Last(j).owner) \/ (Readable(store) /\ ~Paused)

TakeOver(p, j) ==
  If(/\ Condition(j) = "paused_before_network"
     /\ ActiveCell(j) = CellOf(p)
     /\ LastIs(j, {"paused", "takeover"}),
     j,
     IF Kept(j) THEN {Work(j, Outcome(store, "ok", FALSE))}
     ELSE If(~Late /\ (LastIs(j, {"takeover"}) => Readable(store)),
             j, Writes(j, Entry("takeover", CellOf(p), NewOwner(p, j),
                                Last(j).budget))))

Claim(p, j) ==
  If(/\ LastIs(j, {"takeover"})
     /\ Last(j).cell = CellOf(p)
     /\ Readable(store)
     /\ IF Paused THEN Len(store.log) = Last(j).budget
        ELSE Recognised(store.log, j, ResumeEvent(j)),
     j, Switches(j, ResumeEvent(j),
                 LAMBDA head : Entry("claimed", Last(j).cell, Last(j).owner, head)))

Mark(p, j) ==
  If(/\ Owns(j, CellOf(p), proc[p].owner, Unopened)
     /\ ~Expired(Last(j).owner)
     /\ Readable(store)
     /\ ~Paused,
     j, Writes(j, Entry("emission", CellOf(p), proc[p].owner, Len(store.log))))

Complete(p, j) ==
  If(Owns(j, CellOf(p), proc[p].owner, {"emission"}) /\ Readable(store),
     j, Writes(j, Entry("completed", CellOf(p), proc[p].owner, Len(store.log))))

(***************************************************************************)
(* quarantineLc4InterruptedNetworkCell, by a later invocation or by the    *)
(* one whose run failed; and the quarantine of a journal that was lost.    *)
(***************************************************************************)
Quarantine(j) ==
  If(LastIs(j, {"emission"}) /\ Readable(store),
     j, Writes(j, Entry("ambiguous", Last(j).cell, Last(j).owner, Len(store.log))))

Custody(j) ==
  If(j = <<>> /\ Readable(store),
     j, Writes(j, Entry("custody", NextCell(j), NoOwner, Len(store.log))))

Works(p, j) ==
  CASE proc[p].op = "create" -> {Work(<<>>, Outcome(store, "ok", FALSE))}
    [] proc[p].op = "custody" -> Custody(j)
    [] proc[p].op \in {"quarantine", "stop"} -> Quarantine(j)
    [] proc[p].op = "recover" -> Recover(j)
    [] proc[p].op = "begin" -> Begin(p, j)
    [] proc[p].op = "takeover" -> TakeOver(p, j)
    [] proc[p].op = "claim" -> Claim(p, j)
    [] proc[p].op = "mark" -> Mark(p, j)
    [] proc[p].op = "complete" -> Complete(p, j)

(***************************************************************************)
(* mutateJournal: the journal must still be the one the invocation knows.  *)
(***************************************************************************)
Current(p) ==
  IF proc[p].op = "create" THEN journal.at = "missing"
  ELSE journal.at = "present" /\ journal.log = proc[p].known

(***************************************************************************)
(* How the invocation goes on after its mutation: with the journal as it   *)
(* wrote it, or with the error.  An error inside the execution of a cell   *)
(* ends the run as failed; any other ends the invocation.                  *)
(***************************************************************************)
InExecution == {"begin", "takeover", "claim", "mark", "complete"}

After(p, next) ==
  LET known == [proc[p] EXCEPT !.op = "none", !.inside = "no", !.next = <<>>,
                               !.known = next]
  IN  CASE proc[p].op = "create" /\ proc[p].crossed -> Mutating(known, "custody")
        [] proc[p].op \in {"create", "custody"} /\ (proc[p].op = "create" => ~proc[p].crossed) ->
             [known EXCEPT !.stage = "deciding"]
        [] proc[p].op \in {"quarantine", "stop"} -> [known EXCEPT !.stage = "failing"]
        [] proc[p].op = "recover" -> [known EXCEPT !.stage = "building"]
        [] proc[p].op = "takeover" -> Mutating(known, "claim")
        [] proc[p].op \in {"begin", "claim"} ->
             Mutating([known EXCEPT !.owner = Last(next).owner], "mark")
        [] proc[p].op = "mark" -> [known EXCEPT !.stage = "admitted"]
        [] proc[p].op = "complete" ->
             [known EXCEPT !.stage = "cell", !.count = @ + 1, !.owner = NoOwner]

Thrown(p) ==
  IF proc[p].op \in InExecution
  THEN [Mutating(proc[p], "none") EXCEPT !.stage = "stopping"]
  ELSE Idle

Waits(p) == proc[p].op # "none" /\ proc[p].inside = "no" /\ ~proc[p].thief

(***************************************************************************)
(* withLock.  The lock is taken and the journal read; the change is        *)
(* computed, with what it does to the spend ledger; then the journal is    *)
(* replaced and the lock given back.  Whoever finds its lock gone fails,   *)
(* but its journal is written.                                             *)
(***************************************************************************)
Enter(p) ==
  /\ Waits(p)
  /\ lock = Free
  /\ lock' = IF Current(p) THEN p ELSE Free
  /\ Becomes(p, IF Current(p)
                THEN [proc[p] EXCEPT !.inside = "read", !.next = journal.log]
                ELSE Thrown(p))
  /\ UNCHANGED <<store, clock, journal, expired, files, contacts, faults>>

GivenBack(p, to) == lock' = IF lock = p THEN to ELSE lock

Compute(p) ==
  /\ proc[p].inside = "read"
  /\ \E w \in Works(p, proc[p].next) :
        /\ store' = w.store
        /\ Spends(w.fault)
        /\ CASE w.result = "ok" -> UNCHANGED lock
             [] w.result = "failed" -> GivenBack(p, Free)
             [] w.result = "crashed" -> GivenBack(p, Dead)
        /\ Becomes(p, CASE w.result = "ok" ->
                             [proc[p] EXCEPT !.inside = "write", !.next = w.next]
                        [] w.result = "failed" -> Thrown(p)
                        [] w.result = "crashed" -> Idle)
  /\ UNCHANGED <<clock, journal, expired, files, contacts>>

Leave(p) ==
  /\ proc[p].inside = "write"
  /\ journal' = [at |-> "present", log |-> proc[p].next]
  /\ GivenBack(p, Free)
  /\ \/ /\ Becomes(p, IF lock = p THEN After(p, proc[p].next) ELSE Thrown(p))
        /\ Spends(FALSE)
     \/ Becomes(p, Thrown(p)) /\ Spends(TRUE)
  /\ UNCHANGED <<store, clock, expired, files, contacts>>

LockTimesOut(p) ==
  /\ Waits(p)
  /\ lock \in Operators
  /\ Spends(TRUE)
  /\ Becomes(p, Thrown(p))
  /\ UNCHANGED <<store, clock, journal, lock, expired, files, contacts>>

(***************************************************************************)
(* A lock whose owner is dead: its nonce is read again and found the same; *)
(* after that the directory is removed, whoever made it.                   *)
(***************************************************************************)
ConfirmDeadLock(p) ==
  /\ Waits(p)
  /\ lock = Dead
  /\ Becomes(p, [proc[p] EXCEPT !.thief = TRUE])
  /\ UNCHANGED <<store, clock, journal, lock, expired, files, contacts, faults>>

RemoveDeadLock(p) ==
  /\ proc[p].thief
  /\ lock' = Free
  /\ Becomes(p, [proc[p] EXCEPT !.thief = FALSE])
  /\ UNCHANGED <<store, clock, journal, expired, files, contacts, faults>>
-------------------------------------------------------------------------------
(***************************************************************************)
(* The invocation finds its journal.  One that is missing although there   *)
(* is a lease is made anew, and quarantined at once if the ledger or any   *)
(* file says that the run went past its reservations.                      *)
(***************************************************************************)
Crossed ==
  \/ \E c \in Cells : StatusOf(store.log, c) # "reserved"
  \/ runlog.at = "open"
  \/ prefixes # {}

OpenJournal(p) ==
  /\ proc[p].stage = "opening"
  /\ proc[p].op = "none"
  /\ Becomes(p, IF proc[p].had /\ journal.at = "present"
                THEN [proc[p] EXCEPT !.known = journal.log, !.stage = "deciding"]
                ELSE IF Readable(store) /\ ~Paused
                     THEN Mutating([proc[p] EXCEPT !.crossed = proc[p].had /\ Crossed],
                                   "create")
                     ELSE Idle)
  /\ UNCHANGED <<store, clock, journal, lock, expired, files, contacts, faults>>

(***************************************************************************)
(* The completed prefix is loaded and counted, and the state of the        *)
(* journal decides: quarantine what may have reached the network, wait for *)
(* an owner or recover an expired one, or go on.                           *)
(***************************************************************************)
LoadedCount(count) == IF count = 0 THEN AbsentCount ELSE count

Leading(j) == CompletedCells(j) = {Schedule[i] : i \in 1..Cardinality(CompletedCells(j))}

Decision(r) ==
  LET count == Cardinality(CompletedCells(r.known))
      loaded == [r EXCEPT !.count = count]
  IN  CASE \/ ~Leading(r.known)
           \/ ~(CompletedCells(r.known) \subseteq prefixes)
           \/ LoadedCount(count) # count -> Idle
        [] OTHER ->
             CASE Condition(r.known) = "network_ambiguous" ->
                    IF QuarantinedCells(r.known) = {} THEN Mutating(loaded, "quarantine")
                    ELSE [loaded EXCEPT !.stage = "failing"]
               [] Condition(r.known) = "owned_before_network" ->
                    IF Expired(Last(r.known).owner) THEN Mutating(loaded, "recover")
                    ELSE Idle
               [] OTHER -> [loaded EXCEPT !.stage = "building"]

Decide(p) ==
  /\ proc[p].stage = "deciding"
  /\ proc[p].op = "none"
  /\ Becomes(p, Decision(proc[p]))
  /\ UNCHANGED <<store, clock, journal, lock, expired, files, contacts, faults>>

(***************************************************************************)
(* runtime.build: the run ledger is created with its intent when no cell   *)
(* is completed, and must otherwise end exactly with the last completed    *)
(* cell.  The cells are then executed in slices of one, each of which      *)
(* asserts once more that the preflight has not expired.                   *)
(***************************************************************************)
CanBuild(count) ==
  IF count = 0 THEN runlog.at = "none"
  ELSE runlog.at = "open" /\ runlog.cells = count /\ ~runlog.beyond

Build(p) ==
  /\ proc[p].stage = "building"
  /\ LET built == /\ ~Late
                  /\ proc[p].continued \/ clock = "open"
                  /\ CanBuild(proc[p].count)
     IN  /\ runlog' = IF built THEN [runlog EXCEPT !.at = "open"] ELSE runlog
         /\ Becomes(p, IF built /\ clock = "open" THEN Stage(p, "cell") ELSE Idle)
  /\ UNCHANGED <<store, clock, journal, lock, expired, lease, prefixes, run,
                 evidence, package, contacts, faults>>
-------------------------------------------------------------------------------
(***************************************************************************)
(* One cell: ownership and the network mark in the journal, the opening in *)
(* the run ledger and the spend ledger, the provider, its acknowledgement, *)
(* the terminal event of the episode, the prefix artifact, the completion. *)
(***************************************************************************)
EnterCell(p) ==
  /\ proc[p].stage = "cell"
  /\ proc[p].op = "none"
  /\ proc[p].count < N
  /\ Becomes(p, IF clock # "open" THEN Idle
                ELSE Mutating(proc[p],
                       IF Condition(proc[p].known) = "paused_before_network"
                       THEN "takeover" ELSE "begin"))
  /\ UNCHANGED <<store, clock, journal, lock, expired, files, contacts, faults>>

Announce(p) ==
  /\ proc[p].stage = "admitted"
  /\ runlog' = [runlog EXCEPT !.beyond = TRUE]
  /\ Calls(p, Event(<<CellOf(p), "opening">>, "intent", CellOf(p), 0), {}, ~Late,
           Stage(p, "announced"), Stage(p, "stopping"))
  /\ UNCHANGED <<clock, journal, lock, expired, lease, prefixes, run, evidence,
                 package, contacts>>

Contact(p) ==
  /\ proc[p].stage = "announced"
  /\ contacts' = [contacts EXCEPT ![CellOf(p)] = @ + 1]
  /\ Becomes(p, Stage(p, "contacted"))
  /\ UNCHANGED <<store, clock, journal, lock, expired, files, faults>>

Acknowledge(p) ==
  /\ proc[p].stage = "contacted"
  /\ Calls(p, Event(<<CellOf(p), "opened">>, "opened", CellOf(p), 0), {}, TRUE,
           Stage(p, "running"), Stage(p, "stopping"))
  /\ UNCHANGED <<clock, journal, lock, expired, files, contacts>>

EpisodeEnds(p) ==
  /\ proc[p].stage = "running"
  /\ runlog' = [runlog EXCEPT !.cells = proc[p].count + 1, !.beyond = FALSE]
  /\ Becomes(p, Stage(p, "ended"))
  /\ UNCHANGED <<store, clock, journal, lock, expired, lease, prefixes, run,
                 evidence, package, contacts, faults>>


EpisodeFails(p) ==
  /\ proc[p].stage \in {"contacted", "running"}
  /\ Becomes(p, Stage(p, "stopping"))
  /\ UNCHANGED <<store, clock, journal, lock, expired, files, contacts, faults>>

WritePrefix(p) ==
  /\ proc[p].stage = "ended"
  /\ proc[p].op = "none"
  /\ prefixes' = prefixes \cup {CellOf(p)}
  /\ Becomes(p, IF CellOf(p) \in prefixes THEN Stage(p, "stopping")
                ELSE Mutating(proc[p], "complete"))
  /\ UNCHANGED <<store, clock, journal, lock, expired, lease, runlog, run,
                 evidence, package, contacts, faults>>

(***************************************************************************)
(* The end of the run in the run ledger, and what the journal says of it.  *)
(* A failed run quarantines the cell it may have opened, a completed run   *)
(* needs every cell completed.                                             *)
(***************************************************************************)
FinishRun(p) ==
  /\ proc[p].stage = "cell"
  /\ proc[p].op = "none"
  /\ proc[p].count = N
  /\ runlog' = [runlog EXCEPT !.beyond = TRUE]
  /\ Becomes(p, Stage(p, "finishing"))
  /\ UNCHANGED <<store, clock, journal, lock, expired, lease, prefixes, run,
                 evidence, package, contacts, faults>>

InspectCompleted(p) ==
  /\ proc[p].stage = "finishing"
  /\ Becomes(p, IF journal.at = "present" /\ AllCompleted(journal.log)
                THEN Stage(p, "publishing") ELSE Idle)
  /\ UNCHANGED <<store, clock, journal, lock, expired, files, contacts, faults>>

StopRun(p) ==
  /\ proc[p].stage = "stopping"
  /\ proc[p].op = "none"
  /\ runlog' = [runlog EXCEPT !.beyond = TRUE]
  /\ Becomes(p, IF journal.at = "missing" THEN Idle
                ELSE IF Condition(journal.log) = "network_ambiguous"
                     THEN Mutating([proc[p] EXCEPT !.known = journal.log], "stop")
                     ELSE Stage(p, "failing"))
  /\ UNCHANGED <<store, clock, journal, lock, expired, lease, prefixes, run,
                 evidence, package, contacts, faults>>

PublishRun(p) ==
  /\ proc[p].stage \in {"publishing", "failing"}
  /\ run' = IF run # NoRun THEN run
            ELSE [status |-> IF proc[p].stage = "failing" THEN "failed"
                             ELSE "completed",
                  completed |-> proc[p].count]
  /\ Becomes(p, IF run # NoRun THEN Idle ELSE Stage(p, "closing"))
  /\ UNCHANGED <<store, clock, journal, lock, expired, lease, runlog, prefixes,
                 evidence, package, contacts, faults>>
-------------------------------------------------------------------------------
(***************************************************************************)
(* finalizeLc4DevRunBudget: what was never announced is cancelled; every   *)
(* other reservation is settled at its maximum.  A reservation that ended  *)
(* before must have ended as this run says.                                *)
(***************************************************************************)
Ended(i) == IF i <= run.completed THEN 1 ELSE 0

ClosingEvent(i) ==
  LET c == Schedule[i]
      v == StateOf(store.log).reservation[c]
  IN  CASE v.status = "reserved" -> Event(<<c, "cancel">>, "cancelled", c, 0)
        [] v.status \in {"opening", "opened"} /\ ~v.used ->
             Event(<<c, "usage">>, "usage", c, Ended(i))
        [] v.status \in {"opening", "opened"} /\ v.used ->
             Event(<<c, "terminal">>, "terminal", c, Ended(i))
        [] v.status = "terminal_unsettled" ->
             Event(<<c, "settle">>, "settled", c, Maximum)

EndedAsRun(i) ==
  StatusOf(store.log, Schedule[i]) = "terminal_unsettled" =>
    \E k \in 1..Len(store.log) :
       store.log[k] = Event(<<Schedule[i], "terminal">>, "terminal", Schedule[i], Ended(i))

ActiveIndices == {i \in 1..N : StatusOf(store.log, Schedule[i]) \in Active}

Finalize(p) ==
  /\ proc[p].stage = "closing"
  /\ Readable(store)
  /\ ActiveIndices # {}
  /\ LET i == Min(ActiveIndices)
     IN  Calls(p, ClosingEvent(i), {}, EndedAsRun(i), proc[p], Idle)
  /\ UNCHANGED <<clock, journal, lock, expired, files, contacts>>

(***************************************************************************)
(* The evidence describes the closed ledger, is replayed against it and    *)
(* linked, and the package after it.  If the package cannot be linked the  *)
(* evidence this invocation linked is taken back.                          *)
(***************************************************************************)
LinkEvidence(p) ==
  /\ proc[p].stage = "closing"
  /\ Readable(store) => ActiveIndices = {}
  /\ LET linked == Readable(store) /\ evidence = 0
     IN  /\ evidence' = IF linked THEN Len(store.log) ELSE evidence
         /\ Becomes(p, IF linked THEN Stage(p, "sealing") ELSE Idle)
  /\ UNCHANGED <<store, clock, journal, lock, expired, lease, runlog, prefixes,
                 run, package, contacts, faults>>

LinkPackage(p) ==
  /\ proc[p].stage = "sealing"
  /\ package' = TRUE
  /\ evidence' = IF package THEN 0 ELSE evidence
  /\ Becomes(p, Idle)
  /\ UNCHANGED <<store, clock, journal, lock, expired, lease, runlog, prefixes,
                 run, contacts, faults>>

(***************************************************************************)
(* An invocation that finds the evidence replays it and links the package  *)
(* if that is missing.                                                     *)
(***************************************************************************)
Replays == Readable(store) /\ evidence = Len(store.log) /\ journal.at = "present"

CompletePackage(p) ==
  /\ proc[p].stage = "sealed"
  /\ package' = (package \/ Replays)
  /\ Becomes(p, Idle)
  /\ UNCHANGED <<store, clock, journal, lock, expired, lease, runlog, prefixes,
                 run, evidence, contacts, faults>>
-------------------------------------------------------------------------------
(***************************************************************************)
(* A process dies between two of its steps; a lock it holds stays.         *)
(***************************************************************************)
Die(p) ==
  /\ proc[p].stage # "idle"
  /\ Spends(TRUE)
  /\ Becomes(p, Idle)
  /\ lock' = IF lock = p THEN Dead ELSE lock
  /\ UNCHANGED <<store, clock, journal, expired, files, contacts>>

(***************************************************************************)
(* The journal is lost while nobody runs.                                  *)
(***************************************************************************)
LoseJournal ==
  /\ journal.at = "present"
  /\ \A p \in Operators : proc[p].stage = "idle"
  /\ Spends(TRUE)
  /\ journal' = [at |-> "missing", log |-> <<>>]
  /\ UNCHANGED <<store, clock, lock, expired, files, proc, contacts>>

(***************************************************************************)
(* The operator removes a ledger lock whose owner is gone, and has a head  *)
(* that is behind its log written again.                                   *)
(***************************************************************************)
RepairLedger ==
  /\ \/ store.locked /\ store' = [store EXCEPT !.locked = FALSE]
     \/ Recoverable(store) /\ ~Verified(store) /\ store' = Recovered(store)
  /\ UNCHANGED <<clock, journal, lock, expired, files, proc, contacts, faults>>

(***************************************************************************)
(* Time: the lease of an owner, the preflight, the deadline of the run.    *)
(***************************************************************************)
OwnerExpires ==
  /\ LastIs(journal.log, Unopened \cup {"takeover"})
  /\ Last(journal.log).owner \notin expired
  /\ expired' = expired \cup {Last(journal.log).owner}
  /\ UNCHANGED <<store, clock, journal, lock, files, proc, contacts, faults>>

ClockAdvances ==
  /\ clock # "over"
  /\ clock' = IF clock = "open" THEN "expired" ELSE "over"
  /\ clock' \in Clocks
  /\ UNCHANGED <<store, journal, lock, expired, files, proc, contacts, faults>>

Invocation(p) ==
  \/ Initialize(p) \/ Survey(p) \/ Reserve(p) \/ WriteLease(p)
  \/ Enter(p) \/ Compute(p) \/ Leave(p) \/ LockTimesOut(p)
  \/ ConfirmDeadLock(p) \/ RemoveDeadLock(p)
  \/ OpenJournal(p) \/ Decide(p) \/ Build(p)
  \/ EnterCell(p) \/ Announce(p) \/ Contact(p) \/ Acknowledge(p)
  \/ EpisodeEnds(p) \/ EpisodeFails(p) \/ WritePrefix(p)
  \/ FinishRun(p) \/ InspectCompleted(p) \/ StopRun(p) \/ PublishRun(p)
  \/ Finalize(p) \/ LinkEvidence(p) \/ LinkPackage(p) \/ CompletePackage(p)

Next ==
  \/ \E p \in Operators : Start(p) \/ Invocation(p) \/ Die(p)
  \/ LoseJournal \/ RepairLedger \/ OwnerExpires \/ ClockAdvances

Spec == Init /\ [][Next]_vars

(***************************************************************************)
(* A living invocation goes on: weak fairness of Invocation(p), with the   *)
(* condition under which it is enabled spelled out.  And an operator who   *)
(* can start the command does.                                             *)
(***************************************************************************)
Runnable(p) ==
  /\ proc[p].stage # "idle"
  /\ Waits(p) => lock \in {Free, Dead}

-------------------------------------------------------------------------------
(***************************************************************************)
(* The provider is contacted at most once for a cell, whatever dies and    *)
(* however often the command is started: the mark in the journal precedes  *)
(* the contact, and a marked cell is completed or quarantined.             *)
(***************************************************************************)
CellContactedOnce == \A c \in Cells : contacts[c] <= 1

(***************************************************************************)
(* A cell whose provider was contacted counts at its maximum in the spend  *)
(* ledger from then on; no closing invocation cancels it under the one     *)
(* that is about to open it.                                               *)
(***************************************************************************)
SpendIsCovered ==
  \A c \in Cells :
     contacts[c] > 0 => ConservativeCost(StateOf(store.log), c) = Maximum

(***************************************************************************)
(* The first provider is contacted only when all cells are reserved.       *)
(***************************************************************************)
ReservedTogether ==
  (\E c \in Cells : contacts[c] > 0) =>
     \A c \in Cells : StatusOf(store.log, c) # "none"

(***************************************************************************)
(* A published package rests on a terminal run, a ledger without active    *)
(* reservations, and, if it says "completed", on every cell having been    *)
(* contacted and completed.                                                *)
(***************************************************************************)
PackageIsTrue ==
  package =>
    /\ run # NoRun
    /\ ActiveIndices = {}
    /\ run.status = "completed" =>
         \A c \in Cells : contacts[c] = 1 /\ c \in prefixes

(***************************************************************************)
(* While the run is open and nobody works on it, a paused ledger is one    *)
(* the next invocation can resume: the journal says paused at that very    *)
(* head, or the pause is the one its recovery will recognise.              *)
(***************************************************************************)
PauseIsRecoverable ==
  (/\ run = NoRun
   /\ journal.at = "present"
   /\ Paused
   /\ \A p \in Operators : proc[p].stage = "idle") =>
     \/ /\ LastIs(journal.log, {"paused", "takeover"})
        /\ Last(journal.log).budget = Len(store.log)
     \/ /\ LastIs(journal.log, Unopened)
        /\ Recognised(store.log, journal.log, PauseEvent(journal.log))

(***************************************************************************)
(* A run nobody disturbs is published, unless its time runs out first.     *)
(***************************************************************************)
RunIsPublished == <>(package \/ clock # "open")

(***************************************************************************)
(* Every invocation of the command comes to its end.                       *)
(***************************************************************************)
InvocationEnds ==
  \A p \in Operators : proc[p].stage # "idle" ~> proc[p].stage = "idle"
====
