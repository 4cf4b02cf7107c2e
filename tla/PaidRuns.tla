------------------------------- MODULE PaidRuns -------------------------------
(***************************************************************************)
(* Paid benchmark runs (lib/benchmark/paid-runner.ts) that share one spend *)
(* ledger with an operator, and the journal each run keeps of itself       *)
(* (lib/benchmark/run-journal.ts).                                         *)
(*                                                                         *)
(* A run executes a signed plan.  The plan names the ledger's head at the  *)
(* time it was made, and the run may reserve only while that is still the  *)
(* head.  It then creates its journal, announces the connection in the     *)
(* ledger, contacts the provider, and settles what it may have spent at    *)
(* the maximum.  A run that fails settles or cancels what it reserved, as  *)
(* far as the ledger still answers.                                        *)
(*                                                                         *)
(* The machine may fail at every write, a process may die between and in   *)
(* all of them, and the ledger's files may be restored from an old copy.   *)
(***************************************************************************)
EXTENDS BudgetLedger

CONSTANTS
  OperatorIds,    \* identities the operator gives its operations
  MaxFaults,      \* failures and crashes of the machine
  MaxRollbacks    \* times the log and its head are restored from a copy

Runs == Reservations

VARIABLES
  store,      \* the ledger on disk
  late,       \* the expiry of the reservations has passed
  stage,      \* how far each run's process is
  plan,       \* the head each run's plan was made for
  journal,    \* each run's own journal
  contacts,   \* how often each run contacted the provider
  faults, rollbacks

vars == <<store, late, stage, plan, journal, contacts, faults, rollbacks>>

Ended == {"refused", "failed", "crashed", "complete"}

Stages ==
  Ended \cup
  {"idle", "planned", "reserved", "journaled", "ready", "announced", "intended",
   "contacted", "acknowledged", "running", "returned", "verified",
   "settling", "settled", "published", "failing", "terminated", "preserving"}

(***************************************************************************)
(* The journal of a run: where its directory is, whether a reader of its   *)
(* lines finds an unbroken chain, whether the writer's memory is behind    *)
(* what is on disk, and whether the process holds a journal at all.        *)
(***************************************************************************)
NoJournal == [at |-> "none", chain |-> "whole", behind |-> FALSE, open |-> FALSE]

Journals ==
  [at : {"none", "partial", "complete"}, chain : {"whole", "broken", "torn"},
   behind : BOOLEAN, open : BOOLEAN]

TypeOK ==
  /\ store.log \in Seq([op : {<<r, k>> : r \in Runs \cup {"operator"},
                              k \in OperatorIds \cup
                                 {"initialize", "created", "intent", "opened",
                                  "terminal", "settled", "cancelled",
                                  "terminal-failed", "settle-failed"}},
                        type : {"initialized", "paused", "resumed", "ceiling",
                                "created", "settled", "usage", "cost"}
                                 \cup DOMAIN Target,
                        res : Runs \cup {NoReservation}, amount : Nat])
  /\ store.torn \in BOOLEAN /\ store.locked \in BOOLEAN
  /\ late \in BOOLEAN
  /\ stage \in [Runs -> Stages]
  /\ journal \in [Runs -> Journals]
  /\ contacts \in [Runs -> Nat]
  /\ faults \in 0..MaxFaults
  /\ rollbacks \in 0..MaxRollbacks

Init ==
  /\ store = NewStore
  /\ late = FALSE
  /\ stage = [x \in Runs |-> "idle"]
  /\ plan = [x \in Runs |-> NoHead]
  /\ journal = [x \in Runs |-> NoJournal]
  /\ contacts = [x \in Runs |-> 0]
  /\ faults = 0
  /\ rollbacks = 0

Spends(fault) == faults' = faults + (IF fault THEN 1 ELSE 0) /\ faults' <= MaxFaults

Moves(x, to) == stage' = [stage EXCEPT ![x] = to]

(***************************************************************************)
(* An operation of run x on the ledger; its process goes on at one stage   *)
(* or another by the result.                                               *)
(***************************************************************************)
Operation(x, kind, type, amount) == Event(<<x, kind>>, type, x, amount)

Calls(x, e, anchors, precondition, done, thrown) ==
  \E o \in Mutations(store, e, late, anchors, precondition) :
     /\ store' = o.store
     /\ Spends(o.fault)
     /\ Moves(x, CASE o.result = "ok" -> done
                   [] o.result = "failed" -> thrown
                   [] o.result = "crashed" -> "crashed")
     /\ UNCHANGED <<late, plan, journal, contacts, rollbacks>>

(***************************************************************************)
(* CrashDurableRunJournal.append: the line is written, then the head file, *)
(* and only then does the writer advance its own sequence number.  If the  *)
(* line is on disk and the head is not, the next line repeats the number.  *)
(***************************************************************************)
Appended(j) == [j EXCEPT !.chain = IF j.behind THEN "broken" ELSE @]

Appends(j) ==
  {[journal |-> Appended(j), fault |-> FALSE],
   [journal |-> j, fault |-> TRUE],
   [journal |-> [j EXCEPT !.chain = "torn"], fault |-> TRUE],
   [journal |-> [Appended(j) EXCEPT !.behind = TRUE], fault |-> TRUE]}

Records(x, done, thrown) ==
  \E a \in Appends(journal[x]) :
     /\ journal' = [journal EXCEPT ![x] = a.journal]
     /\ Spends(a.fault)
     /\ Moves(x, IF a.fault THEN thrown ELSE done)
     /\ UNCHANGED <<store, late, plan, contacts, rollbacks>>

Steps(x, to) ==
  /\ Moves(x, to)
  /\ UNCHANGED <<store, late, plan, journal, contacts, faults, rollbacks>>

(***************************************************************************)
(* A plan is made and confirmed for the head of the ledger.                *)
(***************************************************************************)
Plan(x) ==
  /\ stage[x] = "idle"
  /\ Readable(store)
  /\ plan' = [plan EXCEPT ![x] = store.log]
  /\ Moves(x, "planned")
  /\ UNCHANGED <<store, late, journal, contacts, faults, rollbacks>>

(***************************************************************************)
(* The reservation: only at the head the plan was made for, and the head   *)
(* is consumed with it.                                                    *)
(***************************************************************************)
AtOpenHead(x) == store.log = plan[x]

Reserve(x) ==
  /\ stage[x] = "planned"
  /\ Calls(x, Operation(x, "created", "created", 0), {plan[x]}, AtOpenHead(x),
           "reserved", "refused")

(***************************************************************************)
(* The journal's directory is created, with the plan and a first record.   *)
(* If that fails the run holds no journal.                                 *)
(***************************************************************************)
CreateJournal(x) ==
  /\ stage[x] = "reserved"
  /\ \/ /\ journal[x].at = "none"
        /\ journal' = [journal EXCEPT ![x] = [NoJournal EXCEPT !.at = "partial",
                                                               !.open = TRUE]]
        /\ Moves(x, "journaled")
        /\ UNCHANGED faults
     \/ /\ journal[x].at = "none"
        /\ Spends(TRUE)
        /\ \E at \in {"none", "partial"} :
              journal' = [journal EXCEPT ![x].at = at]
        /\ Moves(x, "failed")
     \/ /\ journal[x].at # "none"
        /\ Moves(x, "failed")
        /\ UNCHANGED <<journal, faults>>
  /\ UNCHANGED <<store, late, plan, contacts, rollbacks>>

(***************************************************************************)
(* The credentials are looked for only now.  Until they are registered no  *)
(* client can exist, and a failure leaves the reservation as it is.        *)
(***************************************************************************)
RegisterCredentials(x) ==
  /\ stage[x] = "journaled"
  /\ Records(x, "ready", "preserving")

CredentialsMissing(x) ==
  /\ stage[x] = "journaled"
  /\ Steps(x, "preserving")

(***************************************************************************)
(* beforeClientCreate: the announcement is durable in the ledger and then  *)
(* in the journal before a client exists.  The trial lets a failure in it  *)
(* through.                                                                *)
(***************************************************************************)
Announce(x) ==
  /\ stage[x] = "ready"
  /\ Calls(x, Operation(x, "intent", "intent", 0), {}, TRUE,
           "announced", "failing")

RecordAnnouncement(x) ==
  /\ stage[x] = "announced"
  /\ Records(x, "intended", "failing")

Contact(x) ==
  /\ stage[x] = "intended"
  /\ contacts' = [contacts EXCEPT ![x] = @ + 1]
  /\ Moves(x, "contacted")
  /\ UNCHANGED <<store, late, plan, journal, faults, rollbacks>>

(***************************************************************************)
(* onSessionOpened, and then the records of the session.                   *)
(***************************************************************************)
Acknowledge(x) ==
  /\ stage[x] = "contacted"
  /\ Calls(x, Operation(x, "opened", "opened", 0), {}, TRUE,
           "acknowledged", "failing")

RecordSession(x) ==
  /\ stage[x] = "acknowledged"
  /\ Records(x, "running", "failing")

(***************************************************************************)
(* The trial ends with a result, of a session that opened or did not.  The *)
(* settlement of its own small budget is recorded last, and a failure of   *)
(* that one record is only noted in the result.  Or it ends with an error, *)
(* or with a result that is refused.                                       *)
(***************************************************************************)
TrialReturns(x) ==
  /\ stage[x] \in {"contacted", "running"}
  /\ Records(x, "returned", "returned")

TrialFails(x) ==
  /\ stage[x] \in {"contacted", "running", "returned"}
  /\ Steps(x, "failing")

RecordResult(x) ==
  /\ stage[x] = "returned"
  /\ Records(x, "verified", "failing")

Terminate(x) ==
  /\ stage[x] = "verified"
  /\ Calls(x, Operation(x, "terminal", "terminal", 0), {}, TRUE,
           "settling", "failing")

Settle(x) ==
  /\ stage[x] = "settling"
  /\ Calls(x, Operation(x, "settled", "settled", Maximum), {}, TRUE,
           "settled", "failing")

(***************************************************************************)
(* The settlement and the artifacts are recorded, the artifacts read back  *)
(* and verified.                                                           *)
(***************************************************************************)
RecordArtifacts(x) ==
  /\ stage[x] = "settled"
  /\ Records(x, "published", "failing")

ArtifactsDiffer(x) ==
  /\ stage[x] = "settled"
  /\ Steps(x, "failing")

(***************************************************************************)
(* finalize: a last record, the marker, and the directory takes its final  *)
(* name; the name may already be taken when making it durable fails.       *)
(***************************************************************************)
FinalizeRecords(x) ==
  \E a \in Appends(journal[x]) :
     /\ a.fault
     /\ Spends(TRUE)
     /\ journal' = [journal EXCEPT ![x] = a.journal]
     /\ Moves(x, "failing")
     /\ UNCHANGED <<store, late, plan, contacts, rollbacks>>

Finalize(x) ==
  /\ stage[x] = "published"
  /\ \/ FinalizeRecords(x)
     \/ \E fault \in BOOLEAN :
          /\ Spends(fault)
          /\ journal' = [journal EXCEPT ![x] = [Appended(@) EXCEPT !.at = "complete"]]
          /\ Moves(x, IF fault THEN "failing" ELSE "complete")
          /\ UNCHANGED <<store, late, plan, contacts, rollbacks>>

(***************************************************************************)
(* preserveFinalLiability: what was not announced is cancelled, what was   *)
(* is settled at the maximum.  A ledger that does not answer is left as it *)
(* is.                                                                     *)
(***************************************************************************)
PreserveLiability(x) ==
  /\ stage[x] = "failing"
  /\ LET status == StatusOf(store.log, x)
     IN  \/ /\ Readable(store) /\ status = "reserved"
            /\ Calls(x, Operation(x, "cancelled", "cancelled", 0), {}, TRUE,
                     "preserving", "preserving")
         \/ /\ Readable(store) /\ status \in {"opening", "opened"}
            /\ Calls(x, Operation(x, "terminal-failed", "terminal", 0), {}, TRUE,
                     "terminated", "preserving")
         \/ /\ Readable(store) /\ status \notin {"reserved", "opening", "opened"}
            /\ Steps(x, "terminated")
         \/ /\ ~Readable(store)
            /\ Steps(x, "preserving")

SettleFailed(x) ==
  /\ stage[x] = "terminated"
  /\ IF Readable(store) /\ StatusOf(store.log, x) = "terminal_unsettled"
     THEN Calls(x, Operation(x, "settle-failed", "settled", Maximum), {}, TRUE,
                "preserving", "preserving")
     ELSE Steps(x, "preserving")


Preserve(x) ==
  /\ stage[x] = "preserving"
  /\ IF journal[x].open /\ journal[x].at = "partial"
     THEN Records(x, "failed", "failed")
     ELSE Steps(x, "failed")

(***************************************************************************)
(* The process dies between two writes; a run that ended is started again  *)
(* with the same plan.                                                     *)
(***************************************************************************)
Crash(x) ==
  /\ stage[x] \notin Ended \cup {"idle"}
  /\ Spends(TRUE)
  /\ Moves(x, "crashed")
  /\ UNCHANGED <<store, late, plan, journal, contacts, rollbacks>>

Again(x) ==
  /\ stage[x] \in Ended
  /\ journal' = [journal EXCEPT ![x].open = FALSE, ![x].behind = FALSE]
  /\ Moves(x, "planned")
  /\ UNCHANGED <<store, late, plan, contacts, faults, rollbacks>>

(***************************************************************************)
(* The operator: pausing and resuming, another ceiling, a cost that the    *)
(* provider reported or an invoice shows, a cancellation, the end of a     *)
(* reservation whose time is over.                                         *)
(***************************************************************************)
OperatorEvents(id) ==
  {Event(<<"operator", id>>, type, NoReservation, 0) : type \in {"paused", "resumed"}}
  \cup {Event(<<"operator", id>>, "ceiling", NoReservation, c) :
          c \in {Ceiling, SchedulingStop}}
  \cup {Event(<<"operator", id>>, type, x, 0) :
          type \in {"cancelled", "expired"}, x \in Runs}
  \cup {Event(<<"operator", id>>, "cost", x, Maximum + 1) : x \in Runs}

OperatorOnly == <<late, stage, plan, journal, contacts, rollbacks>>

Operate ==
  \E id \in OperatorIds : \E e \in OperatorEvents(id) :
     \E o \in Mutations(store, e, late, {}, TRUE) :
        /\ store' = o.store
        /\ Spends(o.fault)
        /\ UNCHANGED OperatorOnly

RecoverHead ==
  /\ Recoverable(store)
  /\ store' = Recovered(store)
  /\ UNCHANGED <<OperatorOnly, faults>>

(***************************************************************************)
(* The lock of a dead process is removed by hand and by nothing else.      *)
(***************************************************************************)
RemoveLock ==
  /\ store.locked
  /\ store' = [store EXCEPT !.locked = FALSE]
  /\ UNCHANGED <<OperatorOnly, faults>>

TimePasses ==
  /\ ~late
  /\ late' = TRUE
  /\ UNCHANGED <<store, stage, plan, journal, contacts, faults, rollbacks>>

(***************************************************************************)
(* The log, the head and the key are restored from a copy made earlier;    *)
(* the anchors are not among them.                                         *)
(***************************************************************************)
Rollback ==
  /\ rollbacks < MaxRollbacks
  /\ \E n \in 1..(Len(store.log) - 1) :
        store' = [store EXCEPT !.log = SubSeq(store.log, 1, n),
                               !.head = SubSeq(store.log, 1, n), !.torn = FALSE]
  /\ rollbacks' = rollbacks + 1
  /\ UNCHANGED <<late, stage, plan, journal, contacts, faults>>

Works(x) ==
  \/ Reserve(x) \/ CreateJournal(x) \/ RegisterCredentials(x)
  \/ CredentialsMissing(x) \/ Announce(x) \/ RecordAnnouncement(x) \/ Contact(x)
  \/ Acknowledge(x) \/ RecordSession(x) \/ TrialReturns(x) \/ TrialFails(x)
  \/ RecordResult(x) \/ Terminate(x) \/ Settle(x) \/ RecordArtifacts(x)
  \/ ArtifactsDiffer(x) \/ Finalize(x) \/ PreserveLiability(x) \/ SettleFailed(x)
  \/ Preserve(x)

Next ==
  \/ \E x \in Runs : Plan(x) \/ Works(x) \/ Crash(x) \/ Again(x)
  \/ Operate \/ RecoverHead \/ RemoveLock \/ TimePasses \/ Rollback

Spec == Init /\ [][Next]_vars

-----------------------------------------------------------------------------
(***************************************************************************)
(* A run that contacted the provider is counted at its maximum or more for *)
(* ever after, whatever fails, whoever dies and whatever the operator      *)
(* cancels (conservativeCost and the announcement in beforeClientCreate).  *)
(***************************************************************************)
ContactIsCovered ==
  \A x \in Runs :
     contacts[x] > 0 => ConservativeCost(StateOf(store.log), x) >= Maximum

(***************************************************************************)
(* All the runs that contacted the provider were, at their maxima, within  *)
(* the scheduling stop, also when a run was settled long before another    *)
(* reserved (the limits of reservation.created).                           *)
(***************************************************************************)
SpendIsScheduled ==
  Cardinality({x \in Runs : contacts[x] > 0}) * Maximum <= SchedulingStop

(***************************************************************************)
(* A plan's head is good for one contact at most: not for two plans made   *)
(* for the same head, not for one plan executed twice, and not after the   *)
(* ledger was restored from a copy in which the head is current again      *)
(* (the anchors of reserveFilesystemBudget).                               *)
(***************************************************************************)
HeadIsSpentOnce ==
  \A x, y \in Runs :
     /\ contacts[x] <= 1
     /\ (x # y /\ contacts[x] > 0 /\ contacts[y] > 0) => plan[x] # plan[y]

(***************************************************************************)
(* An operation takes effect once: its identity is never in the log twice, *)
(* however often it is repeated after an answer that got lost (mutate).    *)
(***************************************************************************)
EffectIsOnce ==
  \A i, j \in 1..Len(store.log) :
     i # j => store.log[i].op # store.log[j].op

LogGrows == IsPrefix(store.log, store'.log)

(***************************************************************************)
(* What is in the log stays there; not even recovery removes an event that *)
(* nobody was told of (recoverFilesystemBudgetHead).                       *)
(***************************************************************************)
LogOnlyGrows == [][LogGrows]_vars

(***************************************************************************)
(* A run comes to an end: complete, refused, failed or dead.               *)
(***************************************************************************)
EveryRunEnds ==
  \A x \in Runs : (stage[x] = "reserved") ~> (stage[x] \in Ended)

=============================================================================
