----------------------------- MODULE BudgetLedger -----------------------------
(***************************************************************************)
(* The spend ledger on disk that stands between a paid experiment and its  *)
(* provider (lib/benchmark/filesystem-budget-ledger.ts): a signed log that *)
(* is only appended to, a head file that must describe the log exactly, a  *)
(* directory of anchors that outlives both, and a lock directory nobody    *)
(* ever steals.                                                            *)
(*                                                                         *)
(* Every function of the ledger, inspection included, holds the lock from  *)
(* its first read to its last write.  An operation is therefore one step   *)
(* of the model, with one outcome for each place where it can fail or its  *)
(* process can die; a process that dies leaves the lock behind.            *)
(*                                                                         *)
(* A store is a record:                                                    *)
(*   log      the events, each [op, type, res, amount]                     *)
(*   torn     the log ends in part of a line                               *)
(*   head     the log the head file describes, empty if there is none (the *)
(*            log is a hash chain: its own value stands for its hash)      *)
(*   anchors  the authorities consumed, in the directory of their own      *)
(*   locked   the lock directory exists although its owner is gone         *)
(***************************************************************************)
EXTENDS Integers, Sequences, FiniteSets, SequencesExt

CONSTANTS
  Reservations,     \* identities of reservations, each made by one run
  Maximum,          \* what one reservation may cost at most
  SchedulingStop,   \* no exposure may be scheduled beyond this
  Ceiling           \* the operational ceiling of a new ledger

NoReservation == "no reservation"
NoHead == <<>>

BudgetAssumption ==
  /\ NoReservation \notin Reservations
  /\ {Maximum, SchedulingStop, Ceiling} \subseteq Nat \ {0}
  /\ Ceiling <= SchedulingStop

Active == {"reserved", "opening", "opened", "terminal_unsettled"}

Statuses == Active \cup {"none", "settled", "cancelled", "expired"}

Event(op, type, res, amount) ==
  [op |-> op, type |-> type, res |-> res, amount |-> amount]

(***************************************************************************)
(* What the log says: whether the ledger is paused, its ceiling, and each  *)
(* reservation with the largest cost that was estimated, reported or       *)
(* reconciled for it.                                                      *)
(***************************************************************************)
EmptyState ==
  [paused |-> FALSE, ceiling |-> Ceiling,
   reservation |-> [r \in Reservations |->
                      [status |-> "none", cost |-> 0, used |-> FALSE]]]

Larger(a, b) == IF a >= b THEN a ELSE b

(***************************************************************************)
(* conservativeCost: the maximum until the reservation is settled.         *)
(***************************************************************************)
ConservativeCost(state, r) ==
  LET v == state.reservation[r]
  IN  CASE v.status \in Active -> Maximum
        [] v.status = "settled" -> v.cost
        [] OTHER -> 0

Exposure(state) ==
  FoldLeft(LAMBDA sum, r : sum + ConservativeCost(state, r),
           0, SetToSeq(Reservations))

Target == [opened |-> "opened", terminal |-> "terminal_unsettled",
           intent |-> "opening", cancelled |-> "cancelled",
           expired |-> "expired"]

(***************************************************************************)
(* applyPayload: what an event changes ...                                 *)
(***************************************************************************)
Applied(state, e) ==
  CASE e.type = "initialized" -> state
    [] e.type = "paused" -> [state EXCEPT !.paused = TRUE]
    [] e.type = "resumed" -> [state EXCEPT !.paused = FALSE]
    [] e.type = "ceiling" -> [state EXCEPT !.ceiling = e.amount]
    [] e.type = "created" -> [state EXCEPT !.reservation[e.res].status = "reserved"]
    [] e.type \in DOMAIN Target ->
         [state EXCEPT !.reservation[e.res].status = Target[e.type]]
    [] e.type = "settled" ->
         [state EXCEPT !.reservation[e.res].status = "settled",
                       !.reservation[e.res].cost = e.amount]
    [] e.type = "usage" -> [state EXCEPT !.reservation[e.res].used = TRUE]
    [] e.type = "cost" ->
         [state EXCEPT !.reservation[e.res].cost = Larger(@, e.amount)]

(***************************************************************************)
(* cancelled_before_open: nothing was announced to the provider.           *)
(***************************************************************************)
Cancellable(status) == status = "reserved"

(***************************************************************************)
(* ... and when it is refused.  "late" says that the expiry reservations   *)
(* are made with has passed.                                               *)
(***************************************************************************)
Allowed(state, e, late) ==
  LET status == IF e.res = NoReservation THEN "none"
                ELSE state.reservation[e.res].status
  IN  CASE e.type = "paused" -> ~state.paused
        [] e.type = "resumed" -> state.paused
        [] e.type = "ceiling" -> e.amount <= SchedulingStop
        [] e.type = "created" ->
             /\ status = "none"
             /\ ~late
             /\ ~state.paused
             /\ Exposure(state) + Maximum <= state.ceiling
             /\ Exposure(state) + Maximum <= SchedulingStop
        [] e.type = "intent" -> status = "reserved"
        [] e.type = "opened" -> status = "opening"
        [] e.type = "terminal" -> status \in {"opening", "opened"}
        [] e.type = "settled" -> status = "terminal_unsettled"
        [] e.type = "usage" ->
             /\ status \in {"opening", "opened"}
             /\ ~state.reservation[e.res].used
        [] e.type = "cost" -> status = "settled"
        [] e.type = "cancelled" -> Cancellable(status)
        [] e.type = "expired" -> status = "reserved" /\ late
        [] OTHER -> FALSE

(***************************************************************************)
(* replayEvents.                                                           *)
(***************************************************************************)
StateOf(log) == FoldLeft(Applied, EmptyState, log)

StatusOf(log, r) == StateOf(log).reservation[r].status

(***************************************************************************)
(* loadVerified: the log ends in a whole line and the head describes it.   *)
(***************************************************************************)
Verified(store) ==
  /\ ~store.torn
  /\ store.log # <<>>
  /\ store.head = store.log

Readable(store) == ~store.locked /\ Verified(store)

(***************************************************************************)
(* The outcome of one operation: what is on disk, what its caller learns,  *)
(* and whether the machine had to fail for it.                             *)
(***************************************************************************)
Outcome(store, result, fault) ==
  [store |-> store, result |-> result, fault |-> fault]

(***************************************************************************)
(* appendFully and writeHead.  The append is never repeated: if it fails,  *)
(* the log may hold nothing, a part or all of the event.  After a failure  *)
(* the lock is released, after the death of the process it is not.         *)
(***************************************************************************)
Committed(store, e) ==
  LET log == Append(store.log, e)
      whole == [store EXCEPT !.log = log, !.head = log]
      partial == {store, [store EXCEPT !.torn = TRUE],
                  [store EXCEPT !.log = log], whole}
  IN  {Outcome(whole, "ok", FALSE)}
      \cup {Outcome(s, "failed", TRUE) : s \in partial}
      \cup {Outcome([s EXCEPT !.locked = TRUE], "crashed", TRUE) : s \in partial}

(***************************************************************************)
(* mutate.  The precondition is looked at, and an anchor created, before   *)
(* the operation is compared with the ones already applied; so an anchor   *)
(* is kept even when the event is then refused.  An operation applied      *)
(* before is answered again if it is the same and refused if it is not.    *)
(***************************************************************************)
Refused(store) == {Outcome(store, "failed", FALSE)}

MutantPrior(log, e) == {}

Prior(log, e) == {i \in 1..Len(log) : log[i].op = e.op}

Anchored(store, anchors) == [store EXCEPT !.anchors = @ \cup anchors]

Mutations(store, e, late, anchors, precondition) ==
  LET held == Anchored(store, anchors)
      prior == Prior(store.log, e)
  IN  CASE ~Readable(store) -> Refused(store)
        [] Readable(store) /\ ~precondition -> Refused(store)
        [] Readable(store) /\ precondition /\ anchors \cap store.anchors # {} ->
             Refused(store)
        [] OTHER ->
             IF prior # {}
             THEN IF e \in {store.log[i] : i \in prior}
                  THEN {Outcome(held, "ok", FALSE)}
                  ELSE Refused(held)
             ELSE IF Allowed(StateOf(store.log), e, late)
                  THEN Committed(held, e)
                  ELSE Refused(held)

(***************************************************************************)
(* recoverFilesystemBudgetHead: a head that describes a prefix of a whole  *)
(* log, or no head at all, is written again; the log is not touched.       *)
(***************************************************************************)
Recoverable(store) ==
  /\ ~store.locked
  /\ ~store.torn
  /\ store.log # <<>>
  /\ IsPrefix(store.head, store.log)

Recovered(store) == [store EXCEPT !.head = store.log]

(***************************************************************************)
(* initializeFilesystemBudgetLedger, which refuses anything it finds, and  *)
(* where its process can die: with a key and an empty log, with part of    *)
(* the first event, without a head.                                        *)
(***************************************************************************)
NoStore ==
  [log |-> <<>>, torn |-> FALSE, head |-> NoHead, anchors |-> {},
   locked |-> FALSE]

Initialized == Event(<<"operator", "initialize">>, "initialized", NoReservation, 0)

NewStore ==
  [NoStore EXCEPT !.log = <<Initialized>>, !.head = <<Initialized>>]

Initializations ==
  LET partial == {[NoStore EXCEPT !.torn = TRUE],
                  [NoStore EXCEPT !.log = <<Initialized>>]}
  IN  {Outcome(NewStore, "ok", FALSE)}
      \cup {Outcome(s, "failed", TRUE) : s \in partial}
      \cup {Outcome([s EXCEPT !.locked = TRUE], "crashed", TRUE) : s \in partial}
=============================================================================
