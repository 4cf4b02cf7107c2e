------------------------- MODULE EventJournalProofs --------------------------
(***************************************************************************)
(* What EventJournal guarantees for every queue and batch limit, any number *)
(* of events, attempts and capability rotations.                            *)
(***************************************************************************)
EXTENDS EventJournal, TLAPS

(* The time the provers have for a step that names none itself. *)
USE SMTT(60), ZenonT(60)

(* How many events have been acknowledged and removed. *)
Sent == nextSequence - 1 - Len(events)

(* The queue is the appended events after the first Sent of them. *)
QueueInv == Sent >= 0 /\ \A i \in 1..Len(events) : events[i] = Sent + i

(* The batch b is the active one that belongs to this queue. *)
Heads(b) ==
    IF b.complete THEN b = CompleteBatch /\ events = <<>> /\ requested /\ ~acknowledged
    ELSE b.first = Sent + 1 /\ b.last >= b.first /\ b.last < nextSequence
ActiveInv == activeBatch # None => Heads(activeBatch)

DrainInv ==
    /\ drain.pc \in {"attempt", "sleeping"} => activeBatch # None
    /\ drain.pc # "attempt" => drain.reply = "none"
    /\ drain.reply \in {"ok", "replay"} => activeBatch \in batches

(* A copy that may arrive late is of the active batch or of a stored one. *)
LateInv == \A b \in late : b \in batches \/ b = activeBatch

(* A stored batch is the active one, or its events have left the queue. *)
BatchesInv ==
    \A b \in batches : b = activeBatch \/ IF b.complete THEN b = CompleteBatch /\ acknowledged
                                          ELSE 1 <= b.first /\ b.first <= b.last /\ b.last <= Sent

ActiveStored == activeBatch \in batches /\ ~activeBatch.complete
StoredInv == stored = 1..(IF ActiveStored THEN activeBatch.last ELSE Sent)

CompletionInv ==
    /\ acknowledged => events = <<>> /\ requested /\ CompleteBatch \in batches
    /\ stopped => CompleteBatch \in batches
    /\ session = "drained" => acknowledged

Inv ==
    /\ TypeOK /\ QueueInv /\ ActiveInv /\ DrainInv /\ LateInv
    /\ BatchesInv /\ StoredInv /\ EventsInOneBatch /\ CompletionInv

------------------------------------------------------------------------------
(* null is not a batch. *)
LEMMA NoneIsNoBatch == None \notin Batch
BY JournalAssumption DEF Batch

(* What a turn of #drain's loop leaves behind: the batch it had, the
   completion, or a batch cut from the head of the queue. *)
LoopResult(q, a, c, d) ==
    /\ drain' \in Drain /\ activeBatch' \in Batch \cup {None}
    /\ drain'.reply \in {"none", "sent"}
    /\ drain'.pc \in {"attempt", "ended"}
    /\ drain'.pc = "attempt" => activeBatch' # None
    /\ drain'.pc # "attempt" => drain'.reply = "none"
    /\ \/ activeBatch' = a
       \/ a = None /\ q = <<>> /\ activeBatch' = CompleteBatch /\ c /\ ~d
       \/ /\ a = None /\ q # <<>> /\ activeBatch' # None /\ ~activeBatch'.complete
          /\ \E n \in 1..Len(q) : activeBatch'.first = q[1] /\ activeBatch'.last = q[n]

(* A turn of the loop has that result. *)
LEMMA LoopStep ==
    ASSUME NEW q \in Seq(Nat), NEW a \in Batch \cup {None}, NEW c \in BOOLEAN, NEW d \in BOOLEAN,
           NEW u \in BOOLEAN, scope \in Nat, Loop(q, a, c, d, u)
    PROVE  LoopResult(q, a, c, d)
<1> USE DEF LoopResult
<1>1. CASE drain' = Ended /\ activeBatch' = a
    BY <1>1, Zenon DEF Ended, Idle, Drain, Replies
<1>2. CASE /\ ~(q = <<>> /\ ~(c /\ ~d))
           /\ drain' = Attempt(1, u)
           /\ activeBatch' \in IF a = None THEN NextBatches(q) ELSE {a}
    <2>1. /\ drain' \in Drain /\ drain'.reply = "sent" /\ drain'.pc = "attempt"
        BY <1>2 DEF Attempt, Drain, Replies
    <2>2. CASE a # None
        BY <1>2, <2>1, <2>2
    <2>3. CASE a = None /\ q = <<>>
        <3>1. activeBatch' = CompleteBatch
            BY <1>2, <2>3 DEF NextBatches
        <3>2. CompleteBatch \in Batch
            BY DEF CompleteBatch, Batch
        <3>3. CompleteBatch # None
            BY <3>2, NoneIsNoBatch
        <3> QED BY <1>2, <2>1, <2>3, <3>1, <3>2, <3>3
    <2>4. CASE a = None /\ q # <<>>
        <3>1. PICK n \in 1..Len(q) :
                  activeBatch' = [first |-> q[1], last |-> q[n], complete |-> FALSE]
            BY <1>2, <2>4 DEF NextBatches
        <3>2. q[1] \in Nat /\ q[n] \in Nat
            BY <2>4
        <3>3. activeBatch' \in Batch /\ activeBatch'.first = q[1] /\ activeBatch'.last = q[n]
            BY <3>1, <3>2 DEF Batch
        <3>4. ~activeBatch'.complete
            BY <3>1
        <3>5. activeBatch' # None
            BY <3>3, NoneIsNoBatch
        <3> QED BY <2>1, <2>4, <3>3, <3>4, <3>5
    <2> QED BY <2>2, <2>3, <2>4
<1> QED BY <1>1, <1>2 DEF Loop

------------------------------------------------------------------------------
Core == QueueInv /\ ActiveInv /\ DrainInv /\ LateInv
        /\ BatchesInv /\ StoredInv /\ EventsInOneBatch /\ CompletionInv

(* Steps of the drain or of the session that touch neither the queue nor the
   endpoint's tables. *)
LEMMA QuietStep ==
    ASSUME Inv, DrainInv',
           UNCHANGED <<events, nextSequence, activeBatch, requested, acknowledged>>,
           UNCHANGED <<stored, batches, stopped>>,
           late' \subseteq late \cup {activeBatch},
           session' = "drained" => acknowledged
    PROVE  Core'
<1>1. QueueInv' /\ ActiveInv'
    BY DEF Inv, QueueInv, ActiveInv, Heads, Sent
<1>2. LateInv'
    BY DEF Inv, LateInv
<1>3. BatchesInv' /\ StoredInv' /\ EventsInOneBatch'
    BY DEF Inv, BatchesInv, StoredInv, ActiveStored, EventsInOneBatch, Covered, Sent
<1>4. CompletionInv'
    BY DEF Inv, CompletionInv
<1> QED BY <1>1, <1>2, <1>3, <1>4 DEF Core

(* A batch newly cut from the queue is not one the endpoint has. *)
LEMMA CutIsNew ==
    ASSUME NEW b \in Batch, ~b.complete, NEW n \in Nat, b.first = n + 1, BatchesInv,
           b # activeBatch, Sent <= n, n \in Nat, Sent \in Int
    PROVE  b \notin batches
BY DEF BatchesInv, Batch

(* Steps that append an event, ask for completion or start a drain. *)
LEMMA StartStep ==
    ASSUME Inv, NEW c \in BOOLEAN, NEW u \in BOOLEAN,
           events' \in Seq(Nat), nextSequence' \in Nat, nextSequence' >= nextSequence,
           QueueInv', Sent' = Sent,
           requested' \in BOOLEAN, requested => requested', c => requested',
           events' = events \/ ~requested,
           UNCHANGED <<acknowledged, late, stored, batches, stopped>>,
           session' = "drained" => session = "drained",
           StartDrain(events', c, u)
    PROVE  Core' /\ drain' \in Drain /\ activeBatch' \in Batch \cup {None}
<1> USE DEF Inv
<1>t. /\ activeBatch \in Batch \cup {None} /\ acknowledged \in BOOLEAN /\ scope \in Nat
      /\ batches \subseteq Batch /\ late \subseteq Batch /\ events \in Seq(Nat)
      /\ nextSequence \in Nat /\ drain \in Drain
    BY DEF TypeOK
<1>s. Sent \in Nat
    BY <1>t DEF QueueInv, Sent
<1>1. CompletionInv'
    BY DEF CompletionInv
<1>2. activeBatch # None => Heads(activeBatch)' \/ activeBatch' # activeBatch
    <2>1. CASE activeBatch # None /\ activeBatch.complete /\ activeBatch' = activeBatch
        BY <2>1 DEF ActiveInv, Heads
    <2>2. CASE activeBatch # None /\ ~activeBatch.complete /\ activeBatch' = activeBatch
        <3>1. activeBatch \in Batch /\ Heads(activeBatch)
            BY <1>t, <2>2 DEF ActiveInv
        <3> QED BY <1>t, <2>2, <3>1 DEF Heads, Batch
    <2> QED BY <2>1, <2>2
<1>3. CASE activeBatch' = activeBatch
    <2>1. ActiveInv'
        BY <1>2, <1>3 DEF ActiveInv
    <2>2. LateInv' /\ BatchesInv' /\ StoredInv' /\ EventsInOneBatch'
        BY <1>3 DEF LateInv, BatchesInv, StoredInv, ActiveStored, EventsInOneBatch, Covered
    <2>3. DrainInv' /\ drain' \in Drain
        <3>1. CASE drain.pc = "idle"
            <4>1. Loop(events', activeBatch, c, acknowledged, u)
                BY <3>1 DEF StartDrain
            <4>2. LoopResult(events', activeBatch, c, acknowledged)
                BY <1>t, <4>1, LoopStep, Zenon
            <4> QED BY <4>2 DEF DrainInv, LoopResult
        <3>2. CASE drain.pc # "idle"
            BY <1>t, <1>3, <3>2 DEF StartDrain, DrainInv
        <3> QED BY <3>1, <3>2
    <2> QED BY <1>t, <1>1, <1>3, <2>1, <2>2, <2>3 DEF Core
<1>4. CASE activeBatch' # activeBatch
    <2>1. Loop(events', activeBatch, c, acknowledged, u)
        BY <1>4 DEF StartDrain
    <2>0. LoopResult(events', activeBatch, c, acknowledged)
        BY <1>t, <2>1, LoopStep, Zenon
    <2>2. /\ drain' \in Drain /\ activeBatch' \in Batch \cup {None}
          /\ drain'.reply \in {"none", "sent"}
          /\ drain'.pc \in {"attempt", "ended"}
          /\ drain'.pc = "attempt" => activeBatch' # None
          /\ drain'.pc # "attempt" => drain'.reply = "none"
          /\ \/ activeBatch' = activeBatch
             \/ activeBatch = None /\ events' = <<>> /\ activeBatch' = CompleteBatch /\ c /\ ~acknowledged
             \/ /\ activeBatch = None /\ events' # <<>> /\ activeBatch' # None /\ ~activeBatch'.complete
                /\ \E n \in 1..Len(events') :
                       activeBatch'.first = events'[1] /\ activeBatch'.last = events'[n]
        BY <2>0 DEF LoopResult
    <2>3. activeBatch = None /\ activeBatch' # None
        BY <1>4, <2>2, NoneIsNoBatch DEF CompleteBatch, Batch
    <2>4. None \notin batches /\ None \notin late
        BY <1>t, NoneIsNoBatch
    <2>5. /\ LateInv' /\ EventsInOneBatch' /\ DrainInv'
        BY <2>2, <2>3, <2>4 DEF LateInv, EventsInOneBatch, Covered, DrainInv
    <2>6. BatchesInv'
        BY <2>3, <2>4 DEF BatchesInv
    <2>7. stored = 1..Sent
        BY <2>3, <2>4 DEF StoredInv, ActiveStored
    <2>8. CASE activeBatch' = CompleteBatch /\ events' = <<>> /\ c /\ ~acknowledged
        <3>1. ActiveInv'
            BY <2>8 DEF ActiveInv, Heads, CompleteBatch
        <3>2. StoredInv'
            BY <2>7, <2>8 DEF StoredInv, ActiveStored, CompleteBatch
        <3> QED BY <1>1, <2>2, <2>5, <2>6, <3>1, <3>2 DEF Core
    <2>9. CASE /\ events' # <<>> /\ ~activeBatch'.complete
               /\ \E n \in 1..Len(events') :
                       activeBatch'.first = events'[1] /\ activeBatch'.last = events'[n]
        <3>1. PICK n \in 1..Len(events') :
                  activeBatch'.first = events'[1] /\ activeBatch'.last = events'[n]
            BY <2>9
        <3>2. activeBatch'.first = Sent' + 1 /\ activeBatch'.last = Sent' + n
            BY <2>9, <3>1 DEF QueueInv
        <3>3. Sent' + Len(events') = nextSequence' - 1
            BY DEF Sent
        <3>4. ActiveInv'
            BY <1>s, <2>9, <3>2, <3>3 DEF ActiveInv, Heads
        <3>5. activeBatch' \notin batches
            <4>1. BatchesInv
                BY DEF Inv, Core
            <4>2. activeBatch' \in Batch /\ ~activeBatch'.complete /\ activeBatch' # activeBatch
                BY <2>2, <2>3, <2>9, Zenon
            <4>3. activeBatch'.first = Sent + 1
                BY <3>2
            <4> QED BY <1>s, <4>1, <4>2, <4>3, CutIsNew
        <3>6. StoredInv'
            BY <2>7, <3>5 DEF StoredInv, ActiveStored
        <3> QED BY <1>1, <2>2, <2>5, <2>6, <3>4, <3>6 DEF Core
    <2> QED BY <1>4, <2>2, <2>8, <2>9
<1> QED BY <1>3, <1>4

(* append keeps the queue contiguous and within its limit. *)
LEMMA EnqueueStep ==
    ASSUME Inv, NEW t \in BOOLEAN, Enqueue(t)
    PROVE  /\ events' \in Seq(Nat) /\ Len(events') <= MaxQueuedEvents
           /\ nextSequence' \in Nat \ {0} /\ nextSequence' >= nextSequence
           /\ QueueInv' /\ Sent' = Sent /\ ~requested
<1>t. events \in Seq(Nat) /\ nextSequence \in Nat \ {0}
    BY DEF Inv, TypeOK
<1>1. /\ events' \in Seq(Nat) /\ Len(events') = Len(events) + 1
      /\ nextSequence' = nextSequence + 1 /\ ~requested
    BY <1>t DEF Enqueue
<1>2. Len(events') <= MaxQueuedEvents
    BY <1>t, <1>1, JournalAssumption DEF Enqueue, EventLimit
<1>3. Sent' = Sent
    BY <1>t, <1>1 DEF Sent
<1>4. QueueInv'
    <2>1. Sent' >= 0
        BY <1>3 DEF Inv, QueueInv
    <2>2. ASSUME NEW i \in 1..Len(events')
          PROVE  events'[i] = Sent' + i
        <3>1. CASE i \in 1..Len(events)
            BY <1>t, <1>3, <3>1 DEF Inv, QueueInv, Enqueue
        <3>2. CASE i = Len(events) + 1
            BY <1>t, <1>3, <3>2 DEF Enqueue, Sent
        <3> QED BY <1>t, <1>1, <3>1, <3>2
    <2> QED BY <2>1, <2>2 DEF QueueInv
<1> QED BY <1>t, <1>1, <1>2, <1>3, <1>4

(* What splice leaves of a queue. *)
Remains(q, s, k) ==
    /\ q \in Seq(Nat) /\ Len(q) = Len(s) - k
    /\ \A i \in 1..Len(q) : k + i \in 1..Len(s) /\ q[i] = s[k + i]
LEMMA SpliceRemains ==
    ASSUME NEW s \in Seq(Nat), NEW k \in 1..Len(s)
    PROVE  Remains(SubSeq(s, k + 1, Len(s)), s, k)
  BY DEF Remains

(* An acknowledged batch is the head of the queue and the endpoint has it. *)
LEMMA AcknowledgeStep ==
    ASSUME Inv, Acknowledge
    PROVE  /\ Core' /\ drain' \in Drain /\ activeBatch' \in Batch \cup {None}
           /\ events' \in Seq(Nat) /\ Len(events') <= Len(events)
           /\ acknowledged' \in BOOLEAN
<1> USE DEF Inv
<1>t. /\ activeBatch \in Batch \cup {None} /\ acknowledged \in BOOLEAN /\ requested \in BOOLEAN
      /\ scope \in Nat /\ batches \subseteq Batch /\ late \subseteq Batch /\ events \in Seq(Nat)
      /\ nextSequence \in Nat /\ drain \in Drain
    BY DEF TypeOK
<1>s. Sent \in Nat
    BY <1>t DEF QueueInv, Sent
<1>1. activeBatch \in Batch /\ activeBatch \in batches /\ Heads(activeBatch)
    BY <1>t DEF Acknowledge, DrainInv, ActiveInv
<1>2. /\ acknowledged' = (acknowledged \/ activeBatch.complete)
      /\ UNCHANGED <<nextSequence, requested, scope, session, late, stored, batches, stopped>>
    BY DEF Acknowledge, ingressVars
<1>3. acknowledged' \in BOOLEAN
    BY <1>2
<1>4. /\ events' \in Seq(Nat) /\ Len(events') <= Len(events)
      /\ QueueInv' /\ Sent' >= Sent
      /\ stored = 1..Sent'
      /\ activeBatch.complete => CompletionInv' /\ Sent' = Sent
      /\ ~activeBatch.complete => CompletionInv' /\ Sent' = activeBatch.last /\ ~acknowledged'
    <2>1. CASE activeBatch.complete
        <3>1. events' = events /\ activeBatch = CompleteBatch /\ events = <<>> /\ requested
            BY <1>1, <2>1 DEF Acknowledge, Heads
        <3>2. Sent' = Sent /\ QueueInv'
            BY <1>2, <3>1 DEF Sent, QueueInv
        <3>3. stored = 1..Sent'
            BY <2>1, <3>2 DEF StoredInv, ActiveStored
        <3>4. CompletionInv'
            BY <1>1, <1>2, <2>1, <3>1, Zenon DEF CompletionInv
        <3> QED BY <1>t, <1>s, <2>1, <3>1, <3>2, <3>3, <3>4
    <2>2. CASE ~activeBatch.complete
        <3> DEFINE k == activeBatch.last - activeBatch.first + 1
        <3>1. /\ activeBatch.first = Sent + 1 /\ activeBatch.last >= activeBatch.first
              /\ activeBatch.last < nextSequence
              /\ activeBatch.first \in Nat /\ activeBatch.last \in Nat
            BY <1>1, <2>2 DEF Heads, Batch
        <3>2. events' = SubSeq(events, k + 1, Len(events))
            <4>1. activeBatch.last - activeBatch.first + 2 = k + 1
                BY <3>1
            <4>2. events' = SubSeq(events, activeBatch.last - activeBatch.first + 2, Len(events))
                BY <2>2, Zenon DEF Acknowledge
            <4> QED BY <4>1, <4>2, Zenon
        <3>3. k \in 1..Len(events)
            BY <1>t, <1>s, <3>1 DEF Sent
        <3>a. Remains(events', events, k)
            <4> HIDE DEF k, Inv
            <4> QED BY <1>t, <3>2, <3>3, SpliceRemains, Zenon
        <3>4. events' \in Seq(Nat) /\ Len(events') = Len(events) - k
            <4> HIDE DEF k, Inv
            <4> QED BY <3>a, Zenon DEF Remains
        <3>5. Sent' = activeBatch.last
            <4>1. Sent' = nextSequence - 1 - (Len(events) - k)
                BY <1>2, <3>4 DEF Sent
            <4>2. Sent = nextSequence - 1 - Len(events)
                BY DEF Sent
            <4> HIDE DEF k
            <4>3. Sent' = Sent + k
                BY <1>t, <3>3, <4>1, <4>2
            <4> QED BY <1>s, <3>1, <4>3 DEF k
        <3>6. QueueInv'
            <4>1. ASSUME NEW i \in 1..Len(events')
                  PROVE  events'[i] = Sent' + i
                <5>1. k + i \in 1..Len(events) /\ events'[i] = events[k + i]
                    <6> HIDE DEF k, Inv
                    <6> QED BY <3>a, Zenon DEF Remains
                <5>2. events[k + i] = Sent + (k + i)
                    BY <5>1 DEF QueueInv
                <5>3. Sent + k = activeBatch.last
                    BY <1>s, <3>1
                <5> QED BY <1>s, <3>1, <3>3, <3>5, <5>1, <5>2, <5>3
            <4> QED BY <3>1, <3>5, <4>1 DEF QueueInv
        <3>7. stored = 1..Sent'
            BY <1>1, <2>2, <3>5 DEF StoredInv, ActiveStored
        <3>8. events # <<>>
            BY <1>t, <3>3
        <3>9. ~acknowledged /\ ~acknowledged'
            <4>1. ~acknowledged
                BY <3>8, Zenon DEF CompletionInv
            <4> QED BY <1>2, <2>2, <4>1, Zenon
        <3>10. CompletionInv'
            BY <1>2, <3>9 DEF CompletionInv
        <3>11. Len(events') <= Len(events)
            <4> HIDE DEF k, Inv
            <4> QED BY <1>t, <3>3, <3>4
        <3>12. Sent' >= Sent
            <4> HIDE DEF k, Inv
            <4> QED BY <1>s, <3>1, <3>5
        <3> QED BY <2>2, <3>4, <3>5, <3>6, <3>7, <3>9, <3>10, <3>11, <3>12, Zenon
    <2> QED BY <2>1, <2>2
<1>5. LoopResult(events', None, requested, acknowledged')
    <2>1. Loop(events', None, requested, acknowledged', drain.untilDeadline)
        BY DEF Acknowledge
    <2>2. drain.untilDeadline \in BOOLEAN
        BY <1>t DEF Drain
    <2> QED BY <1>t, <1>3, <1>4, <2>1, <2>2, LoopStep
<1>6. LateInv'
    BY <1>1, <1>2 DEF LateInv
<1>7. EventsInOneBatch'
    BY <1>2 DEF EventsInOneBatch, Covered
<1>8. DrainInv'
    BY <1>5 DEF DrainInv, LoopResult
<1>9. ASSUME NEW b \in batches
      PROVE  IF b.complete THEN b = CompleteBatch /\ acknowledged'
             ELSE 1 <= b.first /\ b.first <= b.last /\ b.last <= Sent'
    <2>0. b.first \in Nat /\ b.last \in Nat /\ Sent' \in Int
        BY <1>t, <1>2, <1>4 DEF Batch, Sent
    <2>1. CASE b # activeBatch
        <3>1. CASE b.complete
            BY <1>2, <2>1, <3>1, Zenon DEF BatchesInv
        <3>2. CASE ~b.complete
            <4>1. 1 <= b.first /\ b.first <= b.last /\ b.last <= Sent
                BY <2>1, <3>2 DEF BatchesInv
            <4> QED BY <1>4, <1>s, <2>0, <3>2, <4>1
        <3> QED BY <3>1, <3>2
    <2>2. CASE b = activeBatch /\ b.complete
        BY <1>1, <1>2, <2>2, Zenon DEF Heads
    <2>3. CASE b = activeBatch /\ ~b.complete
        BY <1>1, <1>4, <1>s, <2>0, <2>3 DEF Heads
    <2> QED BY <2>1, <2>2, <2>3
<1>10. BatchesInv'
    BY <1>2, <1>9 DEF BatchesInv
<1>11. ActiveInv' /\ StoredInv'
    <2>1. CASE activeBatch' = None
        BY <1>t, <1>2, <1>4, <2>1, NoneIsNoBatch DEF ActiveInv, StoredInv, ActiveStored
    <2>2. CASE events' = <<>> /\ activeBatch' = CompleteBatch /\ requested /\ ~acknowledged'
        BY <1>2, <1>4, <2>2 DEF ActiveInv, StoredInv, ActiveStored, Heads, CompleteBatch
    <2>3. CASE /\ events' # <<>> /\ activeBatch' # None /\ ~activeBatch'.complete
               /\ \E n \in 1..Len(events') :
                      activeBatch'.first = events'[1] /\ activeBatch'.last = events'[n]
        <3>1. PICK n \in 1..Len(events') :
                  activeBatch'.first = events'[1] /\ activeBatch'.last = events'[n]
            BY <2>3
        <3>2. activeBatch'.first = Sent' + 1 /\ activeBatch'.last = Sent' + n
            BY <1>4, <3>1 DEF QueueInv
        <3>3. Sent' \in Nat /\ Sent' + Len(events') = nextSequence' - 1
            BY <1>t, <1>2, <1>4, <1>s DEF Sent
        <3>4. ActiveInv'
            <4>1. /\ activeBatch'.last >= activeBatch'.first
                  /\ activeBatch'.last < nextSequence'
                <5>1. n \in Nat /\ n >= 1 /\ n <= Len(events') /\ Len(events') \in Nat
                    BY <1>4
                <5>2. nextSequence' \in Nat
                    BY <1>t, <1>2
                <5>3. Sent' + n >= Sent' + 1 /\ Sent' + n < nextSequence'
                    BY <5>1, <5>2 DEF Sent
                <5> QED BY <3>2, <5>3
            <4> QED BY <2>3, <3>2, <4>1 DEF ActiveInv, Heads
        <3>5. activeBatch' \notin batches
            BY <1>9, <2>3, <3>2, <3>3
        <3> QED BY <1>2, <1>4, <3>4, <3>5 DEF StoredInv, ActiveStored
    <2> QED BY <1>5, <2>1, <2>2, <2>3 DEF LoopResult
<1> QED BY <1>3, <1>4, <1>5, <1>6, <1>7, <1>8, <1>10, <1>11 DEF Core, LoopResult

(* The endpoint's statement, for the active batch or a late copy of one. *)
LEMMA StoreStep ==
    ASSUME Inv, NEW b \in Batch, b = activeBatch \/ b \in batches, Live, Store(b),
           UNCHANGED <<events, nextSequence, activeBatch, requested, acknowledged, late, session>>,
           drain'.pc = drain.pc, drain'.pc # "attempt" => drain'.reply = "none",
           drain'.reply \in {"ok", "replay"} => \/ drain.reply \in {"ok", "replay"}
                                                \/ b = activeBatch
    PROVE  Core'
<1> USE DEF Inv
<1>t. /\ activeBatch \in Batch \cup {None} /\ batches \subseteq Batch /\ stored \subseteq Nat
      /\ events \in Seq(Nat) /\ nextSequence \in Nat
    BY DEF TypeOK
<1>s. Sent \in Nat /\ Sent' = Sent
    BY <1>t DEF QueueInv, Sent
<1>1. /\ stored' = stored \cup Covered(b) /\ batches' = batches \cup {b}
      /\ stopped' = (stopped \/ b.complete)
    BY DEF Store
<1>2. QueueInv' /\ ActiveInv' /\ LateInv'
    BY <1>1, <1>s DEF QueueInv, ActiveInv, Heads, LateInv
<1>3. DrainInv'
    BY <1>1 DEF DrainInv
<1>4. BatchesInv'
    BY <1>1, <1>s DEF BatchesInv
<1>5. b.complete => b = CompleteBatch
    BY NoneIsNoBatch DEF ActiveInv, Heads, BatchesInv
<1>6. CompletionInv'
    BY <1>1, <1>5, Zenon DEF CompletionInv
<1>7. CASE b \in batches
    <2>1. batches' = batches
        BY <1>1, <1>7
    <2>2. Covered(b) \subseteq stored
        <3>1. CASE b.complete
            BY <3>1 DEF Covered
        <3>2. CASE ~b.complete /\ b = activeBatch
            <4>1. stored = 1..b.last /\ b.first = Sent + 1
                BY <1>7, <3>2, <1>t, NoneIsNoBatch DEF StoredInv, ActiveStored, ActiveInv, Heads
            <4> QED BY <1>s, <3>2, <4>1 DEF Covered, Batch
        <3>3. CASE ~b.complete /\ b # activeBatch
            <4>1. 1 <= b.first /\ b.last <= Sent
                BY <1>7, <3>3 DEF BatchesInv
            <4>2. \E m \in Nat : stored = 1..m /\ Sent <= m
                <5>1. CASE ActiveStored
                    <6>1. activeBatch \in Batch /\ activeBatch # None
                        BY <1>t, <5>1, NoneIsNoBatch DEF ActiveStored
                    <6>2. activeBatch.last >= activeBatch.first /\ activeBatch.first = Sent + 1
                        BY <5>1, <6>1 DEF ActiveStored, ActiveInv, Heads
                    <6> QED BY <1>s, <5>1, <6>1, <6>2 DEF StoredInv, Batch
                <5>2. CASE ~ActiveStored
                    BY <1>s, <5>2 DEF StoredInv
                <5> QED BY <5>1, <5>2
            <4> QED BY <1>s, <3>3, <4>1, <4>2 DEF Covered, Batch
        <3> QED BY <3>1, <3>2, <3>3
    <2>3. stored' = stored
        BY <1>1, <2>2
    <2>4. StoredInv' /\ EventsInOneBatch'
        BY <1>s, <2>1, <2>3 DEF StoredInv, ActiveStored, EventsInOneBatch, Covered
    <2> QED BY <1>2, <1>3, <1>4, <1>6, <2>4 DEF Core
<1>8. CASE b \notin batches
    <2>1. b = activeBatch /\ Heads(b) /\ ~ActiveStored
        BY <1>8, NoneIsNoBatch DEF ActiveInv, ActiveStored
    <2>2. stored = 1..Sent
        BY <2>1 DEF StoredInv
    <2>3. StoredInv'
        <3>1. CASE b.complete
            BY <1>1, <1>s, <2>1, <2>2, <3>1 DEF StoredInv, ActiveStored, Covered
        <3>2. CASE ~b.complete
            <4>1. b.first = Sent + 1 /\ b.last >= b.first /\ b.last \in Nat
                BY <2>1, <3>2 DEF Heads, Batch
            <4>2. (1..Sent) \cup (b.first..b.last) = 1..b.last
                BY <1>s, <4>1
            <4>3. stored' = 1..b.last
                BY <1>1, <2>2, <3>2, <4>2 DEF Covered
            <4> QED BY <1>1, <2>1, <3>2, <4>3 DEF StoredInv, ActiveStored
        <3> QED BY <3>1, <3>2
    <2>4. ASSUME NEW c \in batches
          PROVE  Covered(b) \cap Covered(c) = {}
        <3>1. CASE b.complete \/ c.complete
            BY <3>1 DEF Covered
        <3>2. CASE ~b.complete /\ ~c.complete
            <4>1. c.last <= Sent /\ c.last \in Nat /\ c.first \in Nat
                BY <1>8, <1>t, <2>1, <3>2 DEF BatchesInv, Batch
            <4>2. b.first = Sent + 1 /\ b.last \in Nat
                BY <2>1, <3>2 DEF Heads, Batch
            <4> QED BY <1>s, <3>2, <4>1, <4>2 DEF Covered
        <3> QED BY <3>1, <3>2
    <2>5. EventsInOneBatch'
        <3>1. ASSUME NEW c \in batches', NEW d \in batches', c # d
              PROVE  Covered(c) \cap Covered(d) = {}
            <4>1. CASE c \in batches /\ d \in batches
                BY <3>1, <4>1 DEF EventsInOneBatch
            <4>2. CASE c = b /\ d \in batches
                BY <2>4, <4>2
            <4>3. CASE d = b /\ c \in batches
                BY <2>4, <4>3
            <4> QED BY <1>1, <3>1, <4>1, <4>2, <4>3
        <3> QED BY <3>1 DEF EventsInOneBatch, Covered
    <2> QED BY <1>2, <1>3, <1>4, <1>6, <2>3, <2>5 DEF Core
<1> QED BY <1>7, <1>8

------------------------------------------------------------------------------
(* The strengthened invariant holds of a new journal. *)
LEMMA InvInit == Init => Inv
<1> SUFFICES ASSUME Init PROVE Inv
    OBVIOUS
<1>1. TypeOK
    <2>1. Idle \in Drain
        BY DEF Idle, Drain, Replies
    <2>2. events \in Seq(Nat) /\ Len(events) <= MaxQueuedEvents
        BY JournalAssumption DEF Init
    <2>3. scope \in 1..MaxScope /\ expired \in 0..scope /\ nextSequence \in Nat \ {0}
        BY JournalAssumption DEF Init
    <2> QED BY <2>1, <2>2, <2>3, Zenon DEF Init, TypeOK, Sessions
<1>2. QueueInv /\ StoredInv
    BY NoneIsNoBatch DEF Init, QueueInv, Sent, StoredInv, ActiveStored
<1>3. ActiveInv /\ DrainInv /\ LateInv /\ BatchesInv /\ EventsInOneBatch /\ CompletionInv
    BY DEF Init, ActiveInv, DrainInv, LateInv, BatchesInv, EventsInOneBatch, CompletionInv, Idle
<1> QED BY <1>1, <1>2, <1>3 DEF Inv

(* Every step of the drain preserves it. *)
LEMMA DrainSteps ==
    ASSUME Inv, Acknowledge \/ AttemptFails \/ Retry \/ DrainSettles
    PROVE  Inv'
<1>t. TypeOK
    BY DEF Inv
<1>1. CASE Acknowledge
    <2>1. /\ Core' /\ drain' \in Drain /\ activeBatch' \in Batch \cup {None}
          /\ events' \in Seq(Nat) /\ Len(events') <= Len(events) /\ acknowledged' \in BOOLEAN
        BY <1>1, AcknowledgeStep
    <2>2. UNCHANGED <<nextSequence, requested, scope, deadline, session, late, ingressVars, expired>>
        BY <1>1 DEF Acknowledge
    <2>3. Len(events') <= MaxQueuedEvents
        BY <1>t, <2>1, JournalAssumption DEF TypeOK
    <2>4. TypeOK'
        BY <1>t, <2>1, <2>2, <2>3 DEF TypeOK, ingressVars
    <2> QED BY <2>1, <2>4 DEF Core, Inv
<1>2. CASE AttemptFails
    <2>1. UNCHANGED <<journalVars, deadline, session, ingressVars, expired>>
        BY <1>2 DEF AttemptFails
    <2>2. activeBatch \in Batch
        BY <1>2, <1>t DEF AttemptFails, Inv, DrainInv, TypeOK
    <2>3. late' \subseteq late \cup {activeBatch}
        BY <1>2 DEF AttemptFails
    <2>4. /\ drain' \in Drain /\ drain'.pc # "attempt" /\ drain'.reply = "none"
        <3>1. CASE drain' = Ended
            BY <3>1, Zenon DEF Ended, Idle, Drain, Replies
        <3>2. CASE drain' = [drain EXCEPT !.pc = "sleeping", !.reply = "none"]
            BY <1>t, <3>2, ZenonT(40) DEF TypeOK, Drain, Replies
        <3> QED BY <1>2, <3>1, <3>2 DEF AttemptFails
    <2>5. DrainInv'
        BY <2>1, <2>2, <2>4, NoneIsNoBatch DEF DrainInv, journalVars
    <2>6. Core'
        BY <2>1, <2>3, <2>5, QuietStep DEF journalVars, ingressVars, Inv, CompletionInv
    <2>7. TypeOK'
        BY <1>t, <2>1, <2>2, <2>3, <2>4 DEF TypeOK, journalVars, ingressVars
    <2> QED BY <2>6, <2>7 DEF Core, Inv
<1>3. CASE Retry
    <2>1. UNCHANGED <<journalVars, deadline, session, late, ingressVars, expired>>
        BY <1>3 DEF Retry
    <2>2. activeBatch # None
        BY <1>3 DEF Retry, Inv, DrainInv
    <2>3. /\ drain' \in Drain /\ drain'.reply \in {"none", "sent"}
          /\ drain'.pc # "attempt" => drain'.reply = "none"
        <3>1. CASE drain' = Ended
            BY <3>1, Zenon DEF Ended, Idle, Drain, Replies
        <3>2. CASE \E n \in Nat : drain' = Attempt(n, drain.untilDeadline)
            BY <1>t, <3>2 DEF TypeOK, Attempt, Drain, Replies
        <3>3. (IF drain.attempts < MaxAttempts THEN drain.attempts + 1 ELSE MaxAttempts) \in Nat
            BY <1>t, JournalAssumption DEF TypeOK, Drain
        <3> QED BY <1>3, <3>1, <3>2, <3>3 DEF Retry
    <2>4. DrainInv'
        BY <2>1, <2>2, <2>3 DEF DrainInv, journalVars
    <2>5. Core'
        BY <2>1, <2>4, QuietStep DEF journalVars, ingressVars, Inv, CompletionInv
    <2>6. TypeOK'
        BY <1>t, <2>1, <2>3 DEF TypeOK, journalVars, ingressVars
    <2> QED BY <2>5, <2>6 DEF Core, Inv
<1>4. CASE DrainSettles
    <2>1. UNCHANGED <<journalVars, deadline, session, late, ingressVars, expired>> /\ drain' = Idle
        BY <1>4 DEF DrainSettles
    <2>2. drain' \in Drain /\ DrainInv'
        BY <2>1 DEF DrainInv, Idle, Drain, Replies
    <2>3. Core'
        BY <2>1, <2>2, QuietStep DEF journalVars, ingressVars, Inv, CompletionInv
    <2>4. TypeOK'
        BY <1>t, <2>1, <2>2 DEF TypeOK, journalVars, ingressVars
    <2> QED BY <2>3, <2>4 DEF Core, Inv
<1> QED BY <1>1, <1>2, <1>3, <1>4

(* A recorded event, and what the session does with it. *)
LEMMA RecordedStep ==
    ASSUME Inv, NEW t \in BOOLEAN, Recorded(t),
           requested' \in BOOLEAN, requested => requested', session' # "drained",
           UNCHANGED <<acknowledged, late, stored, batches, stopped>>
    PROVE  /\ Core' /\ drain' \in Drain /\ activeBatch' \in Batch \cup {None}
           /\ events' \in Seq(Nat) /\ Len(events') <= MaxQueuedEvents
           /\ nextSequence' \in Nat \ {0}
<1>1. /\ events' \in Seq(Nat) /\ Len(events') <= MaxQueuedEvents
      /\ nextSequence' \in Nat \ {0} /\ nextSequence' >= nextSequence
      /\ QueueInv' /\ Sent' = Sent /\ ~requested
    BY EnqueueStep DEF Recorded
<1>2. StartDrain(events', FALSE, FALSE)
    BY Zenon DEF Recorded
<1>3. Core' /\ drain' \in Drain /\ activeBatch' \in Batch \cup {None}
    BY <1>1, <1>2, StartStep, Zenon
<1> QED BY <1>1, <1>3

(* A drain started without a new event. *)
LEMMA StartedStep ==
    ASSUME Inv, NEW c \in BOOLEAN, StartDrain(events, c, TRUE),
           requested' \in BOOLEAN, requested => requested', c => requested',
           session' = "drained" => session = "drained",
           UNCHANGED <<events, nextSequence, acknowledged, late, stored, batches, stopped>>
    PROVE  Core' /\ drain' \in Drain /\ activeBatch' \in Batch \cup {None}
<1>1. QueueInv' /\ Sent' = Sent
    BY DEF Inv, QueueInv, Sent
<1>2. events' \in Seq(Nat) /\ nextSequence' \in Nat /\ nextSequence' >= nextSequence
    BY DEF Inv, TypeOK
<1>3. StartDrain(events', c, TRUE) /\ events' = events
    BY Zenon DEF StartDrain
<1> QED BY <1>1, <1>2, <1>3, StartStep, Zenon

(* Every step of the session preserves it. *)
LEMMA SessionSteps ==
    ASSUME Inv, \/ RotateScope \/ Record \/ RecordFails \/ BeginShutdown \/ Seal
                \/ ShutdownLoop \/ ShutdownGivesUp \/ DeadlinePasses
    PROVE  Inv'
<1>t. TypeOK
    BY DEF Inv
<1>d. DrainInv
    BY DEF Inv
<1>1. CASE RotateScope
    <2>1. /\ scope < MaxScope /\ scope' = scope + 1
          /\ UNCHANGED <<events, nextSequence, activeBatch, requested, acknowledged, drain, deadline,
                         session, late, ingressVars, expired>>
        BY <1>1 DEF RotateScope
    <2>2. DrainInv'
        BY <1>d, <2>1 DEF DrainInv, ingressVars
    <2>3. Core'
        BY <2>1, <2>2, QuietStep DEF ingressVars, Inv, CompletionInv
    <2>4. scope' \in 1..MaxScope /\ expired' \in 0..scope'
        BY <1>t, <2>1, JournalAssumption DEF TypeOK
    <2>5. TypeOK'
        BY <1>t, <2>1, <2>4 DEF TypeOK, ingressVars
    <2> QED BY <2>3, <2>5 DEF Core, Inv
<1>2. CASE Record
    <2>1. /\ session \in {"open", "failing", "closing"}
          /\ UNCHANGED <<requested, acknowledged, scope, deadline, session, late, ingressVars, expired>>
        BY <1>2 DEF Record
    <2>2. PICK t \in BOOLEAN : Recorded(t)
        BY <1>2 DEF Record
    <2>3. requested' \in BOOLEAN /\ (requested => requested') /\ session' # "drained"
        BY <1>t, <2>1 DEF TypeOK
    <2>4. /\ Core' /\ drain' \in Drain /\ activeBatch' \in Batch \cup {None}
          /\ events' \in Seq(Nat) /\ Len(events') <= MaxQueuedEvents /\ nextSequence' \in Nat \ {0}
        BY <2>1, <2>2, <2>3, RecordedStep DEF ingressVars
    <2>5. TypeOK'
        BY <1>t, <2>1, <2>4 DEF TypeOK, ingressVars
    <2> QED BY <2>4, <2>5 DEF Core, Inv
<1>3. CASE RecordFails
    <2>1. /\ session' = "failing"
          /\ UNCHANGED <<journalVars, drain, deadline, late, ingressVars, expired>>
        BY <1>3 DEF RecordFails
    <2>2. DrainInv'
        BY <1>d, <2>1 DEF DrainInv, journalVars, ingressVars
    <2>3. Core'
        BY <2>1, <2>2, QuietStep DEF journalVars, ingressVars
    <2>4. TypeOK'
        BY <1>t, <2>1 DEF TypeOK, journalVars, ingressVars, Sessions
    <2> QED BY <2>3, <2>4 DEF Core, Inv
<1>4. CASE BeginShutdown
    <2>1. /\ session' = "closing"
          /\ UNCHANGED <<requested, acknowledged, scope, deadline, late, ingressVars, expired>>
        BY <1>4 DEF BeginShutdown
    <2>2. CASE Recorded(TRUE)
        <3>1. requested' \in BOOLEAN /\ (requested => requested') /\ session' # "drained"
            BY <1>t, <2>1 DEF TypeOK
        <3>2. /\ Core' /\ drain' \in Drain /\ activeBatch' \in Batch \cup {None}
              /\ events' \in Seq(Nat) /\ Len(events') <= MaxQueuedEvents /\ nextSequence' \in Nat \ {0}
            BY <2>1, <2>2, <3>1, RecordedStep, Zenon DEF ingressVars
        <3>3. TypeOK'
            BY <1>t, <2>1, <3>2 DEF TypeOK, ingressVars, Sessions
        <3> QED BY <3>2, <3>3 DEF Core, Inv
    <2>3. CASE Refused /\ UNCHANGED <<drain, activeBatch>>
        <3>1. UNCHANGED <<events, nextSequence>>
            BY <2>3 DEF Refused
        <3>2. DrainInv'
            BY <1>d, <2>1, <2>3 DEF DrainInv, ingressVars
        <3>3. Core'
            BY <2>1, <2>3, <3>1, <3>2, QuietStep DEF ingressVars
        <3>4. TypeOK'
            BY <1>t, <2>1, <2>3, <3>1 DEF TypeOK, ingressVars, Sessions
        <3> QED BY <3>3, <3>4 DEF Core, Inv
    <2> QED BY <1>4, <2>2, <2>3, Zenon DEF BeginShutdown
<1>5. CASE Seal
    <2>1. /\ session' = "sealed" /\ requested' = TRUE /\ deadline' = "ahead"
          /\ UNCHANGED <<acknowledged, scope, late, ingressVars, expired>>
        BY <1>5 DEF Seal
    <2>2. CASE Recorded(TRUE)
        <3>2. /\ Core' /\ drain' \in Drain /\ activeBatch' \in Batch \cup {None}
              /\ events' \in Seq(Nat) /\ Len(events') <= MaxQueuedEvents /\ nextSequence' \in Nat \ {0}
            BY <2>1, <2>2, RecordedStep, Zenon DEF ingressVars
        <3>3. TypeOK'
            BY <1>t, <2>1, <3>2 DEF TypeOK, ingressVars, Sessions
        <3> QED BY <3>2, <3>3 DEF Core, Inv
    <2>3. CASE Refused /\ StartDrain(events, TRUE, TRUE)
        <3>1. UNCHANGED <<events, nextSequence>>
            BY <2>3 DEF Refused
        <3>2. Core' /\ drain' \in Drain /\ activeBatch' \in Batch \cup {None}
            BY <2>1, <2>3, <3>1, StartedStep, Zenon DEF ingressVars
        <3>3. TypeOK'
            BY <1>t, <2>1, <3>1, <3>2 DEF TypeOK, ingressVars, Sessions
        <3> QED BY <3>2, <3>3 DEF Core, Inv
    <2> QED BY <1>5, <2>2, <2>3, Zenon DEF Seal
<1>6. CASE ShutdownLoop
    <2>1. /\ session = "sealed"
          /\ UNCHANGED <<events, nextSequence, requested, acknowledged, scope, deadline, late,
                         ingressVars, expired>>
        BY <1>6 DEF ShutdownLoop
    <2>2. CASE /\ session' \in {"drained", "undrained"} /\ (session' = "drained" => acknowledged)
               /\ UNCHANGED <<drain, activeBatch>>
        <3>1. DrainInv'
            BY <1>d, <2>1, <2>2 DEF DrainInv, ingressVars
        <3>2. Core'
            BY <2>1, <2>2, <3>1, QuietStep DEF ingressVars
        <3>3. TypeOK'
            BY <1>t, <2>1, <2>2 DEF TypeOK, ingressVars, Sessions
        <3> QED BY <3>2, <3>3 DEF Core, Inv
    <2>3. CASE session' = session /\ StartDrain(events, requested, TRUE)
        <3>1. requested \in BOOLEAN /\ requested' \in BOOLEAN /\ (requested => requested')
            BY <1>t, <2>1 DEF TypeOK
        <3>2. Core' /\ drain' \in Drain /\ activeBatch' \in Batch \cup {None}
            BY <2>1, <2>3, <3>1, StartedStep, Zenon DEF ingressVars
        <3>3. TypeOK'
            BY <1>t, <2>1, <2>3, <3>2 DEF TypeOK, ingressVars
        <3> QED BY <3>2, <3>3 DEF Core, Inv
    <2> QED BY <1>6, <2>2, <2>3, Zenon DEF ShutdownLoop
<1>7. CASE ShutdownGivesUp
    <2>1. /\ session' = "undrained"
          /\ UNCHANGED <<journalVars, drain, deadline, late, ingressVars, expired>>
        BY <1>7 DEF ShutdownGivesUp
    <2>2. DrainInv'
        BY <1>d, <2>1 DEF DrainInv, journalVars, ingressVars
    <2>3. Core'
        BY <2>1, <2>2, QuietStep DEF journalVars, ingressVars
    <2>4. TypeOK'
        BY <1>t, <2>1 DEF TypeOK, journalVars, ingressVars, Sessions
    <2> QED BY <2>3, <2>4 DEF Core, Inv
<1>8. CASE DeadlinePasses
    <2>1. /\ deadline' = "passed"
          /\ UNCHANGED <<journalVars, drain, session, late, ingressVars, expired>>
        BY <1>8 DEF DeadlinePasses
    <2>2. DrainInv'
        BY <1>d, <2>1 DEF DrainInv, journalVars, ingressVars
    <2>3. Core'
        BY <2>1, <2>2, QuietStep DEF journalVars, ingressVars, Inv, CompletionInv
    <2>4. TypeOK'
        BY <1>t, <2>1 DEF TypeOK, journalVars, ingressVars
    <2> QED BY <2>3, <2>4 DEF Core, Inv
<1> QED BY <1>1, <1>2, <1>3, <1>4, <1>5, <1>6, <1>7, <1>8

(* The endpoint stores sequence numbers and batches. *)
LEMMA StoreTypes ==
    ASSUME TypeOK, NEW b \in Batch, Store(b)
    PROVE  stored' \subseteq Nat /\ batches' \subseteq Batch
<1>1. Covered(b) \subseteq Nat
    <2>1. b.first \in Nat /\ b.last \in Nat
        BY DEF Batch
    <2>2. b.first..b.last \subseteq Nat
        BY <2>1
    <2> QED BY <2>2 DEF Covered
<1>2. stored' = stored \cup Covered(b) /\ batches' = batches \cup {b}
    BY DEF Store
<1> QED BY <1>1, <1>2, Zenon DEF TypeOK

(* Every step of the endpoint and of the world around it preserves it. *)
LEMMA IngressSteps ==
    ASSUME Inv, IngestBegins \/ Ingest \/ IngestLate \/ CallStatusChanges \/ ScopeExpires
    PROVE  Inv'
<1>t. TypeOK
    BY DEF Inv
<1>d. DrainInv
    BY DEF Inv
<1>1. CASE IngestBegins
    <2>1. UNCHANGED <<journalVars, deadline, session, late, ingressVars, expired>>
        BY <1>1 DEF IngestBegins
    <2>2. /\ drain' \in Drain /\ drain'.pc = drain.pc /\ drain.pc = "attempt"
          /\ drain'.reply # "ok" /\ (drain'.reply = "replay" => activeBatch \in batches)
        BY <1>1, <1>t DEF IngestBegins, TypeOK, Drain, Replies
    <2>3. DrainInv'
        BY <1>d, <2>1, <2>2 DEF DrainInv, journalVars, ingressVars
    <2>4. Core'
        BY <2>1, <2>3, QuietStep DEF journalVars, ingressVars, Inv, CompletionInv
    <2>5. TypeOK'
        BY <1>t, <2>1, <2>2 DEF TypeOK, journalVars, ingressVars
    <2> QED BY <2>4, <2>5 DEF Core, Inv
<1>2. CASE Ingest
    <2>1. UNCHANGED <<journalVars, deadline, session, late, expired>>
        BY <1>2 DEF Ingest
    <2>2. /\ drain' \in Drain /\ drain'.pc = drain.pc /\ drain.pc = "attempt"
          /\ drain'.reply # "replay"
        BY <1>2, <1>t DEF Ingest, TypeOK, Drain, Replies
    <2>3. activeBatch \in Batch
        BY <1>t, <1>d, <2>2 DEF TypeOK, DrainInv
    <2>4. CASE Live
        <3>1. Store(activeBatch)
            BY <1>2, <2>4 DEF Ingest
        <3>2. Core'
            BY <2>1, <2>2, <2>3, <2>4, <3>1, StoreStep DEF journalVars
        <3>3. stored' \subseteq Nat /\ batches' \subseteq Batch
            BY <1>t, <2>3, <3>1, StoreTypes
        <3>4. stopped' \in BOOLEAN /\ callLive' \in BOOLEAN
            BY <3>1 DEF Store
        <3>5. TypeOK'
            BY <1>t, <2>1, <2>2, <3>3, <3>4 DEF TypeOK, journalVars
        <3> QED BY <3>2, <3>5 DEF Core, Inv
    <2>5. CASE ~Live
        <3>1. UNCHANGED ingressVars
            BY <1>2, <2>5 DEF Ingest
        <3>2. drain'.reply = "ok" => drain.reply = "replay"
            BY <1>2, <1>t, <2>5 DEF Ingest, TypeOK, Drain, Replies
        <3>3. DrainInv'
            BY <1>d, <2>1, <2>2, <3>1, <3>2 DEF DrainInv, journalVars, ingressVars
        <3>4. Core'
            BY <2>1, <3>1, <3>3, QuietStep DEF journalVars, ingressVars, Inv, CompletionInv
        <3>5. TypeOK'
            BY <1>t, <2>1, <2>2, <3>1 DEF TypeOK, journalVars, ingressVars
        <3> QED BY <3>4, <3>5 DEF Core, Inv
    <2> QED BY <2>4, <2>5
<1>3. CASE IngestLate
    <2>1. Live /\ UNCHANGED <<journalVars, drain, deadline, session, late, expired>>
        BY <1>3 DEF IngestLate
    <2>2. PICK b \in late : Store(b)
        BY <1>3 DEF IngestLate
    <2>3. b \in Batch /\ (b = activeBatch \/ b \in batches)
        BY <1>t DEF TypeOK, Inv, LateInv
    <2>4. Core'
        BY <1>d, <2>1, <2>2, <2>3, StoreStep DEF journalVars, DrainInv
    <2>5. stored' \subseteq Nat /\ batches' \subseteq Batch
        BY <1>t, <2>2, <2>3, StoreTypes
    <2>6. stopped' \in BOOLEAN /\ callLive' \in BOOLEAN
        BY <2>2 DEF Store
    <2>7. TypeOK'
        BY <1>t, <2>1, <2>5, <2>6 DEF TypeOK, journalVars
    <2> QED BY <2>4, <2>7 DEF Core, Inv
<1>4. CASE CallStatusChanges
    <2>1. /\ callLive' = ~callLive
          /\ UNCHANGED <<journalVars, drain, deadline, session, late, stored, batches, stopped, expired>>
        BY <1>4 DEF CallStatusChanges
    <2>2. DrainInv'
        BY <1>d, <2>1 DEF DrainInv, journalVars
    <2>3. Core'
        BY <2>1, <2>2, QuietStep DEF journalVars, Inv, CompletionInv
    <2>4. callLive' \in BOOLEAN
        BY <2>1
    <2>5. TypeOK'
        BY <1>t, <2>1, <2>4 DEF TypeOK, journalVars
    <2> QED BY <2>3, <2>5 DEF Core, Inv
<1>5. CASE ScopeExpires
    <2>1. /\ expired < scope /\ expired' = expired + 1
          /\ UNCHANGED <<journalVars, drain, deadline, session, late, ingressVars>>
        BY <1>5 DEF ScopeExpires
    <2>2. DrainInv'
        BY <1>d, <2>1 DEF DrainInv, journalVars, ingressVars
    <2>3. Core'
        BY <2>1, <2>2, QuietStep DEF journalVars, ingressVars, Inv, CompletionInv
    <2>4. expired' \in 0..scope'
        BY <1>t, <2>1 DEF TypeOK, journalVars
    <2>5. TypeOK'
        BY <1>t, <2>1, <2>4 DEF TypeOK, journalVars, ingressVars
    <2> QED BY <2>3, <2>5 DEF Core, Inv
<1> QED BY <1>1, <1>2, <1>3, <1>4, <1>5

(* The strengthened invariant is inductive. *)
LEMMA InvStep == Inv /\ [Next]_vars => Inv'
<1> SUFFICES ASSUME Inv, [Next]_vars PROVE Inv'
    OBVIOUS
<1>1. CASE Next
    BY <1>1, DrainSteps, SessionSteps, IngressSteps DEF Next
<1>2. CASE UNCHANGED vars
    <2>1. /\ UNCHANGED <<events, nextSequence, activeBatch, requested, acknowledged, scope>>
          /\ UNCHANGED <<drain, deadline, session, late, stored, batches, stopped, callLive, expired>>
        BY <1>2 DEF vars, journalVars, ingressVars
    <2>2. DrainInv'
        BY <2>1 DEF Inv, DrainInv
    <2>3. Core'
        BY <2>1, <2>2, QuietStep DEF Inv, CompletionInv
    <2>4. TypeOK'
        BY <2>1 DEF Inv, TypeOK
    <2> QED BY <2>3, <2>4 DEF Core, Inv
<1> QED BY <1>1, <1>2

(* Every reachable state of the journal and its endpoint satisfies it. *)
LEMMA Invariant == Spec => []Inv
BY InvInit, InvStep, PTL DEF Spec

------------------------------------------------------------------------------
(* The fields of the journal and the endpoint's tables are well typed, and the
   queue stays within maxQueuedEvents, for all limits. *)
THEOREM JournalTypeCorrect == Spec => []TypeOK
<1>1. Inv => TypeOK
    BY DEF Inv
<1> QED BY <1>1, Invariant, PTL

(* No accepted event is dropped before the endpoint has stored it, however
   many requests are lost, repeated or executed late. *)
THEOREM NoEventIsLost == Spec => []NothingLost
<1>1. Inv => NothingLost
    <2> SUFFICES ASSUME Inv, NEW n \in Appended
                 PROVE  n \in stored \/ \E i \in 1..Len(events) : events[i] = n
        BY DEF NothingLost
    <2>t. events \in Seq(Nat) /\ nextSequence \in Nat /\ activeBatch \in Batch \cup {None}
          /\ batches \subseteq Batch
        BY DEF Inv, TypeOK
    <2>s. Sent \in Nat /\ n \in 1..(nextSequence - 1)
        BY <2>t DEF Inv, QueueInv, Sent, Appended
    <2>1. CASE n <= Sent
        <3>1. CASE ActiveStored
            <4>1. activeBatch \in Batch /\ activeBatch # None
                BY <2>t, <3>1, NoneIsNoBatch DEF ActiveStored
            <4>2. activeBatch.last >= activeBatch.first /\ activeBatch.first = Sent + 1
                BY <3>1, <4>1 DEF Inv, ActiveStored, ActiveInv, Heads
            <4> QED BY <2>1, <2>s, <3>1, <4>1, <4>2 DEF Inv, StoredInv, Batch
        <3>2. CASE ~ActiveStored
            BY <2>1, <2>s, <3>2 DEF Inv, StoredInv
        <3> QED BY <3>1, <3>2
    <2>2. CASE n > Sent
        <3>1. n - Sent \in 1..Len(events)
            BY <2>2, <2>s, <2>t DEF Sent
        <3>2. events[n - Sent] = Sent + (n - Sent)
            BY <3>1 DEF Inv, QueueInv
        <3>3. Sent + (n - Sent) = n
            BY <2>s
        <3> QED BY <3>1, <3>2, <3>3
    <2> QED BY <2>s, <2>1, <2>2
<1> QED BY <1>1, Invariant, PTL

(* The endpoint's copy is at every moment a gap-free prefix of the journal. *)
THEOREM StoredPrefix == Spec => []StoredIsPrefix
<1>1. Inv => StoredIsPrefix
    <2> SUFFICES ASSUME Inv PROVE \E k \in 0..(nextSequence - 1) : stored = 1..k
        BY DEF StoredIsPrefix
    <2>t. /\ events \in Seq(Nat) /\ nextSequence \in Nat /\ activeBatch \in Batch \cup {None}
          /\ batches \subseteq Batch
        BY DEF Inv, TypeOK
    <2>s. Sent \in 0..(nextSequence - 1)
        BY <2>t DEF Inv, QueueInv, Sent
    <2>1. CASE ActiveStored
        <3>1. activeBatch \in Batch /\ activeBatch # None
            BY <2>t, <2>1, NoneIsNoBatch DEF ActiveStored
        <3>2. activeBatch.last < nextSequence
            BY <2>1, <3>1 DEF Inv, ActiveStored, ActiveInv, Heads
        <3>3. activeBatch.last \in 0..(nextSequence - 1)
            BY <2>t, <3>1, <3>2 DEF Batch
        <3> QED BY <2>1, <3>3 DEF Inv, StoredInv
    <2>2. CASE ~ActiveStored
        BY <2>2, <2>s DEF Inv, StoredInv
    <2> QED BY <2>1, <2>2
<1> QED BY <1>1, Invariant, PTL

(* The batches the endpoint has recorded never share an event. *)
THEOREM OneBatchPerEvent == Spec => []EventsInOneBatch
<1>1. Inv => EventsInOneBatch
    BY DEF Inv
<1> QED BY <1>1, Invariant, PTL

(* A stored completion comes after every event there will ever be. *)
LEMMA CompletionStored ==
    ASSUME Inv, CompleteBatch \in batches
    PROVE  stored = Appended
<1>t. nextSequence \in Nat /\ activeBatch \in Batch \cup {None}
    BY DEF Inv, TypeOK
<1>1. CompleteBatch \in Batch /\ CompleteBatch.complete
    BY DEF CompleteBatch, Batch
<1>2. events = <<>>
    <2>1. CASE CompleteBatch = activeBatch
        BY <1>1, <2>1, NoneIsNoBatch DEF Inv, ActiveInv, Heads
    <2>2. CASE CompleteBatch # activeBatch
        BY <1>1, <2>2 DEF Inv, BatchesInv, CompletionInv
    <2> QED BY <2>1, <2>2
<1>3. Sent = nextSequence - 1
    BY <1>t, <1>2 DEF Sent
<1>4. ~ActiveStored
    <2> SUFFICES ASSUME ActiveStored PROVE FALSE
        OBVIOUS
    <2>1. activeBatch \in Batch /\ activeBatch # None
        BY <1>t, NoneIsNoBatch DEF ActiveStored, Inv, TypeOK
    <2>2. /\ activeBatch.first = Sent + 1 /\ activeBatch.last >= activeBatch.first
          /\ activeBatch.last < nextSequence
        BY <2>1 DEF ActiveStored, Inv, ActiveInv, Heads
    <2> QED BY <1>t, <1>3, <2>1, <2>2 DEF Batch
<1> QED BY <1>3, <1>4 DEF Inv, StoredInv, Appended

(* The stream is stopped only when nothing of it is missing. *)
THEOREM StoppedIsComplete == Spec => []CompletionIsLast
<1>1. Inv => CompletionIsLast
    BY CompletionStored DEF Inv, CompletionInv, CompletionIsLast
<1> QED BY <1>1, Invariant, PTL

(* A shutdown that reports a drained journal tells the truth. *)
THEOREM DrainedIsTrue == Spec => []DrainedIsStored
<1>1. Inv => DrainedIsStored
    BY CompletionStored DEF Inv, CompletionInv, DrainedIsStored
<1> QED BY <1>1, Invariant, PTL

(* No acknowledgement ever meets a queue it does not match. *)
THEOREM AcknowledgementsAlwaysMatch == Spec => []AcknowledgementsMatch
<1>1. Inv => AcknowledgementsMatch
    <2> SUFFICES ASSUME Inv, drain.reply = "ok" PROVE Acknowledges(activeBatch)
        BY DEF AcknowledgementsMatch
    <2>t. /\ events \in Seq(Nat) /\ nextSequence \in Nat /\ activeBatch \in Batch
        BY NoneIsNoBatch DEF Inv, TypeOK, DrainInv
    <2>s. Sent \in Nat /\ Heads(activeBatch)
        BY <2>t, NoneIsNoBatch DEF Inv, QueueInv, Sent, ActiveInv
    <2>1. CASE activeBatch.complete
        BY <2>1, <2>s DEF Heads, Acknowledges
    <2>2. CASE ~activeBatch.complete
        <3> DEFINE k == activeBatch.last - activeBatch.first + 1
        <3>1. /\ activeBatch.first = Sent + 1 /\ activeBatch.last >= activeBatch.first
              /\ activeBatch.last < nextSequence
              /\ activeBatch.first \in Nat /\ activeBatch.last \in Nat
            BY <2>2, <2>s, <2>t DEF Heads, Batch
        <3>2. k \in 1..Len(events) /\ Sent + k = activeBatch.last
            <4>1. Sent + k = activeBatch.last
                BY <2>s, <3>1
            <4>2. k \in Nat /\ k >= 1
                BY <3>1
            <4>3. k <= Len(events)
                BY <2>t, <3>1, <4>1, <4>2 DEF Sent
            <4> QED BY <2>t, <4>1, <4>2, <4>3
        <3>3. 1 \in 1..Len(events)
            BY <2>t, <3>2
        <3>4. events[1] = Sent + 1 /\ events[k] = Sent + k
            BY <3>2, <3>3 DEF Inv, QueueInv
        <3>5. k <= Len(events) /\ events[1] = activeBatch.first /\ events[k] = activeBatch.last
            BY <2>t, <3>1, <3>2, <3>4
        <3> QED BY <2>2, <3>5 DEF Acknowledges
    <2> QED BY <2>1, <2>2
<1> QED BY <1>1, Invariant, PTL
==============================================================================
