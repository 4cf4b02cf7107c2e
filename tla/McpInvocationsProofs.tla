------------------------ MODULE McpInvocationsProofs -------------------------
(***************************************************************************)
(* Proofs about McpInvocations: for any number of invocations and of        *)
(* requests that repeat them, whatever the limits of the quota.             *)
(***************************************************************************)
EXTENDS McpInvocations, TLAPS

(* The time the provers have for a step that names none itself. *)
USE SMTT(60), ZenonT(60)

(* The executions that wait for a receipt of somebody else, and its owner. *)
Replaying == {"waiting", "recovering", "recovered", "reload", "quarantine", "reread"}
Owning == {"running"} \cup Settling
Definite == {"ok", "large", "error"}

(* What a receipt holds at each point of its life. *)
ReceiptSound(i) ==
    /\ receipts[i].status = "none" => receipts[i] = NoReceipt /\ effects[i] = 0
    /\ receipts[i].status = "executing" => receipts[i].result = None
    /\ receipts[i].status = "completed" => receipts[i].result \in Definite
    /\ receipts[i].status = "indeterminate" => receipts[i].result = "unknown"
    /\ receipts[i].status = "completed" /\ receipts[i].result # "error" => effects[i] > 0
    /\ effects[i] <= 1

(* An execution beyond its admission works for an invocation with a receipt of
   the same input; only the owner named by the receipt has yet to run it. *)
RequestSound(q) ==
    /\ request[q].pc \in Replaying \cup Owning =>
         /\ request[q].inv \in Invocations
         /\ Mine(q).status # "none"
         /\ Mine(q).input = request[q].input
    /\ request[q].pc \in Owning => Mine(q).owner = q
    /\ request[q].pc = "running" => effects[request[q].inv] = 0
    /\ request[q].pc = "recovered" => effects[request[q].inv] > 0
    /\ request[q].pc = "settling" =>
         /\ request[q].output \in Outputs
         /\ request[q].output # "error" => effects[request[q].inv] > 0
    /\ request[q].pc \in Settling \ {"settling"} => request[q].output = "unknown"
    /\ request[q].answer \in Definite =>
         /\ request[q].inv \in Invocations
         /\ Mine(q).status = "completed"
         /\ Mine(q).result = request[q].answer
         /\ Mine(q).input = request[q].input

Inv ==
    /\ TypeOK
    /\ \A i \in Invocations : ReceiptSound(i)
    /\ \A q \in Requests : RequestSound(q)

LEMMA InitInv == Init => Inv
BY InvocationAssumption
   DEF Init, Inv, TypeOK, NoReceipt, NoRequest, Receipt, Request, Quota, Pcs, Answers, Results,
       Outputs, ReceiptSound, RequestSound, Mine, Replaying, Owning, Settling, Definite

(* What no step undoes: a receipt keeps its owner and input, an outcome and an
   effect stay. *)
Grows(i) ==
    /\ receipts[i].status # "none" =>
         /\ receipts'[i].status # "none"
         /\ receipts'[i].owner = receipts[i].owner
         /\ receipts'[i].input = receipts[i].input
    /\ receipts[i].status = "completed" => receipts'[i] = receipts[i]
    /\ effects'[i] >= effects[i]

(* An execution that does not move keeps what it may rely on, if nobody runs
   its invocation. *)
LEMMA OthersKeep ==
    ASSUME Inv, NEW p \in Requests, request'[p] = request[p],
           \A i \in Invocations : Grows(i),
           request[p].pc = "running" => effects'[request[p].inv] = effects[request[p].inv],
           TypeOK'
    PROVE  RequestSound(p)'
<1>1. RequestSound(p) /\ TypeOK
  BY DEF Inv
<1>2. request[p].inv \in Invocations => Grows(request[p].inv)
  OBVIOUS
<1>3. CASE request[p].inv \in Invocations
  BY <1>1, <1>2, <1>3 DEF RequestSound, Mine, Grows, TypeOK, Replaying, Owning, Settling, Definite
<1>4. CASE request[p].inv \notin Invocations
  BY <1>1, <1>4 DEF RequestSound, Replaying, Owning, Settling, Definite
<1>. QED
  BY <1>3, <1>4

(* Request r has these fields. *)
IsRequest(r, pc, inv, input, output, answer) ==
    /\ r.pc = pc /\ r.inv = inv /\ r.input = input /\ r.output = output /\ r.answer = answer

LEMMA GotoUpdate ==
    ASSUME request \in [Requests -> Request], NEW q \in Requests, NEW pc \in Pcs, Goto(q, pc)
    PROVE  /\ request' \in [Requests -> Request]
           /\ \A p \in Requests \ {q} : request'[p] = request[p]
           /\ IsRequest(request'[q], pc, request[q].inv, request[q].input, request[q].output,
                        request[q].answer)
<1>. DEFINE x == request[q]
            y == [x EXCEPT !.pc = pc]
<1>1. y \in Request /\ IsRequest(y, pc, x.inv, x.input, x.output, x.answer)
  <2>1. x \in Request
    OBVIOUS
  <2>. HIDE DEF x
  <2>. QED
    BY <2>1, Zenon DEF Request, IsRequest
<1>2. request' = [request EXCEPT ![q] = y]
  BY Zenon DEF Goto
<1>. HIDE DEF y
<1>. QED
  BY <1>1, <1>2, Zenon

LEMMA AnswerUpdate ==
    ASSUME request \in [Requests -> Request], NEW q \in Requests, NEW a \in Answers \cup {None},
           Answer(q, a)
    PROVE  /\ request' \in [Requests -> Request]
           /\ \A p \in Requests \ {q} : request'[p] = request[p]
           /\ IsRequest(request'[q], "done", request[q].inv, request[q].input, request[q].output, a)
<1>. DEFINE x == request[q]
            y == [x EXCEPT !.pc = "done", !.answer = a]
<1>1. y \in Request /\ IsRequest(y, "done", x.inv, x.input, x.output, a)
  <2>1. x \in Request
    OBVIOUS
  <2>2. "done" \in Pcs
    BY DEF Pcs
  <2>. HIDE DEF x
  <2>. QED
    BY <2>1, <2>2, Zenon DEF Request, IsRequest
<1>2. request' = [request EXCEPT ![q] = y]
  BY Zenon DEF Answer
<1>. HIDE DEF y
<1>. QED
  BY <1>1, <1>2, Zenon

LEMMA OutputUpdate ==
    ASSUME request \in [Requests -> Request], NEW q \in Requests, NEW pc \in Pcs,
           NEW o \in Outputs \cup {"unknown"},
           request' = [request EXCEPT ![q].pc = pc, ![q].output = o]
    PROVE  /\ request' \in [Requests -> Request]
           /\ \A p \in Requests \ {q} : request'[p] = request[p]
           /\ IsRequest(request'[q], pc, request[q].inv, request[q].input, o, request[q].answer)
<1>. DEFINE x == request[q]
            y == [x EXCEPT !.pc = pc, !.output = o]
<1>1. y \in Request /\ IsRequest(y, pc, x.inv, x.input, o, x.answer)
  <2>1. x \in Request
    OBVIOUS
  <2>. HIDE DEF x
  <2>. QED
    BY <2>1, Zenon DEF Request, IsRequest
<1>2. request' = [request EXCEPT ![q] = y]
  BY Zenon
<1>. HIDE DEF y
<1>. QED
  BY <1>1, <1>2, Zenon

(* The receipt that a settlement or a lease leaves behind. *)
IsReceipt(r, status, owner, input, live, result) ==
    /\ r.status = status /\ r.owner = owner /\ r.input = input /\ r.live = live /\ r.result = result

LEMMA RecordUpdate ==
    ASSUME TypeOK, NEW i \in Invocations, NEW s \in {"completed", "indeterminate"}, NEW v \in Results,
           Fits(v), Record(i, s, v)
    PROVE  /\ receipts' \in [Invocations -> Receipt]
           /\ quota' \in Quota
           /\ \A j \in Invocations \ {i} : receipts'[j] = receipts[j]
           /\ IsReceipt(receipts'[i], s, receipts[i].owner, receipts[i].input, receipts[i].live, v)
<1>. DEFINE x == receipts[i]
            y == [x EXCEPT !.status = s, !.result = v]
<1>1. y \in Receipt /\ IsReceipt(y, s, x.owner, x.input, x.live, v)
  <2>1. x \in Receipt
    BY DEF TypeOK
  <2>. HIDE DEF x
  <2>. QED
    BY <2>1, Zenon DEF Receipt, IsReceipt
<1>2. receipts' = [receipts EXCEPT ![i] = y]
  BY Zenon DEF Record
<1>3. quota' \in Quota
  <2>1. quota.results + Size(v) - Reserve \in Nat
    BY InvocationAssumption DEF Fits, TypeOK, Quota, Size
  <2>. DEFINE n == quota.results + Size(v) - Reserve
  <2>2. quota' = [quota EXCEPT !.results = n]
    BY DEF Record
  <2>. HIDE DEF n
  <2>. QED
    BY <2>1, <2>2 DEF TypeOK, Quota, n
<1>. HIDE DEF y
<1>. QED
  BY <1>1, <1>2, <1>3, Zenon DEF TypeOK

------------------------------------------------------------------------------
(* The steps of the abstract promise, by what they do to receipts and effects. *)

(* The abstract state of every invocation but i stays. *)
OthersStay(i) ==
    \A j \in Invocations \ {i} :
        PhaseOf(j)' = PhaseOf(j) /\ OutcomeOf(j)' = OutcomeOf(j) /\ Acted(j)' = Acted(j)

LEMMA OnceStutters ==
    ASSUME \A j \in Invocations :
               receipts'[j].status = receipts[j].status /\ receipts'[j].result = receipts[j].result,
           UNCHANGED effects
    PROVE  OnceSteps
<1>1. \A j \in Invocations :
        PhaseOf(j)' = PhaseOf(j) /\ OutcomeOf(j)' = OutcomeOf(j) /\ Acted(j)' = Acted(j)
  BY DEF PhaseOf, OutcomeOf, Acted, Terminal
<1>. QED
  BY <1>1, Zenon DEF OnceSteps, Once!onceVars

LEMMA OnceAdmits ==
    ASSUME NEW i \in Invocations, receipts[i].status = "none", receipts'[i].status = "executing",
           \A j \in Invocations \ {i} : receipts'[j] = receipts[j],
           UNCHANGED effects
    PROVE  OnceSteps
<1>1. OthersStay(i)
  BY DEF OthersStay, PhaseOf, OutcomeOf, Acted, Terminal
<1>2. /\ PhaseOf(i) = "new" /\ PhaseOf(i)' = "admitted"
      /\ OutcomeOf(i)' = OutcomeOf(i) /\ Acted(i)' = Acted(i)
  BY DEF PhaseOf, OutcomeOf, Acted, Terminal
<1>3. Once!Admit(i)
  BY <1>1, <1>2, Zenon DEF OthersStay, Once!Admit
<1>. QED
  BY <1>3, Zenon DEF OnceSteps, Once!OnceNext

LEMMA OnceActs ==
    ASSUME NEW i \in Invocations, receipts[i].status # "none",
           receipts[i].status = "executing" \/ receipts[i].result \notin {"ok", "large"},
           effects \in [Invocations -> Nat], effects[i] = 0,
           effects' = [effects EXCEPT ![i] = 1], UNCHANGED receipts
    PROVE  OnceSteps
<1>1. OthersStay(i)
  BY DEF OthersStay, PhaseOf, OutcomeOf, Acted, Terminal
<1>2. /\ PhaseOf(i) # "new" /\ PhaseOf(i)' = PhaseOf(i)
      /\ OutcomeOf(i) \in {"open", "unknown"} /\ OutcomeOf(i)' = OutcomeOf(i)
  BY DEF PhaseOf, OutcomeOf, Terminal
<1>3. Acted(i) = FALSE /\ Acted(i)' = TRUE
  BY DEF Acted
<1>4. Once!Act(i)
  BY <1>1, <1>2, <1>3, Zenon DEF OthersStay, Once!Act
<1>. QED
  BY <1>4, Zenon DEF OnceSteps, Once!OnceNext

LEMMA OnceDecides ==
    ASSUME NEW i \in Invocations, receipts[i].status = "executing",
           receipts'[i].status \in {"completed", "indeterminate"},
           receipts'[i].result \in {"ok", "large"} => effects[i] > 0,
           \A j \in Invocations \ {i} : receipts'[j] = receipts[j],
           UNCHANGED effects
    PROVE  OnceSteps
<1>1. OthersStay(i)
  BY DEF OthersStay, PhaseOf, OutcomeOf, Acted, Terminal
<1>2. PICK o \in {"unknown", "applied"} :
        /\ PhaseOf(i) = "admitted" /\ PhaseOf(i)' = "recorded"
        /\ OutcomeOf(i)' = o
        /\ o = "applied" => Acted(i)
        /\ Acted(i)' = Acted(i)
  BY DEF PhaseOf, OutcomeOf, Acted, Terminal
<1>3. o \in {"unknown", "applied", "absent"} /\ o # "absent"
  BY <1>2
<1>4. Once!Decide(i, o)
  BY <1>1, <1>2, <1>3, Zenon DEF OthersStay, Once!Decide
<1>. QED
  BY <1>3, <1>4, Zenon DEF OnceSteps, Once!OnceNext

(* What a step promises besides the invariant. *)
Promise == KeepsTerminal /\ OnceSteps

(* A step of one execution: what is left to show is about the receipts and
   about the execution itself. *)
LEMMA StepKeeps ==
    ASSUME Inv, TypeOK', NEW q \in Requests,
           \A p \in Requests \ {q} : request'[p] = request[p],
           \A i \in Invocations : Grows(i) /\ ReceiptSound(i)',
           \A p \in Requests \ {q} :
               request[p].pc = "running" => effects'[request[p].inv] = effects[request[p].inv],
           RequestSound(q)'
    PROVE  Inv'
<1>1. \A p \in Requests \ {q} : RequestSound(p)'
  BY OthersKeep
<1>. QED
  BY <1>1 DEF Inv

LEMMA OnlyRequest ==
    ASSUME Inv, UNCHANGED <<receipts, quota, effects>>, NEW q \in Requests,
           request' \in [Requests -> Request],
           \A p \in Requests \ {q} : request'[p] = request[p],
           RequestSound(q)'
    PROVE  Inv' /\ Promise
<1>1. TypeOK'
  BY DEF Inv, TypeOK
<1>2. \A i \in Invocations : Grows(i) /\ ReceiptSound(i)'
  BY DEF Inv, TypeOK, Grows, ReceiptSound
<1>3. Promise
  BY OnceStutters DEF Promise, KeepsTerminal
<1>. QED
  BY <1>1, <1>2, <1>3, StepKeeps

(* An execution that leaves with a recorded result of its input, or with none. *)
LEMMA AnswerKeeps ==
    ASSUME Inv, UNCHANGED <<receipts, quota, effects>>, NEW q \in Requests,
           NEW a \in Answers \cup {None}, Answer(q, a),
           a \in Definite =>
               /\ request[q].inv \in Invocations
               /\ Mine(q).status = "completed"
               /\ Mine(q).result = a
               /\ Mine(q).input = request[q].input
    PROVE  Inv' /\ Promise
<1>1. /\ request' \in [Requests -> Request]
      /\ \A p \in Requests \ {q} : request'[p] = request[p]
      /\ IsRequest(request'[q], "done", request[q].inv, request[q].input, request[q].output, a)
  BY AnswerUpdate DEF Inv, TypeOK
<1>2. RequestSound(q)'
  BY <1>1 DEF RequestSound, IsRequest, Mine, Replaying, Owning, Settling
<1>. QED
  BY <1>1, <1>2, OnlyRequest

(* An execution of a replay that goes on. *)
LEMMA GotoKeeps ==
    ASSUME Inv, UNCHANGED <<receipts, quota, effects>>, NEW q \in Requests,
           request[q].pc \in Replaying,
           NEW pc \in Replaying, Goto(q, pc), pc = "recovered" => effects[request[q].inv] > 0
    PROVE  Inv' /\ Promise
<1>1. /\ request' \in [Requests -> Request]
      /\ \A p \in Requests \ {q} : request'[p] = request[p]
      /\ IsRequest(request'[q], pc, request[q].inv, request[q].input, request[q].output, request[q].answer)
  BY GotoUpdate DEF Inv, TypeOK, Replaying, Pcs
<1>2. RequestSound(q)'
  BY <1>1 DEF Inv, RequestSound, IsRequest, Mine, Replaying, Owning, Settling
<1>. QED
  BY <1>1, <1>2, OnlyRequest

(* A receipt that executes is settled: with nothing definite, or with a result
   of the tool that is told to whoever settled it. *)
LEMMA RecordKeeps ==
    ASSUME Inv, UNCHANGED effects, NEW q \in Requests, request[q].inv \in Invocations,
           Mine(q).status = "executing", Mine(q).input = request[q].input,
           NEW s \in {"completed", "indeterminate"}, NEW v \in Results,
           Fits(v), Record(request[q].inv, s, v),
           s = "completed" => v \in Definite,
           s = "indeterminate" => v = "unknown",
           v \in {"ok", "large"} => effects[request[q].inv] > 0,
           request' \in [Requests -> Request],
           \A p \in Requests \ {q} : request'[p] = request[p],
           RequestSound(q)'
    PROVE  Inv' /\ Promise
<1>. DEFINE i == request[q].inv
<1>1. /\ receipts' \in [Invocations -> Receipt]
      /\ quota' \in Quota
      /\ \A j \in Invocations \ {i} : receipts'[j] = receipts[j]
      /\ IsReceipt(receipts'[i], s, receipts[i].owner, receipts[i].input, receipts[i].live, v)
  BY RecordUpdate DEF Inv
<1>2. TypeOK'
  BY <1>1 DEF Inv, TypeOK
<1>3. \A j \in Invocations : Grows(j)
  BY <1>1 DEF Inv, TypeOK, Grows, IsReceipt, Mine
<1>4. \A j \in Invocations : ReceiptSound(j)'
  BY <1>1 DEF Inv, TypeOK, ReceiptSound, IsReceipt, Mine, Definite
<1>5. KeepsTerminal
  BY <1>1 DEF KeepsTerminal, Terminal, Mine
<1>6. OnceSteps
  BY <1>1, OnceDecides DEF IsReceipt, Mine
<1>. QED
  BY <1>2, <1>3, <1>4, <1>5, <1>6, StepKeeps DEF Promise

------------------------------------------------------------------------------
(* One lemma per group of actions. *)

LEMMA InsertKeeps ==
    ASSUME Inv, NEW q \in Requests, NEW i \in Invocations, NEW input \in Inputs, Insert(q, i, input),
           request' \in [Requests -> Request],
           \A p \in Requests \ {q} : request'[p] = request[p],
           RequestSound(q)'
    PROVE  Inv' /\ Promise
<1>1. /\ receipts' \in [Invocations -> Receipt]
      /\ \A j \in Invocations \ {i} : receipts'[j] = receipts[j]
      /\ IsReceipt(receipts'[i], "executing", q, input, TRUE, None)
  BY DEF Insert, Inv, TypeOK, Receipt, IsReceipt
<1>2. quota' \in Quota
  <2>1. Window \in Nat
    BY DEF Window, Inv, TypeOK, Quota
  <2>. QED
    BY <2>1, InvocationAssumption DEF Insert, Inv, TypeOK, Quota
<1>3. TypeOK'
  BY <1>1, <1>2 DEF Inv, TypeOK, Insert
<1>4. \A j \in Invocations : Grows(j)
  BY <1>1 DEF Inv, TypeOK, Grows, Insert, Fresh
<1>5. \A j \in Invocations : ReceiptSound(j)'
  BY <1>1 DEF Inv, TypeOK, Insert, Fresh, ReceiptSound, IsReceipt
<1>6. KeepsTerminal
  BY <1>1 DEF KeepsTerminal, Terminal, Insert, Fresh
<1>7. OnceSteps
  BY <1>1, OnceAdmits DEF IsReceipt, Insert, Fresh
<1>. QED
  BY <1>3, <1>4, <1>5, <1>6, <1>7, StepKeeps DEF Insert, Promise

(* An execution begins at this point of the protocol. *)
LEMMA StartUpdate ==
    ASSUME request \in [Requests -> Request], NEW q \in Requests, NEW i \in Invocations,
           NEW input \in Inputs, NEW pc \in Pcs, NEW a \in Answers \cup {None},
           request' = [request EXCEPT ![q] = [Started(i, input) EXCEPT !.pc = pc, !.answer = a]]
    PROVE  /\ request' \in [Requests -> Request]
           /\ \A p \in Requests \ {q} : request'[p] = request[p]
           /\ IsRequest(request'[q], pc, i, input, None, a)
<1>. DEFINE y == [Started(i, input) EXCEPT !.pc = pc, !.answer = a]
<1>1. y \in Request /\ IsRequest(y, pc, i, input, None, a)
  BY Zenon DEF Started, NoRequest, Request, IsRequest
<1>2. request' = [request EXCEPT ![q] = y]
  OBVIOUS
<1>. HIDE DEF y
<1>. QED
  BY <1>1, <1>2, Zenon

(* An execution that begins without an answer. *)
LEMMA StartNoAnswer ==
    ASSUME request \in [Requests -> Request], NEW q \in Requests, NEW i \in Invocations,
           NEW input \in Inputs, NEW pc \in Pcs,
           request' = [request EXCEPT ![q] = [Started(i, input) EXCEPT !.pc = pc]]
    PROVE  /\ request' \in [Requests -> Request]
           /\ \A p \in Requests \ {q} : request'[p] = request[p]
           /\ IsRequest(request'[q], pc, i, input, None, None)
<1>. DEFINE y == [Started(i, input) EXCEPT !.pc = pc]
<1>1. y \in Request /\ IsRequest(y, pc, i, input, None, None)
  BY Zenon DEF Started, NoRequest, Request, IsRequest
<1>2. request' = [request EXCEPT ![q] = y]
  OBVIOUS
<1>. HIDE DEF y
<1>. QED
  BY <1>1, <1>2, Zenon

LEMMA AdmissionKeeps ==
    ASSUME Inv, NEW q \in Requests, AdmissionStep(q)
    PROVE  Inv' /\ Promise
<1>. PICK i \in Invocations, input \in Inputs :
        \/ Admit(q, i, input) \/ AdmitLost(q, i, input)
        \/ AdmitRejected(q, i, input) \/ AdmitReplay(q, i, input)
  BY Zenon DEF AdmissionStep
<1>. request \in [Requests -> Request]
  BY DEF Inv, TypeOK
<1>1. CASE Admit(q, i, input)
  <2>1. request' = [request EXCEPT ![q] = [Started(i, input) EXCEPT !.pc = "running"]]
    BY <1>1 DEF Admit
  <2>2. /\ request' \in [Requests -> Request]
        /\ \A p \in Requests \ {q} : request'[p] = request[p]
        /\ IsRequest(request'[q], "running", i, input, None, None)
    BY <2>1, StartNoAnswer, Zenon DEF Pcs
  <2>3. RequestSound(q)'
    BY <1>1, <2>2, InvocationAssumption
       DEF Admit, Insert, Fresh, Inv, TypeOK, ReceiptSound, RequestSound, IsRequest, Mine, Replaying,
           Settling, Definite, Answers, Results
  <2>. QED
    BY <1>1, <2>2, <2>3, InsertKeeps DEF Admit
<1>2. CASE AdmitLost(q, i, input)
  <2>1. request' = [request EXCEPT ![q] = [Started(i, input) EXCEPT !.pc = "done", !.answer = "failed"]]
    BY <1>2 DEF AdmitLost
  <2>2. /\ request' \in [Requests -> Request]
        /\ \A p \in Requests \ {q} : request'[p] = request[p]
        /\ IsRequest(request'[q], "done", i, input, None, "failed")
    BY <2>1, StartUpdate, Zenon DEF Pcs, Answers
  <2>3. RequestSound(q)'
    BY <2>2 DEF RequestSound, IsRequest, Replaying, Owning, Settling, Definite
  <2>. QED
    BY <1>2, <2>2, <2>3, InsertKeeps DEF AdmitLost
<1>3. CASE AdmitRejected(q, i, input)
  <2>1. request' = [request EXCEPT ![q] = [Started(i, input) EXCEPT !.pc = "done", !.answer = "rejected"]]
    BY <1>3 DEF AdmitRejected
  <2>2. /\ request' \in [Requests -> Request]
        /\ \A p \in Requests \ {q} : request'[p] = request[p]
        /\ IsRequest(request'[q], "done", i, input, None, "rejected")
    BY <2>1, StartUpdate, Zenon DEF Pcs, Answers
  <2>3. RequestSound(q)'
    BY <2>2 DEF RequestSound, IsRequest, Replaying, Owning, Settling, Definite
  <2>. QED
    BY <1>3, <2>2, <2>3, OnlyRequest DEF AdmitRejected
<1>4. CASE AdmitReplay(q, i, input)
  <2>1. CASE Replay(i, input) = None
    <3>1. request' = [request EXCEPT ![q] = [Started(i, input) EXCEPT !.pc = "waiting"]]
      BY <1>4, <2>1 DEF AdmitReplay
    <3>2. /\ request' \in [Requests -> Request]
          /\ \A p \in Requests \ {q} : request'[p] = request[p]
          /\ IsRequest(request'[q], "waiting", i, input, None, None)
      BY <3>1, StartNoAnswer, Zenon DEF Pcs
    <3>3. receipts[i].input = input
      BY <2>1, InvocationAssumption DEF Replay, Answers
    <3>4. RequestSound(q)'
      BY <1>4, <3>2, <3>3, InvocationAssumption
         DEF AdmitReplay, Fresh, RequestSound, IsRequest, Mine, Replaying, Owning, Settling, Definite, Answers, Results
    <3>. QED
      BY <1>4, <3>2, <3>4, OnlyRequest DEF AdmitReplay
  <2>2. CASE Replay(i, input) # None
    <3>1. request' = [request EXCEPT ![q] = [Started(i, input) EXCEPT !.pc = "done", !.answer = Replay(i, input)]]
      BY <1>4, <2>2 DEF AdmitReplay
    <3>2. Replay(i, input) \in Answers
      BY <2>2 DEF Replay, Answers, Inv, TypeOK, Receipt
    <3>3. /\ request' \in [Requests -> Request]
          /\ \A p \in Requests \ {q} : request'[p] = request[p]
          /\ IsRequest(request'[q], "done", i, input, None, Replay(i, input))
      BY <3>1, <3>2, StartUpdate, Zenon DEF Pcs
    <3>4. ReceiptSound(i) /\ UNCHANGED receipts
      BY <1>4 DEF Inv, AdmitReplay
    <3>5. RequestSound(q)'
      BY <2>2, <3>3, <3>4
         DEF Replay, Terminal, ReceiptSound, RequestSound, IsRequest, Mine, Replaying, Owning, Settling, Definite
    <3>. QED
      BY <1>4, <3>3, <3>5, OnlyRequest DEF AdmitReplay
  <2>. QED
    BY <2>1, <2>2
<1>. QED
  BY <1>1, <1>2, <1>3, <1>4

(* The result of a receipt that an execution finds settled may be told. *)
LEMMA RecordedMayBeTold ==
    ASSUME Inv, NEW q \in Requests, request[q].pc \in Replaying \cup Owning, Terminal(request[q].inv)
    PROVE  /\ Mine(q).result \in Results
           /\ Mine(q).result \in Definite =>
                /\ request[q].inv \in Invocations
                /\ Mine(q).status = "completed"
                /\ Mine(q).input = request[q].input
<1>1. request[q].inv \in Invocations /\ Mine(q).input = request[q].input
  BY DEF Inv, RequestSound
<1>2. ReceiptSound(request[q].inv)
  BY <1>1 DEF Inv
<1>. QED
  BY <1>1, <1>2 DEF ReceiptSound, Terminal, Mine, Definite, Results

LEMMA ReplayKeeps ==
    ASSUME Inv, NEW q \in Requests, ReplayStep(q)
    PROVE  Inv' /\ Promise
<1>. USE DEF Replaying
<1>1. CASE Poll(q)
  <2>1. UNCHANGED <<receipts, quota, effects>> /\ request[q].pc \in Replaying
    BY <1>1 DEF Poll
  <2>2. CASE Answer(q, "failed")
    BY <2>1, <2>2, AnswerKeeps DEF Answers, Definite
  <2>3. CASE Replay(request[q].inv, request[q].input) # None
               /\ Answer(q, Replay(request[q].inv, request[q].input))
    <3>1. Mine(q).input = request[q].input
      BY <2>1 DEF Inv, RequestSound
    <3>2. Terminal(request[q].inv) /\ Replay(request[q].inv, request[q].input) = Mine(q).result
      BY <2>3, <3>1 DEF Replay, Mine
    <3>3. Mine(q).result \in Answers
      BY <2>1, <3>2, RecordedMayBeTold DEF Answers
    <3>. QED
      BY <2>1, <2>3, <3>2, <3>3, RecordedMayBeTold, AnswerKeeps
  <2>. QED
    BY <1>1, <2>2, <2>3 DEF Poll
<1>2. CASE WaitEnds(q)
  BY <1>2, GotoKeeps DEF WaitEnds
<1>3. CASE Recover(q)
  <2>1. CASE Answer(q, "pending")
    BY <1>3, <2>1, AnswerKeeps DEF Recover, Answers, Definite
  <2>. QED
    BY <1>3, <2>1, GotoKeeps DEF Recover, Proven
<1>4. CASE SettleRecovered(q)
  <2>1. request[q].pc \in Replaying /\ UNCHANGED effects
    BY <1>4 DEF SettleRecovered
  <2>2. CASE ~Expired(q) /\ Goto(q, "reload") /\ UNCHANGED <<receipts, quota>>
    BY <2>1, <2>2, GotoKeeps
  <2>3. CASE Answer(q, "pending") /\ UNCHANGED <<receipts, quota>>
    BY <2>1, <2>3, AnswerKeeps DEF Answers, Definite
  <2>4. CASE /\ Expired(q) /\ Fits("ok")
             /\ Record(request[q].inv, "completed", "ok")
             /\ \E a \in {"ok", "pending"} : Answer(q, a)
    <3>1. PICK a \in {"ok", "pending"} : Answer(q, a)
      BY <2>4
    <3>2. /\ request' \in [Requests -> Request]
          /\ \A p \in Requests \ {q} : request'[p] = request[p]
          /\ IsRequest(request'[q], "done", request[q].inv, request[q].input, request[q].output, a)
      BY <3>1, AnswerUpdate DEF Inv, TypeOK, Answers, Results
    <3>3. /\ request[q].inv \in Invocations
          /\ Mine(q).status = "executing"
          /\ Mine(q).input = request[q].input
          /\ effects[request[q].inv] > 0
      BY <1>4, <2>4 DEF Inv, RequestSound, Expired, SettleRecovered
    <3>4. IsReceipt(receipts'[request[q].inv], "completed", Mine(q).owner, Mine(q).input, Mine(q).live, "ok")
      BY <2>4, <3>3, RecordUpdate DEF Inv, Results, Mine
    <3>5. RequestSound(q)'
      BY <3>2, <3>3, <3>4 DEF RequestSound, IsRequest, IsReceipt, Mine, Owning, Settling, Definite
    <3>. QED
      BY <2>1, <2>4, <3>2, <3>3, <3>5, RecordKeeps DEF Results, Definite
  <2>. QED
    BY <1>4, <2>2, <2>3, <2>4 DEF SettleRecovered
<1>5. CASE Reload(q)
  <2>1. UNCHANGED <<receipts, quota, effects>> /\ request[q].pc \in Replaying
    BY <1>5 DEF Reload
  <2>2. CASE Terminal(request[q].inv) /\ Answer(q, Mine(q).result)
    <3>1. Mine(q).result \in Answers
      BY <2>1, <2>2, RecordedMayBeTold DEF Answers
    <3>. QED
      BY <2>1, <2>2, <3>1, RecordedMayBeTold, AnswerKeeps
  <2>3. CASE Goto(q, "quarantine")
    BY <2>1, <2>3, GotoKeeps
  <2>4. CASE Answer(q, "pending")
    BY <2>1, <2>4, AnswerKeeps DEF Answers, Definite
  <2>. QED
    BY <1>5, <2>2, <2>3, <2>4 DEF Reload
<1>6. CASE Quarantine(q)
  <2>1. request[q].pc \in Replaying /\ UNCHANGED effects
    BY <1>6 DEF Quarantine
  <2>2. CASE ~Expired(q) /\ Goto(q, "reread") /\ UNCHANGED <<receipts, quota>>
    BY <2>1, <2>2, GotoKeeps
  <2>3. CASE /\ Expired(q) /\ Fits("unknown")
             /\ Record(request[q].inv, "indeterminate", "unknown")
             /\ \E a \in {"unknown", "failed"} : Answer(q, a)
    <3>1. PICK a \in {"unknown", "failed"} : Answer(q, a)
      BY <2>3
    <3>2. /\ request' \in [Requests -> Request]
          /\ \A p \in Requests \ {q} : request'[p] = request[p]
          /\ IsRequest(request'[q], "done", request[q].inv, request[q].input, request[q].output, a)
      BY <3>1, AnswerUpdate DEF Inv, TypeOK, Answers, Results
    <3>3. /\ request[q].inv \in Invocations
          /\ Mine(q).status = "executing"
          /\ Mine(q).input = request[q].input
      BY <2>1, <2>3 DEF Inv, RequestSound, Expired
    <3>4. RequestSound(q)'
      BY <3>2 DEF RequestSound, IsRequest, Owning, Settling, Definite
    <3>. QED
      BY <2>1, <2>3, <3>2, <3>3, <3>4, RecordKeeps DEF Results, Definite
  <2>. QED
    BY <1>6, <2>2, <2>3 DEF Quarantine
<1>7. CASE QuarantineFails(q)
  BY <1>7, AnswerKeeps DEF QuarantineFails, Answers, Definite
<1>. QED
  BY <1>1, <1>2, <1>3, <1>4, <1>5, <1>6, <1>7 DEF ReplayStep

(* What an owner settles with: a definite result only while it settles first. *)
LEMMA WireSound ==
    ASSUME Inv, NEW q \in Requests, request[q].pc \in Settling
    PROVE  /\ Wire(request[q].output) \in Results
           /\ StatusOf(q) \in {"completed", "indeterminate"}
           /\ StatusOf(q) = "completed" => Wire(request[q].output) \in Definite
           /\ StatusOf(q) = "indeterminate" => Wire(request[q].output) = "unknown"
           /\ Wire(request[q].output) \in {"ok", "large"} => effects[request[q].inv] > 0
           /\ request[q].inv \in Invocations
           /\ Mine(q).input = request[q].input
           /\ Mine(q).status # "none"
<1>1. RequestSound(q)
  BY DEF Inv
<1>. QED
  BY <1>1 DEF RequestSound, Wire, StatusOf, Settling, Owning, Definite, Results, Outputs

(* Two executions that are about to run the tool have different invocations. *)
LEMMA OneRunner ==
    ASSUME Inv, NEW q \in Requests, request[q].pc = "running"
    PROVE  /\ request[q].inv \in Invocations
           /\ effects[request[q].inv] = 0
           /\ Mine(q).status # "none"
           /\ \A p \in Requests \ {q} : request[p].pc = "running" => request[p].inv # request[q].inv
<1>1. \A p \in Requests : RequestSound(p)
  BY DEF Inv
<1>. QED
  BY <1>1 DEF RequestSound, Mine, Owning, Settling

LEMMA RunKeeps ==
    ASSUME Inv, NEW q \in Requests, Run(q)
    PROVE  Inv' /\ Promise
<1>. DEFINE i == request[q].inv
<1>. USE DEF Owning
<1>1. request[q].pc = "running" /\ UNCHANGED <<receipts, quota>>
  BY DEF Run
<1>2. PICK v \in Outputs :
        /\ request' = [request EXCEPT ![q].pc = "settling", ![q].output = v]
        /\ \/ UNCHANGED effects /\ v = "error"
           \/ effects' = [effects EXCEPT ![i] = @ + 1]
  BY DEF Run, Outputs
<1>3. /\ request' \in [Requests -> Request]
      /\ \A p \in Requests \ {q} : request'[p] = request[p]
      /\ IsRequest(request'[q], "settling", i, request[q].input, v, request[q].answer)
  BY <1>2, OutputUpdate, Zenon DEF Inv, TypeOK, Pcs
<1>4. /\ i \in Invocations
      /\ effects[i] = 0
      /\ Mine(q).status # "none"
      /\ \A p \in Requests \ {q} : request[p].pc = "running" => request[p].inv # i
  BY <1>1, OneRunner
<1>5. /\ effects \in [Invocations -> Nat]
      /\ effects' \in [Invocations -> Nat]
      /\ \A j \in Invocations \ {i} : effects'[j] = effects[j]
      /\ effects'[i] \in {0, 1}
      /\ v # "error" => effects'[i] = 1
  BY <1>2, <1>4 DEF Inv, TypeOK
<1>. HIDE DEF i
<1>6. TypeOK'
  BY <1>1, <1>3, <1>5 DEF Inv, TypeOK
<1>7. \A j \in Invocations : Grows(j)
  BY <1>1, <1>4, <1>5 DEF Grows
<1>8. \A j \in Invocations : ReceiptSound(j)'
  BY <1>1, <1>4, <1>5 DEF Inv, ReceiptSound, Mine, i
<1>9. RequestSound(q)'
  BY <1>1, <1>3, <1>4, <1>5
     DEF Inv, RequestSound, IsRequest, Mine, Replaying, Settling, Definite, Outputs, i
<1>10. \A p \in Requests \ {q} :
          request[p].pc = "running" => effects'[request[p].inv] = effects[request[p].inv]
  BY <1>4, <1>5 DEF Inv, RequestSound
<1>11. OnceSteps
  <2>1. ReceiptSound(i)
    BY <1>4 DEF Inv
  <2>2. receipts[i].status = "executing" \/ receipts[i].result \notin {"ok", "large"}
    BY <1>4, <2>1 DEF ReceiptSound, Mine, i, Definite, Inv, TypeOK, Receipt
  <2>3. CASE UNCHANGED effects
    BY <1>1, <2>3, OnceStutters
  <2>4. CASE effects' = [effects EXCEPT ![i] = 1]
    BY <1>1, <1>4, <1>5, <2>2, <2>4, OnceActs, Zenon DEF Mine, i
  <2>. QED
    BY <1>2, <1>4, <2>3, <2>4 DEF i
<1>12. KeepsTerminal
  BY <1>1 DEF KeepsTerminal
<1>. QED
  BY <1>3, <1>6, <1>7, <1>8, <1>9, <1>10, <1>11, <1>12, StepKeeps DEF Promise

(* The pc after a settlement that did not fit. *)
NextPc(pc) == CASE pc = "settling" -> "fallback" [] pc = "fallback" -> "resettling"
                [] pc = "resettling" -> "refallback" [] OTHER -> "done"

(* A settling owner that tries once more as indeterminate. *)
LEMMA AgainUpdate ==
    ASSUME Inv, NEW q \in Requests, request[q].pc \in Settling,
           NEW pc \in (Settling \ {"settling"}) \cup {"done"},
           request' = [request EXCEPT ![q].pc = pc, ![q].output = "unknown"],
           Grows(request[q].inv)
    PROVE  /\ request' \in [Requests -> Request]
           /\ \A p \in Requests \ {q} : request'[p] = request[p]
           /\ RequestSound(q)'
<1>1. /\ request' \in [Requests -> Request]
      /\ \A p \in Requests \ {q} : request'[p] = request[p]
      /\ IsRequest(request'[q], pc, request[q].inv, request[q].input, "unknown", request[q].answer)
  <2>1. pc \in Pcs
    BY DEF Settling, Pcs
  <2>2. request \in [Requests -> Request]
    BY DEF Inv, TypeOK
  <2>. QED
    BY <2>1, <2>2, OutputUpdate, Zenon
<1>2. RequestSound(q)
  BY DEF Inv
<1>3. RequestSound(q)'
  BY <1>1, <1>2 DEF RequestSound, IsRequest, Grows, Mine, Replaying, Owning, Settling, Definite
<1>. QED
  BY <1>1, <1>3

LEMMA SettleKeeps ==
    ASSUME Inv, NEW q \in Requests, Settle(q)
    PROVE  Inv' /\ Promise
<1>. DEFINE v == Wire(request[q].output)
<1>1. request[q].pc \in Settling /\ UNCHANGED effects
  BY DEF Settle
<1>2. /\ v \in Results
      /\ StatusOf(q) \in {"completed", "indeterminate"}
      /\ StatusOf(q) = "completed" => v \in Definite
      /\ StatusOf(q) = "indeterminate" => v = "unknown"
      /\ v \in {"ok", "large"} => effects[request[q].inv] > 0
      /\ request[q].inv \in Invocations
      /\ Mine(q).input = request[q].input
      /\ Mine(q).status # "none"
  BY <1>1, WireSound
<1>3. CASE Owns(q) /\ Fits(v) /\ Record(request[q].inv, StatusOf(q), v) /\ Answer(q, v)
  <2>1. /\ request' \in [Requests -> Request]
        /\ \A p \in Requests \ {q} : request'[p] = request[p]
        /\ IsRequest(request'[q], "done", request[q].inv, request[q].input, request[q].output, v)
    BY <1>2, <1>3, AnswerUpdate DEF Inv, TypeOK, Answers
  <2>2. IsReceipt(receipts'[request[q].inv], StatusOf(q), Mine(q).owner, Mine(q).input, Mine(q).live, v)
    BY <1>2, <1>3, RecordUpdate DEF Inv, Mine
  <2>. HIDE DEF v
  <2>3. RequestSound(q)'
    BY <1>2, <2>1, <2>2
       DEF RequestSound, IsRequest, IsReceipt, Mine, Replaying, Owning, Settling, Definite
  <2>. QED
    BY <1>1, <1>2, <1>3, <2>1, <2>3, RecordKeeps DEF Owns
<1>4. CASE /\ Owns(q) /\ ~Fits(v)
           /\ request' = [request EXCEPT ![q].output = "unknown", ![q].pc = NextPc(@)]
           /\ UNCHANGED <<receipts, quota>>
  <2>. DEFINE pc == NextPc(request[q].pc)
  <2>1. pc \in (Settling \ {"settling"}) \cup {"done"}
    BY <1>1 DEF NextPc, Settling
  <2>2. request' = [request EXCEPT ![q].pc = pc, ![q].output = "unknown"]
    BY <1>4, Zenon DEF Inv, TypeOK, Request
  <2>. HIDE DEF pc
  <2>3. Grows(request[q].inv)
    <3>1. effects'[request[q].inv] >= effects[request[q].inv]
      BY <1>1, <1>2 DEF Inv, TypeOK
    <3>. QED
      BY <1>4, <3>1, Zenon DEF Grows
  <2>. QED
    BY <1>1, <1>4, <2>1, <2>2, <2>3, AgainUpdate, OnlyRequest, Zenon
<1>5. CASE ~Owns(q) /\ Answer(q, Told(q)) /\ UNCHANGED <<receipts, quota>>
  <2>1. Mine(q).owner = q
    BY <1>1 DEF Inv, RequestSound, Owning
  <2>2. Terminal(request[q].inv)
    BY <1>2, <1>5, <2>1 DEF Owns, Terminal, Mine, Inv, TypeOK, Receipt
  <2>3. Told(q) = Mine(q).result /\ Mine(q).result \in Answers
    BY <1>1, <2>2, RecordedMayBeTold DEF Told, Answers, Owning
  <2>. QED
    BY <1>1, <1>5, <2>2, <2>3, RecordedMayBeTold, AnswerKeeps DEF Owning
<1>. QED
  BY <1>3, <1>4, <1>5 DEF Settle, NextPc

LEMMA SettleFailsKeeps ==
    ASSUME Inv, NEW q \in Requests, SettleFails(q)
    PROVE  Inv' /\ Promise
<1>. DEFINE v == Wire(request[q].output)
            i == request[q].inv
<1>1. request[q].pc \in Settling /\ UNCHANGED effects
  BY DEF SettleFails
<1>2. /\ v \in Results
      /\ StatusOf(q) \in {"completed", "indeterminate"}
      /\ StatusOf(q) = "completed" => v \in Definite
      /\ StatusOf(q) = "indeterminate" => v = "unknown"
      /\ v \in {"ok", "large"} => effects[i] > 0
      /\ i \in Invocations
      /\ Mine(q).input = request[q].input
      /\ Mine(q).status # "none"
  BY <1>1, WireSound
<1>3. Owns(q) /\ Fits(v) /\ Record(i, StatusOf(q), v) =>
        IsReceipt(receipts'[i], StatusOf(q), Mine(q).owner, Mine(q).input, Mine(q).live, v)
  BY <1>2, RecordUpdate DEF Inv, Mine
<1>. HIDE DEF v
<1>4. \/ UNCHANGED <<receipts, quota>>
      \/ Owns(q) /\ Fits(v) /\ Record(i, StatusOf(q), v)
  BY DEF SettleFails, v
<1>5. Grows(i)
  BY <1>1, <1>2, <1>3, <1>4 DEF Grows, IsReceipt, Owns, Mine, Inv, TypeOK
<1>6. /\ request' \in [Requests -> Request]
      /\ \A p \in Requests \ {q} : request'[p] = request[p]
      /\ RequestSound(q)'
  <2>1. CASE request[q].pc \in {"settling", "fallback"}
    BY <1>1, <1>5, <2>1, AgainUpdate DEF SettleFails, Settling
  <2>2. CASE request[q].pc \notin {"settling", "fallback"}
    <3>1. /\ request' \in [Requests -> Request]
          /\ \A p \in Requests \ {q} : request'[p] = request[p]
          /\ IsRequest(request'[q], "done", request[q].inv, request[q].input, request[q].output, "unknown")
      BY <2>2, AnswerUpdate DEF SettleFails, Inv, TypeOK, Answers, Results
    <3>2. RequestSound(q)'
      BY <3>1 DEF RequestSound, IsRequest, Replaying, Owning, Settling, Definite
    <3>. QED
      BY <3>1, <3>2
  <2>. QED
    BY <2>1, <2>2
<1>7. CASE UNCHANGED <<receipts, quota>>
  BY <1>1, <1>6, <1>7, OnlyRequest
<1>8. CASE Owns(q) /\ Fits(v) /\ Record(i, StatusOf(q), v)
  BY <1>1, <1>2, <1>6, <1>8, RecordKeeps DEF Owns
<1>. QED
  BY <1>4, <1>7, <1>8

LEMMA ClockKeeps ==
    ASSUME Inv, (\E i \in Invocations : LeaseExpires(i)) \/ MinutePasses
    PROVE  Inv' /\ Promise
<1>. DEFINE Ticked ==
        /\ UNCHANGED <<request, effects>>
        /\ quota' \in Quota
        /\ receipts' \in [Invocations -> Receipt]
        /\ \A j \in Invocations :
             IsReceipt(receipts'[j], receipts[j].status, receipts[j].owner, receipts[j].input,
                       receipts'[j].live, receipts[j].result)
        /\ \A j \in Invocations : receipts[j].status # "executing" => receipts'[j] = receipts[j]
<1>1. Ticked
  <2>1. CASE MinutePasses
    BY <2>1, Zenon DEF MinutePasses, IsReceipt, Inv, TypeOK, Quota
  <2>2. ASSUME NEW i \in Invocations, LeaseExpires(i)
        PROVE  Ticked
    <3>. DEFINE x == receipts[i]
                y == [x EXCEPT !.live = FALSE]
    <3>1. y \in Receipt /\ IsReceipt(y, x.status, x.owner, x.input, y.live, x.result)
      <4>1. x \in Receipt
        BY DEF Inv, TypeOK
      <4>. HIDE DEF x
      <4>. QED
        BY <4>1, Zenon DEF Receipt, IsReceipt
    <3>2. receipts' = [receipts EXCEPT ![i] = y]
      BY <2>2, Zenon DEF LeaseExpires
    <3>. HIDE DEF y
    <3>. QED
      BY <2>2, <3>1, <3>2, Zenon DEF LeaseExpires, IsReceipt, Inv, TypeOK
  <2>. QED
    BY <2>1, <2>2
<1>2. TypeOK'
  BY <1>1 DEF Inv, TypeOK
<1>3. \A j \in Invocations : Grows(j) /\ ReceiptSound(j)'
  BY <1>1 DEF Inv, TypeOK, Grows, ReceiptSound, IsReceipt
<1>4. \A p \in Requests : RequestSound(p)'
  BY <1>1, <1>2, <1>3, OthersKeep
<1>5. KeepsTerminal
  BY <1>1 DEF KeepsTerminal, Terminal
<1>6. OnceSteps
  BY <1>1, OnceStutters DEF IsReceipt
<1>. QED
  BY <1>2, <1>3, <1>4, <1>5, <1>6 DEF Inv, Promise

LEMMA NextInv == Inv /\ [Next]_vars => Inv' /\ Promise
<1>. SUFFICES ASSUME Inv, [Next]_vars PROVE Inv' /\ Promise
  OBVIOUS
<1>1. CASE UNCHANGED vars
  <2>1. Inv'
    BY <1>1 DEF vars, Inv, TypeOK, ReceiptSound, RequestSound, Mine
  <2>. QED
    BY <1>1, <2>1, OnceStutters DEF vars, Promise, KeepsTerminal
<1>2. ASSUME NEW q \in Requests, AdmissionStep(q) \/ ReplayStep(q) \/ OwnerStep(q)
      PROVE  Inv' /\ Promise
  BY <1>2, AdmissionKeeps, ReplayKeeps, RunKeeps, SettleKeeps, SettleFailsKeeps DEF OwnerStep
<1>. QED
  BY <1>1, <1>2, ClockKeeps DEF Next

(* The protocol of callActiveCapability keeps its inductive invariant. *)
THEOREM InvocationsInvariant == Spec => []Inv
BY InitInv, NextInv, PTL DEF Spec

(* However many copies of a tool call the provider sends, and however its
   executions and take-overs interleave, the tool takes effect at most once. *)
THEOREM EffectOnce == Spec => []AtMostOneEffect
<1>1. Inv => AtMostOneEffect
  BY DEF Inv, ReceiptSound, AtMostOneEffect
<1>. QED
  BY <1>1, InvocationsInvariant, PTL

(* Whatever definite result a request is told is the recorded one, of its own input. *)
THEOREM ToldOnlyRecorded == Spec => []ToldIsRecorded
<1>1. Inv => ToldIsRecorded
  BY DEF Inv, RequestSound, Mine, Definite, ToldIsRecorded
<1>. QED
  BY <1>1, InvocationsInvariant, PTL

(* A recorded success, also one that a take-over recorded, took effect. *)
THEOREM SuccessOnlyReal == Spec => []SuccessIsReal
<1>1. Inv => SuccessIsReal
  BY InvocationAssumption DEF Inv, TypeOK, Receipt, ReceiptSound, NoReceipt, SuccessIsReal, Answers, Results
<1>. QED
  BY <1>1, InvocationsInvariant, PTL
(* A recorded outcome is never changed, neither by a late owner nor by a
   request that took the receipt over (the lifecycle trigger of migration 022). *)
THEOREM OutcomesAreFinal == Spec => TerminalIsFinal
<1>1. Inv /\ [Next]_vars => [KeepsTerminal]_vars
  BY NextInv DEF Promise
<1>. QED
  BY <1>1, InvocationsInvariant, PTL DEF Spec, TerminalIsFinal

(* Receipts, leases and take-overs implement the abstract promise: admitted
   before it acts, acting once, a true outcome recorded once. *)
THEOREM InvocationsImplementAtMostOnce == Spec => ImplementsAtMostOnce
<1>1. Init => OnceStarts
  <2>. SUFFICES ASSUME Init PROVE OnceStarts
    OBVIOUS
  <2>1. \A i \in Invocations : PhaseOf(i) = "new" /\ OutcomeOf(i) = "open"
    BY DEF Init, NoReceipt, PhaseOf, OutcomeOf, Terminal
  <2>2. \A i \in Invocations : Acted(i) = FALSE
    BY DEF Init, Acted
  <2>. QED
    BY <2>1, <2>2, Zenon DEF OnceStarts, Once!OnceInit
<1>2. Inv /\ [Next]_vars => [OnceSteps]_vars
  BY NextInv DEF Promise
<1>. QED
  BY <1>1, <1>2, InvocationsInvariant, PTL DEF Spec, ImplementsAtMostOnce
==============================================================================
