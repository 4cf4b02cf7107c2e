---------------------------- MODULE OperatorTurn ----------------------------
(***************************************************************************)
(* One turn of the operator's assistant: the route src/web/app/api/chat,   *)
(* the loop src/web/lib/agent/loop.ts, the streamed model client           *)
(* builder-model.ts, the authority that bounds the turn                    *)
(* (operator-turn-inference-authority.ts) and the inference runtime nested *)
(* in it for research (src/web/lib/server-inference.ts).                   *)
(*                                                                         *)
(* A turn samples the model, runs the tools the sample asks for and        *)
(* samples again, while its deadline passes, the requests time out and the *)
(* operator may leave at any moment.  A tool that costs money only         *)
(* proposes an action, which the operator confirms elsewhere.              *)
(*                                                                         *)
(* A call is the kind of tool it names.  What a model or a tool says is    *)
(* abstracted; the bytes of the requests are left out with the limits on   *)
(* them, which bound each request and the turn as the tokens do.           *)
(***************************************************************************)
EXTENDS Integers, Sequences, SequencesExt

CONSTANTS
    MaxProviderRequests, MaxBuilderRequests, MaxResearchRequests,
    MaxToolCalls, MaxReservedOutputTokens,
    BuilderTokens,     \* output tokens a sample reserves
    ResearchTokens,    \* output tokens a research request reserves
    RequestTimeout, OperationTimeout,
    Batches,           \* the tool calls a sample may ask for, in order
    Horizon            \* bound on the clock

TurnAssumption ==
    /\ MaxBuilderRequests \in 1 .. MaxProviderRequests
    /\ MaxResearchRequests \in 1 .. MaxProviderRequests
    /\ BuilderTokens \in 1 .. MaxReservedOutputTokens
    /\ ResearchTokens \in 1 .. MaxReservedOutputTokens
    /\ RequestTimeout \in Nat /\ OperationTimeout \in Nat /\ MaxToolCalls \in Nat
    /\ Horizon \in Nat
    /\ Batches \subseteq Seq({"plain", "research", "funded"})

VARIABLES
    clock, aborted,  \* the parent signal of the turn
    pc, round,
    batch, next,     \* the calls of the round, and the one to run
    stop,            \* the round ends the turn
    reserved,        \* the counters of the turn's authority
    nested,          \* those of the research authority inside it
    due,             \* the deadline of the request that is open
    fetched,         \* the provider requests that left, and whether one left late
    ran,             \* tools that were executed
    unanswered,      \* calls in the conversation without a tool message
    shown            \* what reached the operator

vars == <<clock, aborted, pc, round, batch, next, stop, reserved, nested, due,
          fetched, ran, unanswered, shown>>

Ended == {"done", "failed", "cancelled"}

----------------------------------------------------------------------------
(* The authority of a turn                                                 *)

\* assertOperatorTurnInferenceActive.
Active == ~aborted /\ clock < OperationTimeout

\* reserveProviderRequest: every counter is taken before the request leaves,
\* and a request that fails keeps what it took.
MayReserve(kind, tokens) ==
    /\ Active
    /\ reserved.provider < MaxProviderRequests
    /\ kind = "builder" => reserved.builder < MaxBuilderRequests
    /\ kind = "research" => reserved.research < MaxResearchRequests
    /\ reserved.tokens + tokens <= MaxReservedOutputTokens

Reserve(kind, tokens) ==
    reserved' = [reserved EXCEPT !.provider = @ + 1, !.tokens = @ + tokens, ![kind] = @ + 1]

\* createServerInferenceRuntime's reserve, in a lane that is as wide as the
\* research authority because the turn gives it no lanes of its own.
MayReserveNested(tokens) ==
    /\ Active
    /\ nested.requests < MaxResearchRequests
    /\ nested.tokens + tokens <= MaxReservedOutputTokens

\* The deadline of a request opened now.
RequestDeadline == IF clock + RequestTimeout < OperationTimeout
                   THEN clock + RequestTimeout ELSE OperationTimeout

\* A request leaves for a provider.
Fetches(kind) == [fetched EXCEPT ![kind] = @ + 1, !.late = @ \/ clock >= OperationTimeout]

\* reserveOperatorToolCalls: the whole batch or nothing.
MayReserveTools(n) == Active /\ reserved.tools + n <= MaxToolCalls

----------------------------------------------------------------------------
(* What the route does with the loop's events                              *)

\* What is shown in a round, and whether the turn had passed its deadline.
Shows(what) == {[what |-> w, round |-> round, late |-> clock >= OperationTimeout] : w \in what}

\* An event of the loop reaches the operator unless they left; then the
\* route stops reading and the loop ends where it stands.
Yields(what, then) ==
    IF aborted
    THEN pc' = "cancelled" /\ UNCHANGED shown
    ELSE /\ pc' = then
         /\ shown' = shown \cup Shows(what)

\* An exception out of the loop: a notice, unless they left.
Throws ==
    /\ Yields({}, "failed")
    /\ UNCHANGED <<round, batch, next, stop, nested, ran, unanswered>>

----------------------------------------------------------------------------
(* A sample                                                                *)

\* The head of the loop and openOperatorBuilderRequest.
Sample ==
    /\ pc = "sample"
    /\ IF round = MaxBuilderRequests
       THEN /\ Yields({}, "done")
            /\ UNCHANGED <<round, batch, next, stop, nested, ran, unanswered, reserved, due>>
       ELSE IF MayReserve("builder", BuilderTokens)
       THEN /\ Reserve("builder", BuilderTokens)
            /\ due' = RequestDeadline
            /\ pc' = "dispatch"
            /\ UNCHANGED <<round, batch, next, stop, nested, ran, unanswered, shown>>
       ELSE Throws /\ UNCHANGED <<reserved, due>>
    /\ UNCHANGED <<clock, aborted, fetched>>

\* The lease's dispatch: the signal and the deadline are checked again in
\* the microtask that fetches.
Dispatch ==
    /\ pc = "dispatch"
    /\ IF ~aborted /\ clock < due
       THEN /\ fetched' = Fetches("builder")
            /\ pc' = "wait"
            /\ UNCHANGED <<round, batch, next, stop, nested, ran, unanswered, shown>>
       ELSE Throws /\ UNCHANGED fetched
    /\ UNCHANGED <<clock, aborted, reserved, due>>

\* The stream ends in time: the guard lets its last part through.
Reply(b) ==
    /\ pc = "wait" /\ ~aborted /\ clock < due
    /\ batch' = b /\ next' = 1
    /\ pc' = "reply"
    /\ UNCHANGED <<clock, aborted, round, stop, reserved, nested, due, fetched, ran,
                   unanswered, shown>>

\* The provider fails, the stream breaks a limit, the request times out or
\* the operator leaves: the lease is terminated.
ReplyFails ==
    /\ pc = "wait"
    /\ Throws
    /\ UNCHANGED <<clock, aborted, reserved, due, fetched>>

----------------------------------------------------------------------------
(* The tools of a sample                                                   *)

Funded(b) == \E i \in 1 .. Len(b) : b[i] = "funded"

\* Every call of a refused batch is answered with an error; none runs.
Refused(b) == ~MayReserveTools(Len(b)) \/ (Funded(b) /\ Len(b) # 1)

\* The sample is complete.  Without calls its text ends the turn; prose of a
\* round with a funded call is withheld; the batch is reserved as a whole.
Take ==
    /\ pc = "reply"
    /\ \E hasText \in BOOLEAN :
          LET text == IF hasText /\ ~Funded(batch) THEN {"text"} ELSE {}
          IN  IF batch = <<>>
              THEN /\ Yields(text, "done")
                   /\ UNCHANGED <<reserved, unanswered>>
              ELSE IF text # {} /\ aborted
              THEN pc' = "cancelled" /\ UNCHANGED <<reserved, unanswered, shown>>
              ELSE IF Refused(batch)
              THEN /\ Yields(text, "done")
                   /\ reserved' = IF MayReserveTools(Len(batch))
                                  THEN [reserved EXCEPT !.tools = @ + Len(batch)]
                                  ELSE reserved
                   /\ unanswered' = IF aborted THEN Len(batch) ELSE 0
              ELSE /\ pc' = "tool"
                   /\ shown' = shown \cup Shows(text)
                   /\ reserved' = [reserved EXCEPT !.tools = @ + Len(batch)]
                   /\ unanswered' = Len(batch)
    /\ UNCHANGED <<clock, aborted, round, batch, next, stop, nested, due, fetched, ran>>

\* The announcement of the next tool.
Announce ==
    /\ pc = "tool" /\ next <= Len(batch)
    /\ Yields({}, "enter")
    /\ UNCHANGED <<clock, aborted, round, batch, next, stop, reserved, nested, due, fetched,
                   ran, unanswered>>

\* The catch of a call: a funded one, or one that failed because the turn is
\* over, is the last of the turn.
CallFails ==
    /\ stop' = (stop \/ batch[next] = "funded" \/ ~Active)
    /\ pc' = "settle"

\* A call begins while the turn is active, or fails.  A research tool takes
\* from both authorities before its request is opened.
Enter ==
    /\ pc = "enter"
    /\ \/ /\ Active
          /\ ran' = ran + 1
          /\ IF batch[next] = "research"
             THEN IF MayReserve("research", ResearchTokens)
                  THEN /\ Reserve("research", ResearchTokens)
                       /\ IF MayReserveNested(ResearchTokens)
                          THEN /\ nested' = [requests |-> nested.requests + 1,
                                             tokens |-> nested.tokens + ResearchTokens]
                               /\ due' = RequestDeadline
                               /\ pc' = "ask" /\ UNCHANGED stop
                          ELSE CallFails /\ UNCHANGED <<nested, due>>
                  ELSE CallFails /\ UNCHANGED <<reserved, nested, due>>
             ELSE pc' = "run" /\ UNCHANGED <<stop, reserved, nested, due>>
       \/ CallFails /\ UNCHANGED <<ran, reserved, nested, due>>
    /\ UNCHANGED <<clock, aborted, round, batch, next, fetched, unanswered, shown>>

\* timed: the queued microtask checks the signal and the deadline again.
Ask ==
    /\ pc = "ask"
    /\ IF ~aborted /\ clock < due
       THEN /\ fetched' = Fetches("research")
            /\ pc' = "answer" /\ UNCHANGED stop
       ELSE CallFails /\ UNCHANGED fetched
    /\ UNCHANGED <<clock, aborted, round, batch, next, reserved, nested, due, ran, unanswered,
                   shown>>

\* The race of timed is settled once: by an answer in time, or by a failure,
\* the timer or the signal.
ResearchSettles ==
    /\ pc = "answer"
    /\ \/ ~aborted /\ clock < due /\ pc' = "run" /\ UNCHANGED stop
       \/ CallFails
    /\ UNCHANGED <<clock, aborted, round, batch, next, reserved, nested, due, fetched, ran,
                   unanswered, shown>>

\* The tool returns.  Its result is shown only while the turn is active; a
\* funded tool ends the turn whether it proposed an action or not.
Finish ==
    /\ pc = "run"
    /\ \/ /\ Active
          /\ stop' = (stop \/ batch[next] = "funded")
          /\ \E w \in IF batch[next] = "funded" THEN {{"proposal"}, {}} ELSE {{"result"}} :
                Yields(w, "settle")
       \/ CallFails /\ UNCHANGED shown
    /\ UNCHANGED <<clock, aborted, round, batch, next, reserved, nested, due, fetched, ran,
                   unanswered>>

\* The call's last event and its tool message.
Settle ==
    /\ pc = "settle"
    /\ Yields({}, "tool")
    /\ unanswered' = IF aborted THEN unanswered ELSE unanswered - 1
    /\ next' = next + 1
    /\ UNCHANGED <<clock, aborted, round, batch, stop, reserved, nested, due, fetched, ran>>

\* The end of a round.
EndRound ==
    /\ pc = "tool" /\ next > Len(batch)
    /\ IF stop THEN Yields({}, "done") /\ UNCHANGED round
               ELSE pc' = "sample" /\ round' = round + 1 /\ UNCHANGED shown
    /\ UNCHANGED <<clock, aborted, batch, next, stop, reserved, nested, due, fetched, ran,
                   unanswered>>

----------------------------------------------------------------------------
\* The operator closes the page or the connection drops.
Leave ==
    /\ ~aborted /\ pc \notin Ended
    /\ aborted' = TRUE
    /\ UNCHANGED <<clock, pc, round, batch, next, stop, reserved, nested, due, fetched, ran,
                   unanswered, shown>>

Tick ==
    /\ clock < Horizon /\ pc \notin Ended
    /\ clock' = clock + 1
    /\ UNCHANGED <<aborted, pc, round, batch, next, stop, reserved, nested, due, fetched, ran,
                   unanswered, shown>>

Init ==
    /\ clock = 0 /\ aborted = FALSE
    /\ pc = "sample" /\ round = 0
    /\ batch = <<>> /\ next = 1 /\ stop = FALSE
    /\ reserved = [provider |-> 0, builder |-> 0, research |-> 0, tools |-> 0, tokens |-> 0]
    /\ nested = [requests |-> 0, tokens |-> 0]
    /\ due = 0 /\ fetched = [builder |-> 0, research |-> 0, late |-> FALSE]
    /\ ran = 0 /\ unanswered = 0 /\ shown = {}

Step ==
    \/ Sample \/ Dispatch \/ (\E b \in Batches : Reply(b)) \/ ReplyFails
    \/ Take \/ Announce \/ Enter \/ Ask \/ ResearchSettles \/ Finish \/ Settle \/ EndRound

Next == Step \/ Leave \/ Tick

Spec == Init /\ [][Next]_vars

\* Every await of the loop settles: a request by its timer at the latest, a
\* tool because it returns or throws.
LiveSpec == Spec /\ WF_vars(Step)

----------------------------------------------------------------------------
(* Properties                                                              *)

\* Every variable has its type.
TypeOK ==
    /\ clock \in 0 .. Horizon /\ aborted \in BOOLEAN /\ stop \in BOOLEAN
    /\ pc \in Ended \cup {"sample", "dispatch", "wait", "reply", "tool", "enter", "ask",
                          "answer", "run", "settle"}
    /\ round \in 0 .. MaxBuilderRequests
    /\ next \in 1 .. Len(batch) + 1 /\ unanswered \in Nat /\ ran \in Nat

\* Whatever the model asks for and however its requests fail, a turn sends
\* the providers no more requests, and asks them for no more tokens, than
\* its budget, runs no more tools, and sends nothing once its deadline has
\* passed; the research authority inside it never refuses what the turn's
\* own authority granted.
TurnStaysInBudget ==
    /\ fetched.builder + fetched.research <= MaxProviderRequests
    /\ fetched.builder <= MaxBuilderRequests
    /\ fetched.research <= MaxResearchRequests
    /\ fetched.builder * BuilderTokens + fetched.research * ResearchTokens
         <= MaxReservedOutputTokens
    /\ ran <= MaxToolCalls
    /\ ~fetched.late
    /\ nested = [requests |-> reserved.research, tokens |-> reserved.research * ResearchTokens]

\* A funded action is proposed once, it is the last thing the turn does, and
\* no prose of the round that proposed it was shown beside the card.
ProposalEndsTurn ==
    \A s \in shown :
       s.what = "proposal" =>
          /\ s.round = round
          /\ fetched.builder = round + 1
          /\ ~\E t \in shown : t.what \in {"text", "result"} /\ t.round = s.round
          /\ \A t \in shown : t.what = "proposal" => t = s

\* A tool that outlives the turn's deadline shows nothing: its effect cannot
\* be undone, but neither a result nor a confirmation card escapes.
LateResultsAreHidden ==
    \A s \in shown : s.what \in {"result", "proposal"} => ~s.late

\* The model is never sampled with a call of this turn unanswered, and a turn
\* that ended by itself left none in the conversation; only the departure of
\* the operator may.
CallsAreAnswered ==
    /\ pc \in {"sample", "dispatch", "wait", "reply"} => unanswered = 0
    /\ pc = "done" => unanswered = 0
    /\ unanswered # 0 /\ pc \in Ended => aborted

\* A turn ends, and an operator who stays learns of it.
TurnEnds == <>(pc \in Ended)
=============================================================================
