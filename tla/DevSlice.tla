------------------------------ MODULE DevSlice ------------------------------
(***************************************************************************)
(* One slice of the paid development run                                   *)
(* (lib/benchmark/lc4-development-live-runner.ts): the episodes of a       *)
(* frozen plan are played one after another, each over a fixed number of   *)
(* provider segments, each segment over a fixed number of caller turns     *)
(* with at most one repair, and everything is counted and logged.  The     *)
(* session is the one of the development adapter                           *)
(* (lc4-production-provider-adapter.ts), which joins a provider segment to *)
(* the budget and keeps the chain of effective exchanges.                  *)
(*                                                                         *)
(*   pc       the next step of the slice                                   *)
(*   at       episode, segment and turn in progress, and the cells this    *)
(*            slice completed                                              *)
(*   count    the counters of the run artifact                             *)
(*   ledger   events of the immutable ledger, by type                      *)
(*   gap      a sequence number was used by an event that was not written  *)
(*   session  the provider session of the segment                          *)
(*   chain    previous exchange in the runner and in the adapter, and the  *)
(*            adapter's pending opportunity                                *)
(*   failure  failure class, whether the message is a timeout, and the     *)
(*            class the body of the segment failed with                    *)
(*   saved    counters and ledger of the last completed prefix             *)
(*   paid     generations the provider really started                      *)
(*   result   what the slice returned                                      *)
(***************************************************************************)
EXTENDS Integers, FiniteSets

CONSTANTS
  Episodes,   \* episodes of the plan
  Segments,   \* provider segments of an episode
  Turns,      \* opportunities of a segment
  MaxNew      \* maximum_new_cells of a slice

BoundsAssumption == {Episodes, Segments, Turns, MaxNew} \subseteq Nat \ {0}

VARIABLES pc, at, count, ledger, gap, session, chain, failure, saved, paid, result

vars == <<pc, at, count, ledger, gap, session, chain, failure, saved, paid, result>>

Counters ==
  {"episodes", "intents", "opened", "submitted", "requested", "started",
   "completed", "turns", "repairs", "callers", "assistants", "finalized"}

Events ==
  {"episode_opened", "segment_open_intent", "segment_opened", "segment_failed",
   "audio_submitted", "opportunity_failed", "repair_decided",
   "repair_audio_submitted", "repair_completed", "opportunity_completed",
   "episode_terminal", "run_terminal"}

NoChain == [prior |-> 0, previous |-> 0, canonical |-> 0, effective |-> 0,
            pending |-> "none"]

NoFailure == [class |-> "none", timeout |-> FALSE, primary |-> "none"]

Zero(S) == [x \in S |-> 0]

Init ==
  /\ pc = "checkpoint"
  /\ at = [episode |-> 1, segment |-> 1, turn |-> 1, new |-> 0]
  /\ count = Zero(Counters)
  /\ ledger = Zero(Events)
  /\ gap = FALSE
  /\ session = "none"
  /\ chain = NoChain
  /\ failure = NoFailure
  /\ saved = [count |-> Zero(Counters), ledger |-> Zero(Events)]
  /\ paid = 0
  /\ result = "running"

Running(step) == result = "running" /\ pc = step

Plus(keys) == [k \in Counters |-> IF k \in keys THEN count[k] + 1 ELSE count[k]]

(***************************************************************************)
(* append: the payload is retained, then the event takes the next sequence *)
(* number and is written; a ledger with a gap refuses whatever follows.    *)
(***************************************************************************)
Log(event) == ~gap /\ ledger' = [ledger EXCEPT ![event] = @ + 1] /\ UNCHANGED gap

LogFails == UNCHANGED ledger /\ gap' \in {gap, TRUE}

NoLog == UNCHANGED <<ledger, gap>>

(***************************************************************************)
(* An error leaves the body of a segment through its close, and the slice  *)
(* at once otherwise.                                                      *)
(***************************************************************************)
Failed(class, timeout, primary) ==
  [class |-> IF timeout THEN "timeout" ELSE class, timeout |-> timeout,
   primary |-> primary]

BreakSegment(class, timeout) ==
  /\ pc' = "closing"
  /\ failure' = [class |-> class, timeout |-> timeout,
                 primary |-> IF timeout THEN "timeout" ELSE class]

EndRun(class, timeout) ==
  /\ pc' = "ended"
  /\ failure' = Failed(class, timeout, failure.primary)
  /\ result' = "failed"

-----------------------------------------------------------------------------
(***************************************************************************)
(* The cell checkpoint, and the event that opens the episode.              *)
(***************************************************************************)
OpenEpisode ==
  /\ Running("checkpoint")
  /\ \/ /\ Log("episode_opened")
        /\ pc' = "intent"
        /\ UNCHANGED <<failure, result>>
     \/ LogFails /\ EndRun(failure.class, FALSE)
  /\ count' = Plus({"episodes"})
  /\ chain' = NoChain
  /\ UNCHANGED <<at, session, saved, paid>>

SegmentIntent ==
  /\ Running("intent")
  /\ \/ /\ Log("segment_open_intent")
        /\ pc' = "open"
        /\ count' = Plus({"intents"})
        /\ failure' = [NoFailure EXCEPT !.class = "transport"]
        /\ UNCHANGED result
     \/ LogFails /\ EndRun("transport", FALSE) /\ UNCHANGED count
  /\ UNCHANGED <<at, session, chain, saved, paid>>

(***************************************************************************)
(* boundedSegmentOpen around the adapter's openSegment: deadline and       *)
(* rotation checks, the budget's acknowledgement before and after the      *)
(* provider session is opened.  A session whose opening timed out is       *)
(* closed when it resolves; any other failure has closed it already.       *)
(***************************************************************************)
OpenSegment ==
  /\ Running("open")
  /\ session' = "open"
  /\ pc' = "opened"
  /\ UNCHANGED <<at, count, ledger, gap, chain, failure, saved, paid, result>>

OpenFails(reason) ==
  /\ Running("open")
  /\ session' = IF reason = "timeout" THEN "late" ELSE "closed"
  /\ Log("segment_failed") \/ LogFails
  /\ EndRun(IF reason = "compile" THEN "continuity_compile" ELSE "transport",
            reason = "timeout")
  /\ UNCHANGED <<at, count, chain, saved, paid>>

LateOpenEnds ==
  /\ session = "late"
  /\ session' = "closed"
  /\ UNCHANGED <<pc, at, count, ledger, gap, chain, failure, saved, paid, result>>

SegmentOpened ==
  /\ Running("opened")
  /\ \/ /\ Log("segment_opened")
        /\ pc' = "load"
        /\ count' = Plus({"opened"})
        /\ UNCHANGED failure
     \/ LogFails /\ BreakSegment("transport", FALSE) /\ UNCHANGED count
  /\ UNCHANGED <<at, session, chain, saved, paid, result>>

(***************************************************************************)
(* The caller's audio is loaded (or its branch selected) and retained, and *)
(* the control of the turn obtained from the previous exchange.  The event *)
(* that logs a branch is not counted; writing it may fail like any other.  *)
(***************************************************************************)
LoadTurn ==
  /\ Running("load")
  /\ \/ /\ pc' = "submit" /\ count' = Plus({"callers"})
        /\ NoLog /\ UNCHANGED failure
     \/ \E class \in {"pre-open", "evidence"}, timeout \in BOOLEAN :
          /\ BreakSegment(class, timeout)
          /\ count' = IF class = "evidence" THEN Plus({"callers"}) ELSE count
          /\ IF class = "pre-open" /\ ~timeout THEN LogFails ELSE NoLog
  /\ UNCHANGED <<at, session, chain, saved, paid, result>>

SubmitAudio ==
  /\ Running("submit")
  /\ \/ /\ Log("audio_submitted")
        /\ pc' = "exchange"
        /\ count' = Plus({"submitted", "requested"})
        /\ UNCHANGED failure
     \/ LogFails /\ BreakSegment("transport", FALSE) /\ count' = Plus({"submitted"})
  /\ UNCHANGED <<at, session, chain, saved, paid, result>>

(***************************************************************************)
(* The exchange returns: it is counted before it is checked.  The adapter  *)
(* remembers it as pending.                                                *)
(***************************************************************************)
Pending(kind) ==
  IF kind = "canonical"
  THEN [chain EXCEPT !.pending = "answered", !.canonical = count.requested,
                     !.effective = count.requested]
  ELSE [chain EXCEPT !.pending = "repaired", !.effective = count.requested]

ExchangeStep(kind) == IF kind = "canonical" THEN "exchange" ELSE "repair"

ExchangeReturns(kind) ==
  /\ Running(ExchangeStep(kind))
  /\ paid' = paid + 1
  /\ count' = Plus({"started", "completed"})
  /\ chain' = Pending(kind)
  /\ \/ /\ pc' = IF kind = "canonical" THEN "judge" ELSE "repaired"
        /\ NoLog
        /\ failure' = [failure EXCEPT !.class = "evidence"]
     \/ /\ Log("opportunity_failed") \/ LogFails
        /\ BreakSegment("evidence", FALSE)
  /\ UNCHANGED <<at, session, saved, result>>

(***************************************************************************)
(* The bridge fails the exchange with evidence of what had happened: the   *)
(* runner counts what the evidence says.  A failure to retain the evidence *)
(* itself comes before the counting.                                       *)
(***************************************************************************)
FailedCounts(started, completed) ==
  Plus((IF started THEN {"started"} ELSE {})
         \cup (IF completed THEN {"completed"} ELSE {}))

ExchangeFails(kind) ==
  /\ Running(ExchangeStep(kind))
  /\ \E started, completed \in BOOLEAN :
       /\ completed => started
       /\ paid' = paid + IF started THEN 1 ELSE 0
       /\ \/ /\ count' = FailedCounts(started, completed)
             /\ Log("opportunity_failed") \/ LogFails
          \/ UNCHANGED count /\ NoLog
  /\ BreakSegment(IF kind = "canonical" THEN "transport" ELSE "evidence", FALSE)
  /\ UNCHANGED <<at, session, chain, saved, result>>

(***************************************************************************)
(* The provider answered, but the adapter fails on its way back (treatment *)
(* binding, retention of the exchange, transcript), or the runner's        *)
(* watchdog fires first: a plain error, and evidence that says that        *)
(* nothing was started.                                                    *)
(***************************************************************************)
ExchangeIsLost(kind) ==
  /\ Running(ExchangeStep(kind))
  /\ paid' \in {paid, paid + 1}
  /\ Log("opportunity_failed") \/ LogFails
  /\ BreakSegment(IF kind = "canonical" THEN "transport" ELSE "evidence", FALSE)
  /\ UNCHANGED <<at, count, session, chain, saved, result>>

(***************************************************************************)
(* The answer is retained and the repair decided.                          *)
(***************************************************************************)
DecideRepair ==
  /\ Running("judge")
  /\ \/ /\ Log("repair_decided")
        /\ count' = Plus({"assistants"})
        /\ pc' \in {"finalize", "repairing"}
        /\ UNCHANGED failure
     \/ \E timeout \in BOOLEAN :
          /\ LogFails
          /\ BreakSegment("evidence", timeout)
          /\ count' \in {count, Plus({"assistants"})}
  /\ UNCHANGED <<at, session, chain, saved, paid, result>>

SubmitRepair ==
  /\ Running("repairing")
  /\ \/ /\ Log("repair_audio_submitted")
        /\ count' = Plus({"callers", "requested"})
        /\ pc' = "repair"
        /\ UNCHANGED failure
     \/ \E timeout \in BOOLEAN :
          /\ LogFails
          /\ BreakSegment("evidence", timeout)
          /\ count' \in {count, Plus({"callers"})}
  /\ UNCHANGED <<at, session, chain, saved, paid, result>>

CompleteRepair ==
  /\ Running("repaired")
  /\ \/ /\ Log("repair_completed")
        /\ count' = Plus({"assistants", "repairs"})
        /\ pc' = "finalize"
        /\ UNCHANGED failure
     \/ \E timeout \in BOOLEAN :
          /\ LogFails
          /\ BreakSegment("evidence", timeout)
          /\ count' \in {count, Plus({"assistants", "repairs"})}
  /\ UNCHANGED <<at, session, chain, saved, paid, result>>

(***************************************************************************)
(* The opportunity is finalized in the bridge and retained; only then do   *)
(* adapter and runner move on to the effective exchange.                   *)
(***************************************************************************)
MutantFinalizeTurn ==
  /\ Running("finalize")
  /\ pc' = "complete"
  /\ chain' = [chain EXCEPT !.prior = chain.canonical, !.previous = chain.effective,
                            !.pending = "none"]
  /\ count' = Plus({"turns"})
  /\ NoLog
  /\ UNCHANGED <<at, session, failure, saved, paid, result>>

FinalizeTurn ==
  /\ Running("finalize")
  /\ \/ /\ pc' = "complete"
        /\ chain' = [chain EXCEPT !.prior = chain.effective,
                                  !.previous = chain.effective, !.pending = "none"]
        /\ count' = Plus({"turns"})
        /\ UNCHANGED failure
     \/ BreakSegment("evidence", FALSE) /\ UNCHANGED <<count, chain>>
  /\ NoLog
  /\ UNCHANGED <<at, session, saved, paid, result>>

CompleteTurn ==
  /\ Running("complete")
  /\ \/ /\ Log("opportunity_completed")
        /\ IF at.turn < Turns
           THEN pc' = "load" /\ at' = [at EXCEPT !.turn = @ + 1] /\ UNCHANGED failure
           ELSE /\ pc' = "closing"
                /\ failure' = [failure EXCEPT !.class = "transport"]
                /\ UNCHANGED at
     \/ LogFails /\ BreakSegment("evidence", FALSE) /\ UNCHANGED at
  /\ UNCHANGED <<count, session, chain, saved, paid, result>>

(***************************************************************************)
(* The session is closed whatever happened.  A close that fails is logged, *)
(* and ends the run unless the body of the segment had failed before: that *)
(* failure is the one that is reported.                                    *)
(***************************************************************************)
NextSegment ==
  IF at.segment < Segments
  THEN pc' = "intent" /\ at' = [at EXCEPT !.segment = @ + 1, !.turn = 1]
  ELSE pc' = "terminal" /\ UNCHANGED at

Reported(timeout) ==
  IF failure.primary # "none"
  THEN Failed(failure.class, failure.timeout, failure.primary)
  ELSE Failed("transport", timeout, "none")

CloseSegment ==
  /\ Running("closing")
  /\ session' = "closed"
  /\ \/ /\ failure.primary = "none"
        /\ NextSegment
        /\ NoLog
        /\ UNCHANGED <<failure, result>>
     \/ /\ failure.primary # "none"
        /\ NoLog
        /\ pc' = "ended" /\ result' = "failed" /\ failure' = Reported(FALSE)
        /\ UNCHANGED at
     \/ \E timeout \in BOOLEAN :
          /\ Log("segment_failed") \/ LogFails
          /\ pc' = "ended" /\ result' = "failed" /\ failure' = Reported(timeout)
          /\ UNCHANGED at
  /\ UNCHANGED <<count, chain, saved, paid>>

(***************************************************************************)
(* The finished episode is finalized, logged, sealed as a prefix, whose    *)
(* accounting is asserted, and handed to the checkpoint.                   *)
(***************************************************************************)
FinishEpisode ==
  /\ Running("terminal")
  /\ \/ /\ Log("episode_terminal")
        /\ pc' = "seal"
        /\ count' = Plus({"finalized"})
        /\ failure' = [failure EXCEPT !.class = "evidence"]
        /\ UNCHANGED result
     \/ LogFails /\ EndRun("evidence", FALSE)
        /\ count' \in {count, Plus({"finalized"})}
  /\ UNCHANGED <<at, session, chain, saved, paid>>

Exact(cells) ==
  LET horizon == cells * Segments * Turns
      generations == horizon + count.repairs
  IN  /\ count.episodes = cells /\ count.finalized = cells
      /\ count.intents = cells * Segments /\ count.opened = cells * Segments
      /\ count.submitted = horizon /\ count.turns = horizon
      /\ \A k \in {"requested", "started", "completed", "callers", "assistants"} :
           count[k] = generations
      /\ ledger["episode_opened"] = cells /\ ledger["episode_terminal"] = cells
      /\ ledger["segment_open_intent"] = cells * Segments
      /\ ledger["segment_opened"] = cells * Segments
      /\ ledger["opportunity_completed"] = horizon
      /\ ledger["repair_decided"] = horizon
      /\ ledger["repair_audio_submitted"] = count.repairs
      /\ ledger["repair_completed"] = count.repairs

SealEpisode ==
  /\ Running("seal")
  /\ NoLog
  /\ \/ /\ Exact(at.episode)
        /\ saved' = [count |-> count, ledger |-> ledger]
        /\ IF at.episode = Episodes
           THEN pc' = "run terminal" /\ UNCHANGED <<at, result>>
           ELSE /\ at' = [episode |-> at.episode + 1, segment |-> 1, turn |-> 1,
                          new |-> at.new + 1]
                /\ pc' = "checkpoint"
                /\ result' = IF at.new + 1 >= MaxNew THEN "prefix" ELSE result
        /\ UNCHANGED failure
     \/ EndRun("evidence", FALSE) /\ UNCHANGED <<at, saved>>
  /\ UNCHANGED <<count, session, chain, paid>>

RunTerminal ==
  /\ Running("run terminal")
  /\ \/ Log("run_terminal") /\ result' = "completed" /\ pc' = "ended" /\ UNCHANGED failure
     \/ LogFails /\ EndRun("evidence", FALSE)
  /\ UNCHANGED <<at, count, session, chain, saved, paid>>

(***************************************************************************)
(* The next slice resumes from the completed prefix.                       *)
(***************************************************************************)
ResumeSlice ==
  /\ result = "prefix"
  /\ result' = "running"
  /\ at' = [at EXCEPT !.new = 0]
  /\ count' = saved.count
  /\ ledger' = saved.ledger
  /\ UNCHANGED <<pc, gap, session, chain, failure, saved, paid>>

(***************************************************************************)
(* The process dies within a cell: a failed run is made from the prefix.   *)
(***************************************************************************)
Interrupted ==
  /\ result = "running"
  /\ result' = "interrupted"
  /\ pc' = "ended"
  /\ count' = saved.count
  /\ ledger' = saved.ledger
  /\ failure' = [NoFailure EXCEPT !.class = "transport"]
  /\ session' = IF session = "none" THEN "none" ELSE "closed"
  /\ UNCHANGED <<at, gap, chain, saved, paid>>

-----------------------------------------------------------------------------
Work ==
  \/ OpenEpisode \/ SegmentIntent \/ OpenSegment
  \/ \E reason \in {"timeout", "compile", "other"} : OpenFails(reason)
  \/ SegmentOpened \/ LoadTurn \/ SubmitAudio
  \/ \E kind \in {"canonical", "repair"} :
        ExchangeReturns(kind) \/ ExchangeFails(kind) \/ ExchangeIsLost(kind)
  \/ DecideRepair \/ SubmitRepair \/ CompleteRepair
  \/ FinalizeTurn \/ CompleteTurn \/ CloseSegment
  \/ FinishEpisode \/ SealEpisode \/ RunTerminal

Next == Work \/ LateOpenEnds \/ ResumeSlice \/ Interrupted

Spec == Init /\ [][Next]_vars

-----------------------------------------------------------------------------
(***************************************************************************)
(* Counters, ledger and chain stay in range.                               *)
(***************************************************************************)
TypeOK ==
  /\ at.episode \in 1 .. Episodes /\ at.segment \in 1 .. Segments
  /\ at.turn \in 1 .. Turns /\ at.new \in 0 .. MaxNew
  /\ \A k \in Counters : count[k] \in 0 .. 2 * Episodes * Segments * Turns
  /\ \A e \in Events : ledger[e] \in 0 .. Episodes * Segments * Turns
  /\ session \in {"none", "open", "late", "closed"}
  /\ chain.pending \in {"none", "answered", "repaired"}
  /\ result \in {"running", "prefix", "failed", "interrupted", "completed"}

(***************************************************************************)
(* A finished cell always passes the accounting its prefix is held to, and *)
(* its count of generations is what the provider really started.  A run is *)
(* completed only with the exact horizon and one run_terminal event.       *)
(***************************************************************************)
FinishedIsExact ==
  /\ (pc = "seal" /\ result = "running") =>
       Exact(at.episode) /\ count.started = paid
  /\ result = "completed" =>
       Exact(Episodes) /\ count.started = paid /\ ledger["run_terminal"] = 1

(***************************************************************************)
(* The run never reports more provider use than there was, though a failed *)
(* repair is counted without asking whether its exchange had returned.     *)
(***************************************************************************)
UseIsNotInflated == count.completed <= count.started /\ count.started <= paid

(***************************************************************************)
(* Whenever a turn begins, the previous exchange the runner asks control   *)
(* for is the one the adapter will check the provider's answer against.    *)
(***************************************************************************)
ChainsAgree ==
  pc \in {"load", "submit", "exchange"} =>
    chain.prior = chain.previous /\ chain.pending = "none"

(***************************************************************************)
(* The failure that broke a segment is the one the run reports, however    *)
(* closing the session or logging that goes.                               *)
(***************************************************************************)
PrimaryFailureSurvives ==
  (result = "failed" /\ failure.primary # "none") => failure.class = failure.primary

(***************************************************************************)
(* No session outlives its segment: a slice that returned has none open,   *)
(* and one that opens after its deadline is closed.                        *)
(***************************************************************************)
NoSessionIsLeft == result # "running" => session # "open"

LateSessionCloses == session = "late" ~> session = "closed"

=============================================================================
