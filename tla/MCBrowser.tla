------------------------------ MODULE MCBrowser -----------------------------
(***************************************************************************)
(* The voice clients: the realtime client, the Gemini client, the tool     *)
(* gateway of the browser, the browser's call and its guarded speech, side *)
(* by side, one instance of one of them to a behaviour.                    *)
(*                                                                         *)
(* The variable part says which instance a behaviour is about; that        *)
(* instance takes its steps and every other component rests in its initial *)
(* state. Two instances of a component share its variables and differ in   *)
(* its constants.                                                          *)
(***************************************************************************)
EXTENDS Integers, Sequences, TLC

CONSTANTS
  Parts,        \* the instances a run explores
  v1, v2, v3, v4

(***************************************************************************)
(* What a provider may send in each instance of the realtime client, as    *)
(* wire events about responses R and calls C.                              *)
(***************************************************************************)
Frame(type, r, form) ==
  [type |-> type, response |-> r, call |-> "no call", form |-> form,
   calls |-> {}, of |-> 0]

OfResponse(types, R, forms) ==
  {Frame(t, r, f) : t \in types, r \in R, f \in forms}

OfCall(types, R, C, forms) ==
  {[Frame(t, r, f) EXCEPT !.call = c] :
     t \in types, r \in R, f \in forms, c \in C}

Terminals(statuses, R, batches) ==
  {[Frame("response.done", r, f) EXCEPT !.calls = b] :
     r \in R, f \in statuses, b \in batches}

Plain(types) == {Frame(t, "no response", "exact") : t \in types}

Items(numbers) ==
  {[Frame(t, "no response", f) EXCEPT !.of = i] :
     t \in {"item.added", "item.done"}, f \in {"exact", "rewritten"},
     i \in numbers}

ToolWire(R, C) ==
  OfResponse({"response.created", "audio"}, R, {"exact"})
    \cup OfCall({"function_call"}, R, C, {"done", "incomplete"})
    \cup OfCall({"function_call.cancelled"}, R, C, {"exact"})
    \cup Terminals({"completed", "cancelled"}, R, SUBSET C)

ErrorWire(R, C) ==
  OfResponse({"response.created"}, R, {"exact", "rewritten"})
    \cup OfCall({"function_call"}, R, C,
                {"added", "done", "incomplete", "rewritten", "malformed"})
    \cup Terminals({"completed", "cancelled", "failed", "conflict"}, R, SUBSET C)
    \cup OfResponse({"item.truncated"}, R, {"exact"})
    \cup Plain({"speech_started", "error", "ping"})

CommitWire(R, C) == Plain({"error"}) \cup Terminals({"completed"}, R, {{}, C})

TurnWire(R, C) ==
  Plain({"speech_started", "speech_stopped", "input_audio_buffer.committed"})
    \cup OfResponse({"response.created", "item.truncated"}, R, {"exact"})
    \cup Terminals({"completed"}, R, SUBSET C)

HistoryWire(R, C, numbers) ==
  Items(numbers) \cup Plain({"error", "ping"})
    \cup OfResponse({"response.created"}, R, {"exact"})
    \cup Terminals({"completed"}, R, SUBSET C)

Contexts(n) == [t \in 0 .. n |-> t]

(* The batches of the browser's tool gateway: two calls, then one. *)
Batches ==
  [r \in {"r1", "r2"} |-> IF r = "r1" THEN <<"c1", "c2">> ELSE <<"c3">>]

VARIABLES
  part,        \* the instance this behaviour is about
  realtime, normalizer, frame, provider, observed,
  gemini, trigger, tools, speech, voice, wire, events, frames,
  toolServer, net, reply, gw, loop,
  start, stop, media, known, queue, flight, stray, end, callServer, shown, lost,
  link, spoken, held, decided, playback, shownSpeech, request, row, asrServer

realtimeVars == <<realtime, normalizer, frame, provider, observed>>
geminiVars == <<gemini, trigger, tools, speech, voice, wire, events, frames>>
browserToolsVars == <<toolServer, net, reply, gw, loop>>
browserCallVars == <<start, stop, media, known, queue, flight, stray, end,
  callServer, shown, lost>>
speechVars == <<link, spoken, held, decided, playback, shownSpeech, request,
  row, asrServer>>

all == <<part, realtimeVars, geminiVars, browserToolsVars, browserCallVars,
  speechVars>>

RealtimeHistory == INSTANCE RealtimeClient WITH
  Responses <- {"r1"}, Calls <- {"c1"}, MaxIdentities <- 4,
  Mode <- "manual", Policy <- "diagnose", Context <- Contexts(0),
  HistoryCall <- <<"c1">>, MaxPending <- 1, MaxCommits <- 1, MaxTurns <- 0,
  Wire <- HistoryWire({"r1"}, {"c1"}, {1}),
  Operations <- {"close", "commits", "history", "tools"}, Faults <- TRUE,
  client <- realtime

RealtimeTurn == INSTANCE RealtimeClient WITH
  Responses <- {"r1"}, Calls <- {"c1"}, MaxIdentities <- 4,
  Mode <- "server_vad", Policy <- "fail", Context <- Contexts(2),
  HistoryCall <- << >>, MaxPending <- 1, MaxCommits <- 0, MaxTurns <- 2,
  Wire <- TurnWire({"r1"}, {"c1"}),
  Operations <- {"close", "audio", "turns", "tools", "create"},
  Faults <- TRUE, client <- realtime

RealtimeTools == INSTANCE RealtimeClient WITH
  Responses <- {v1, v2}, Calls <- {v3, v4}, MaxIdentities <- 3,
  Mode <- "manual", Policy <- "diagnose", Context <- Contexts(0),
  HistoryCall <- << >>, MaxPending <- 1, MaxCommits <- 0, MaxTurns <- 0,
  Wire <- ToolWire({v1, v2}, {v3, v4}), Operations <- {"tools", "cancel"},
  Faults <- FALSE, client <- realtime

RealtimeErrors == INSTANCE RealtimeClient WITH
  Responses <- {v1, v2}, Calls <- {v3, v4}, MaxIdentities <- 3,
  Mode <- "manual", Policy <- "fail", Context <- Contexts(0),
  HistoryCall <- << >>, MaxPending <- 1, MaxCommits <- 0, MaxTurns <- 0,
  Wire <- ErrorWire({v1, v2}, {v3, v4}),
  Operations <- {"tools", "prepare", "create"}, Faults <- FALSE,
  client <- realtime

RealtimeCommits == INSTANCE RealtimeClient WITH
  Responses <- {v1}, Calls <- {v3}, MaxIdentities <- 4, Mode <- "manual",
  Policy <- "diagnose", Context <- Contexts(0), HistoryCall <- << >>,
  MaxPending <- 2, MaxCommits <- 4, MaxTurns <- 0,
  Wire <- CommitWire({v1}, {v3}),
  Operations <- {"audio", "commits", "text", "create"}, Faults <- TRUE,
  client <- realtime

RealtimeTurns == INSTANCE RealtimeClient WITH
  Responses <- {v1, v2}, Calls <- {v3}, MaxIdentities <- 4,
  Mode <- "server_vad", Policy <- "fail", Context <- Contexts(2),
  HistoryCall <- << >>, MaxPending <- 1, MaxCommits <- 0, MaxTurns <- 2,
  Wire <- TurnWire({v1, v2}, {v3}),
  Operations <- {"close", "audio", "turns", "tools", "prepare", "create", "text"},
  Faults <- TRUE, client <- realtime

RealtimeHydration == INSTANCE RealtimeClient WITH
  Responses <- {v1}, Calls <- {v3, v4}, MaxIdentities <- 4,
  Mode <- "manual", Policy <- "diagnose", Context <- Contexts(0),
  HistoryCall <- <<"no call", v3>>, MaxPending <- 1, MaxCommits <- 1,
  MaxTurns <- 0, Wire <- HistoryWire({v1}, {v3, v4}, {1, 2}),
  Operations <- {"close", "audio", "history", "text", "tools", "prepare"},
  Faults <- TRUE, client <- realtime

GeminiConnects == INSTANCE GeminiLive WITH
  Calls <- {"c1"}, MaxTracked <- 1, Internal <- FALSE, Hydration <- FALSE,
  MaxEpochs <- 2, MaxTurns <- 1, MaxFrames <- 1, MaxHeard <- 0,
  client <- gemini

GeminiTurns == INSTANCE GeminiLive WITH
  Calls <- {v1, v2}, MaxTracked <- 2, Internal <- FALSE, Hydration <- TRUE,
  MaxEpochs <- 1, MaxTurns <- 2, MaxFrames <- 3, MaxHeard <- 0,
  client <- gemini

GeminiExecutor == INSTANCE GeminiLive WITH
  Calls <- {v1, v2}, MaxTracked <- 2, Internal <- TRUE, Hydration <- FALSE,
  MaxEpochs <- 1, MaxTurns <- 2, MaxFrames <- 3, MaxHeard <- 0,
  client <- gemini

GeminiHeard == INSTANCE GeminiLive WITH
  Calls <- {v1}, MaxTracked <- 1, Internal <- FALSE, Hydration <- FALSE,
  MaxEpochs <- 1, MaxTurns <- 2, MaxFrames <- 1, MaxHeard <- 2,
  client <- gemini

BrowserTools == INSTANCE BrowserGateway WITH
  Responses <- {"r1", "r2"}, Calls <- {"c1", "c2", "c3"}, Batch <- Batches,
  Flow <- {"c1"}, Gemini <- FALSE, MaxEvents <- 2, MaxRotations <- 1,
  server <- toolServer

BrowserToolsGemini == INSTANCE BrowserGateway WITH
  Responses <- {"r1", "r2"}, Calls <- {"c1", "c2", "c3"}, Batch <- Batches,
  Flow <- {"c1"}, Gemini <- TRUE, MaxEvents <- 2, MaxRotations <- 1,
  server <- toolServer

ShortCall == INSTANCE BrowserCall WITH
  Capacity <- 2, BatchSize <- 2, MaxSaid <- 1, MaxLost <- 1,
  server <- callServer

Call == INSTANCE BrowserCall WITH
  Capacity <- 3, BatchSize <- 2, MaxSaid <- 2, MaxLost <- 1,
  server <- callServer

SpeechEnds == INSTANCE OutboundSpeech WITH
  Provider <- "openai", Responses <- {1, 2}, MaxChunks <- 1,
  MaxBuffered <- 1, MaxSources <- 1, Repeats <- {}, Strangers <- {},
  CallLimit <- 2, DayLimit <- 2, Happens <- {"age"}, speech <- spoken,
  shown <- shownSpeech, server <- asrServer

XaiSpeech == INSTANCE OutboundSpeech WITH
  Provider <- "xai", Responses <- {1, 2}, MaxChunks <- 2, MaxBuffered <- 2,
  MaxSources <- 1, Repeats <- {}, Strangers <- {}, CallLimit <- 2,
  DayLimit <- 2, Happens <- {"disorder"}, speech <- spoken,
  shown <- shownSpeech, server <- asrServer

SpeechTexts == INSTANCE OutboundSpeech WITH
  Provider <- "xai", Responses <- {1}, MaxChunks <- 2, MaxBuffered <- 2,
  MaxSources <- 1, Repeats <- {}, Strangers <- {}, CallLimit <- 1,
  DayLimit <- 1, Happens <- {"disorder", "text", "age"}, speech <- spoken,
  shown <- shownSpeech, server <- asrServer

OpenaiSpeech == INSTANCE OutboundSpeech WITH
  Provider <- "openai", Responses <- {1, 2}, MaxChunks <- 2,
  MaxBuffered <- 1, MaxSources <- 1, Repeats <- {}, Strangers <- {},
  CallLimit <- 2, DayLimit <- 2, Happens <- {"disorder", "age", "close"},
  speech <- spoken, shown <- shownSpeech, server <- asrServer

GeminiSpeech == INSTANCE OutboundSpeech WITH
  Provider <- "gemini", Responses <- {1, 2}, MaxChunks <- 2,
  MaxBuffered <- 2, MaxSources <- 2, Repeats <- {}, Strangers <- {},
  CallLimit <- 2, DayLimit <- 2, Happens <- {"text", "age"},
  speech <- spoken, shown <- shownSpeech, server <- asrServer

RepeatedSpeech == INSTANCE OutboundSpeech WITH
  Provider <- "xai", Responses <- {1}, MaxChunks <- 2, MaxBuffered <- 1,
  MaxSources <- 1, Repeats <- {10}, Strangers <- {}, CallLimit <- 1,
  DayLimit <- 1, Happens <- {"failure", "close"}, speech <- spoken,
  shown <- shownSpeech, server <- asrServer

SpeechBudget == INSTANCE OutboundSpeech WITH
  Provider <- "xai", Responses <- {1, 2}, MaxChunks <- 1, MaxBuffered <- 1,
  MaxSources <- 1, Repeats <- {}, Strangers <- {20}, CallLimit <- 2,
  DayLimit <- 2, Happens <- {}, speech <- spoken, shown <- shownSpeech,
  server <- asrServer

ASSUME InstancesAreSound ==
  /\ RealtimeHistory!ModeAssumption
  /\ RealtimeHistory!NullAssumption
  /\ RealtimeTurn!ModeAssumption
  /\ RealtimeTurn!NullAssumption
  /\ RealtimeTools!ModeAssumption
  /\ RealtimeTools!NullAssumption
  /\ RealtimeErrors!ModeAssumption
  /\ RealtimeErrors!NullAssumption
  /\ RealtimeCommits!ModeAssumption
  /\ RealtimeCommits!NullAssumption
  /\ RealtimeTurns!ModeAssumption
  /\ RealtimeTurns!NullAssumption
  /\ RealtimeHydration!ModeAssumption
  /\ RealtimeHydration!NullAssumption
  /\ GeminiConnects!SwitchesAssumption
  /\ GeminiTurns!SwitchesAssumption
  /\ GeminiExecutor!SwitchesAssumption
  /\ GeminiHeard!SwitchesAssumption
  /\ BrowserTools!BatchAssumption
  /\ BrowserToolsGemini!BatchAssumption
  /\ ShortCall!BoundsAssumption
  /\ Call!BoundsAssumption
  /\ SpeechEnds!SpeechAssumption
  /\ XaiSpeech!SpeechAssumption
  /\ SpeechTexts!SpeechAssumption
  /\ OpenaiSpeech!SpeechAssumption
  /\ GeminiSpeech!SpeechAssumption
  /\ RepeatedSpeech!SpeechAssumption
  /\ SpeechBudget!SpeechAssumption

(***************************************************************************)
(* A component that is not the subject of a behaviour rests in its initial *)
(* state.                                                                  *)
(***************************************************************************)
Init ==
  /\ part \in Parts
  /\ \/ part = "realtime turns settle" /\ RealtimeTurn!Init
     \/ part = "realtime tools" /\ RealtimeTools!Init
     \/ part = "realtime errors" /\ RealtimeErrors!Init
     \/ part = "realtime commits" /\ RealtimeCommits!Init
     \/ part = "realtime turns" /\ RealtimeTurns!Init
     \/ part = "realtime hydration" /\ RealtimeHydration!Init
     \/ part \notin {"realtime turns settle", "realtime tools", "realtime errors", "realtime commits", "realtime turns", "realtime hydration"} /\ RealtimeHistory!Init
  /\ \/ part = "gemini" /\ GeminiTurns!Init
     \/ part = "gemini executor" /\ GeminiExecutor!Init
     \/ part = "gemini heard" /\ GeminiHeard!Init
     \/ part \notin {"gemini", "gemini executor", "gemini heard"} /\ GeminiConnects!Init
  /\ \/ part = "browser tools gemini" /\ BrowserToolsGemini!Init
     \/ part # "browser tools gemini" /\ BrowserTools!Init
  /\ \/ part = "browser call" /\ Call!Init
     \/ part # "browser call" /\ ShortCall!Init
  /\ \/ part = "speech xai" /\ XaiSpeech!Init
     \/ part = "speech texts" /\ SpeechTexts!Init
     \/ part = "speech openai" /\ OpenaiSpeech!Init
     \/ part = "speech gemini" /\ GeminiSpeech!Init
     \/ part = "speech repeated" /\ RepeatedSpeech!Init
     \/ part = "speech budget" /\ SpeechBudget!Init
     \/ part \notin {"speech xai", "speech texts", "speech openai", "speech gemini", "speech repeated", "speech budget"} /\ SpeechEnds!Init

RealtimeMoves ==
  /\ \/ part = "realtime settles" /\ RealtimeHistory!Next
     \/ part = "realtime turns settle" /\ RealtimeTurn!Next
     \/ part = "realtime tools" /\ RealtimeTools!Next
     \/ part = "realtime errors" /\ RealtimeErrors!Next
     \/ part = "realtime commits" /\ RealtimeCommits!Next
     \/ part = "realtime turns" /\ RealtimeTurns!Next
     \/ part = "realtime hydration" /\ RealtimeHydration!Next
  /\ UNCHANGED <<part, geminiVars, browserToolsVars, browserCallVars,
                   speechVars>>

GeminiMoves ==
  /\ \/ part = "gemini connects" /\ GeminiConnects!Next
     \/ part = "gemini" /\ GeminiTurns!Next
     \/ part = "gemini executor" /\ GeminiExecutor!Next
     \/ part = "gemini heard" /\ GeminiHeard!Next
  /\ UNCHANGED <<part, realtimeVars, browserToolsVars, browserCallVars,
                   speechVars>>

BrowserToolsMoves ==
  /\ \/ part = "browser tools" /\ BrowserTools!Next
     \/ part = "browser tools gemini" /\ BrowserToolsGemini!Next
  /\ UNCHANGED <<part, realtimeVars, geminiVars, browserCallVars,
                   speechVars>>

BrowserCallMoves ==
  /\ \/ part = "browser call ends" /\ ShortCall!Next
     \/ part = "browser call" /\ Call!Next
  /\ UNCHANGED <<part, realtimeVars, geminiVars, browserToolsVars,
                   speechVars>>

SpeechMoves ==
  /\ \/ part = "speech ends" /\ SpeechEnds!Next
     \/ part = "speech xai" /\ XaiSpeech!Next
     \/ part = "speech texts" /\ SpeechTexts!Next
     \/ part = "speech openai" /\ OpenaiSpeech!Next
     \/ part = "speech gemini" /\ GeminiSpeech!Next
     \/ part = "speech repeated" /\ RepeatedSpeech!Next
     \/ part = "speech budget" /\ SpeechBudget!Next
  /\ UNCHANGED <<part, realtimeVars, geminiVars, browserToolsVars,
                   browserCallVars>>

Next ==
  \/ RealtimeMoves
  \/ GeminiMoves
  \/ BrowserToolsMoves
  \/ BrowserCallMoves
  \/ SpeechMoves

Spec == Init /\ [][Next]_all

(***************************************************************************)
(* What a browser or a server's event loop guarantees: it handles the rest *)
(* of a frame, runs the continuations of awaited promises, and between two *)
(* wire events, however many there are, fires the timers that are due; the *)
(* browser goes on with its own work, and a request is answered or its     *)
(* timer ends it. Nothing is assumed of the provider, of the network or of *)
(* the user.                                                               *)
(***************************************************************************)
LiveSpec ==
  /\ Spec
  /\ WF_realtimeVars(part = "realtime settles" /\ RealtimeHistory!Deliver)
  /\ SF_realtimeVars(/\ part = "realtime settles"
                     /\ RealtimeHistory!Timers \/ RealtimeHistory!HydrationContinues)
  /\ WF_realtimeVars(part = "realtime turns settle" /\ RealtimeTurn!Deliver)
  /\ SF_realtimeVars(/\ part = "realtime turns settle"
                     /\ RealtimeTurn!Timers \/ RealtimeTurn!HydrationContinues)
  /\ WF_geminiVars(part = "gemini connects" /\ GeminiConnects!FailConnect)
  /\ WF_geminiVars(/\ part = "gemini connects"
                   /\ gemini.state \in {"closing", "failed"}
                   /\ GeminiConnects!HandleClose)
  /\ WF_browserToolsVars(part = "browser tools" /\ BrowserTools!Work)
  /\ WF_browserToolsVars(part = "browser tools" /\ BrowserTools!RotationFails)
  /\ WF_browserToolsVars(part = "browser tools" /\ BrowserTools!FinishDrain)
  /\ WF_browserCallVars(part = "browser call ends" /\ ShortCall!Browser)
  /\ WF_browserCallVars(/\ part = "browser call ends"
                        /\ ShortCall!FlushReaches \/ ShortCall!FlushTimesOut)
  /\ WF_browserCallVars(/\ part = "browser call ends"
                        /\ ShortCall!EndReaches \/ ShortCall!EndTimesOut)
  /\ WF_speechVars(part = "speech ends" /\ SpeechEnds!FinalizationStep)

-----------------------------------------------------------------------------

(***************************************************************************)
(* The Gemini Live client (GeminiLive): a function call runs once although *)
(* batches are repeated, in part or in a later turn; a result is sent only *)
(* for a call that still waits for it; a response ends once, realtime      *)
(* frames keep their order, and what the caller said is attributed to the  *)
(* turn it was said in.                                                    *)
(***************************************************************************)
GeminiIsSound ==
  /\ [](/\ part = "gemini" =>
             /\ GeminiTurns!TypeOK
             /\ GeminiTurns!CallsRunOnce
             /\ GeminiTurns!ResponsesEndOnce
             /\ GeminiTurns!FramesAreInOrder
        /\ part = "gemini executor" => GeminiExecutor!CallsRunOnce
        /\ part = "gemini heard" => GeminiHeard!InputIsAttributed)
  /\ [][/\ part = "gemini" => GeminiTurns!CurrentResult
        /\ part = "gemini executor" => GeminiExecutor!CurrentResult]_geminiVars



(***************************************************************************)
(* Guarded speech of a call (OutboundSpeech): what the speaker is given is *)
(* exactly the audio that was transcribed under a settled authority and    *)
(* found clean, whatever arrives while the decision waits; a stopped       *)
(* transport is silent although a release was pending; the texts shown and *)
(* the evidence are those of the decisions; and the server has each        *)
(* response transcribed once at most, within the budgets of the day and    *)
(* the call, whatever is repeated, lost or read in an old snapshot.        *)
(***************************************************************************)
SpeechIsVetted ==
  /\ part = "speech xai" =>
          /\ XaiSpeech!TypeOK
          /\ XaiSpeech!PlayedIsTranscribed
          /\ XaiSpeech!StoppedIsSilent
          /\ XaiSpeech!ToldWasReleased
          /\ XaiSpeech!EvidenceIsTheDecision
          /\ XaiSpeech!TranscribedOnce
          /\ XaiSpeech!ReservedWithinLimits
  /\ part = "speech texts" =>
          /\ SpeechTexts!PlayedIsTranscribed
          /\ SpeechTexts!StoppedIsSilent
          /\ SpeechTexts!ToldWasReleased
          /\ SpeechTexts!EvidenceIsTheDecision
          /\ SpeechTexts!TranscribedOnce
          /\ SpeechTexts!ReservedWithinLimits
  /\ part = "speech openai" =>
          /\ OpenaiSpeech!PlayedIsTranscribed
          /\ OpenaiSpeech!StoppedIsSilent
          /\ OpenaiSpeech!ToldWasReleased
          /\ OpenaiSpeech!EvidenceIsTheDecision
          /\ OpenaiSpeech!TranscribedOnce
          /\ OpenaiSpeech!ReservedWithinLimits
  /\ part = "speech gemini" =>
          /\ GeminiSpeech!PlayedIsTranscribed
          /\ GeminiSpeech!StoppedIsSilent
          /\ GeminiSpeech!ToldWasReleased
          /\ GeminiSpeech!EvidenceIsTheDecision
          /\ GeminiSpeech!TranscribedOnce
          /\ GeminiSpeech!ReservedWithinLimits
  /\ part = "speech repeated" =>
          /\ RepeatedSpeech!PlayedIsTranscribed
          /\ RepeatedSpeech!StoppedIsSilent
          /\ RepeatedSpeech!ToldWasReleased
          /\ RepeatedSpeech!EvidenceIsTheDecision
          /\ RepeatedSpeech!TranscribedOnce
          /\ RepeatedSpeech!ReservedWithinLimits
  /\ part = "speech budget" =>
          /\ SpeechBudget!PlayedIsTranscribed
          /\ SpeechBudget!StoppedIsSilent
          /\ SpeechBudget!ToldWasReleased
          /\ SpeechBudget!EvidenceIsTheDecision
          /\ SpeechBudget!TranscribedOnce
          /\ SpeechBudget!ReservedWithinLimits

(***************************************************************************)
(* Whatever a client awaits ends, whatever the provider does: the promises *)
(* of the realtime client settle (RealtimeClient), a connect of the Gemini *)
(* client settles (GeminiLive), every batch of the tool gateway settles    *)
(* (BrowserGateway), a stop of the call ends (BrowserCall), and a response *)
(* that has ended is decided (OutboundSpeech).                             *)
(***************************************************************************)
WaitsEnd ==
  /\ RealtimeHistory!EveryPromiseSettles
  /\ GeminiConnects!ConnectSettles
  /\ BrowserTools!EveryBatchSettles
  /\ ShortCall!StopEnds
  /\ SpeechEnds!EndedIsDecided

Symmetry == Permutations({v1, v2}) \cup Permutations({v3, v4})
=============================================================================
