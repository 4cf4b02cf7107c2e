------------------------------ MODULE MCBridge ------------------------------
(***************************************************************************)
(* The telephony bridge: the event journal with its endpoint, the session  *)
(* between Twilio and the provider, the client of the tool authority and   *)
(* the rotation of capabilities, side by side, one instance of one of them *)
(* to a behaviour.                                                         *)
(*                                                                         *)
(* The variable part says which instance a behaviour is about; that        *)
(* instance takes its steps and every other component rests in its initial *)
(* state. Two instances of a component share its variables and differ in   *)
(* its constants.                                                          *)
(***************************************************************************)
EXTENDS EventJournal, TLC

CONSTANTS
  Parts,        \* the instances a run explores
  v1, v2

(* The result of the call c1 is larger than all that may be retained. *)
Sizes(calls) == [c \in calls |-> IF c = "c1" THEN 3 ELSE 2]

VARIABLES
  part,        \* the instance this behaviour is about
  stream, adapter, pipe, echoes, heard, provider, authority, evidence,
  client, gateway, net, seen,
  clock, leases, sent, reply, bridge

streamVars == <<stream, adapter, pipe, echoes, heard, provider, authority,
  evidence>>
authorityVars == <<client, gateway, net, seen>>
rotationVars == <<clock, leases, sent, reply, bridge>>

all == <<part, vars, streamVars, authorityVars, rotationVars>>

Accounts == INSTANCE BridgeSession WITH
  Responses <- {"r1", "r2"}, Items <- {}, Calls <- {"c1", "c2"},
  MaxAudio <- 0, MaxMedia <- 0, MaxSpeech <- 0, MaxEpoch <- 0,
  MaxMarks <- 1, MaxTwilio <- 1, MaxProvider <- 3, session <- stream

Playback == INSTANCE BridgeSession WITH
  Responses <- {v1, v2}, Items <- {"i1", "i2"}, Calls <- {}, MaxAudio <- 2,
  MaxMedia <- 1, MaxSpeech <- 1, MaxEpoch <- 0, MaxMarks <- 2,
  MaxTwilio <- 4, MaxProvider <- 3, session <- stream

SessionTools == INSTANCE BridgeSession WITH
  Responses <- {v1, v2}, Items <- {}, Calls <- {"c1", "c2"}, MaxAudio <- 0,
  MaxMedia <- 0, MaxSpeech <- 1, MaxEpoch <- 1, MaxMarks <- 1,
  MaxTwilio <- 1, MaxProvider <- 4, session <- stream

Rewinds == INSTANCE BridgeSession WITH
  Responses <- {v1, v2}, Items <- {}, Calls <- {"c1", "c2"}, MaxAudio <- 0,
  MaxMedia <- 0, MaxSpeech <- 1, MaxEpoch <- 2, MaxMarks <- 1,
  MaxTwilio <- 1, MaxProvider <- 4, session <- stream

OneCall == INSTANCE AuthorityClient WITH
  Calls <- {"c1"}, Bodies <- {"b1"}, MaxAttempts <- 2, MaxTracked <- 9,
  MaxInFlight <- 9, MaxRetained <- 2, ResultSize <- Sizes({"c1"}),
  MaxDropped <- 1, server <- gateway

TwoCalls == INSTANCE AuthorityClient WITH
  Calls <- {"c1", "c2"}, Bodies <- {"b1"}, MaxAttempts <- 2,
  MaxTracked <- 9, MaxInFlight <- 9, MaxRetained <- 2,
  ResultSize <- Sizes({"c1", "c2"}), MaxDropped <- 1, server <- gateway

Evicting == INSTANCE AuthorityClient WITH
  Calls <- {"c1", "c2"}, Bodies <- {"b1", "b2"}, MaxAttempts <- 1,
  MaxTracked <- 2, MaxInFlight <- 1, MaxRetained <- 2,
  ResultSize <- Sizes({"c1", "c2"}), MaxDropped <- 1, server <- gateway

Rotation == INSTANCE CapabilityRotation WITH
  TTL <- 5, Overlap <- 2, Lag <- 1, MaxAttempts <- 2, MaxFailures <- 2,
  MaxClock <- 11, server <- leases

ASSUME InstancesAreSound ==
  /\ Accounts!NullAssumption
  /\ Playback!NullAssumption
  /\ SessionTools!NullAssumption
  /\ Rewinds!NullAssumption
  /\ OneCall!AuthorityAssumption
  /\ TwoCalls!AuthorityAssumption
  /\ Evicting!AuthorityAssumption
  /\ Rotation!LeaseAssumption

(***************************************************************************)
(* A component that is not the subject of a behaviour rests in its initial *)
(* state.                                                                  *)
(***************************************************************************)
SystemInit ==
  /\ part \in Parts
  /\ Init
  /\ \/ part = "session playback" /\ Playback!Init
     \/ part = "session tools" /\ SessionTools!Init
     \/ part = "session rewinds" /\ Rewinds!Init
     \/ part \notin {"session playback", "session tools", "session rewinds"} /\ Accounts!Init
  /\ \/ part = "authority" /\ TwoCalls!Init
     \/ part = "authority evicts" /\ Evicting!Init
     \/ part \notin {"authority", "authority evicts"} /\ OneCall!Init
  /\ Rotation!Init

JournalMoves ==
  /\ part = "journal"
  /\ Next
  /\ UNCHANGED <<part, streamVars, authorityVars, rotationVars>>

SessionMoves ==
  /\ \/ part = "session accounts" /\ Accounts!Next
     \/ part = "session playback" /\ Playback!Next
     \/ part = "session tools" /\ SessionTools!Next
     \/ part = "session rewinds" /\ Rewinds!Next
  /\ UNCHANGED <<part, vars, authorityVars, rotationVars>>

AuthorityMoves ==
  /\ \/ part = "authority answers" /\ OneCall!Next
     \/ part = "authority" /\ TwoCalls!Next
     \/ part = "authority evicts" /\ Evicting!Next
  /\ UNCHANGED <<part, vars, streamVars, rotationVars>>

RotationMoves ==
  /\ part = "rotation"
  /\ Rotation!Next
  /\ UNCHANGED <<part, vars, streamVars, authorityVars>>

SystemNext ==
  \/ JournalMoves
  \/ SessionMoves
  \/ AuthorityMoves
  \/ RotationMoves

SystemSpec == SystemInit /\ [][SystemNext]_all

(***************************************************************************)
(* The process goes on: a request of the journal's drain is answered or    *)
(* times out, timers fire and promise callbacks run; a session that is     *)
(* closing closes and every dispatched call is answered, as the authority  *)
(* client bounds it by the deadline of its operation; time passes, and the *)
(* timer of an expired capability fires. Nothing is assumed of the         *)
(* network, of the provider or of the authority.                           *)
(***************************************************************************)
SystemLiveSpec ==
  /\ SystemSpec
  /\ WF_vars(part = "journal" /\ (Acknowledge \/ AttemptFails))
  /\ WF_vars(part = "journal" /\ Retry)
  /\ WF_vars(part = "journal" /\ DrainSettles)
  /\ WF_vars(part = "journal" /\ ShutdownLoop)
  /\ WF_vars(part = "journal" /\ ShutdownGivesUp)
  /\ WF_streamVars(part = "session accounts" /\ Accounts!ShutdownCompletes)
  /\ \A r \in {"r1", "r2"} :
       WF_streamVars(/\ part = "session accounts"
                     /\ \E outcome \in {"ok", "failed", "unknown"} :
                          Accounts!CallIsAnswered(r, outcome))
  /\ WF_authorityVars(part = "authority answers" /\ OneCall!Aborts("c1"))
  /\ WF_rotationVars(part = "rotation" /\ Rotation!Tick)
  /\ WF_rotationVars(part = "rotation" /\ Rotation!HandleCapabilityExpiry)
  /\ WF_rotationVars(part = "rotation" /\ Rotation!SettleOwnedOperations)
  /\ WF_rotationVars(part = "rotation" /\ Rotation!FinishShutdown)

-----------------------------------------------------------------------------
(***************************************************************************)
(* What the bridge says of the caller's audio is true (BridgeSession): it  *)
(* reports as played only what the caller has heard, after every barge-in  *)
(* or cancellation the audio that is still queued is followed by a clear,  *)
(* and every mark that comes back is one it sent for audio it still knows. *)
(***************************************************************************)
AudioIsHonest ==
  part = "session playback" =>
          /\ Playback!TypeOK
          /\ Playback!PlayedWasHeard
          /\ Playback!StaleAudioIsCleared
          /\ Playback!MarksAreKnown



(***************************************************************************)
(* Rotation of a session's capabilities (CapabilityRotation): whatever     *)
(* attempts and answers are lost, a retry within the lease is granted      *)
(* again, the journal, the authority client and the renewal capability are *)
(* of one generation, a rotation the server may have committed is reported *)
(* as such, and no answer is used after its window closed.                 *)
(***************************************************************************)
RenewalSurvives ==
  /\ [](part = "rotation" =>
             /\ Rotation!TypeOK
             /\ Rotation!RetriesSucceed
             /\ Rotation!OneGeneration
             /\ Rotation!RotationIsReported)
  /\ [][part = "rotation" => Rotation!NothingLate]_rotationVars


(***************************************************************************)
(* "gateway result attempted to rewind active catalog authority": the      *)
(* catalog the session uses never goes back to an earlier epoch.           *)
(***************************************************************************)
CatalogNeverRewinds ==
  [][part = "session rewinds" => Rewinds!KeepsTheCatalog]_streamVars

Symmetry == Permutations({v1, v2})
=============================================================================
