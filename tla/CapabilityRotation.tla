------------------------- MODULE CapabilityRotation -------------------------
(***************************************************************************)
(* How a telephony session obtains its capabilities, renews them for as    *)
(* long as the call lasts, and accounts for both exchanges when it is shut *)
(* down: the bridge's session (bridge/lib/session.js), its bootstrap and   *)
(* rotation clients, and the routes and rows they talk to                  *)
(* (app/api/telephony/session, .../bridge/capabilities/rotate).            *)
(*                                                                         *)
(* Requests may be handled late, handled again, or have their answers      *)
(* lost: a request stays in "sent" once it is sent, the server may handle  *)
(* it at any time, and the answer reaches the bridge only if it says so.   *)
(* The bridge's clock may be behind the server's by Lag.                   *)
(***************************************************************************)
EXTENDS Integers, FiniteSets

CONSTANTS
  TTL,           \* CAPABILITY_ROTATION_TTL_SECONDS
  Overlap,       \* CAPABILITY_ROTATION_OVERLAP_SECONDS
  Lag,           \* how far the bridge's clock is behind
  MaxAttempts,   \* maximumAttempts of the rotation client
  MaxFailures,   \* bound on failed rotations in a row
  MaxClock       \* bound on the clock

(***************************************************************************)
(* The lease a call's capabilities are renewed under                       *)
(* (lib/capability-rotation-store.ts, lib/capability-rotation.ts and       *)
(* migration 021).  One row per transport and session says which renewal   *)
(* capability is current; a rotation consumes it and issues the next one.  *)
(*                                                                         *)
(* A capability is known by its generation and the second it was issued    *)
(* in: its token identity is derived from the root and the generation, and *)
(* its expiry from the second.  A lease is the current capability, the one *)
(* consumed to obtain it, and whether the row exists.  A rotation is one   *)
(* transaction holding the call, the binding and the lease row, so it is   *)
(* one step.                                                               *)
(***************************************************************************)

(* The overlap is a small part of the lifetime: five minutes of thirty. *)
LeaseAssumption ==
  /\ TTL \in Nat
  /\ Overlap \in Nat \ {0}
  /\ 2 * Overlap < TTL

Capability(generation, issued) ==
  [generation |-> generation, issued |-> issued]

NoCapability == Capability(-1, 0)

Expires(c) == c.issued + TTL

RefreshAfter(c) == Expires(c) - Overlap

NoLease ==
  [bound |-> FALSE, current |-> NoCapability, consumed |-> NoCapability]

NewLease(c) ==
  [bound |-> TRUE, current |-> c, consumed |-> NoCapability]

(***************************************************************************)
(* What rotateCapabilityLease finds for a request that presents "c" and    *)
(* asks for the generation after it, in the order of its checks.  The      *)
(* consumed capability is recognised before the current one is asked for,  *)
(* and only while it has not expired itself.                               *)
(***************************************************************************)
MutantRotationStatus(lease, c, active, now) ==
  CASE ~active -> "not_found"
    [] active /\ ~lease.bound -> "not_found"
    [] active /\ lease.bound /\ now >= Expires(c) -> "expired"
    [] OTHER -> IF c = lease.current
                THEN IF now < RefreshAfter(c) THEN "too_early" ELSE "rotated"
                ELSE "conflict"

RotationStatus(lease, c, active, now) ==
  CASE ~active -> "not_found"
    [] active /\ ~lease.bound -> "not_found"
    [] active /\ lease.bound /\ now >= Expires(c) -> "expired"
    [] OTHER ->
         CASE lease.current.generation = c.generation + 1 /\ lease.consumed = c ->
                "replayed"
           [] ~(lease.current.generation = c.generation + 1
                  /\ lease.consumed = c)
              /\ lease.current # c -> "conflict"
           [] OTHER -> IF now < RefreshAfter(lease.current)
                       THEN "too_early"
                       ELSE "rotated"

(***************************************************************************)
(* The row after it: only a first rotation moves it, and the new           *)
(* capability is issued in the second of the rotation.                     *)
(***************************************************************************)
Rotated(lease, now) ==
  [lease EXCEPT
     !.current = Capability(lease.current.generation + 1, now),
     !.consumed = lease.current]

AfterRotation(lease, c, active, now) ==
  IF RotationStatus(lease, c, active, now) = "rotated"
  THEN Rotated(lease, now)
  ELSE lease

(***************************************************************************)
(* What a granted rotation returns: the capability that is now current.    *)
(***************************************************************************)
Granted(status) == status \in {"rotated", "replayed"}

VARIABLES
  clock,    \* the server's clock
  server,   \* active: the call is active and its stream bound; lease: its row
  sent,     \* requests the server may handle: the exchange, and rotations
            \* by the capability they present
  reply,    \* the answer on its way to the bridge
  bridge    \* the session

vars == <<clock, server, sent, reply, bridge>>

Phases == {"start", "bootstrapping", "open", "closing", "settled", "closed"}

Reports ==
  {"bootstrap_committed", "rotation_committed", "rotation_settled",
   "rotation_failed", "bootstrap_unknown", "rotation_unknown"}

NoReply == [kind |-> "none", status |-> "none", cap |-> NoCapability]

Answer(kind, status, cap) == [kind |-> kind, status |-> status, cap |-> cap]

Capabilities ==
  [generation : -1 .. MaxClock, issued : 0 .. MaxClock]

(***************************************************************************)
(* The session:                                                            *)
(*   cap       capabilityState                                             *)
(*   scope     generation of the journal's event capability; -1: no journal*)
(*   authority generation of the authority client; -1: none                *)
(*   retired   capabilities of authority clients kept for running batches  *)
(*   exchange  a bootstrap is pending (bootstrapPromise)                   *)
(*   attempt   the attempt of the pending rotation; 0: none is pending     *)
(*   refresh   the refresh timer is armed                                  *)
(*   failures  capabilityRotationFailures                                  *)
(*   window    bootstrapSettlementOpen                                     *)
(*   unknown   capabilityRotationUnknownAtShutdown                         *)
(*   reports   what the journal, or failing that the log, says of them     *)
(***************************************************************************)
NewSession ==
  [phase |-> "start", cap |-> NoCapability, scope |-> -1, authority |-> -1,
   retired |-> {}, exchange |-> FALSE, attempt |-> 0, refresh |-> FALSE,
   failures |-> 0, window |-> TRUE, unknown |-> FALSE, reports |-> {}]

Init ==
  /\ clock = Lag
  /\ server = [active |-> TRUE, lease |-> NoLease]
  /\ sent = [exchange |-> FALSE, rotations |-> {}]
  /\ reply = NoReply
  /\ bridge = NewSession

Now == clock - Lag

Closing == bridge.phase \in {"closing", "settled", "closed"}

(***************************************************************************)
(* record: without a journal nothing is recorded, and neither is anything  *)
(* after it was sealed.                                                    *)
(***************************************************************************)
Recorded(b, what) ==
  IF b.scope = -1 \/ b.phase = "closed"
  THEN b
  ELSE [b EXCEPT !.reports = @ \cup {what}]

(***************************************************************************)
(* fatal and shutdown: the timers are cleared, a pending rotation is       *)
(* aborted and counts as unknown until it says otherwise, and every        *)
(* authority client is closed.                                             *)
(***************************************************************************)
ShutDown(b, pending) ==
  [b EXCEPT !.phase = "closing", !.refresh = FALSE, !.unknown = pending,
            !.authority = -1, !.retired = {}]

(***************************************************************************)
(* handleStart.                                                            *)
(***************************************************************************)
HandleStart ==
  /\ bridge.phase = "start"
  /\ bridge' = [bridge EXCEPT !.phase = "bootstrapping", !.exchange = TRUE]
  /\ sent' = [sent EXCEPT !.exchange = TRUE]
  /\ UNCHANGED <<clock, server, reply>>

(***************************************************************************)
(* The session route: bindSession binds the stream and issues generation   *)
(* 0; an exact repetition returns the generation that is current now.      *)
(***************************************************************************)
BindSession ==
  LET lease == IF server.lease.bound
               THEN server.lease
               ELSE NewLease(Capability(0, clock))
  IN  /\ sent.exchange
      /\ server' = IF server.active THEN [server EXCEPT !.lease = lease]
                   ELSE server
      /\ \/ reply' = reply
         \/ /\ bridge.exchange
            /\ reply = NoReply
            /\ reply' = IF server.active
                        THEN Answer("exchange", "bound", lease.current)
                        ELSE Answer("exchange", "rejected", NoCapability)
      /\ UNCHANGED <<clock, sent, bridge>>

(***************************************************************************)
(* createSession accepts only generation 0, with an expiry no further away *)
(* than the lifetime of a capability.                                      *)
(***************************************************************************)
BootstrapAcceptable(c) ==
  /\ c.generation = 0
  /\ RefreshAfter(c) > Now
  /\ Expires(c) <= Now + TTL

(***************************************************************************)
(* exchangeAndConnect on an accepted answer.  The journal exists from then *)
(* on; a session that is closing writes what happened and goes no further. *)
(* A provider configuration that is refused ends the session.              *)
(***************************************************************************)
Authenticated(b, c) ==
  [b EXCEPT !.cap = c, !.scope = c.generation, !.exchange = FALSE]

BootstrapAnswered ==
  /\ bridge.exchange
  /\ reply.kind = "exchange"
  /\ reply.status = "bound"
  /\ BootstrapAcceptable(reply.cap)
  /\ LET b == Authenticated(bridge, reply.cap)
     IN  CASE ~bridge.window ->
                bridge' = [bridge EXCEPT !.exchange = FALSE]
           [] bridge.window /\ Closing ->
                bridge' = Recorded(b, "bootstrap_committed")
           [] OTHER ->
                \/ bridge' = [b EXCEPT !.phase = "open", !.refresh = TRUE,
                                       !.authority = reply.cap.generation]
                \/ bridge' = ShutDown(b, FALSE)
  /\ reply' = NoReply
  /\ UNCHANGED <<clock, server, sent>>

(***************************************************************************)
(* createSession fails: an answer that is refused or not acceptable, a     *)
(* timeout, a network error, or the abort at the end of the window.  It is *)
(* not attempted again.                                                    *)
(***************************************************************************)
BootstrapFails ==
  /\ bridge.exchange
  /\ bridge' = IF Closing
               THEN [bridge EXCEPT !.exchange = FALSE]
               ELSE ShutDown([bridge EXCEPT !.exchange = FALSE], FALSE)
  /\ reply' = NoReply
  /\ UNCHANGED <<clock, server, sent>>

(***************************************************************************)
(* The rotation route for a request that presents "c".  The answer may be  *)
(* lost, and the database may be unavailable (503).                        *)
(***************************************************************************)
ServeRotation(c) ==
  LET status == RotationStatus(server.lease, c, server.active, clock)
      lease == AfterRotation(server.lease, c, server.active, clock)
  IN  /\ c \in sent.rotations
      /\ server' = [server EXCEPT !.lease = lease]
      /\ \/ reply' = reply
         \/ /\ bridge.attempt > 0
            /\ bridge.cap = c
            /\ reply = NoReply
            /\ reply' = Answer("rotation", status,
                               IF Granted(status) THEN lease.current
                               ELSE NoCapability)
      /\ UNCHANGED <<clock, sent, bridge>>

(***************************************************************************)
(* validateResponse of the rotation client.                                *)
(***************************************************************************)
RotationAcceptable(c) ==
  /\ c.generation = bridge.cap.generation + 1
  /\ RefreshAfter(c) > Now
  /\ Expires(c) > Expires(bridge.cap)
  /\ Expires(c) <= Now + TTL

(***************************************************************************)
(* The refresh timer: rotateCapabilities.  One rotation is pending at a    *)
(* time, and none is started before the refresh time or after the expiry.  *)
(***************************************************************************)
RotateCapabilities ==
  /\ bridge.phase = "open"
  /\ bridge.refresh
  /\ bridge.attempt = 0
  /\ Now >= RefreshAfter(bridge.cap)
  /\ IF Now >= Expires(bridge.cap)
     THEN bridge' = ShutDown(bridge, FALSE) /\ sent' = sent
     ELSE /\ bridge' = [bridge EXCEPT !.attempt = 1, !.refresh = FALSE]
          /\ sent' = [sent EXCEPT !.rotations = @ \cup {bridge.cap}]
  /\ UNCHANGED <<clock, server, reply>>


HandleCapabilityExpiry ==
  /\ bridge.phase = "open"
  /\ Now >= Expires(bridge.cap)
  /\ bridge' = ShutDown(bridge, bridge.attempt > 0)
  /\ UNCHANGED <<clock, server, sent, reply>>

(***************************************************************************)
(* performCapabilityRotation when the rotation client fails: the session   *)
(* ends if the capability expired, and otherwise tries again later.  The   *)
(* rotation is still pending when it ends the session.                     *)
(***************************************************************************)
RotationFailed(b) ==
  LET failed == Recorded([b EXCEPT !.attempt = 0, !.failures = @ + 1],
                         "rotation_failed")
  IN  IF Now >= Expires(b.cap)
      THEN ShutDown(failed, TRUE)
      ELSE [failed EXCEPT !.refresh = TRUE]

(***************************************************************************)
(* An attempt ends without an answer, or with one that may be repeated     *)
(* (425 and the server's own failures).  The client repeats the same       *)
(* request, with the same key, until its attempts are used up; the timeout *)
(* of the whole rotation ends it earlier.                                  *)
(***************************************************************************)
AttemptFails ==
  /\ bridge.phase = "open"
  /\ bridge.attempt > 0
  /\ bridge.failures < MaxFailures
  /\ reply.status \in {"none", "too_early"}
  /\ \/ /\ bridge.attempt < MaxAttempts
        /\ Now < Expires(bridge.cap)
        /\ bridge' = [bridge EXCEPT !.attempt = @ + 1]
     \/ bridge' = RotationFailed(bridge)
  /\ reply' = NoReply
  /\ UNCHANGED <<clock, server, sent>>

(***************************************************************************)
(* An answer that may not be repeated: the request was refused, or the     *)
(* bundle is not acceptable.                                               *)
(***************************************************************************)
RotationRefused ==
  /\ bridge.phase = "open"
  /\ bridge.attempt > 0
  /\ bridge.failures < MaxFailures
  /\ reply.kind = "rotation"
  /\ reply.status # "too_early"
  /\ ~(Granted(reply.status) /\ RotationAcceptable(reply.cap))
  /\ bridge' = IF reply.status = "expired"
               THEN ShutDown(Recorded([bridge EXCEPT !.attempt = 0],
                                      "rotation_failed"), TRUE)
               ELSE RotationFailed(bridge)
  /\ reply' = NoReply
  /\ UNCHANGED <<clock, server, sent>>

(***************************************************************************)
(* An acceptable bundle in time: the journal and the authority client move *)
(* to it together, and the old client serves the running batches until its *)
(* capability expires.  If the journal refuses the new scope, the new      *)
(* client is closed and the rotation has failed.                           *)
(***************************************************************************)
Installed(b, c) ==
  [b EXCEPT !.cap = c, !.scope = c.generation, !.authority = c.generation,
            !.retired = @ \cup {b.cap}, !.attempt = 0, !.failures = 0,
            !.refresh = TRUE]

RotationAnswered ==
  /\ bridge.phase = "open"
  /\ bridge.attempt > 0
  /\ reply.kind = "rotation"
  /\ Granted(reply.status)
  /\ RotationAcceptable(reply.cap)
  /\ IF Now >= Expires(bridge.cap)
     THEN bridge' = ShutDown(bridge, TRUE)
     ELSE \/ bridge' = Installed(bridge, reply.cap)
          \/ /\ bridge.failures < MaxFailures
             /\ bridge' = RotationFailed(bridge)
  /\ reply' = NoReply
  /\ UNCHANGED <<clock, server, sent>>

(***************************************************************************)
(* retireAuthorityClient's timer.                                          *)
(***************************************************************************)
CloseRetired(c) ==
  /\ c \in bridge.retired
  /\ Now >= Expires(c)
  /\ bridge' = [bridge EXCEPT !.retired = @ \ {c}]
  /\ UNCHANGED <<clock, server, sent, reply>>

(***************************************************************************)
(* shutdown from outside: the caller hangs up, a socket closes, the bridge *)
(* is stopped.                                                             *)
(***************************************************************************)
Shutdown ==
  /\ ~Closing
  /\ bridge' = ShutDown(bridge, bridge.attempt > 0)
  /\ UNCHANGED <<clock, server, sent, reply>>

(***************************************************************************)
(* The pending rotation settles while the session is closing.  An answer   *)
(* that was already read is recorded and not installed; otherwise the      *)
(* abort wins, and nothing is known.                                       *)
(***************************************************************************)
RotationCommittedInShutdown ==
  /\ Closing
  /\ bridge.attempt > 0
  /\ reply.kind = "rotation"
  /\ Granted(reply.status)
  /\ RotationAcceptable(reply.cap)
  /\ Now < Expires(bridge.cap)
  /\ bridge' = Recorded([bridge EXCEPT !.attempt = 0, !.unknown = FALSE],
                        "rotation_committed")
  /\ reply' = NoReply
  /\ UNCHANGED <<clock, server, sent>>

RotationAborted ==
  /\ Closing
  /\ bridge.attempt > 0
  /\ bridge' = Recorded([bridge EXCEPT !.attempt = 0], "rotation_settled")
  /\ reply' = NoReply
  /\ UNCHANGED <<clock, server, sent>>

(***************************************************************************)
(* settleOwnedOperationsForShutdown ends when both exchanges settled or at *)
(* its deadline, which closes the window before anything else.  What is    *)
(* still unknown is recorded, or logged when there is no journal.          *)
(***************************************************************************)
Unknown(b) ==
  (IF b.exchange THEN {"bootstrap_unknown"} ELSE {})
    \cup (IF b.attempt > 0 \/ b.unknown THEN {"rotation_unknown"} ELSE {})

SettleOwnedOperations ==
  /\ bridge.phase = "closing"
  /\ bridge' = [bridge EXCEPT !.phase = "settled", !.window = FALSE,
                              !.reports = @ \cup Unknown(bridge)]
  /\ UNCHANGED <<clock, server, sent, reply>>

(***************************************************************************)
(* The rest of performShutdown: the running tool batches are waited for,   *)
(* session.ended is recorded and the journal is sealed.                    *)
(***************************************************************************)
FinishShutdown ==
  /\ bridge.phase = "settled"
  /\ bridge' = [bridge EXCEPT !.phase = "closed"]
  /\ UNCHANGED <<clock, server, sent, reply>>

(***************************************************************************)
(* The call ends on the server, or the stream is marked stopped.           *)
(***************************************************************************)
EndCall ==
  /\ server.active
  /\ server' = [server EXCEPT !.active = FALSE]
  /\ UNCHANGED <<clock, sent, reply, bridge>>

Tick ==
  /\ clock < MaxClock
  /\ clock' = clock + 1
  /\ UNCHANGED <<server, sent, reply, bridge>>

Next ==
  \/ HandleStart
  \/ BindSession
  \/ BootstrapAnswered
  \/ BootstrapFails
  \/ \E c \in sent.rotations : ServeRotation(c)
  \/ RotateCapabilities
  \/ HandleCapabilityExpiry
  \/ AttemptFails
  \/ RotationRefused
  \/ RotationAnswered
  \/ \E c \in bridge.retired : CloseRetired(c)
  \/ Shutdown
  \/ RotationCommittedInShutdown
  \/ RotationAborted
  \/ SettleOwnedOperations
  \/ FinishShutdown
  \/ EndCall
  \/ Tick

Spec == Init /\ [][Next]_vars

-----------------------------------------------------------------------------
TypeOK ==
  /\ clock \in 0 .. MaxClock
  /\ server \in [active : BOOLEAN,
                 lease : [bound : BOOLEAN, current : Capabilities,
                          consumed : Capabilities]]
  /\ sent \in [exchange : BOOLEAN, rotations : SUBSET Capabilities]
  /\ reply.kind \in {"none", "exchange", "rotation"}
  /\ bridge \in
       [phase : Phases, cap : Capabilities, scope : -1 .. MaxClock,
        authority : -1 .. MaxClock, retired : SUBSET Capabilities,
        exchange : BOOLEAN, attempt : 0 .. MaxAttempts, refresh : BOOLEAN,
        failures : 0 .. MaxFailures, window : BOOLEAN, unknown : BOOLEAN,
        reports : SUBSET Reports]

(***************************************************************************)
(* However many answers were lost, an open session can still renew: while  *)
(* the call is active and its capability has not expired, the server never *)
(* finds its request in conflict, and what the server would grant is newer *)
(* than what the session holds and not yet due for renewal                 *)
(* (rotateCapabilityLease's replay against validateResponse).              *)
(***************************************************************************)
RetriesSucceed ==
  LET status == RotationStatus(server.lease, bridge.cap, server.active, clock)
      grant == AfterRotation(server.lease, bridge.cap, server.active,
                             clock).current
  IN  bridge.phase = "open" =>
        /\ status # "conflict"
        /\ Granted(status) =>
             /\ grant.generation = bridge.cap.generation + 1
             /\ Expires(grant) > Expires(bridge.cap)
             /\ RefreshAfter(grant) > clock

(***************************************************************************)
(* The journal, the authority client and the renewal capability of an open *)
(* session are of one generation (performCapabilityRotation swaps them     *)
(* together), so no event or tool call is sent under mixed authority.      *)
(***************************************************************************)
OneGeneration ==
  bridge.phase = "open" =>
    /\ bridge.scope = bridge.cap.generation
    /\ bridge.authority = bridge.cap.generation

(***************************************************************************)
(* What the terminal evidence says of an exchange is true: a rotation      *)
(* reported as committed was made, and one the server made that the closed *)
(* session never installed is reported as committed, unknown or failed.    *)
(***************************************************************************)
RotationIsReported ==
  LET ahead == server.lease.current.generation > bridge.cap.generation
  IN  /\ "rotation_committed" \in bridge.reports => ahead
      /\ (bridge.phase = "closed" /\ bridge.scope >= 0 /\ ahead) =>
           bridge.reports \cap {"rotation_committed", "rotation_unknown",
                                "rotation_failed"} # {}

NothingLate ==
  ~bridge.window =>
    /\ bridge'.cap = bridge.cap
    /\ bridge'.scope = bridge.scope
    /\ bridge.exchange => "bootstrap_unknown" \in bridge.reports

(***************************************************************************)
(* Once the settlement window is closed no late answer changes the session *)
(* (exchangeAndConnect: "no late response may mutate the session"); and an *)
(* exchange that was pending then was reported unknown.                    *)
(***************************************************************************)
WindowHolds == [][NothingLate]_vars

(***************************************************************************)
(* A session whose capability expired is closed, whatever happens on the   *)
(* network.                                                                *)
(***************************************************************************)
ExpiredSessionsEnd ==
  (bridge.phase = "open" /\ Now >= Expires(bridge.cap))
    ~> bridge.phase = "closed"
=============================================================================
