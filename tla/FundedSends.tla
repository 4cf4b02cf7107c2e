---------------------------- MODULE FundedSends ----------------------------
(***************************************************************************)
(* Priced, single-attempt sends to a provider: the offline cost quotes of  *)
(* src/web/lib/operator-pricing.ts and the provider-neutral communication  *)
(* boundary of src/web/lib/communications/provider-adapter.ts with the two *)
(* adapters of operator-provider-adapters.ts.                              *)
(*                                                                         *)
(* An operator's request is quoted under the deployment's configuration,   *)
(* and the quote is approved.  Workers later dispatch it, possibly several *)
(* at once and possibly after the deployment was reconfigured; the         *)
(* provider may refuse the message, lose it, or take it while the answer   *)
(* is lost.  A receipt is then reconciled by reading the provider or by a  *)
(* verified webhook, and the terminal state goes to a compare-and-set      *)
(* store.  A funded call is different: its job may start long after the    *)
(* quote expired, against ceilings that changed meanwhile.                 *)
(*                                                                         *)
(* Digests and keyed bindings are modelled by the values they commit to.   *)
(* The authority claimer and the terminal store are parameters of the      *)
(* boundary and follow the contract its interfaces state.                  *)
(***************************************************************************)
EXTENDS Integers, Sequences, FiniteSets, FiniteSetsExt, SequencesExt

CONSTANTS
    Approvals,      \* the approved actions, each with a quote of its own
    Request,        \* what an approval asks for: [kind, seconds, targets, message]
    Workers,        \* invocations of dispatchCommunication
    Readers,        \* invocations of the reconciliation entry points
    Configurations, \* the configurations the deployment can be given
    Contract,       \* how the operation is reconciled
    FractionDigits, \* decimal places of a micro amount (6)
    MaxSafe,        \* Number.MAX_SAFE_INTEGER
    Horizon         \* bound on the clock

SendsAssumption ==
    /\ FractionDigits \in Nat /\ MaxSafe \in Nat /\ Horizon \in Nat
    /\ Configurations # {}
    /\ Contract \in {"authoritative-read", "verified-webhook-and-authoritative-read"}

VARIABLES
    clock,
    env,      \* the deployment's configuration
    quote,    \* the approved quote of each approval, or NoQuote
    claimed,  \* the approvals whose reservation was claimed
    message,  \* what the provider knows of each approval's message
    charge,   \* what the sends of an approval can cost at most
    worker, receipts,
    reader, store

vars == <<clock, env, quote, claimed, message, charge, worker, receipts, reader, store>>

NoQuote == [made |-> FALSE]

----------------------------------------------------------------------------
(* Amounts and quantities                                                  *)

\* parseUsdToMicroUsd: the digits of a plain decimal, the fraction padded
\* with zeros; -1 stands for the exception.
ParseUsd(amount) ==
    LET padded == amount.fraction
                    \o [i \in 1 .. FractionDigits - Len(amount.fraction) |-> 0]
        value == FoldLeft(LAMBDA sum, digit : 10 * sum + digit, amount.whole, padded)
    IN  IF Len(amount.fraction) <= FractionDigits /\ value <= MaxSafe THEN value ELSE -1

SafeAdd(a, b) == IF a >= 0 /\ b >= 0 /\ a <= MaxSafe - b THEN a + b ELSE -1

SafeMultiply(a, b) ==
    IF a < 0 \/ b < 0 THEN -1
    ELSE IF a = 0 \/ b = 0 THEN 0
    ELSE IF a <= MaxSafe \div b THEN a * b ELSE -1

\* The smallest number of parts that hold n units.
PartsOf(n, size) == (n + size - 1) \div size

\* smsSegments: septets while every character is in the GSM alphabet (an
\* extended one takes two), UCS-2 units otherwise (an astral one takes two).
SmsSegments(m) ==
    IF m.other + m.astral = 0
    THEN LET septets == m.basic + 2 * m.extended
         IN  IF septets <= 160 THEN 1 ELSE PartsOf(septets, 153)
    ELSE LET units == m.basic + m.extended + m.other + 2 * m.astral
         IN  IF units <= 70 THEN 1 ELSE PartsOf(units, 67)

\* createVoiceCostQuote: a started minute is billed.
BilledMinutes(seconds) == (seconds - 1) \div 60 + 1

\* createVoiceCampaignCostQuote: every target is called at most once.
CampaignMinutes(r) == SafeMultiply(BilledMinutes(r.seconds), r.targets)

\* The quantity each of the create...CostQuote functions hands to buildQuote.
Units(r) ==
    CASE r.kind = "sms_segment"   -> SmsSegments(r.message)
      [] r.kind = "voice_minute"  -> CampaignMinutes(r)
      [] OTHER                    -> 1

----------------------------------------------------------------------------
(* Quotes                                                                  *)

\* readCommonConfig and readConfiguredMicroUsd; the margin may be zero.
Priced(c) ==
    /\ ParseUsd(c.unit) > 0
    /\ ParseUsd(c.margin) >= 0
    /\ ParseUsd(c.cap) > 0

\* buildQuote and quoteCore: the reservation, its validity, and everything
\* the digests of the quote commit to.
BuildQuote(r, c, at) ==
    [made        |-> TRUE,
     config      |-> c,
     units       |-> Units(r),
     reservation |-> SafeAdd(SafeMultiply(Units(r), ParseUsd(c.unit)), ParseUsd(c.margin)),
     at          |-> at,
     until       |-> at + c.ttl]

\* The checks of buildQuote and validatePriceQuote.
Quotable(r, c) ==
    /\ Priced(c)
    /\ Units(r) > 0
    /\ BuildQuote(r, c, 0).reservation > 0
    /\ BuildQuote(r, c, 0).reservation <= ParseUsd(c.cap)

\* quoteCommunication, and the quote an approval of another kind stores.
QuoteCommunication(a) ==
    /\ ~quote[a].made
    /\ Quotable(Request[a], env)
    /\ quote' = [quote EXCEPT ![a] = BuildQuote(Request[a], env, clock)]
    /\ UNCHANGED <<clock, env, claimed, message, charge, worker, receipts, reader, store>>

\* exactQuote: the quote built again, now, as of the time it was given.
ExactQuote(q, r, c) == Quotable(r, c) /\ q = BuildQuote(r, c, q.at)

\* assertOperatorCostQuoteUsable: at its end a quote has expired.
Fresh(q) == q.until > clock

\* assertVoiceQuoteCoversCurrentPricing: the expiry is irrelevant, the
\* current ceilings must still fit into the approved reservation.
CoversCurrentPricing(q, r, c) ==
    LET current == BuildQuote(r, c, 0).reservation
    IN  /\ r.seconds <= c.duration
        /\ Priced(c)
        /\ current >= 0
        /\ current <= ParseUsd(c.cap)
        /\ ParseUsd(c.unit) <= ParseUsd(q.config.unit)
        /\ ParseUsd(c.margin) <= ParseUsd(q.config.margin)
        /\ current <= q.reservation

----------------------------------------------------------------------------
(* What a provider bills: counted, not computed by the formulas above.     *)

\* The minutes a call of this many seconds has begun.
MinutesBegun(seconds) == Cardinality({m \in 0 .. seconds : 60 * m < seconds})

\* The fewest segments whose capacities hold the message.
FewestSegments(units, single, part) ==
    IF units <= single THEN 1
    ELSE Min({n \in 2 .. units : n * part >= units})

Billed(r) ==
    CASE r.kind = "sms_segment" ->
            IF r.message.other + r.message.astral = 0
            THEN FewestSegments(r.message.basic + 2 * r.message.extended, 160, 153)
            ELSE FewestSegments(r.message.basic + r.message.extended + r.message.other
                                    + 2 * r.message.astral, 70, 67)
      [] r.kind = "voice_minute" ->
            r.targets * Max({MinutesBegun(s) : s \in 1 .. r.seconds})
      [] OTHER -> 1

Bill(r, c) == Billed(r) * ParseUsd(c.unit)

----------------------------------------------------------------------------
(* Dispatch                                                                *)

Idle == [pc |-> "idle"]

At(w, pc) == worker[w].pc = pc

\* dispatchCommunication up to the claim: the quote has not expired and is
\* exactly the quote the present configuration gives.  An exception ends it.
BeginDispatch(w, a) ==
    /\ At(w, "idle") /\ quote[a].made /\ Request[a].kind # "voice_minute"
    /\ IF Fresh(quote[a]) /\ ExactQuote(quote[a], Request[a], env)
       THEN worker' = [worker EXCEPT ![w] =
                         [pc |-> "claim", for |-> a, config |-> env, began |-> clock]]
       ELSE worker' = [worker EXCEPT ![w] = [pc |-> "thrown"]]
    /\ UNCHANGED <<clock, env, quote, claimed, message, charge, receipts, reader, store>>

\* claimForDispatch: the reservation is consumed for its sole attempt; a
\* concurrent loser gets null and throws.
Claim(w) ==
    /\ At(w, "claim")
    /\ IF worker[w].for \in claimed
       THEN worker' = [worker EXCEPT ![w] = [pc |-> "thrown"]] /\ UNCHANGED claimed
       ELSE /\ claimed' = claimed \cup {worker[w].for}
            /\ worker' = [worker EXCEPT ![w].pc = "send"]
    /\ UNCHANGED <<clock, env, quote, message, charge, receipts, reader, store>>

\* validateAuthority refuses a claim that is not for this reservation or
\* has expired; the reservation stays consumed.
AuthorityRefused(w) ==
    /\ At(w, "send")
    /\ worker' = [worker EXCEPT ![w] = [pc |-> "thrown"]]
    /\ UNCHANGED <<clock, env, quote, claimed, message, charge, receipts, reader, store>>

\* adapter.dispatch: the request leaves for the provider.
Send(w) ==
    LET a == worker[w].for
    IN  /\ At(w, "send")
        /\ message' = [message EXCEPT ![a] = "flight"]
        /\ charge' = [charge EXCEPT ![a] = @ + Bill(Request[a], worker[w].config)]
        /\ worker' = [worker EXCEPT ![w].pc = "wait"]
    /\ UNCHANGED <<clock, env, quote, claimed, receipts, reader, store>>

\* The provider: a request on its way is lost, refused or taken, and a
\* message that was taken ends one way or the other.
Provider(a) ==
    /\ \/ /\ message[a] = "flight"
          /\ \E s \in {"lost", "refused", "queued"} : message' = [message EXCEPT ![a] = s]
       \/ /\ message[a] = "queued"
          /\ \E s \in {"delivered", "failed"} : message' = [message EXCEPT ![a] = s]
    /\ UNCHANGED <<clock, env, quote, claimed, charge, worker, receipts, reader, store>>

Taken(a) == message[a] \in {"queued", "delivered", "failed"}

Receipt(a, c, status) == [for |-> a, config |-> c, status |-> status]

\* The answer reaches the worker.  An exception, an invalid shape or an
\* identity that does not match is an indeterminate receipt.
Answer(w) ==
    /\ At(w, "wait")
    /\ \E status \in {"indeterminate"}
                       \cup (IF Taken(worker[w].for) THEN {"accepted"} ELSE {})
                       \cup (IF message[worker[w].for] = "refused" THEN {"rejected"} ELSE {}) :
          receipts' = receipts \cup {Receipt(worker[w].for, worker[w].config, status)}
    /\ worker' = [worker EXCEPT ![w] = [pc |-> "done"]]
    /\ UNCHANGED <<clock, env, quote, claimed, message, charge, reader, store>>

\* The worker's process ends; what it claimed stays claimed.
Crash(w) ==
    /\ worker[w].pc \in {"claim", "send", "wait"}
    /\ worker' = [worker EXCEPT ![w] = [pc |-> "done"]]
    /\ UNCHANGED <<clock, env, quote, claimed, message, charge, receipts, reader, store>>

\* A funded call's job claims its row and crosses into the provider when the
\* approved reservation covers today's ceilings, whenever that is.
PlaceFundedCall(a) ==
    /\ Request[a].kind = "voice_minute" /\ quote[a].made /\ a \notin claimed
    /\ CoversCurrentPricing(quote[a], Request[a], env)
    /\ claimed' = claimed \cup {a}
    /\ charge' = [charge EXCEPT ![a] = @ + Bill(Request[a], env)]
    /\ UNCHANGED <<clock, env, quote, message, worker, receipts, reader, store>>

----------------------------------------------------------------------------
(* Reconciliation                                                          *)

\* reconciliationContext: an accepted or indeterminate receipt whose
\* bindings the present configuration reproduces.
MayReconcile(r) == r.status \in {"accepted", "indeterminate"} /\ r.config = env

\* What a provider says of a message: which one, and its state.
Evidence == {[of |-> b, status |-> message[b]] : b \in {x \in Approvals : Taken(x)}}

\* adapter.reconcile: a read by message identity or by idempotency key.
ReadProvider(i, r) ==
    /\ reader[i].pc = "idle" /\ r \in receipts /\ MayReconcile(r)
    /\ \E e \in Evidence \cup {[of |-> r.for, status |-> "unknown"]}
                         \cup (IF Taken(r.for) THEN {}
                               ELSE {[of |-> r.for, status |-> "authoritative_absent"]}) :
          reader' = [reader EXCEPT ![i] = [pc |-> "read", receipt |-> r, evidence |-> e]]
    /\ UNCHANGED <<clock, env, quote, claimed, message, charge, worker, receipts, store>>

\* reconcileCommunicationWebhook: only for an accepted receipt, only when the
\* operation's contract admits it, and only for a terminal event.
HearWebhook(i, r) ==
    /\ reader[i].pc = "idle" /\ r \in receipts /\ MayReconcile(r)
    /\ r.status = "accepted"
    /\ Contract = "verified-webhook-and-authoritative-read"
    /\ \E e \in Evidence :
          /\ e.status \in {"delivered", "failed"}
          /\ reader' = [reader EXCEPT ![i] = [pc |-> "hook", receipt |-> r, evidence |-> e]]
    /\ UNCHANGED <<clock, env, quote, claimed, message, charge, worker, receipts, store>>

\* validateReconciliationIdentity: account and destination may be shared by
\* two messages; the key, and the identity of an accepted one, are not.
IdentityMatches(r, e) == e.of = r.for

\* The store's compare-and-set: a terminal state is written once; the same
\* one again is a replay or, out of order, refused like a different one.
Applies(a, status) ==
    \/ store[a] = "none" /\ store' = [store EXCEPT ![a] = status]
    \/ store[a] = status /\ UNCHANGED store

Tells(i, answer) ==
    reader' = [reader EXCEPT ![i] = [pc |-> "done", for |-> reader[i].receipt.for,
                                     answer |-> answer]]

\* The rest of reconcileCommunication and of the webhook: absence and
\* ignorance are passed on, a pending message makes an accepted receipt, a
\* terminal one is applied; whatever fails is "unknown" or an exception.
Reconcile(i) ==
    LET r == reader[i].receipt
        e == reader[i].evidence
        fails == IF reader[i].pc = "hook" THEN "thrown" ELSE "unknown"
    IN  /\ reader[i].pc \in {"read", "hook"}
        /\ \/ /\ e.status \in {"unknown", "authoritative_absent"}
              /\ Tells(i, e.status)
              /\ UNCHANGED <<receipts, store>>
           \/ /\ e.status = "queued" /\ IdentityMatches(r, e)
              /\ receipts' = receipts \cup {Receipt(r.for, r.config, "accepted")}
              /\ Tells(i, "pending")
              /\ UNCHANGED store
           \/ /\ e.status \in {"delivered", "failed"} /\ IdentityMatches(r, e)
              /\ Applies(r.for, e.status)
              /\ Tells(i, e.status)
              /\ UNCHANGED receipts
           \/ /\ e.status \in {"queued", "delivered", "failed"}
              /\ ~IdentityMatches(r, e) \/ store[r.for] # "none"
              /\ Tells(i, fails)
              /\ UNCHANGED <<receipts, store>>
        /\ UNCHANGED <<clock, env, quote, claimed, message, charge, worker>>

----------------------------------------------------------------------------
Reconfigure ==
    /\ \E c \in Configurations \ {env} : env' = c
    /\ UNCHANGED <<clock, quote, claimed, message, charge, worker, receipts, reader, store>>

Tick ==
    /\ clock < Horizon
    /\ clock' = clock + 1
    /\ UNCHANGED <<env, quote, claimed, message, charge, worker, receipts, reader, store>>

Init ==
    /\ clock = 0
    /\ env \in Configurations
    /\ quote = [a \in Approvals |-> NoQuote]
    /\ claimed = {}
    /\ message = [a \in Approvals |-> "none"]
    /\ charge = [a \in Approvals |-> 0]
    /\ worker = [w \in Workers |-> Idle]
    /\ receipts = {}
    /\ reader = [i \in Readers |-> Idle]
    /\ store = [a \in Approvals |-> "none"]

Next ==
    \/ \E a \in Approvals : QuoteCommunication(a) \/ Provider(a) \/ PlaceFundedCall(a)
    \/ \E w \in Workers :
          \/ \E a \in Approvals : BeginDispatch(w, a)
          \/ Claim(w) \/ AuthorityRefused(w) \/ Send(w) \/ Answer(w) \/ Crash(w)
    \/ \E i \in Readers :
          \/ \E r \in receipts : ReadProvider(i, r) \/ HearWebhook(i, r)
          \/ Reconcile(i)
    \/ Reconfigure
    \/ Tick

Spec == Init /\ [][Next]_vars

----------------------------------------------------------------------------
(* Properties                                                              *)

\* Every variable has its type.
TypeOK ==
    /\ clock \in 0 .. Horizon
    /\ env \in Configurations
    /\ claimed \subseteq Approvals
    /\ \A a \in Approvals :
          /\ message[a] \in {"none", "flight", "lost", "refused",
                             "queued", "delivered", "failed"}
          /\ store[a] \in {"none", "delivered", "failed"}
          /\ quote[a].made => quote[a].reservation \in 1 .. MaxSafe
    /\ \A w \in Workers :
          worker[w].pc \in {"idle", "claim", "send", "wait", "done", "thrown"}

\* What all the sends of an approval can be billed, counted by the provider's
\* rules under the configuration they were made with, is within the amount
\* that was quoted and approved, whatever was reconfigured and however many
\* workers dispatched the approval meanwhile.
SendsAreFunded ==
    \A a \in Approvals :
       /\ charge[a] > 0 => quote[a].made
       /\ quote[a].made => /\ charge[a] <= quote[a].reservation
                           /\ quote[a].reservation <= ParseUsd(quote[a].config.cap)

\* A receipt is true of its own message: an accepted one, also one made from
\* an indeterminate receipt by a later read, names a message the provider
\* took, a rejected one a message it refused, and both cannot exist.
ReceiptsAreTrue ==
    \A r \in receipts :
       /\ r.status = "accepted" => Taken(r.for)
       /\ r.status = "rejected" => message[r.for] = "refused"
       /\ r.config = quote[r.for].config

\* A terminal state that was stored or told is the state the provider holds
\* for that very message, although reads and webhooks of messages to the same
\* destination overlap and arrive late; and no one is told "pending" of a
\* message the provider never took.
TerminalsAreTrue ==
    /\ \A a \in Approvals : store[a] # "none" => message[a] = store[a]
    /\ \A i \in Readers :
          reader[i].pc = "done" =>
             /\ reader[i].answer \in {"delivered", "failed"} =>
                   store[reader[i].for] = reader[i].answer
             /\ reader[i].answer = "pending" => Taken(reader[i].for)
=============================================================================
