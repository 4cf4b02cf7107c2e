---------------------------- MODULE WorkerPromise ----------------------------
(***************************************************************************)
(* What the durable voice workers promise a conversation: a spawned worker *)
(* ends once, a worker that was asked to stop ends only as cancelled, and  *)
(* the conversation is told the outcome once, truthfully, or never.        *)
(***************************************************************************)
CONSTANTS Jobs

VARIABLES outcome, told

vars == <<outcome, told>>

Ended == {"succeeded", "failed", "cancelled", "indeterminate"}

Init ==
    /\ outcome = [w \in Jobs |-> "absent"]
    /\ told = [w \in Jobs |-> "nothing"]

Spawn(w) ==
    /\ outcome[w] = "absent"
    /\ outcome' = [outcome EXCEPT ![w] = "open"]
    /\ UNCHANGED told

Stop(w) ==
    /\ outcome[w] = "open"
    /\ outcome' = [outcome EXCEPT ![w] = "stopping"]
    /\ UNCHANGED told

End(w) ==
    /\ outcome[w] \in {"open", "stopping"}
    /\ \E o \in Ended : (outcome[w] = "stopping" => o = "cancelled") /\ outcome' = [outcome EXCEPT ![w] = o]
    /\ UNCHANGED told

\* The conversation may refuse a result that is no longer current; it cannot change another outcome.
Tell(w) ==
    /\ told[w] = "nothing"
    /\ outcome[w] \in Ended
    /\ \E t \in IF outcome[w] = "succeeded" THEN {"accepted", "refused"} ELSE {outcome[w]} :
          told' = [told EXCEPT ![w] = t]
    /\ UNCHANGED outcome

\* Messages that were handed out too often are given up, several at a time.
Abandon(gone) ==
    /\ \A w \in gone : told[w] = "nothing" /\ outcome[w] \in Ended
    /\ told' = [w \in Jobs |-> IF w \in gone THEN "never" ELSE told[w]]
    /\ UNCHANGED outcome

Next ==
    \/ \E w \in Jobs : Spawn(w) \/ Stop(w) \/ End(w) \/ Tell(w)
    \/ \E gone \in SUBSET Jobs : Abandon(gone)

Spec == Init /\ [][Next]_vars
==============================================================================
