----------------------------- MODULE AtMostOnce ------------------------------
(***************************************************************************)
(* What the runtime's ledgers promise of work that has a durable identity   *)
(* (a provider's tool call, a flow action, a worker's effect): it is         *)
(* admitted before it acts, it acts at most once, and what is recorded of it *)
(* is true.  An outcome that nobody can vouch for is "unknown"; it may be    *)
(* decided later, and a decided outcome is final.                            *)
(***************************************************************************)
EXTENDS Naturals

CONSTANT Ids

VARIABLES phase,   \* "new", "admitted" or "recorded"
          outcome, \* "open", "unknown", "applied" or "absent"
          acted    \* whether the work has taken effect

onceVars == <<phase, outcome, acted>>

OnceInit ==
    /\ phase = [i \in Ids |-> "new"]
    /\ outcome = [i \in Ids |-> "open"]
    /\ acted = [i \in Ids |-> FALSE]

Admit(i) ==
    /\ phase[i] = "new"
    /\ phase' = [phase EXCEPT ![i] = "admitted"]
    /\ UNCHANGED <<outcome, acted>>

(* The work may take effect after others gave it up, but not once it is
   recorded as absent, and not twice. *)
Act(i) ==
    /\ phase[i] # "new"
    /\ outcome[i] \in {"open", "unknown"}
    /\ ~acted[i]
    /\ acted' = [acted EXCEPT ![i] = TRUE]
    /\ UNCHANGED <<phase, outcome>>

(* An outcome is recorded once; only an unknown one may be decided later. *)
Decide(i, o) ==
    /\ \/ phase[i] = "admitted"
       \/ phase[i] = "recorded" /\ outcome[i] = "unknown"
    /\ o \in {"unknown", "applied", "absent"}
    /\ o = "applied" => acted[i]
    /\ o = "absent" => ~acted[i]
    /\ phase' = [phase EXCEPT ![i] = "recorded"]
    /\ outcome' = [outcome EXCEPT ![i] = o]
    /\ UNCHANGED acted

OnceNext == \E i \in Ids : Admit(i) \/ Act(i) \/ \E o \in {"unknown", "applied", "absent"} : Decide(i, o)

OnceSpec == OnceInit /\ [][OnceNext]_onceVars
==============================================================================
