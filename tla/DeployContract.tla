--------------------------- MODULE DeployContract ---------------------------
(***************************************************************************)
(* What the runtime promises the node about deployments. An attempt to     *)
(* deploy an artifact is either refused at once or accepted and resolved   *)
(* later, once and for good; an artifact becomes deployed only after an    *)
(* attempt at it was reported successful, and stays deployed.              *)
(***************************************************************************)
CONSTANTS
    Artifacts,
    NoArtifact,
    Attempts

VARIABLES
    owner,      \* the artifact each attempt is at
    outcome,    \* "none", "waiting", "ok" or "err", for each attempt
    deployed    \* the artifacts the runtime can start services of

vars == <<owner, outcome, deployed>>

Init ==
    /\ owner = [i \in Attempts |-> NoArtifact]
    /\ outcome = [i \in Attempts |-> "none"]
    /\ deployed = {}

\* The node asks for an artifact. A runtime that is not ready refuses in the
\* same step.
Ask(i, a) ==
    /\ owner[i] = NoArtifact
    /\ owner' = [owner EXCEPT ![i] = a]
    /\ \E o \in {"none", "err"} : outcome' = [outcome EXCEPT ![i] = o]
    /\ UNCHANGED deployed

Answer(i) ==
    /\ owner[i] # NoArtifact
    /\ outcome[i] = "none"
    /\ \E o \in {"waiting", "err"} : outcome' = [outcome EXCEPT ![i] = o]
    /\ UNCHANGED <<owner, deployed>>

Resolve(i) ==
    /\ outcome[i] = "waiting"
    /\ \E o \in {"ok", "err"} : outcome' = [outcome EXCEPT ![i] = o]
    /\ UNCHANGED <<owner, deployed>>

\* The node may learn of the success before a service can be started.
Publish(i) ==
    /\ outcome[i] = "ok"
    /\ deployed' = deployed \union {owner[i]}
    /\ UNCHANGED <<owner, outcome>>

Next == \E i \in Attempts :
    \/ \E a \in Artifacts : Ask(i, a)
    \/ Answer(i)
    \/ Resolve(i)
    \/ Publish(i)

Spec == Init /\ [][Next]_vars
=============================================================================
