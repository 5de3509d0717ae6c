------------------------- MODULE DirectionProtocol -------------------------
(***************************************************************************)
(* What clusters that keep one FailoverService in step promise (the        *)
(* status fields of api/v1alpha1 and docs/guide/architecture.md): each is  *)
(* in one direction and leaves it only by a transition to the other one,   *)
(* and a new generation is only ever made by completing a transition: a    *)
(* generation that is adopted is one another cluster has reached.          *)
(***************************************************************************)
EXTENDS Integers

CONSTANT Cluster

VARIABLES dir,    \* direction of each cluster's transition, "none" if there is none
          mode,   \* direction it is in, "unset" before its first reconcile
          gen     \* its activeGeneration

dvars == <<dir, mode, gen>>

Directions == {"failover", "failback"}

DInit ==
    /\ dir = [c \in Cluster |-> "none"]
    /\ mode = [c \in Cluster |-> "unset"]
    /\ gen = [c \in Cluster |-> 0]

\* The generation stays, or becomes a higher one that some cluster has reached.
Adopts(c) == \E d \in Cluster : \E g \in gen[c]..gen[d] : gen' = [gen EXCEPT ![c] = g]

\* The first reconcile takes the direction the spec has.
Baseline(c) ==
    /\ dir[c] = "none" /\ mode[c] = "unset"
    /\ \E m \in Directions : mode' = [mode EXCEPT ![c] = m]
    /\ Adopts(c)
    /\ dir' = dir

\* A revision is adopted without, or ahead of, a transition.
AdoptRevision(c) == dir[c] = "none" /\ Adopts(c) /\ UNCHANGED <<dir, mode>>

\* A transition leads to the direction the cluster is not in.
Begin(c) ==
    /\ dir[c] = "none" /\ mode[c] \in Directions
    /\ \E d \in Directions \ {mode[c]} : dir' = [dir EXCEPT ![c] = d]
    /\ UNCHANGED <<mode, gen>>

\* A transition ends where it was to lead, with a generation of its own or, if
\* another cluster wins at that moment, with the adopted one.
Complete(c) ==
    /\ dir[c] # "none"
    /\ mode' = [mode EXCEPT ![c] = dir[c]]
    /\ dir' = [dir EXCEPT ![c] = "none"]
    /\ gen' = [gen EXCEPT ![c] = @ + 1] \/ (Adopts(c) /\ gen' # gen)

DNext == \E c \in Cluster : Baseline(c) \/ AdoptRevision(c) \/ Begin(c) \/ Complete(c)

DSpec == DInit /\ [][DNext]_dvars

=============================================================================
