------------------------- MODULE TransitionPipeline -------------------------
(***************************************************************************)
(* What the transition state machine of one FailoverService promises       *)
(* (api/v1alpha1 TransitionStatus, docs/guide/architecture.md): the cluster*)
(* is in one direction, a transition takes it to the other one through the *)
(* phases in their order, and every completed transition, and nothing but  *)
(* a transition or an adopted remote revision, raises the generation.      *)
(***************************************************************************)
EXTENDS Integers

VARIABLES phase,   \* phase of the transition, "Idle" if there is none
          dir,     \* direction of the transition, "none" if there is none
          mode,    \* direction the cluster is in, "unset" before the first reconcile
          gen      \* activeGeneration

pvars == <<phase, dir, mode, gen>>

Directions == {"failover", "failback"}

PInit == phase = "Idle" /\ dir = "none" /\ mode = "unset" /\ gen = 0

\* The first reconcile takes the direction the spec has.
Baseline ==
    /\ phase = "Idle" /\ mode = "unset"
    /\ mode' \in Directions
    /\ gen' \in Nat /\ gen' >= gen
    /\ UNCHANGED <<phase, dir>>

\* A remote revision is adopted without, or ahead of, a transition.
AdoptRevision ==
    /\ phase = "Idle" /\ gen' \in Nat /\ gen' >= gen
    /\ UNCHANGED <<phase, dir, mode>>

\* A transition leads to the direction the cluster is not in.
Begin ==
    /\ phase = "Idle" /\ mode \in Directions
    /\ dir' \in Directions \ {mode}
    /\ phase' \in {"ExecutingPreActions", "UpdatingResources"}
    /\ UNCHANGED <<mode, gen>>

Follows(p, q) ==
    \/ p = "ExecutingPreActions" /\ q = "UpdatingResources"
    \/ p = "UpdatingResources"   /\ q = "FlushingConnections"
    \/ p = "FlushingConnections" /\ q = "ExecutingPostActions"

Advance == Follows(phase, phase') /\ UNCHANGED <<dir, mode, gen>>

\* Only after the switch, and the cluster is then in the transition's direction.
Complete ==
    /\ phase \in {"FlushingConnections", "ExecutingPostActions"}
    /\ phase' = "Idle" /\ dir' = "none"
    /\ mode' = dir
    /\ gen' \in Nat /\ gen' > gen

PNext == Baseline \/ AdoptRevision \/ Begin \/ Advance \/ Complete

PSpec == PInit /\ [][PNext]_pvars

=============================================================================
