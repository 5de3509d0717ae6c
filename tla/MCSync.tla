------------------------------- MODULE MCSync -------------------------------
(* Instances of FailoverSync for TLC. *)
EXTENDS FailoverSync

CONSTANTS east, west

\* west is the higher cluster ID.
IDs == [c \in Cluster |-> IF c = east THEN 1 ELSE 2]
=============================================================================
