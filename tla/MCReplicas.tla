----------------------------- MODULE MCReplicas -----------------------------
(* Two replicas of different versions: b's has one migration more. *)
EXTENDS Replicas

CONSTANTS a, b, m1, m2, m3
MCLists == [r \in Replicas |-> [system |-> <<m1>>, app |-> IF r = a THEN <<m2>> ELSE <<m3, m2>>]]
=============================================================================
