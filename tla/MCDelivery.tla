----------------------------- MODULE MCDelivery -----------------------------
(* Delivery on small instances.  Monitor 1 finds the announcements, monitor *)
(* 2, when there is one, the rest.                                          *)
EXTENDS Delivery, TLC

MCMonitorOf ==
    [e \in Events |-> IF e \in Announcing \/ NumMonitors = 1 THEN 1 ELSE 2]

(* Chats differ in nothing but their names. *)
ChatSymmetry == Permutations(Chats)
=============================================================================
