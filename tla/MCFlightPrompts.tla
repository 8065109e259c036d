-------------------------- MODULE MCFlightPrompts ---------------------------
(* FlightPrompts for a private chat and the admin's. *)
EXTENDS FlightPrompts, TLC

CONSTANTS own, admins, user, admin

MCChats == {own, admins}
MCUsers == {user, admin}
MCMembers == own :> {user} @@ admins :> {admin}

HandlerSymmetry == Permutations(Handlers)
=============================================================================
