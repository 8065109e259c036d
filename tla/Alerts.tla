------------------------------- MODULE Alerts -------------------------------
(***************************************************************************)
(* What DotaTicketWatch promises its subscribers, independently of         *)
(* monitors, locks, retries and restarts.                                  *)
(*                                                                         *)
(* An alert is broadcast in rounds.  A round fixes the audience of the     *)
(* alert: the chats that are subscribed when the round opens.  Copies go   *)
(* only to that audience.  An alert is settled once, and only when its     *)
(* whole audience has received it; a settled alert is never sent again.    *)
(*                                                                         *)
(* The promise is "at least once, to everyone who was subscribed": a chat  *)
(* that leaves during a round may still be served by it, and one that      *)
(* joins during a round waits for the next round, if there is one.         *)
(***************************************************************************)
CONSTANTS
    Chats,          \* Telegram chats that may subscribe
    Events          \* what the monitors can find: ticket sales, announcements

VARIABLES
    subscribers,    \* the chats subscribed now
    opened,         \* the events broadcast in at least one round
    audience,       \* audience[e]: the chats the latest round of e is for
    received,       \* received[e]: the chats that have at least one copy of e
    settled         \* the events that are over and done with

vars == <<subscribers, opened, audience, received, settled>>

Init ==
    /\ subscribers \in SUBSET Chats
    /\ opened = {}
    /\ audience = [e \in Events |-> {}]
    /\ received = [e \in Events |-> {}]
    /\ settled = {}

Join(c) ==
    /\ subscribers' = subscribers \cup {c}
    /\ UNCHANGED <<opened, audience, received, settled>>

Leave(c) ==
    /\ subscribers' = subscribers \ {c}
    /\ UNCHANGED <<opened, audience, received, settled>>

OpenRound(e) ==
    /\ e \notin settled
    /\ opened' = opened \cup {e}
    /\ audience' = [audience EXCEPT ![e] = subscribers]
    /\ UNCHANGED <<subscribers, received, settled>>

Deliver(c, e) ==
    /\ e \in opened \ settled
    /\ c \in audience[e]
    /\ received' = [received EXCEPT ![e] = @ \cup {c}]
    /\ UNCHANGED <<subscribers, opened, audience, settled>>

Settle(e) ==
    /\ e \in opened \ settled
    /\ audience[e] \subseteq received[e]
    /\ settled' = settled \cup {e}
    /\ UNCHANGED <<subscribers, opened, audience, received>>

Next ==
    \/ \E c \in Chats : Join(c) \/ Leave(c)
    \/ \E e \in Events : OpenRound(e) \/ Settle(e)
    \/ \E c \in Chats, e \in Events : Deliver(c, e)

Spec == Init /\ [][Next]_vars
=============================================================================
