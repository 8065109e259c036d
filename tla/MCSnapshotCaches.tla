--------------------------- MODULE MCSnapshotCaches --------------------------
(* Instance of SnapshotCaches for TLC: two origins of the flights. *)
EXTENDS SnapshotCaches

TwoOrigins == <<"MOW", "LED">>

=============================================================================
