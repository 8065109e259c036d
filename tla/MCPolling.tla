----------------------------- MODULE MCPolling -------------------------------
(* Instance of Polling for TLC: the order of the monitors. *)
EXTENDS Polling

TwoPages == <<"AXS", "CN">>
=============================================================================
