------------------------------ MODULE MCBleProxy ------------------------------
(* BleProxy with a short queue of events. *)
EXTENDS BleProxy
=============================================================================
