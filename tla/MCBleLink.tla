----------------------------- MODULE MCBleLink -----------------------------
(* BleLink over small limits; the configurations give them their values. *)
EXTENDS BleLink
=============================================================================
