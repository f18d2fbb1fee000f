--------------------------- MODULE MCWifiLifecycle ---------------------------
(* WifiLifecycle with a network at home and a phone's hotspot. *)
EXTENDS WifiLifecycle, TLC

CONSTANTS home, hotspot

MCNetworks == {home, hotspot}
=============================================================================
