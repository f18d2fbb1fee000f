---------------------------- MODULE MCAlertTable ----------------------------
(* AlertTable with nothing exposed beside the run. *)
EXTENDS AlertTable

NoExposure == {}
LostOverTable == {"requestLostOverTable"}
=============================================================================
