---------------------------- MODULE MCObdRuntime ----------------------------
(* The sets the configuration names; the races stay out of the run. *)
EXTENDS ObdRuntime

NoRace == {}
LateLink == {"cancelLoses"}
LateRequest == {"requestOutlivesCall"}
=============================================================================
