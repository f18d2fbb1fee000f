---------------------------- MODULE StoredValues ----------------------------
(* What the stores keep, opaque to them: settings, a list, a profile. *)

CONSTANTS Value, NoValue

\* A value of which some parts were not stored: they read as their defaults.
Incomplete(v) == [incomplete |-> v]
Remains == {Incomplete(v) : v \in Value}

ASSUME NoValueAssumption == NoValue \notin Value \union Remains
=============================================================================
