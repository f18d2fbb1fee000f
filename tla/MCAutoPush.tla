----------------------------- MODULE MCAutoPush -----------------------------
(* AutoPush with three kinds of slots: everything set, nothing set, and a   *)
(* profile with only one of the two volumes.                                 *)
EXTENDS AutoPush

CONSTANTS p1

MCConfigs == { [profile |-> p1, mode |-> "logic", volume |-> "both"],
               [profile |-> NoProfile, mode |-> UnknownMode, volume |-> "noChange"],
               [profile |-> p1, mode |-> UnknownMode, volume |-> "half"] }
=============================================================================
