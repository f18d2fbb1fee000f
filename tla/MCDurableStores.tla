-------------------------- MODULE MCDurableStores ---------------------------
(* The settings in flash and the stores on the card.  They share nothing, so a *)
(* behaviour moves one of them, chosen at the start.  Three values; the card   *)
(* is full only for the writers that notice.                                   *)
EXTENDS SettingsNvs, FileStores

CONSTANTS v1, v2, v3

MCValue       == {v1, v2, v3}
MCShortWrites == {"bonds", "profile"}

VARIABLE onCard

StoresInit ==
    /\ onCard \in BOOLEAN
    /\ Init /\ FilesInit
    /\ onCard => fault = "none" /\ ns = [n \in Namespaces |-> EmptyNs]
    /\ ~onCard => store = "bonds" /\ live = Absent

StoresNext ==
    \/ ~onCard /\ Next /\ UNCHANGED <<filesVars, onCard>>
    \/ onCard /\ FilesNext /\ UNCHANGED <<vars, onCard>>

StoresSpec == StoresInit /\ [][StoresNext]_<<vars, filesVars, onCard>>
=============================================================================
