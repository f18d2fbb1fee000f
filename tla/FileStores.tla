----------------------------- MODULE FileStores -----------------------------
(***************************************************************************)
(* Three stores of files on the card that are replaced by way of a         *)
(* temporary file: the backup of the BLE bonds, the list of V1 devices     *)
(* (both through promoteTempFileWithRollback) and a profile, which does    *)
(* the same by hand and keeps the file it replaced.  Every operation on a  *)
(* file may fail, and power may go between any two of them.  Only removing *)
(* a file for good is taken to succeed when the file is there.             *)
(*                                                                         *)
(* The content of a file is a value, or Torn when it was cut short and     *)
(* cannot be parsed.                                                       *)
(***************************************************************************)
EXTENDS Integers, StoredValues

CONSTANTS
    Absent, Torn,     \* no file; a file that cannot be parsed
    Stores,           \* the stores to look at
    ShortWrites       \* the stores whose card may fill up in the middle of a write

AllStores == {"bonds", "devices", "profile"}

ASSUME ContentAssumption ==
    /\ Absent \notin Value /\ Torn \notin Value
    /\ Absent # Torn
ASSUME StoresAssumption == Stores \subseteq AllStores /\ ShortWrites \subseteq Stores

VARIABLES
    store,              \* which of them this is
    tmp, live, prev,    \* the three files
    phase, value,        \* the call in progress and its value
    rotated,            \* liveExists of promoteTempFileWithRollback()
    outcome              \* how the last call ended

files == <<tmp, live, prev>>
filesVars == <<store, files, phase, value, rotated, outcome>>

---------------------------------------------------------------------------

Content == Value \union {Absent, Torn}
Phases   == {"idle", "open", "write", "clearPrev", "rotate", "promote", "cleanup",
            "removeLive", "removePrev"}

\* The writers that compare what was written with what should have been.
Checks(s) == s \in {"bonds", "profile"}
KeepsPrev == store = "profile"

\* loadJsonDocumentWithRollback(), loadBondBackup, and loadProfile(), which
\* takes the .bak only when there is no file at all.
LoadedFile == IF live \in Value THEN live
          ELSE IF prev \in Value /\ (live = Absent \/ store # "profile") THEN prev
          ELSE NoValue

FilesTypeOK ==
    /\ store \in Stores
    /\ tmp \in Content /\ live \in Content /\ prev \in Content
    /\ phase \in Phases /\ value \in Value \union {NoValue}
    /\ rotated \in BOOLEAN /\ outcome \in {"none", "stored", "failed"}

FilesInit ==
    /\ store \in Stores
    /\ tmp = Absent /\ live \in Value \union {Absent} /\ prev = Absent
    /\ phase = "idle" /\ value = NoValue /\ rotated = FALSE /\ outcome = "none"

During(s) == phase = s

Proceed(s) == phase' = s /\ UNCHANGED <<store, value, rotated, outcome>>

Finish(how) ==
    /\ phase' = "idle" /\ value' = NoValue /\ rotated' = FALSE /\ outcome' = how
    /\ UNCHANGED store

---------------------------------------------------------------------------
(* A save *)

Begin(first, v) ==
    /\ During("idle")
    /\ phase' = first /\ value' = v /\ outcome' = "none"
    /\ UNCHANGED <<store, files, rotated>>

Save(v) == Begin("open", v)

\* The temporary file is created empty.
OpenTmp ==
    /\ During("open")
    /\ UNCHANGED <<live, prev>>
    /\ \/ tmp' = Torn /\ Proceed("write")
       \/ UNCHANGED tmp /\ Finish("failed")

WriteTmp ==
    /\ During("write")
    /\ tmp' = value /\ UNCHANGED <<live, prev>> /\ Proceed("clearPrev")

\* The card is full: a writer that checks removes what it wrote and gives up.
WriteShort ==
    /\ During("write") /\ store \in ShortWrites
    /\ UNCHANGED <<live, prev>>
    /\ IF Checks(store) THEN tmp' = Absent /\ Finish("failed")
                        ELSE UNCHANGED tmp /\ Proceed("clearPrev")

\* Slip: the old copy is removed whatever there is.
ClearPrev_Always ==
    /\ During("clearPrev")
    /\ UNCHANGED <<tmp, live, store, value, outcome>>
    /\ rotated' = (live # Absent)
    /\ prev' = Absent
    /\ phase' = IF live # Absent THEN "rotate" ELSE "promote"

\* The old copy is removed only to make room for the live file.
ClearPrev ==
    /\ During("clearPrev")
    /\ UNCHANGED <<tmp, live, store, value, outcome>>
    /\ rotated' = (live # Absent)
    /\ IF live # Absent THEN prev' = Absent /\ phase' = "rotate"
                        ELSE UNCHANGED prev /\ phase' = "promote"

Rotate ==
    /\ During("rotate")
    /\ prev' = live /\ live' = Absent /\ UNCHANGED tmp /\ Proceed("promote")

\* A profile is replaced all the same.
RotateFails ==
    /\ During("rotate")
    /\ UNCHANGED <<live, prev>>
    /\ IF KeepsPrev THEN UNCHANGED tmp /\ Proceed("promote")
                    ELSE tmp' = Absent /\ Finish("failed")

Promote ==
    /\ During("promote")
    /\ live' = tmp /\ tmp' = Absent /\ UNCHANGED prev
    /\ IF KeepsPrev THEN Finish("stored") ELSE Proceed("cleanup")

RollsBack == live = Absent /\ prev # Absent /\ (rotated \/ KeepsPrev)

\* The old file is put back, unless that fails too.
PromoteFails ==
    /\ During("promote")
    /\ tmp' = Absent
    /\ \/ RollsBack /\ live' = prev /\ prev' = Absent
       \/ UNCHANGED <<live, prev>>
    /\ Finish("failed")

Cleanup ==
    /\ During("cleanup")
    /\ prev' = Absent /\ UNCHANGED <<tmp, live>> /\ Finish("stored")

---------------------------------------------------------------------------
(* Profiles are deleted, and looked after at boot and when they are read *)

Delete == store = "profile" /\ LoadedFile # NoValue /\ Begin("removeLive", NoValue)

RemoveLive ==
    /\ During("removeLive")
    /\ live' = Absent /\ UNCHANGED <<tmp, prev>> /\ Proceed("removePrev")

RemovePrev ==
    /\ During("removePrev")
    /\ prev' = Absent /\ UNCHANGED <<tmp, live>> /\ Finish("stored")

Restored(l, p) == live' = p /\ prev' = Absent

\* loadProfile()
LoadProfile ==
    /\ During("idle") /\ store = "profile" /\ live = Absent /\ prev # Absent
    /\ Restored(live, prev)
    /\ UNCHANGED <<tmp, store, phase, value, rotated, outcome>>

\* Power loss and boot.  recoverInterruptedSaves() removes the temporary file
\* of a profile and puts a .bak without its file back.
Remount ==
    /\ IF KeepsPrev
       THEN /\ tmp' = Absent
            /\ \/ live = Absent /\ prev # Absent /\ Restored(live, prev)
               \/ UNCHANGED <<live, prev>>
       ELSE UNCHANGED files
    /\ phase' = "idle" /\ value' = NoValue /\ rotated' = FALSE
    /\ outcome' = IF During("idle") THEN outcome ELSE "failed"
    /\ UNCHANGED store

Step == \/ OpenTmp \/ WriteTmp \/ WriteShort \/ ClearPrev \/ Rotate \/ RotateFails
        \/ Promote \/ PromoteFails \/ Cleanup \/ RemoveLive \/ RemovePrev

FilesNext == (\E v \in Value : Save(v)) \/ Delete \/ Step \/ LoadProfile \/ Remount

FilesSpec == FilesInit /\ [][FilesNext]_filesVars

---------------------------------------------------------------------------
(* Properties *)

\* A boot always reads the last file that was stored, whole, or the one of an
\* interrupted save: whichever operations fail and whenever power goes.
DurableFile == INSTANCE DurableValue WITH
    leaky   <- FALSE,
    durable <- LoadedFile,
    busy    <- phase # "idle",
    pending <- value,
    answer  <- outcome

FilesDurable == DurableFile!Spec
=============================================================================
