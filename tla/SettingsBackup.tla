--------------------------- MODULE SettingsBackup ---------------------------
(***************************************************************************)
(* The settings of the driver on their way to flash and to the card, and   *)
(* back after the flash was erased.  A setter saves at once and writes the *)
(* backup itself, or asks for a save later; the loop then hands a          *)
(* serialized copy to a writer task through a queue of one.  Both write    *)
(* under the card's mutex.  At boot the backup is restored when the flash  *)
(* is empty, and refreshed when it differs; then the references to         *)
(* profiles that are gone are cleared, in flash only.                      *)
(*                                                                         *)
(* Settings are the set of edits they hold, those of the driver and those  *)
(* the boot makes: an edit changes a field, and what it replaced counts as *)
(* held.  The flash is one durable value (SettingsNvs shows how far).  The *)
(* temporary file is not a file here: every write begins by removing it    *)
(* and no boot reads it.                                                   *)
(***************************************************************************)
EXTENDS Integers, FiniteSets

CONSTANTS
    MaxEdits, MaxBoots,    \* bounds
    Nothing,               \* no file, no payload, an empty flash
    Exposures              \* see Exposed

\* What the properties are not claimed for, unless it is listed:
\* a direct save while the writer task still has an older copy; an import
\* file found by a boot with an empty flash; a restore that fails.
ExposureKinds == {"overtaking", "importAfterWipe", "restoreFails"}

ASSUME BoundAssumption == MaxEdits \in Nat /\ MaxBoots \in Nat
ASSUME NothingAssumption == \A s \in SUBSET (1 .. MaxEdits) : s # Nothing
ASSUME ExposureAssumption == Exposures \subseteq ExposureKinds

VARIABLES
    settings, nvs,                 \* settings_; what load() would read
    main,                          \* where the boot, or the loop, is
    found,                         \* bestBackupDoc
    persistPending,                \* deferredPersistPending_
    pendingRequest, writerRetryPending, queue,    \* gDeferredSettingsBackupState
    held,                          \* the payload of the writer task
    writer, step,                  \* who writes the backup, and how far it is
    primary, prev,                 \* the two files
    \* bounds and history
    edits, boots,
    onCard,       \* what the last complete write put on the card
    missed,       \* writes since then that did not complete
    owed,         \* the backup that was there when the flash was found empty
    unasked       \* changed by the boot in flash, with no backup asked for

pipeline == <<persistPending, pendingRequest, writerRetryPending>>
writing  == <<writer, step, primary, prev, onCard, missed, unasked>>
vars == <<settings, nvs, main, found, pipeline, queue, held, writing, edits, boots, owed>>

---------------------------------------------------------------------------

Edits     == 1 .. MaxEdits
Settings  == SUBSET Edits
Contents  == Settings \union {Nothing}
WriteSteps == {"write", "clearPrev", "rotate", "promote", "verify"}
MainSteps == {"run", "backup", "import", "restore", "healing", "compare", "refreshing",
              "validate"}

\* Where the loop is in backupToSD(), and where it goes on.
Saving == {"backup", "healing", "refreshing"}
After  == CASE main = "healing"    -> "compare"
            [] main = "refreshing" -> "validate"
            [] OTHER               -> "run"

Defaults == {}
Exposed(e) == e \in Exposures

\* loadBestBackupDocument(): of two files with the same schema, the first.
Best == IF primary # Nothing THEN primary ELSE prev

\* backupAppearsInSyncWithNvs() compares some fields only: those of the odd edits.
CoreFields(s)  == {e \in s : e % 2 = 1}
InSync(b, s)   == CoreFields(b) = CoreFields(s)

\* What is being written: the copy the task took, or the settings of now.
Payload == IF writer = "task" THEN held ELSE settings

TypeOK ==
    /\ settings \in Settings /\ nvs \in Contents
    /\ main \in MainSteps /\ found \in Contents
    /\ persistPending \in BOOLEAN /\ pendingRequest \in BOOLEAN
    /\ writerRetryPending \in BOOLEAN
    /\ queue \in Contents /\ held \in Contents
    /\ writer \in {"none", "loop", "task"} /\ step \in WriteSteps
    /\ primary \in Contents /\ prev \in Contents
    /\ edits \in 0 .. MaxEdits /\ boots \in 0 .. MaxBoots
    /\ onCard \in Contents \ {Nothing} /\ missed \in 0 .. 2
    /\ owed \in Settings /\ unasked \in Settings
    /\ writer = "task" => held # Nothing
    /\ writer = "loop" => main \in Saving

Init ==
    /\ settings = Defaults /\ nvs \in {Nothing, Defaults}
    /\ main = "run" /\ found = Nothing
    /\ persistPending = FALSE /\ pendingRequest = FALSE /\ writerRetryPending = FALSE
    /\ queue = Nothing /\ held = Nothing
    /\ writer = "none" /\ step = "write" /\ primary = Nothing /\ prev = Nothing
    /\ edits = 0 /\ boots = 0 /\ onCard = {} /\ missed = 0 /\ owed = {} /\ unasked = {}

---------------------------------------------------------------------------
(* Saves *)

At(m) == main = m

Edit ==
    /\ At("run") /\ edits < MaxEdits
    /\ edits' = edits + 1
    /\ settings' = settings \union {edits + 1}
    /\ UNCHANGED <<found, queue, held, writing, boots, owed>>

Overtakes == queue # Nothing \/ held # Nothing

\* save(): a persist that fails is the end of it.
Save ==
    /\ Overtakes => Exposed("overtaking")
    /\ Edit
    /\ UNCHANGED <<pendingRequest, writerRetryPending>>
    /\ \/ nvs' = settings' /\ persistPending' = FALSE /\ main' = "backup"
       \/ UNCHANGED <<nvs, persistPending, main>>

\* saveDeferredBackup()
SaveDeferredBackup ==
    /\ Edit
    /\ UNCHANGED <<main, writerRetryPending>>
    /\ \/ nvs' = settings' /\ persistPending' = FALSE /\ pendingRequest' = TRUE
       \/ UNCHANGED <<nvs, persistPending, pendingRequest>>

\* requestDeferredPersist()
RequestDeferredPersist ==
    /\ Edit
    /\ persistPending' = TRUE
    /\ UNCHANGED <<nvs, main, pendingRequest, writerRetryPending>>

\* serviceDeferredPersist(): when it fails it is tried again later.
ServiceDeferredPersist ==
    /\ At("run") /\ persistPending
    /\ nvs' = settings /\ persistPending' = FALSE /\ pendingRequest' = TRUE
    /\ UNCHANGED <<settings, main, found, writerRetryPending, queue, held, writing, edits, boots,
                   owed>>

\* serviceDeferredBackup(): a copy of the settings of now displaces the one in
\* the queue.
Requested == pendingRequest \/ writerRetryPending

StillPending_Lost == FALSE     \* slip: a request that cannot be served is dropped

StillPending == TRUE

\* Slip: a copy that is already in the queue stays there.
Enqueued_Older == IF queue # Nothing THEN queue ELSE settings

Enqueued == settings

ServiceDeferredBackup ==
    /\ At("run") /\ Requested
    /\ writerRetryPending' = FALSE
    /\ UNCHANGED <<settings, nvs, main, found, persistPending, held, writing, edits, boots, owed>>
    /\ \/ writer = "none" /\ pendingRequest' = FALSE /\ queue' = Enqueued
       \/ pendingRequest' = StillPending /\ UNCHANGED queue

---------------------------------------------------------------------------
(* The writer task, and the write itself *)

Receive ==
    /\ held = Nothing /\ queue # Nothing
    /\ held' = queue /\ queue' = Nothing
    /\ UNCHANGED <<settings, nvs, main, found, pipeline, writing, edits, boots, owed>>

\* writeDeferredBackupPayloadNow(), backupToSD(): the mutex is waited for.
StartWrite(w) ==
    /\ writer = "none" /\ (IF w = "task" THEN held # Nothing ELSE main \in Saving)
    /\ writer' = w /\ step' = "write"
    /\ UNCHANGED <<settings, nvs, main, found, pipeline, queue, held, primary, prev, edits,
                   boots, onCard, missed, owed, unasked>>

WriteEnds(ok) ==
    /\ writer' = "none" /\ step' = "write"
    /\ held' = IF writer = "task" THEN Nothing ELSE held
    /\ main' = IF writer = "loop" THEN After ELSE main
    /\ writerRetryPending' = (writerRetryPending \/ (writer = "task" /\ ~ok))
    /\ onCard' = IF ok THEN Payload ELSE onCard
    /\ missed' = IF ok THEN 0 ELSE IF missed < 2 THEN missed + 1 ELSE 2
    /\ unasked' = IF ok THEN {} ELSE unasked
    /\ UNCHANGED <<settings, nvs, found, persistPending, pendingRequest, queue, edits, boots,
                   owed>>

GoTo(s) ==
    /\ step' = s
    /\ UNCHANGED <<settings, nvs, main, found, pipeline, queue, held, writer, edits, boots,
                   onCard, missed, owed, unasked>>

Step(s) == writer # "none" /\ step = s

\* What becomes of the file that is replaced.
SetAside_Removed == Nothing

SetAside == primary

\* writeSerializedBackupAtomically(), when all goes well ...
GoesOn(s) ==
    /\ Step(s)
    /\ \/ s = "write"     /\ GoTo("clearPrev") /\ UNCHANGED <<primary, prev>>
       \/ s = "clearPrev" /\ GoTo("rotate") /\ prev' = Nothing /\ UNCHANGED primary
       \/ s = "rotate"    /\ GoTo("promote") /\ prev' = SetAside /\ primary' = Nothing
       \/ s = "promote"   /\ GoTo("verify") /\ primary' = Payload /\ UNCHANGED prev
       \/ s = "verify"    /\ WriteEnds(TRUE) /\ UNCHANGED <<primary, prev>>

\* ... and when an operation fails.  The old file is put back, unless that fails.
PutBack ==
    \/ primary' = prev /\ prev' = Nothing
    \/ primary' = Nothing /\ UNCHANGED prev

WriteFails ==
    /\ \E s \in {"write", "rotate"} : Step(s) /\ UNCHANGED <<primary, prev>>
    /\ step = "rotate" => primary # Nothing
    /\ WriteEnds(FALSE)

PromoteFails ==
    /\ Step("promote") /\ PutBack /\ WriteEnds(FALSE)

VerifyFails ==
    /\ Step("verify") /\ PutBack /\ WriteEnds(FALSE)

---------------------------------------------------------------------------
(* Power loss, reflash and boot *)

\* The next boot loads what is in flash; it may find the flash erased.
PowerLoss(erased) ==
    /\ boots < MaxBoots
    /\ boots' = boots + 1
    /\ nvs' = IF erased THEN Nothing ELSE nvs
    /\ settings' = IF nvs' = Nothing THEN Defaults ELSE nvs'
    /\ main' = "import" /\ found' = Nothing
    /\ persistPending' = FALSE /\ pendingRequest' = FALSE /\ writerRetryPending' = FALSE
    /\ queue' = Nothing /\ held' = Nothing /\ writer' = "none" /\ step' = "write"
    /\ missed' = IF writer # "none" /\ missed < 2 THEN missed + 1 ELSE missed
    /\ owed' = IF nvs' = Nothing /\ Best # Nothing THEN Best ELSE {}
    /\ unasked' = {}
    /\ UNCHANGED <<primary, prev, onCard, edits>>

BootGoesOn ==
    UNCHANGED <<pipeline, queue, held, writer, step, primary, prev, onCard, missed, boots, owed>>

\* The next edit of a field that is compared, which the boot makes.
CoreEdit(e) == e \in {edits + 1, edits + 2} /\ e \in CoreFields(Edits) /\ edits' = e

\* applyBackupDocument(): the fields the document has, then a save that may fail.
Applied(s, kept) == settings' = s /\ nvs' = IF kept THEN s ELSE nvs

\* importFromSD(), when there is a file to import, which the driver wrote.  Then
\* checkAndRestoreFromSD() begins with reading the backup.
Import ==
    /\ At("import") /\ edits < MaxEdits
    /\ nvs = Nothing => Exposed("importAfterWipe")
    /\ edits' = edits + 1
    /\ \E kept \in BOOLEAN : Applied(settings \union {edits + 1}, kept)
    /\ main' = "restore" /\ found' = Best
    /\ UNCHANGED unasked /\ BootGoesOn

NoImport ==
    /\ At("import") /\ main' = "restore" /\ found' = Best
    /\ UNCHANGED <<settings, nvs, edits, unasked>> /\ BootGoesOn

\* checkNeedsRestore()
NeedsRestore_Never == FALSE     \* slip: settings that are the defaults pass for stored ones

NeedsRestore == nvs = Nothing

\* checkAndRestoreFromSD(): the backup into an empty flash, and written again.
Restore ==
    /\ At("restore") /\ NeedsRestore /\ Best # Nothing
    /\ Applied(Best, TRUE) /\ main' = "refreshing" /\ found' = Nothing
    /\ UNCHANGED <<edits, unasked>> /\ BootGoesOn

\* There is none, or the mutex is refused for want of memory, or the flash
\* cannot be written (the settings have been changed by then).
RestoreFails ==
    /\ At("restore") /\ NeedsRestore
    /\ \/ Best = Nothing /\ UNCHANGED <<settings, nvs>>
       \/ Best # Nothing /\ Exposed("restoreFails") /\ UNCHANGED <<settings, nvs>>
       \/ Best # Nothing /\ Applied(Best, FALSE)
    /\ main' = "validate" /\ found' = Nothing
    /\ UNCHANGED <<edits, unasked>> /\ BootGoesOn

\* With healthy flash the WiFi client's keys may want healing, which ends with
\* save(): without a backup when the flash cannot be written.
Heal ==
    /\ At("restore") /\ ~NeedsRestore
    /\ \E e \in Edits, kept \in BOOLEAN :
          /\ CoreEdit(e) /\ Applied(settings \union {e}, kept)
          /\ main' = IF kept THEN "healing" ELSE "compare"
    /\ UNCHANGED <<found, unasked>> /\ BootGoesOn

\* Then the backup is made, or refreshed when what was read before the healing
\* differs in the fields that are compared.
Refresh ==
    /\ At("restore") \/ At("compare")
    /\ ~NeedsRestore
    /\ main' = IF found # Nothing /\ InSync(found, settings) THEN "validate" ELSE "refreshing"
    /\ found' = Nothing
    /\ UNCHANGED <<settings, nvs, edits, unasked>> /\ BootGoesOn

\* validateProfileReferences(): the names of profiles that do not load are cleared
\* and the settings saved, which may fail; no backup is made or asked for.
Validate ==
    /\ At("validate") /\ main' = "run"
    /\ \/ UNCHANGED <<settings, nvs, edits, unasked>>
       \/ \E e \in Edits, kept \in BOOLEAN :
             /\ CoreEdit(e) /\ Applied(settings \union {e}, kept)
             /\ unasked' = {e}
    /\ UNCHANGED found /\ BootGoesOn

Saves == Save \/ SaveDeferredBackup \/ RequestDeferredPersist
Boot  == Import \/ NoImport \/ Restore \/ RestoreFails \/ Heal \/ Refresh \/ Validate
Write == \/ \E w \in {"loop", "task"} : StartWrite(w)
         \/ \E s \in WriteSteps : GoesOn(s)
         \/ WriteFails \/ PromoteFails \/ VerifyFails

Next == \/ Saves \/ ServiceDeferredPersist \/ ServiceDeferredBackup \/ Receive \/ Write \/ Boot
        \/ \E erased \in BOOLEAN : PowerLoss(erased)

\* The loop and the task go on, and a card that is tried again and again works
\* in the end, at each of its operations.
Fairness ==
    /\ WF_vars(Boot) /\ WF_vars(Receive)
    /\ SF_vars(ServiceDeferredBackup /\ pendingRequest' = FALSE)
    /\ \A w \in {"loop", "task"} : SF_vars(StartWrite(w))
    /\ WF_vars(GoesOn("clearPrev"))
    /\ \A s \in WriteSteps \ {"clearPrev"} : SF_vars(GoesOn(s))

Spec  == Init /\ [][Next]_vars /\ Fairness

---------------------------------------------------------------------------
(* Properties *)

\* From the first complete backup on, a boot finds one at every moment of a
\* write, unless the write before it was cut short or failed as well: that one
\* may have left the old copy as the only file, and the next one removes it
\* before it has replaced it.
Unfinished == missed + (IF writer # "none" THEN 1 ELSE 0)

SomeBackupLoads == onCard # {} /\ Unfinished < 2 => Best # Nothing

\* When nothing is asked for or under way and the last write succeeded, the
\* backup has every setting that is in flash; after a loss of power, those whose
\* fields the boot compares.  Until the next write it lacks the references that
\* this boot has cleared.
Settled ==
    /\ At("run") /\ ~persistPending /\ ~Requested /\ queue = Nothing /\ held = Nothing
    /\ writer = "none" /\ missed = 0

CardIsCurrent ==
    Settled /\ nvs # Nothing =>
        CoreFields(nvs) \ unasked \subseteq onCard /\ (boots = 0 => nvs \subseteq onCard)

\* A boot that finds the flash empty and a backup on the card ends with the
\* settings of that backup, but for what it changes itself.
RestoredWhenEmpty == main \notin {"import", "restore"} => owed \subseteq settings

\* A backup that was asked for later is on the card in the end, with every edit
\* made before it was asked for, whatever fails on the way, unless power goes.
RequestReachesCard ==
    \A e \in Edits : Requested /\ e \in settings ~> e \in onCard \/ main = "import"
=============================================================================
