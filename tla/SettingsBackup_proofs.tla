------------------------ MODULE SettingsBackup_proofs ------------------------
(***************************************************************************)
(* From the first complete backup on a boot finds one, unless two writes   *)
(* in a row did not end; a boot with an empty flash ends with what was in  *)
(* the backup it found; and once everything that was asked for has ended   *)
(* well, the card has what is in flash.  For any number of edits and of    *)
(* boots, and any interleaving of the loop, the writer task and the loss   *)
(* of power.                                                               *)
(***************************************************************************)
EXTENDS SettingsBackup, TLAPS

\* What the two files hold at each step of a write.  Step by step the write
\* uses up what the write before it has left.
FilesInStep ==
    /\ writer = "none" => step = "write"
    /\ step = "promote" => primary = Nothing
    /\ step = "verify"  => primary # Nothing

Covered ==
    onCard # {} =>
        /\ missed = 0 =>
              /\ step \in {"write", "clearPrev", "rotate"} => primary # Nothing
              /\ step \in {"promote", "verify"} => prev # Nothing
        /\ missed = 1 /\ writer = "none" => primary # Nothing \/ prev # Nothing

\* While a boot looks for a backup nothing writes one.
Looking == {"import", "restore", "compare", "validate"}

BootIsAlone ==
    /\ main \in Looking => writer = "none"
    /\ main \notin {"run", "backup"} => held = Nothing /\ queue = Nothing

OwedIsThere ==
    /\ main \in {"import", "restore"} =>
          owed = {} \/ (nvs = Nothing /\ Best # Nothing /\ owed = Best)
    /\ RestoredWhenEmpty

Inv == TypeOK /\ FilesInStep /\ Covered /\ BootIsAlone

\* The inductive invariant holds at first.
LEMMA InvInit == Init => Inv /\ OwedIsThere
<1> SUFFICES ASSUME Init PROVE Inv /\ OwedIsThere
    OBVIOUS
<1>0. {} \in Settings /\ {} # Nothing
      BY NothingAssumption DEF Settings, Edits
<1>1. edits \in 0 .. MaxEdits /\ boots \in 0 .. MaxBoots /\ missed \in 0 .. 2
      BY BoundAssumption DEF Init
<1>2. /\ settings \in Settings /\ nvs \in Contents /\ main \in MainSteps
      /\ found \in Contents /\ persistPending \in BOOLEAN /\ pendingRequest \in BOOLEAN
      /\ writerRetryPending \in BOOLEAN /\ queue \in Contents /\ held \in Contents
      /\ writer \in {"none", "loop", "task"} /\ step \in WriteSteps
      BY <1>0 DEF Init, Defaults, Contents, MainSteps, WriteSteps
<1>3. /\ primary \in Contents /\ prev \in Contents
      /\ onCard \in Contents \ {Nothing} /\ owed \in Settings /\ unasked \in Settings
      /\ writer # "task" /\ writer # "loop"
      BY <1>0 DEF Init, Contents
<1>4. TypeOK
      BY <1>1, <1>2, <1>3, Zenon DEF TypeOK
<1> QED
      BY <1>4
      DEF Init, Inv, FilesInStep, Covered, BootIsAlone, Looking, OwedIsThere, RestoredWhenEmpty

\* No settings are the same as nothing.
LEMMA SettingsAreSomething == \A s \in Settings : s # Nothing
BY NothingAssumption DEF Settings, Edits

\* What a writer puts down are settings.
LEMMA PayloadType == TypeOK /\ writer # "none" => Payload \in Settings
BY DEF TypeOK, Payload, Contents

\* What a boot chooses is the content of a file.
LEMMA BestType == TypeOK => Best \in Contents
BY DEF TypeOK, Best

\* A setter, and the loop.
LEMMA EditKeeps ==
    ASSUME TypeOK, Edit
    PROVE  /\ settings' \in Settings /\ edits' \in 0 .. MaxEdits /\ settings \subseteq settings'
           /\ main = "run" /\ UNCHANGED <<found, queue, held, writing, boots, owed>>
<1>1. edits' = edits + 1 /\ edits + 1 \in 0 .. MaxEdits /\ edits + 1 \in Edits
      BY BoundAssumption DEF Edit, TypeOK, Edits
<1> QED
      BY <1>1 DEF Edit, At, TypeOK, Settings

\* Saving in flash keeps the invariant,
LEMMA SavesKeep ==
    ASSUME Inv, Saves
    PROVE  Inv'
<1>1. Edit
      BY DEF Saves, Save, SaveDeferredBackup, RequestDeferredPersist
<1>2. /\ settings' \in Settings /\ edits' \in 0 .. MaxEdits
      /\ main = "run" /\ UNCHANGED <<found, queue, held, writing, boots, owed>>
      BY <1>1, EditKeeps DEF Inv
<1>3. /\ nvs' \in Contents /\ main' \in {"run", "backup"} /\ persistPending' \in BOOLEAN
      /\ pendingRequest' \in BOOLEAN /\ writerRetryPending' \in BOOLEAN
      BY <1>2 DEF Saves, Save, SaveDeferredBackup, RequestDeferredPersist, Inv, TypeOK, Contents
<1>4. writer # "loop"
      BY <1>2 DEF Inv, TypeOK, Saving
<1>5. TypeOK'
      BY <1>2, <1>3, <1>4 DEF Inv, TypeOK, writing, MainSteps
<1> QED
      BY <1>2, <1>3, <1>5 DEF Inv, FilesInStep, Covered, BootIsAlone, Looking, writing

\* The end of a write, however it ended.
LEMMA EndKeeps ==
    ASSUME TypeOK, NEW ok \in BOOLEAN, writer # "none", WriteEnds(ok),
           primary' \in Contents, prev' \in Contents
    PROVE  /\ TypeOK' /\ writer' = "none" /\ step' = "write"
           /\ missed' = IF ok THEN 0 ELSE IF missed < 2 THEN missed + 1 ELSE 2
           /\ main' \in {main, After} /\ queue' = queue
           /\ held' \in {held, Nothing} /\ onCard' = IF ok THEN Payload ELSE onCard
<1>1. Payload \in Settings
      BY PayloadType
<1>2. onCard' \in Contents \ {Nothing}
      BY <1>1, SettingsAreSomething DEF WriteEnds, TypeOK, Contents
<1>3. missed' \in 0 .. 2 /\ main' \in MainSteps /\ held' \in Contents /\ unasked' \in Settings
      BY DEF WriteEnds, TypeOK, MainSteps, After, Contents, Settings
<1>4. writerRetryPending' \in BOOLEAN
      BY DEF WriteEnds, TypeOK
<1> QED
      BY <1>2, <1>3, <1>4 DEF WriteEnds, TypeOK, WriteSteps

\* writing to the card keeps it,
LEMMA WriteKeeps ==
    ASSUME Inv, Write
    PROVE  Inv'
<1> USE DEF Inv, FilesInStep, Covered, BootIsAlone, Looking
<1>1. ASSUME NEW w \in {"loop", "task"}, StartWrite(w)
      PROVE  Inv'
      BY <1>1 DEF StartWrite, TypeOK, WriteSteps, Saving, pipeline
<1>2. ASSUME NEW s \in WriteSteps, GoesOn(s)
      PROVE  Inv'
      <2>1. CASE s = "write"
            BY <1>2, <2>1 DEF GoesOn, Step, GoTo, TypeOK, WriteSteps, pipeline
      <2>2. CASE s = "clearPrev"
            BY <1>2, <2>2 DEF GoesOn, Step, GoTo, TypeOK, WriteSteps, pipeline, Contents
      <2>3. CASE s = "rotate"
            BY <1>2, <2>3 DEF GoesOn, Step, GoTo, TypeOK, WriteSteps, pipeline, Contents, SetAside
      <2>4. CASE s = "promote"
            <3>1. Payload \in Settings /\ Payload # Nothing
                  BY <1>2, <2>4, PayloadType, SettingsAreSomething DEF GoesOn, Step
            <3> QED
                  BY <1>2, <2>4, <3>1 DEF GoesOn, Step, GoTo, TypeOK, WriteSteps, pipeline, Contents
      <2>5. CASE s = "verify"
            <3>1. writer # "none" /\ step = "verify" /\ WriteEnds(TRUE) /\ UNCHANGED <<primary, prev>>
                  BY <1>2, <2>5 DEF GoesOn, Step
            <3>2. /\ TypeOK' /\ writer' = "none" /\ step' = "write" /\ missed' = 0
                  /\ main' \in {main, After} /\ queue' = queue /\ held' \in {held, Nothing}
                  BY <3>1, EndKeeps DEF TypeOK
            <3> QED
                  BY <3>1, <3>2 DEF After
      <2> QED
            BY <2>1, <2>2, <2>3, <2>4, <2>5 DEF WriteSteps
<1>3. CASE WriteFails \/ PromoteFails \/ VerifyFails
      <2>1. writer # "none" /\ WriteEnds(FALSE) /\ primary' \in Contents /\ prev' \in Contents
            BY <1>3 DEF WriteFails, PromoteFails, VerifyFails, Step, PutBack, TypeOK, Contents
      <2>2. /\ TypeOK' /\ writer' = "none" /\ step' = "write"
            /\ missed' = (IF missed < 2 THEN missed + 1 ELSE 2)
            /\ main' \in {main, After} /\ queue' = queue /\ held' \in {held, Nothing}
            /\ onCard' = onCard
            BY <2>1, EndKeeps
      <2>3. missed \in 0 .. 2 /\ (missed' = 0 => FALSE) /\ (missed' = 1 => missed = 0)
            BY <2>2 DEF TypeOK
      <2>4. onCard # {} /\ missed = 0 => primary' # Nothing \/ prev' # Nothing
            BY <1>3 DEF WriteFails, PromoteFails, VerifyFails, Step, PutBack
      <2> QED
            BY <2>1, <2>2, <2>3, <2>4 DEF After
<1> QED
      BY <1>1, <1>2, <1>3 DEF Write

\* a boot keeps it,
LEMMA BootKeeps ==
    ASSUME Inv, Boot
    PROVE  Inv'
<1> USE DEF Import, NoImport, Restore, RestoreFails, Heal, Refresh, Validate
<1>0. main \in Looking /\ writer = "none" /\ held = Nothing /\ queue = Nothing
      BY DEF Boot, At, Inv, BootIsAlone, Looking
<1>1. BootGoesOn /\ main' \in MainSteps \ {"import", "backup"} /\ found' \in {found, Best, Nothing}
      BY DEF Boot, MainSteps
<1>2. /\ settings' \in Settings /\ nvs' \in Contents /\ edits' \in 0 .. MaxEdits
      /\ unasked' \in Settings
      <2>1. CASE Import
            <3>1. edits' \in 0 .. MaxEdits /\ edits + 1 \in Edits
                  BY <2>1, BoundAssumption DEF Inv, TypeOK, Edits
            <3>2. settings \union {edits + 1} \in Settings
                  BY <3>1 DEF Inv, TypeOK, Settings
            <3> QED
                  BY <2>1, <3>1, <3>2 DEF Applied, Inv, TypeOK, Contents
      <2>2. CASE NoImport \/ Refresh \/ (Validate /\ UNCHANGED <<settings, nvs, edits, unasked>>)
            BY <2>2 DEF Inv, TypeOK
      <2>3. CASE Restore \/ RestoreFails
            <3>1. Best \in Contents
                  BY BestType DEF Inv
            <3> QED
                  BY <2>3, <3>1 DEF Applied, Inv, TypeOK, Contents
      <2>4. ASSUME NEW e \in Edits, NEW kept \in BOOLEAN, CoreEdit(e),
                   Applied(settings \union {e}, kept), unasked' \in {unasked, {e}}
            PROVE  /\ settings' \in Settings /\ nvs' \in Contents /\ edits' \in 0 .. MaxEdits
                   /\ unasked' \in Settings
            <3>1. edits' \in 0 .. MaxEdits
                  BY <2>4, BoundAssumption DEF CoreEdit, Edits
            <3>2. settings \union {e} \in Settings /\ {e} \in Settings
                  BY DEF Inv, TypeOK, Settings
            <3> QED
                  BY <2>4, <3>1, <3>2 DEF Applied, Inv, TypeOK, Contents
      <2>5. CASE Heal
            BY <2>5, <2>4
      <2>6. CASE Validate
            BY <2>6, <2>2, <2>4
      <2> QED
            BY <2>1, <2>2, <2>3, <2>5, <2>6 DEF Boot
<1>3. found' \in Contents
      BY <1>1, BestType DEF Inv, TypeOK, Contents
<1> HIDE DEF Import, NoImport, Restore, RestoreFails, Heal, Refresh, Validate
<1> QED
      BY <1>0, <1>1, <1>2, <1>3
      DEF BootGoesOn, pipeline, Inv, TypeOK, FilesInStep, Covered, BootIsAlone

\* and a power loss, whatever it takes with it.
LEMMA PowerLossKeeps ==
    ASSUME Inv, NEW erased \in BOOLEAN, PowerLoss(erased)
    PROVE  Inv'
<1>1. Best \in Contents
      BY BestType DEF Inv
<1>2. nvs' \in Contents /\ settings' \in Settings /\ owed' \in Settings
      BY <1>1 DEF PowerLoss, Inv, TypeOK, Contents, Settings, Defaults
<1>3. boots' \in 0 .. MaxBoots
      BY BoundAssumption DEF PowerLoss, Inv, TypeOK
<1>4. missed \in 0 .. 2 /\ missed' = (IF writer # "none" /\ missed < 2 THEN missed + 1 ELSE missed)
      BY DEF PowerLoss, Inv, TypeOK
<1>5. TypeOK'
      <2>1. missed' \in 0 .. 2
            BY <1>4
      <2>2. /\ main' \in MainSteps /\ persistPending' \in BOOLEAN /\ pendingRequest' \in BOOLEAN
            /\ writerRetryPending' \in BOOLEAN /\ queue' \in Contents /\ held' \in Contents
            /\ writer' = "none" /\ step' \in WriteSteps
            /\ found' \in Contents /\ unasked' \in Settings
            BY DEF PowerLoss, MainSteps, WriteSteps, Contents, Settings
      <2>3. /\ primary' \in Contents /\ prev' \in Contents
            /\ onCard' \in Contents \ {Nothing} /\ edits' \in 0 .. MaxEdits
            BY DEF PowerLoss, Inv, TypeOK
      <2> QED
            BY <1>2, <1>3, <2>1, <2>2, <2>3, Zenon DEF TypeOK
<1>6. writer' = "none" /\ step' = "write" /\ UNCHANGED <<primary, prev, onCard>>
      BY DEF PowerLoss
<1>7. Covered'
      BY <1>4, <1>6 DEF Inv, Covered, FilesInStep, TypeOK, WriteSteps
<1> QED
      BY <1>5, <1>6, <1>7 DEF PowerLoss, Inv, FilesInStep, BootIsAlone

\* Every step keeps the invariant.
LEMMA InvStep == Inv /\ [Next]_vars => Inv'
<1> SUFFICES ASSUME Inv, [Next]_vars PROVE Inv'
    OBVIOUS
<1>1. CASE ServiceDeferredPersist
      BY <1>1 DEF ServiceDeferredPersist, At, Inv, TypeOK, FilesInStep, Covered, BootIsAlone,
                  Looking, Saving, writing, Contents
<1>2. CASE ServiceDeferredBackup
      BY <1>2 DEF ServiceDeferredBackup, At, StillPending, Enqueued, Inv, TypeOK, FilesInStep,
                  Covered, BootIsAlone, Looking, Saving, writing, Contents
<1>3. CASE Receive
      BY <1>3 DEF Receive, pipeline, Inv, TypeOK, FilesInStep, Covered, BootIsAlone, Looking,
                  writing, Contents
<1>4. CASE UNCHANGED vars
      BY <1>4 DEF vars, pipeline, writing, Inv, TypeOK, FilesInStep, Covered, BootIsAlone, Looking
<1> QED
      BY <1>1, <1>2, <1>3, <1>4, SavesKeep, WriteKeeps, BootKeeps, PowerLossKeeps DEF Next

\* Every variable keeps its type, for any bounds and whatever the device is
\* exposed to.
THEOREM TypeCorrect == Spec => []TypeOK
<1>1. Inv => TypeOK
      BY DEF Inv
<1> QED
      BY <1>1, InvInit, InvStep, PTL DEF Spec

\* writeSerializedBackupAtomically(): from the first complete backup on, a boot
\* finds one, unless the write before this one did not end either.
THEOREM ABackupIsThere == Spec => []SomeBackupLoads
<1>1. Inv => SomeBackupLoads
      BY DEF Inv, TypeOK, FilesInStep, Covered, SomeBackupLoads, Unfinished, Best, WriteSteps
<1> QED
      BY <1>1, InvInit, InvStep, PTL DEF Spec

---------------------------------------------------------------------------

\* What the second result needs: no import file in the boot that finds the
\* flash empty, and a restore that is not refused.
RestoreAllowed == Exposures \intersect {"importAfterWipe", "restoreFails"} = {}

\* No step loses the copy that a restore is owed.
LEMMA OwedStep ==
    ASSUME RestoreAllowed, Inv, OwedIsThere, [Next]_vars
    PROVE  OwedIsThere'
<1> USE DEF OwedIsThere, RestoredWhenEmpty
<1>1. CASE Saves
      <2>1. Edit
            BY <1>1 DEF Saves, Save, SaveDeferredBackup, RequestDeferredPersist
      <2>2. settings \subseteq settings' /\ main = "run" /\ owed' = owed
            BY <2>1, EditKeeps DEF Inv
      <2>3. main' \in {"run", "backup"}
            BY <1>1, <2>2 DEF Saves, Save, SaveDeferredBackup, RequestDeferredPersist
      <2> QED
            BY <2>2, <2>3
<1>2. CASE ServiceDeferredPersist \/ ServiceDeferredBackup \/ Receive \/ UNCHANGED vars
      BY <1>2 DEF ServiceDeferredPersist, ServiceDeferredBackup, Receive, vars, writing, Best, At
<1>3. CASE Write
      <2>1. writer # "none" \/ \E w \in {"loop", "task"} : StartWrite(w)
            BY <1>3 DEF Write, GoesOn, WriteFails, PromoteFails, VerifyFails, Step
      <2>2. held # Nothing \/ main \in Saving \/ writer # "none"
            BY <2>1 DEF StartWrite
      <2>3. main \notin {"import", "restore"}
            BY <2>2 DEF Inv, BootIsAlone, Looking, Saving
      <2>4. main' \in {main, After} /\ UNCHANGED <<settings, owed>>
            BY <1>3 DEF Write, StartWrite, GoesOn, GoTo, WriteFails, PromoteFails, VerifyFails,
                        WriteEnds
      <2> QED
            BY <2>3, <2>4 DEF After
<1>4. CASE Boot
      <2>1. primary' = primary /\ prev' = prev /\ owed' = owed /\ owed \subseteq Edits
            BY <1>4 DEF Boot, Import, NoImport, Restore, RestoreFails, Heal, Refresh, Validate,
                        BootGoesOn, Inv, TypeOK, Settings
      <2>2. CASE Import
            BY <2>1, <2>2 DEF Import, At, Exposed, RestoreAllowed
      <2>3. CASE NoImport
            BY <2>1, <2>3 DEF NoImport, At, Best
      <2>4. CASE Restore
            BY <2>1, <2>4 DEF Restore, At, Applied
      <2>5. CASE RestoreFails
            BY <2>1, <2>5 DEF RestoreFails, At, Applied, Exposed, RestoreAllowed
      <2>6. CASE Heal
            BY <2>1, <2>6 DEF Heal, At, NeedsRestore
      <2>7. CASE Refresh
            BY <2>1, <2>7 DEF Refresh, At, NeedsRestore
      <2>8. CASE Validate
            BY <2>1, <2>8 DEF Validate, At, Applied
      <2> QED
            BY <1>4, <2>2, <2>3, <2>4, <2>5, <2>6, <2>7, <2>8 DEF Boot
<1>5. ASSUME NEW erased \in BOOLEAN, PowerLoss(erased)
      PROVE  OwedIsThere'
      BY <1>5 DEF PowerLoss, Best
<1> QED
      BY <1>1, <1>2, <1>3, <1>4, <1>5 DEF Next

\* checkAndRestoreFromSD(): a boot that finds the flash empty and a backup on
\* the card ends with what was in the backup, and later edits keep it.
THEOREM BackupIsRestored == ASSUME RestoreAllowed PROVE Spec => []RestoredWhenEmpty
<1>1. Inv /\ OwedIsThere /\ [Next]_vars => (Inv /\ OwedIsThere)'
      BY InvStep, OwedStep
<1>2. OwedIsThere => RestoredWhenEmpty
      BY DEF OwedIsThere
<1> QED
      BY <1>1, <1>2, InvInit, PTL DEF Spec

---------------------------------------------------------------------------
(* The backup that is current *)

\* The copy has what is in flash; after a loss of power, what the boot compares.
Has(copy) == CoreFields(nvs) \subseteq copy /\ (boots = 0 => nvs \subseteq copy)

\* The card has it, but for what the boot has cleared since it was written.
CardHas == CoreFields(nvs) \ unasked \subseteq onCard /\ (boots = 0 => nvs \subseteq onCard)

\* Where the settings in flash are, or what will put them on the card: a
\* request, the copy in the queue, the task's, the card's.  A direct backup that
\* failed leaves them nowhere, and says so (missed).
Covers ==
    \/ main # "run" \/ Requested
    \/ queue # Nothing /\ Has(queue)
    \/ queue = Nothing /\ held # Nothing /\ Has(held)
    \/ queue = Nothing /\ held = Nothing /\ (missed > 0 \/ CardHas)

\* After a write that succeeded the live file is what was written, or, from the
\* middle of the next write on, the file that is set aside is.
FilesAreOnCard ==
    /\ missed = 0 =>
          /\ step \in {"write", "clearPrev", "rotate"} =>
                primary = onCard \/ (primary = Nothing /\ prev = Nothing)
          /\ step \in {"promote", "verify"} => prev \in {Nothing, onCard}
    /\ step = "verify" => primary = Payload

\* What a boot knows of the card, when the last write was complete: it compares
\* with the file of that write, and leaves the comparison with what is compared on
\* the card.
BootKnowsTheCard ==
    /\ main \notin {"run", "backup"} => boots > 0
    /\ main \in {"import", "restore"} /\ nvs = Nothing => settings = {}
    /\ main = "restore" => found = Best
    /\ main = "compare" /\ missed = 0 =>
          found \in {Nothing, onCard} \/ CoreFields(settings) \subseteq onCard
    /\ main = "validate" /\ missed = 0 => CoreFields(settings) \subseteq onCard

Current ==
    /\ nvs # Nothing => nvs \subseteq settings /\ Covers
    /\ FilesAreOnCard
    /\ main # "run" => queue = Nothing /\ held = Nothing
    /\ BootKnowsTheCard

\* What the third result needs: no direct save while the task has an older copy,
\* and no import file in a boot that finds the flash empty.
NoOvertaking == ~Exposed("overtaking") /\ ~Exposed("importAfterWipe")

\* What is compared is part of a copy, and more settings have more of it.
LEMMA CoreGrows ==
    ASSUME NEW s, NEW t, s \subseteq t
    PROVE  CoreFields(s) \subseteq t /\ CoreFields(s) \subseteq CoreFields(t)
BY DEF CoreFields

\* At boot the flash is empty, or it has the defaults and so has the card.
LEMMA CurrentInit == Init => Current
<1> SUFFICES ASSUME Init PROVE Current
    OBVIOUS
<1>1. nvs # Nothing => CardHas
      BY CoreGrows DEF Init, CardHas, Defaults
<1> QED
      BY <1>1 DEF Init, Current, Covers, FilesAreOnCard, BootKnowsTheCard

\* An edit adds to the settings and leaves the write alone: a write of the loop
\* is not under way.
LEMMA EditKeepsFiles ==
    ASSUME Inv, Current, Edit
    PROVE  FilesAreOnCard'
<1>1. main = "run" /\ UNCHANGED <<held, writing>>
      BY DEF Edit, At
<1>2. step = "verify" => writer = "task"
      BY <1>1 DEF Inv, TypeOK, FilesInStep, Saving
<1>3. step = "verify" => Payload' = Payload
      BY <1>1, <1>2 DEF Payload, writing
<1> QED
      BY <1>1, <1>3 DEF Current, FilesAreOnCard, writing

\* A setter, the loop and the queue.
LEMMA RequestsKeep ==
    ASSUME NoOvertaking, Inv, Current,
           Saves \/ ServiceDeferredPersist \/ ServiceDeferredBackup \/ Receive
    PROVE  Current'
<1>1. nvs \in Contents /\ settings \in Settings /\ settings # Nothing
      BY SettingsAreSomething DEF Inv, TypeOK
<1>2. CASE Saves
      <2>1. Edit
            BY <1>2 DEF Saves, Save, SaveDeferredBackup, RequestDeferredPersist
      <2>2. /\ settings' \in Settings /\ settings \subseteq settings'
            /\ main = "run" /\ UNCHANGED <<queue, held, writing, boots>>
            BY <2>1, EditKeeps DEF Inv
      <2>3. FilesAreOnCard'
            BY <2>1, EditKeepsFiles
      <2>4. CASE nvs' = settings' /\ main' = "backup" /\ ~Overtakes
            BY <2>2, <2>3, <2>4 DEF Current, Covers, Overtakes, BootKnowsTheCard
      <2>5. CASE nvs' = settings' /\ main' = main /\ pendingRequest' = TRUE
            BY <2>2, <2>3, <2>5 DEF Current, Covers, Requested, BootKnowsTheCard
      <2>6. CASE UNCHANGED <<nvs, main, pendingRequest, writerRetryPending>>
            <3>1. nvs # Nothing => nvs' \subseteq settings'
                  BY <2>2, <2>6 DEF Current
            <3>2. Covers => Covers'
                  BY <2>2, <2>6 DEF Covers, Requested, Has, CardHas, writing
            <3> QED
                  BY <2>2, <2>3, <2>6, <3>1, <3>2 DEF Current, BootKnowsTheCard
      <2> QED
            BY <1>2, <2>2, <2>4, <2>5, <2>6
            DEF Saves, Save, SaveDeferredBackup, RequestDeferredPersist, NoOvertaking, Overtakes
<1>3. CASE ServiceDeferredPersist
      <2>1. FilesAreOnCard'
            BY <1>3 DEF ServiceDeferredPersist, Current, FilesAreOnCard, Payload, writing
      <2> QED
            BY <1>1, <1>3, <2>1
            DEF ServiceDeferredPersist, At, Current, Covers, Requested, BootKnowsTheCard
<1>4. CASE ServiceDeferredBackup
      <2>1. FilesAreOnCard'
            BY <1>4 DEF ServiceDeferredBackup, Current, FilesAreOnCard, Payload, writing
      <2>2. /\ main = "run" /\ UNCHANGED <<settings, nvs, main, boots>>
            /\ pendingRequest' = TRUE \/ queue' = settings
            BY <1>4 DEF ServiceDeferredBackup, At, StillPending, Enqueued
      <2>3. queue' = settings /\ nvs # Nothing => Has(queue)'
            BY <2>2, CoreGrows DEF Current, Has
      <2> QED
            BY <1>1, <1>4, <2>1, <2>2, <2>3
            DEF ServiceDeferredBackup, Current, Covers, Requested, BootKnowsTheCard
<1>5. CASE Receive
      <2>1. /\ queue # Nothing /\ held = Nothing /\ held' = queue /\ queue' = Nothing
            /\ UNCHANGED <<settings, nvs, main, pipeline, writing, boots>>
            BY <1>5 DEF Receive
      <2>2. main = "run"
            BY <2>1 DEF Current
      <2>3. step = "write"
            BY <2>1, <2>2 DEF Inv, TypeOK, FilesInStep, Saving
      <2>4. FilesAreOnCard'
            BY <2>1, <2>3 DEF Current, FilesAreOnCard, writing
      <2>5. Covers => Covers'
            BY <2>1 DEF Covers, Requested, Has, CardHas, pipeline, writing
      <2> QED
            BY <2>1, <2>2, <2>4, <2>5 DEF Current, BootKnowsTheCard
<1> QED
      BY <1>2, <1>3, <1>4, <1>5

\* The end of a write: the card has what was written, or a later write is owed.
LEMMA EndIsCurrent ==
    ASSUME Inv, Current, NEW ok \in BOOLEAN, writer # "none", WriteEnds(ok),
           ok => step = "verify" /\ UNCHANGED <<primary, prev>>
    PROVE  Current'
<1>1. /\ writer' = "none" /\ step' = "write" /\ UNCHANGED <<settings, nvs, queue, boots>>
      /\ onCard' = (IF ok THEN Payload ELSE onCard)
      BY DEF WriteEnds
<1>2. missed' = 0 => ok
      BY DEF WriteEnds, Inv, TypeOK
<1>3. FilesAreOnCard'
      BY <1>1, <1>2 DEF Current, FilesAreOnCard
<1>4. CASE writer = "loop"
      <2>1. /\ main \in Saving /\ queue = Nothing /\ held = Nothing
            /\ main' = After /\ queue' = Nothing /\ held' = Nothing
            BY <1>4 DEF WriteEnds, Inv, TypeOK, Current, Saving
      <2>2. ok => CoreFields(settings') \subseteq onCard'
            BY <1>1, <1>4, CoreGrows DEF Payload
      <2>3. nvs # Nothing /\ ok => CardHas'
            BY <1>1, <1>4, CoreGrows DEF Payload, Current, CardHas
      <2>4. ~ok => missed' > 0
            BY DEF WriteEnds, Inv, TypeOK
      <2>5. nvs # Nothing => Covers'
            BY <2>1, <2>3, <2>4 DEF Covers
      <2>6. BootKnowsTheCard'
            BY <1>1, <2>1, <2>2, <2>4 DEF Current, BootKnowsTheCard, Saving, After
      <2> QED
            BY <1>1, <1>3, <2>1, <2>5, <2>6 DEF Current
<1>5. CASE writer = "task"
      <2>1. held # Nothing /\ held' = Nothing /\ main = "run" /\ main' = "run"
            BY <1>5 DEF WriteEnds, Inv, TypeOK, Current
      <2>2. Requested \/ ~ok => Requested'
            BY <1>5 DEF WriteEnds, Requested
      <2>3. queue # Nothing /\ Has(queue) => queue' # Nothing /\ Has(queue)'
            BY <1>1 DEF Has
      <2>4. ok /\ Has(held) => CardHas'
            BY <1>1, <1>5 DEF Payload, Has, CardHas
      <2>5. Covers => Covers'
            BY <1>1, <2>1, <2>2, <2>3, <2>4 DEF Covers
      <2> QED
            BY <1>1, <1>3, <2>1, <2>5 DEF Current, BootKnowsTheCard
<1> QED
      BY <1>4, <1>5 DEF Inv, TypeOK

\* A write leaves what is to be written alone until it ends.
LEMMA WriteIsCurrent ==
    ASSUME Inv, Current, Write
    PROVE  Current'
<1>1. ASSUME UNCHANGED <<settings, nvs, main, found, pipeline, queue, held, boots, onCard,
                         missed, unasked>>,
             main \notin Looking, FilesAreOnCard'
      PROVE  Current'
      <2>1. Covers => Covers'
            BY <1>1 DEF Covers, Requested, Has, CardHas, pipeline
      <2> QED
            BY <1>1, <2>1 DEF Current, BootKnowsTheCard, Looking
<1>2. ASSUME NEW w \in {"loop", "task"}, StartWrite(w)
      PROVE  Current'
      <2>1. step = "write" /\ step' = "write" /\ UNCHANGED <<primary, prev, onCard, missed>>
            BY <1>2 DEF StartWrite, Inv, FilesInStep
      <2>2. FilesAreOnCard'
            BY <2>1 DEF Current, FilesAreOnCard
      <2> QED
            BY <1>1, <1>2, <2>2 DEF StartWrite, Inv, BootIsAlone, Looking, Saving
<1>3. ASSUME NEW s \in WriteSteps, GoesOn(s)
      PROVE  Current'
      <2>1. CASE s = "verify"
            BY <1>3, <2>1, EndIsCurrent DEF GoesOn, Step
      <2>2. CASE s # "verify"
            <3>1. \E next \in WriteSteps : GoTo(next)
                  BY <1>3, <2>2 DEF GoesOn, WriteSteps
            <3>2. /\ UNCHANGED <<settings, nvs, main, found, pipeline, queue, held, boots, onCard,
                                 missed, unasked>>
                  /\ Payload' = Payload
                  BY <3>1 DEF GoTo, Payload
            <3>3. FilesAreOnCard'
                  BY <1>3, <2>2, <3>2 DEF GoesOn, Step, GoTo, SetAside, Current, FilesAreOnCard
            <3> QED
                  BY <1>1, <1>3, <3>2, <3>3 DEF GoesOn, Step, Inv, BootIsAlone
      <2> QED
            BY <2>1, <2>2
<1>4. CASE WriteFails \/ PromoteFails \/ VerifyFails
      BY <1>4, EndIsCurrent DEF WriteFails, PromoteFails, VerifyFails, Step
<1> QED
      BY <1>2, <1>3, <1>4 DEF Write

\* A boot that needs no backup finds one that is in sync, one that needs it writes
\* it again, and what is cleared after that is accounted for.
LEMMA BootIsCurrent ==
    ASSUME NoOvertaking, Inv, Current, Boot
    PROVE  Current'
<1>1. /\ main \in Looking /\ queue = Nothing /\ held = Nothing
      /\ writer = "none" /\ step = "write" /\ boots > 0
      BY DEF Boot, Import, NoImport, Restore, RestoreFails, Heal, Refresh, Validate, At, Current,
             BootKnowsTheCard, Inv, FilesInStep, BootIsAlone, Looking
<1>2. UNCHANGED <<pipeline, queue, held, writer, step, primary, prev, onCard, missed, boots>>
      BY DEF Boot, Import, NoImport, Restore, RestoreFails, Heal, Refresh, Validate, BootGoesOn
<1>3. FilesAreOnCard'
      BY <1>1, <1>2 DEF Current, FilesAreOnCard
<1>4. nvs' # Nothing => nvs' \subseteq settings'
      <2>1. nvs # Nothing => nvs \subseteq settings
            BY DEF Current
      <2>2. CASE Import
            BY <2>1, <2>2 DEF Import, Applied
      <2>3. CASE NoImport \/ Refresh
            BY <2>1, <2>3 DEF NoImport, Refresh
      <2>4. CASE Restore \/ RestoreFails
            BY <2>1, <2>4 DEF Restore, RestoreFails, NeedsRestore, Applied
      <2>5. CASE Heal \/ Validate
            BY <2>1, <2>5 DEF Heal, Validate, Applied
      <2> QED
            BY <2>2, <2>3, <2>4, <2>5 DEF Boot
<1>5. missed = 0 => Best \in {Nothing, onCard}
      BY <1>1 DEF Current, FilesAreOnCard, Best, Inv, TypeOK
<1>6. BootKnowsTheCard'
      <2> USE DEF BootKnowsTheCard, At
      <2>1. CASE Import
            <3>1. nvs # Nothing /\ nvs' # Nothing
                  <4>1. settings \union {edits + 1} \in Settings
                        BY <2>1, BoundAssumption DEF Import, Inv, TypeOK, Settings, Edits
                  <4> QED
                        BY <2>1, <4>1, SettingsAreSomething DEF Import, NoOvertaking, Applied
            <3> QED
                  BY <1>1, <1>2, <2>1, <3>1 DEF Import, Best
      <2>2. CASE NoImport
            BY <1>1, <1>2, <2>2 DEF NoImport, Best, Current
      <2>3. CASE Restore
            BY <1>1, <1>2, <2>3 DEF Restore
      <2>4. CASE RestoreFails
            <3>1. settings = {}
                  BY <2>4 DEF RestoreFails, NeedsRestore, Current
            <3>2. missed = 0 => CoreFields(settings') \subseteq onCard
                  BY <1>5, <2>4, <3>1, CoreGrows DEF RestoreFails, Applied
            <3> QED
                  BY <1>1, <1>2, <2>4, <3>2 DEF RestoreFails
      <2>5. CASE Heal
            BY <1>1, <1>2, <1>5, <2>5 DEF Heal, Current
      <2>6. CASE Refresh
            <3>1. missed = 0 =>
                     found \in {Nothing, onCard} \/ CoreFields(settings) \subseteq onCard
                  BY <1>5, <2>6 DEF Refresh, Current
            <3>2. missed = 0 /\ found # Nothing /\ InSync(found, settings)
                     => CoreFields(settings) \subseteq onCard
                  BY <3>1, CoreGrows DEF InSync
            <3> QED
                  BY <1>1, <1>2, <2>6, <3>2 DEF Refresh
      <2>7. CASE Validate
            BY <1>1, <1>2, <2>7 DEF Validate
      <2> QED
            BY <2>1, <2>2, <2>3, <2>4, <2>5, <2>6, <2>7 DEF Boot
<1>7. ASSUME nvs' # Nothing, main' = "run"
      PROVE  Covers'
      <2>1. Validate
            BY <1>7 DEF Boot, Import, NoImport, Restore, RestoreFails, Heal, Refresh
      <2>2. missed = 0 => CoreFields(settings) \subseteq onCard
            BY <2>1 DEF Validate, At, Current, BootKnowsTheCard
      <2>3. CoreFields(nvs') \ unasked' \subseteq CoreFields(settings)
            <3>1. CASE UNCHANGED <<settings, nvs, edits, unasked>>
                  BY <1>4, <1>7, <3>1, CoreGrows
            <3>2. ASSUME NEW e \in Edits, Applied(settings \union {e}, TRUE) \/ nvs' = nvs,
                         unasked' = {e}
                  PROVE  CoreFields(nvs') \ unasked' \subseteq CoreFields(settings)
                  BY <1>7, <3>2 DEF Applied, CoreFields, Current
            <3> QED
                  BY <2>1, <3>1, <3>2 DEF Validate, Applied
      <2>4. missed = 0 => CardHas'
            BY <1>1, <1>2, <2>2, <2>3 DEF CardHas
      <2>5. missed > 0 \/ missed = 0
            BY DEF Inv, TypeOK
      <2> QED
            BY <1>1, <1>2, <2>4, <2>5 DEF Covers
<1>8. main' # "run" => Covers'
      BY DEF Covers
<1> QED
      BY <1>1, <1>2, <1>3, <1>4, <1>6, <1>7, <1>8 DEF Current

\* backupToSD() and the writer task: when everything that was asked for has
\* ended well, the card has what is in flash.
THEOREM BackupIsCurrent == ASSUME NoOvertaking PROVE Spec => []CardIsCurrent
<1>1. Inv /\ Current /\ [Next]_vars => (Inv /\ Current)'
      <2> SUFFICES ASSUME Inv, Current, [Next]_vars PROVE Current'
          BY InvStep
      <2>1. CASE UNCHANGED vars
            <3>1. FilesAreOnCard'
                  BY <2>1 DEF vars, writing, Current, FilesAreOnCard, Payload
            <3>2. Covers => Covers'
                  BY <2>1 DEF vars, pipeline, writing, Covers, Requested, Has, CardHas
            <3> QED
                  BY <2>1, <3>1, <3>2 DEF vars, writing, Current, BootKnowsTheCard, Best
      <2>2. ASSUME NEW erased \in BOOLEAN, PowerLoss(erased)
            PROVE  Current'
            <3>1. /\ main' = "import" /\ queue' = Nothing /\ held' = Nothing
                  /\ writer' = "none" /\ step' = "write" /\ UNCHANGED <<primary, prev, onCard>>
                  /\ settings' = IF nvs' = Nothing THEN {} ELSE nvs'
                  BY <2>2 DEF PowerLoss, Defaults
            <3>2. boots' > 0
                  BY <2>2, BoundAssumption DEF PowerLoss, Inv, TypeOK
            <3>3. missed' = 0 => missed = 0 /\ step = "write"
                  BY <2>2 DEF PowerLoss, Inv, TypeOK, FilesInStep
            <3>4. FilesAreOnCard'
                  BY <3>1, <3>3 DEF Current, FilesAreOnCard
            <3> QED
                  BY <3>1, <3>2, <3>4 DEF Current, Covers, BootKnowsTheCard
      <2> QED
            BY <2>1, <2>2, RequestsKeep, WriteIsCurrent, BootIsCurrent DEF Next
<1>2. Inv /\ Current => CardIsCurrent
      BY DEF Inv, TypeOK, Current, Covers, CardIsCurrent, Settled, CardHas, At
<1> QED
      BY <1>1, <1>2, InvInit, CurrentInit, PTL DEF Spec
=============================================================================
