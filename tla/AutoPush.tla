------------------------------ MODULE AutoPush ------------------------------
(***************************************************************************)
(* AutoPushModule: one executor sends the settings of a slot to the V1, a  *)
(* command per pass of the main loop: user bytes (and a request to read    *)
(* them back), display, mode, volume.  Four sources ask for a push: the    *)
(* connection that has settled, a triple tap, the web's "push the active   *)
(* slot" and its "push now".  An auto push is best effort; a push-now      *)
(* retries each command and gives up as a whole.                           *)
(*                                                                         *)
(* The profile name and the mode are copied when the push is queued; mute  *)
(* to zero, dark mode and the volumes are read from the slot when their    *)
(* command goes out.  The 30 ms between two commands are stuttering.       *)
(***************************************************************************)
EXTENDS Integers, Sequences

CONSTANTS
    SlotCount,                \* 3
    Profiles, NoProfile,
    Configs,                  \* what a slot may be configured to
    MaxProfileWriteRetries,   \* kMaxProfileWriteRetries
    MaxCommandRetries         \* kMaxPushNowCommandRetries

UnknownMode == "unknown"
Modes       == {"allBogeys", "logic", "advancedLogic", UnknownMode}

\* Main and mute volume together: neither set, one of the two, both.
VolumeSettings == {"noChange", "half", "both"}

SlotConfig == [profile : Profiles \union {NoProfile}, mode : Modes,
               volume : VolumeSettings]

ASSUME SlotsAssumption   == SlotCount \in Nat \ {0}
ASSUME ProfileAssumption == NoProfile \notin Profiles
ASSUME ConfigAssumption  == Configs \subseteq SlotConfig
ASSUME RetryAssumption   == MaxProfileWriteRetries \in Nat /\ MaxCommandRetries \in Nat

VARIABLES
    connected,      \* V1BLEClient::isConnected()
    seenDown,       \* the loop has been round since the link went down
    settling,       \* the connect burst is not over: onV1Connected is to come
    stored,         \* profiles on the file system
    slots,          \* settings: the configuration of each slot
    activeSlot,     \* settings: activeSlot
    autoPush,       \* settings: autoPushEnabled
    deviceSlot,     \* the V1's own default slot in the device store, or -1
    \* State
    step, slotIndex, slot, profileLoaded, profileWriteRetries, commandRetries, isPushNow,
    \* history
    link,           \* which connection this is, modulo 2
    armedLink,      \* ... and which the push was queued in
    sent,           \* the commands of this push that went out, in order
    failed          \* the last push-now was counted as a failure

settings == <<stored, slots, activeSlot, autoPush, deviceSlot>>
radio    == <<connected, seenDown, settling, link>>
push     == <<step, slotIndex, slot, profileLoaded, profileWriteRetries, commandRetries,
              isPushNow>>
history  == <<armedLink, sent, failed>>
vars     == <<settings, radio, push, history>>

---------------------------------------------------------------------------

Slots    == 0..(SlotCount - 1)
NoSlot   == -1
Steps    == {"Idle", "WaitReady", "Profile", "ProfileReadback", "Display", "Mode", "Volume"}
Commands == {"Profile", "Display", "Mode", "Volume"}

\* What is copied of a slot when a push is queued.
Snapshots == [profile : Profiles \union {NoProfile}, mode : Modes]
NoPush    == [profile |-> NoProfile, mode |-> UnknownMode]
Snapshot(s) == [profile |-> slots[s].profile, mode |-> slots[s].mode]

TypeSettings ==
    /\ stored \subseteq Profiles
    /\ slots \in [Slots -> SlotConfig]
    /\ activeSlot \in Slots /\ autoPush \in BOOLEAN
    /\ deviceSlot \in Slots \union {NoSlot}
TypeRadio ==
    /\ connected \in BOOLEAN /\ seenDown \in BOOLEAN /\ settling \in BOOLEAN
    /\ link \in {0, 1}
TypePush ==
    /\ step \in Steps /\ slotIndex \in Slots /\ slot \in Snapshots
    /\ profileLoaded \in BOOLEAN /\ isPushNow \in BOOLEAN
    /\ profileWriteRetries \in 0..MaxProfileWriteRetries
    /\ commandRetries \in 0..MaxCommandRetries
TypeHistory ==
    armedLink \in {0, 1} /\ sent \in Seq(Commands) /\ failed \in BOOLEAN

TypeOK == TypeSettings /\ TypeRadio /\ TypePush /\ TypeHistory

Init ==
    /\ connected = FALSE /\ seenDown = TRUE /\ settling = FALSE /\ link = 0
    /\ stored = Profiles
    /\ slots \in [Slots -> Configs]
    /\ activeSlot = 0 /\ autoPush \in BOOLEAN
    /\ deviceSlot \in Slots \union {NoSlot}
    /\ step = "Idle" /\ slotIndex = 0 /\ slot = NoPush
    /\ profileLoaded = FALSE /\ isPushNow = FALSE
    /\ profileWriteRetries = 0 /\ commandRetries = 0
    /\ armedLink = 0 /\ sent = <<>> /\ failed = FALSE

isActive == step # "Idle"

---------------------------------------------------------------------------
(* The link.  A reconnect needs several passes of the loop, and each pass   *)
(* runs the push after the link.                                            *)

Connect ==
    /\ ~connected /\ seenDown
    /\ connected' = TRUE /\ settling' = TRUE /\ link' = 1 - link
    /\ UNCHANGED <<seenDown, settings, push, history>>

Disconnect ==
    /\ connected
    /\ connected' = FALSE /\ seenDown' = FALSE /\ settling' = FALSE
    /\ UNCHANGED <<link, settings, push, history>>

---------------------------------------------------------------------------
(* Requests *)

\* armState() begins with an empty State.
Arm(s, snapshot, loaded, pushNow) ==
    /\ step' = "WaitReady"
    /\ slotIndex' = s /\ slot' = snapshot
    /\ profileLoaded' = loaded /\ isPushNow' = pushNow
    /\ profileWriteRetries' = 0 /\ commandRetries' = 0
    /\ armedLink' = link /\ sent' = <<>> /\ failed' = FALSE

\* Slip: a request replaces the push in flight.
Accepted_Always == connected

\* queuePreparedSlot() refuses without a V1 and while a push is in flight.
Accepted == connected /\ ~isActive

QueueSlotPush(s) == IF Accepted THEN Arm(s, Snapshot(s), FALSE, FALSE)
                                ELSE UNCHANGED <<push, history>>

\* onV1Connected(): the V1's own slot, or else the active one.
OnV1Connected ==
    /\ connected /\ settling
    /\ settling' = FALSE
    /\ IF autoPush THEN QueueSlotPush(IF deviceSlot # NoSlot THEN deviceSlot ELSE activeSlot)
                   ELSE UNCHANGED <<push, history>>
    /\ UNCHANGED <<connected, seenDown, link, settings>>

\* A triple tap, or a double press of the power button.
CycleProfile ==
    /\ activeSlot' = (activeSlot + 1) % SlotCount
    /\ IF connected /\ autoPush THEN QueueSlotPush(activeSlot')
                                ELSE UNCHANGED <<push, history>>
    /\ UNCHANGED <<stored, slots, autoPush, deviceSlot, radio>>

\* POST /api/profile/push
PushActiveSlot ==
    /\ QueueSlotPush(activeSlot)
    /\ UNCHANGED <<settings, radio>>

\* POST /api/autopush/push.  With a profile in the request its mode counts too,
\* or none; the profile is read before the push is queued.
PushNow ==
    /\ Accepted
    /\ \E s \in Slots, override \in BOOLEAN :
         \E snapshot \in IF override THEN [profile : Profiles, mode : Modes] ELSE {Snapshot(s)} :
            /\ snapshot.profile \in stored
            /\ Arm(s, snapshot, TRUE, TRUE)
            /\ activeSlot' = s
    /\ UNCHANGED <<stored, slots, autoPush, deviceSlot, radio>>

\* POST /api/autopush/slot and /activate; profiles and devices saved or deleted.
EditSlot ==
    /\ \E s \in Slots, c \in Configs : slots' = [slots EXCEPT ![s] = c]
    /\ UNCHANGED <<stored, activeSlot, autoPush, deviceSlot, radio, push, history>>

Activate ==
    /\ activeSlot' \in Slots /\ autoPush' \in BOOLEAN
    /\ UNCHANGED <<stored, slots, deviceSlot, radio, push, history>>

EditProfiles ==
    /\ stored' \in SUBSET Profiles
    /\ UNCHANGED <<slots, activeSlot, autoPush, deviceSlot, radio, push, history>>

EditDevice ==
    /\ deviceSlot' \in Slots \union {NoSlot}
    /\ UNCHANGED <<stored, slots, activeSlot, autoPush, radio, push, history>>

---------------------------------------------------------------------------
(* AutoPushModule::process *)

\* Back to an empty State.
Clear ==
    /\ step' = "Idle" /\ slotIndex' = 0 /\ slot' = NoPush
    /\ profileLoaded' = FALSE /\ isPushNow' = FALSE
    /\ profileWriteRetries' = 0 /\ commandRetries' = 0

GoTo(next) ==
    /\ commandRetries' = 0
    /\ step' = next
    /\ UNCHANGED <<slotIndex, slot, isPushNow>>

Finish(next) == IF next = "Idle" THEN Clear
                ELSE GoTo(next) /\ UNCHANGED <<profileLoaded, profileWriteRetries>>

\* Slip: the link is looked at before the first command only.
LinkLost_AtStart == ~connected /\ step \in {"Idle", "WaitReady"}

LinkLost == ~connected

\* The link is gone: so is the push, if there is one.
Abort ==
    /\ LinkLost
    /\ Clear
    /\ seenDown' = TRUE
    /\ UNCHANGED <<connected, settling, link, settings, history>>

At(s) == step = s /\ ~LinkLost /\ UNCHANGED <<radio, settings, armedLink>>

WaitReady ==
    /\ At("WaitReady")
    /\ step' = "Profile"
    /\ UNCHANGED <<slotIndex, slot, profileLoaded, profileWriteRetries, commandRetries,
                   isPushNow, sent, failed>>

\* MAX_PUSH_NOW_COMMAND_RETRIES are not used up.
RetriesLeft == commandRetries < MaxCommandRetries

\* Slip: the counter wraps at the limit.
Counted_Wraps(n) == (n + 1) % MaxCommandRetries

Counted(n) == n + 1

\* schedulePushNowRetry(): the same step again, or the push fails.
PushNowRetry ==
    /\ isPushNow /\ UNCHANGED sent
    /\ IF RetriesLeft
       THEN /\ commandRetries' = Counted(commandRetries)
            /\ UNCHANGED <<step, slotIndex, slot, profileLoaded, profileWriteRetries,
                           isPushNow, failed>>
       ELSE Clear /\ failed' = TRUE

haveProfile == profileLoaded \/ slot.profile \in stored

NoProfileToPush ==
    /\ At("Profile")
    /\ ~haveProfile
    /\ Finish("Display")
    /\ UNCHANGED <<sent, failed>>

\* Slip: the step is not advanced.
AfterWrite_Again == "Profile"

AfterWrite == "ProfileReadback"

WriteProfile ==
    /\ At("Profile")
    /\ haveProfile
    /\ GoTo(AfterWrite)
    /\ profileLoaded' = TRUE /\ profileWriteRetries' = 0
    /\ sent' = Append(sent, "Profile") /\ UNCHANGED failed

WriteProfileBusy ==
    /\ At("Profile")
    /\ haveProfile
    /\ \/ PushNowRetry
       \/ /\ ~isPushNow
          /\ profileLoaded' = TRUE
          /\ IF profileWriteRetries < MaxProfileWriteRetries
             THEN /\ profileWriteRetries' = profileWriteRetries + 1
                  /\ UNCHANGED <<step, slotIndex, slot, commandRetries, isPushNow>>
             ELSE GoTo("Display") /\ UNCHANGED profileWriteRetries
          /\ UNCHANGED <<sent, failed>>

\* Whether the request to read the bytes back goes out makes no difference.
ProfileReadback ==
    /\ At("ProfileReadback")
    /\ Finish("Display")
    /\ UNCHANGED <<sent, failed>>

\* Slip: a push-now goes on without the command that failed.
GoesOn_Always == TRUE

\* Best effort: only an auto push goes on without it.
GoesOn == ~isPushNow

\* A step that sends `command', if it is needed, and goes on.
CommandOut(command, next) ==
    Finish(next) /\ sent' = Append(sent, command) /\ UNCHANGED failed
CommandSkipped(next) ==
    Finish(next) /\ UNCHANGED <<sent, failed>>
CommandBusy(next) ==
    \/ GoesOn /\ CommandSkipped(next)
    \/ PushNowRetry

PushDisplay == At("Display") /\ (CommandOut("Display", "Mode") \/ CommandBusy("Mode"))

PushMode ==
    /\ At("Mode")
    /\ IF slot.mode # UnknownMode THEN CommandOut("Mode", "Volume") \/ CommandBusy("Volume")
                                  ELSE CommandSkipped("Volume")

\* setVolume() sends nothing when one of the two volumes is not set, and says it did.
PushVolume ==
    /\ At("Volume")
    /\ IF slots[slotIndex].volume = "both"
       THEN CommandOut("Volume", "Idle") \/ CommandBusy("Idle")
       ELSE CommandSkipped("Idle")

Process == \/ Abort \/ WaitReady \/ NoProfileToPush \/ WriteProfile \/ WriteProfileBusy
           \/ ProfileReadback \/ PushDisplay \/ PushMode \/ PushVolume

---------------------------------------------------------------------------

Next == \/ Connect \/ Disconnect
        \/ OnV1Connected \/ CycleProfile \/ PushActiveSlot \/ PushNow
        \/ EditSlot \/ Activate \/ EditProfiles \/ EditDevice
        \/ Process

\* The loop goes round.
Spec == Init /\ [][Next]_vars
FairSpec == Spec /\ WF_vars(Process)

---------------------------------------------------------------------------
(* Properties *)

\* A request never changes what a push in flight is pushing
\* (docs/RUNTIME_OWNERSHIP.md:64, "New requests must not clobber an in-flight
\* push"; queuePreparedSlot(), auto_push_module.cpp:55).
NotClobbered ==
    [][isActive /\ step' # "Idle" => UNCHANGED <<slotIndex, slot, isPushNow, armedLink>>]_vars

\* What was queued on one connection is never sent on the next one
\* (auto_push_module.cpp:134-140).
StaysInConnection == [][sent' # sent /\ sent' # <<>> => connected /\ armedLink = link]_vars

\* The V1 gets the commands in the order profile, display, mode, volume and each
\* of them at most once, however often it was busy (auto_push_module.cpp:170-301).
Position(c) == CASE c = "Profile" -> 1 [] c = "Display" -> 2 [] c = "Mode" -> 3 [] OTHER -> 4
SentInOrder == \A i, j \in DOMAIN sent : i < j => Position(sent[i]) < Position(sent[j])

\* A push-now that ends on a live link without being counted as failed has sent
\* everything (schedulePushNowRetry(), auto_push_module.cpp:147-168).
Needed == {"Profile", "Display"}
          \union (IF slot.mode # UnknownMode THEN {"Mode"} ELSE {})
          \union (IF slots[slotIndex].volume = "both" THEN {"Volume"} ELSE {})
PushNowComplete ==
    [][isPushNow /\ connected /\ step' = "Idle" /\ ~failed'
         => Needed \subseteq {sent'[i] : i \in DOMAIN sent'}]_vars

\* Every push ends, whatever the V1 answers (the retry limits,
\* auto_push_module.h:59-60).
PushEnds == isActive ~> ~isActive
=============================================================================
