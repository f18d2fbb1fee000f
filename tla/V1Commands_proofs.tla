-------------------------- MODULE V1Commands_proofs --------------------------
(***************************************************************************)
(* What holds of the two parts that send the V1 commands on their own.     *)
(*                                                                         *)
(* AutoPush, for any number of slots, any profiles and slot configurations *)
(* and any retry limits.  Three inductive invariants carry it.  LinkInv: a *)
(* queued push belongs to the connection that is up, and is gone before    *)
(* the next one.  OrderInv: what was sent comes before what the current    *)
(* step sends.  NowInv: a push-now is past a step only with the command of *)
(* that step sent.                                                         *)
(*                                                                         *)
(* QuietVolume, for any volumes, frequencies and times.  MemoryInv: until  *)
(* a restore is given up, what the fade remembers is the driver's volume;  *)
(* what the speed mute remembers is that too, or the fade volume while the *)
(* fade remembers the driver's; the hint between them lapses before it can *)
(* mislead; and where the speed mute holds nothing, the V1 is at the       *)
(* driver's volume or at the fade volume.                                  *)
(***************************************************************************)
EXTENDS AutoPush, QuietVolume, SequenceTheorems, FiniteSetTheorems, TLAPS

---------------------------------------------------------------------------
(* Types *)

\* The button that cycles the slots lands on a slot.
LEMMA NextSlot == ASSUME TypeSettings PROVE (activeSlot + 1) % SlotCount \in Slots
  BY SlotsAssumption DEF TypeSettings, Slots

\* What is copied of a slot when a push is armed is a snapshot.
LEMMA SnapshotTyped == ASSUME TypeSettings, NEW s \in Slots PROVE Snapshot(s) \in Snapshots
  <1>1. slots[s] \in SlotConfig
    BY DEF TypeSettings
  <1> QED
    BY <1>1 DEF SlotConfig, Snapshots, Snapshot

\* Arming a push,
LEMMA ArmTyped ==
  ASSUME NEW s \in Slots, NEW snapshot \in Snapshots,
         NEW loaded \in BOOLEAN, NEW pushNow \in BOOLEAN,
         Arm(s, snapshot, loaded, pushNow)
  PROVE  TypePush'
  <1>1. step' \in Steps /\ slotIndex' \in Slots /\ slot' \in Snapshots
    BY DEF Arm, Steps
  <1>2. profileLoaded' \in BOOLEAN /\ isPushNow' \in BOOLEAN
    BY DEF Arm
  <1>3. /\ profileWriteRetries' \in 0..MaxProfileWriteRetries
        /\ commandRetries' \in 0..MaxCommandRetries
    BY RetryAssumption DEF Arm
  <1> QED
    BY <1>1, <1>2, <1>3 DEF TypePush

\* queueing one,
LEMMA QueueTyped ==
  ASSUME TypeSettings, TypePush, NEW s \in Slots, QueueSlotPush(s)
  PROVE  TypePush'
  <1>1. CASE Accepted
    BY <1>1, SnapshotTyped, ArmTyped DEF QueueSlotPush
  <1>2. CASE ~Accepted
    BY <1>2 DEF QueueSlotPush, push, TypePush
  <1> QED
    BY <1>1, <1>2

\* clearing it,
LEMMA ClearTyped == ASSUME Clear PROVE TypePush'
  <1>1. 0 \in Slots
    BY SlotsAssumption DEF Slots
  <1>2. NoPush \in Snapshots
    BY DEF NoPush, Snapshots, Modes
  <1>3. step' \in Steps /\ slotIndex' \in Slots /\ slot' \in Snapshots
    BY <1>1, <1>2 DEF Clear, Steps
  <1>4. profileLoaded' \in BOOLEAN /\ isPushNow' \in BOOLEAN
    BY DEF Clear
  <1>5. /\ profileWriteRetries' \in 0..MaxProfileWriteRetries
        /\ commandRetries' \in 0..MaxCommandRetries
    BY RetryAssumption DEF Clear
  <1> QED
    BY <1>3, <1>4, <1>5 DEF TypePush

\* ending it,
LEMMA FinishTyped == ASSUME TypePush, NEW next \in Steps, Finish(next) PROVE TypePush'
  <1>1. CASE next = "Idle"
    BY <1>1, ClearTyped DEF Finish
  <1>2. CASE next # "Idle"
    BY <1>2, RetryAssumption DEF Finish, GoTo, TypePush
  <1> QED
    BY <1>1, <1>2

\* and retrying it keep the types of the push.
LEMMA RetryTyped == ASSUME TypePush, PushNowRetry PROVE TypePush'
  <1>1. CASE RetriesLeft
    <2>1. commandRetries' \in 0..MaxCommandRetries
      BY <1>1, RetryAssumption DEF PushNowRetry, RetriesLeft, Counted, TypePush
    <2>2. UNCHANGED <<step, slotIndex, slot, profileLoaded, profileWriteRetries, isPushNow>>
      BY <1>1 DEF PushNowRetry
    <2> QED
      BY <2>1, <2>2 DEF TypePush
  <1>2. CASE ~RetriesLeft
    BY <1>2, ClearTyped DEF PushNowRetry
  <1> QED
    BY <1>1, <1>2

\* What a step of process() does to the commands sent and the failure mark.
LEMMA CommandHistory ==
  ASSUME TypeHistory, NEW command \in Commands, NEW next,
         CommandOut(command, next) \/ CommandBusy(next) \/ CommandSkipped(next)
  PROVE  sent' \in Seq(Commands) /\ failed' \in BOOLEAN
  <1>1. CASE CommandOut(command, next)
    BY <1>1 DEF CommandOut, TypeHistory
  <1>2. CASE CommandSkipped(next)
    BY <1>2 DEF CommandSkipped, TypeHistory
  <1>3. CASE PushNowRetry
    BY <1>3 DEF PushNowRetry, TypeHistory
  <1> QED
    BY <1>1, <1>2, <1>3 DEF CommandBusy

\* Queueing a push keeps the types of the history.
LEMMA QueueHistory ==
  ASSUME TypeRadio, TypeHistory, NEW s, QueueSlotPush(s)
  PROVE  TypeHistory'
  <1>1. CASE Accepted
    <2>1. link \in {0, 1}
      BY DEF TypeRadio
    <2>2. armedLink' = link /\ sent' = <<>> /\ failed' = FALSE
      BY <1>1 DEF QueueSlotPush, Arm
    <2>3. <<>> \in Seq(Commands)
      OBVIOUS
    <2>4. armedLink' \in {0, 1} /\ sent' \in Seq(Commands)
      BY <2>1, <2>2, <2>3
    <2>5. failed' \in BOOLEAN
      BY <2>2
    <2> QED
      BY <2>4, <2>5 DEF TypeHistory
  <1>2. CASE ~Accepted
    BY <1>2 DEF QueueSlotPush, history, TypeHistory
  <1> QED
    BY <1>1, <1>2

\* Every step keeps the types of the settings,
LEMMA SettingsStep == ASSUME TypeSettings, [Next]_vars PROVE TypeSettings'
  <1> USE DEF TypeSettings
  <1>1. CASE Connect
    BY <1>1 DEF Connect, settings, push, history
  <1>2. CASE Disconnect
    BY <1>2 DEF Disconnect, settings, push, history
  <1>3. CASE OnV1Connected
    BY <1>3
       DEF OnV1Connected, settings, push, history, QueueSlotPush, Accepted, isActive, Arm,
           Snapshot
  <1>4. CASE CycleProfile
    BY <1>4, NextSlot DEF CycleProfile
  <1>5. CASE PushActiveSlot
    BY <1>5
       DEF PushActiveSlot, settings, radio, push, history, QueueSlotPush, Accepted,
           isActive, Arm, Snapshot
  <1>6. CASE PushNow
    BY <1>6 DEF PushNow, radio, Accepted, isActive, Arm, Snapshot
  <1>7. CASE EditSlot
    BY <1>7, ConfigAssumption DEF EditSlot
  <1>8. CASE Activate
    BY <1>8 DEF Activate, radio, push, history
  <1>9. CASE EditProfiles
    BY <1>9 DEF EditProfiles, radio, push, history
  <1>10. CASE EditDevice
    BY <1>10 DEF EditDevice, radio, push, history
  <1>11. CASE Abort
    BY <1>11 DEF Abort, settings, history, Clear, LinkLost
  <1>12. CASE WaitReady
    BY <1>12 DEF WaitReady, At, radio, settings, LinkLost
  <1>13. CASE NoProfileToPush
    BY <1>13
       DEF NoProfileToPush, At, radio, settings, LinkLost, Finish, GoTo, Clear, haveProfile
  <1>14. CASE WriteProfile
    BY <1>14 DEF WriteProfile, At, radio, settings, LinkLost, GoTo, AfterWrite, haveProfile
  <1>15. CASE WriteProfileBusy
    BY <1>15
       DEF WriteProfileBusy, At, radio, settings, LinkLost, GoTo, Clear, PushNowRetry,
           RetriesLeft, Counted, haveProfile
  <1>16. CASE ProfileReadback
    BY <1>16 DEF ProfileReadback, At, radio, settings, LinkLost, Finish, GoTo, Clear
  <1>17. CASE PushDisplay
    BY <1>17
       DEF PushDisplay, At, radio, settings, LinkLost, CommandOut, CommandBusy,
           CommandSkipped, GoesOn, Finish, GoTo, Clear, PushNowRetry, RetriesLeft, Counted
  <1>18. CASE PushMode
    BY <1>18
       DEF PushMode, At, radio, settings, LinkLost, CommandOut, CommandBusy, CommandSkipped,
           GoesOn, Finish, GoTo, Clear, PushNowRetry, RetriesLeft, Counted
  <1>19. CASE PushVolume
    BY <1>19
       DEF PushVolume, At, radio, settings, LinkLost, CommandOut, CommandBusy,
           CommandSkipped, GoesOn, Finish, GoTo, Clear, PushNowRetry, RetriesLeft, Counted
  <1>20. CASE UNCHANGED vars
    BY <1>20 DEF vars, settings, radio, push, history
  <1> QED
    BY <1>1, <1>2, <1>3, <1>4, <1>5, <1>6, <1>7, <1>8, <1>9, <1>10, <1>11, <1>12, <1>13,
       <1>14, <1>15, <1>16, <1>17, <1>18, <1>19, <1>20
       DEF Next, Process

\* of the link,
LEMMA RadioStep == ASSUME TypeRadio, [Next]_vars PROVE TypeRadio'
  <1> USE DEF TypeRadio
  <1>1. CASE Connect
    BY <1>1 DEF Connect, settings, push, history
  <1>2. CASE Disconnect
    BY <1>2 DEF Disconnect, settings, push, history
  <1>3. CASE OnV1Connected
    BY <1>3
       DEF OnV1Connected, settings, push, history, QueueSlotPush, Accepted, isActive, Arm,
           Snapshot
  <1>4. CASE CycleProfile
    BY <1>4
       DEF CycleProfile, radio, push, history, QueueSlotPush, Accepted, isActive, Arm,
           Snapshot
  <1>5. CASE PushActiveSlot
    BY <1>5
       DEF PushActiveSlot, settings, radio, push, history, QueueSlotPush, Accepted,
           isActive, Arm, Snapshot
  <1>6. CASE PushNow
    BY <1>6 DEF PushNow, radio, Accepted, isActive, Arm, Snapshot
  <1>7. CASE EditSlot
    BY <1>7 DEF EditSlot, radio, push, history
  <1>8. CASE Activate
    BY <1>8 DEF Activate, radio, push, history
  <1>9. CASE EditProfiles
    BY <1>9 DEF EditProfiles, radio, push, history
  <1>10. CASE EditDevice
    BY <1>10 DEF EditDevice, radio, push, history
  <1>11. CASE Abort
    BY <1>11 DEF Abort, settings, history, Clear, LinkLost
  <1>12. CASE WaitReady
    BY <1>12 DEF WaitReady, At, radio, settings, LinkLost
  <1>13. CASE NoProfileToPush
    BY <1>13
       DEF NoProfileToPush, At, radio, settings, LinkLost, Finish, GoTo, Clear, haveProfile
  <1>14. CASE WriteProfile
    BY <1>14 DEF WriteProfile, At, radio, settings, LinkLost, GoTo, AfterWrite, haveProfile
  <1>15. CASE WriteProfileBusy
    BY <1>15
       DEF WriteProfileBusy, At, radio, settings, LinkLost, GoTo, Clear, PushNowRetry,
           RetriesLeft, Counted, haveProfile
  <1>16. CASE ProfileReadback
    BY <1>16 DEF ProfileReadback, At, radio, settings, LinkLost, Finish, GoTo, Clear
  <1>17. CASE PushDisplay
    BY <1>17
       DEF PushDisplay, At, radio, settings, LinkLost, CommandOut, CommandBusy,
           CommandSkipped, GoesOn, Finish, GoTo, Clear, PushNowRetry, RetriesLeft, Counted
  <1>18. CASE PushMode
    BY <1>18
       DEF PushMode, At, radio, settings, LinkLost, CommandOut, CommandBusy, CommandSkipped,
           GoesOn, Finish, GoTo, Clear, PushNowRetry, RetriesLeft, Counted
  <1>19. CASE PushVolume
    BY <1>19
       DEF PushVolume, At, radio, settings, LinkLost, CommandOut, CommandBusy,
           CommandSkipped, GoesOn, Finish, GoTo, Clear, PushNowRetry, RetriesLeft, Counted
  <1>20. CASE UNCHANGED vars
    BY <1>20 DEF vars, settings, radio, push, history
  <1> QED
    BY <1>1, <1>2, <1>3, <1>4, <1>5, <1>6, <1>7, <1>8, <1>9, <1>10, <1>11, <1>12, <1>13,
       <1>14, <1>15, <1>16, <1>17, <1>18, <1>19, <1>20
       DEF Next, Process

\* of the push,
LEMMA PushStep == ASSUME TypeSettings, TypePush, [Next]_vars PROVE TypePush'
  <1> USE RetryAssumption DEF TypePush, Steps
  <1>1. CASE Connect
    BY <1>1 DEF Connect, settings, push, history
  <1>2. CASE Disconnect
    BY <1>2 DEF Disconnect, settings, push, history
  <1>3. CASE OnV1Connected
    <2>1. CASE autoPush
      <3> DEFINE s == IF deviceSlot # NoSlot THEN deviceSlot ELSE activeSlot
      <3>1. s \in Slots
        BY DEF TypeSettings
      <3>2. QueueSlotPush(s)
        BY <1>3, <2>1 DEF OnV1Connected
      <3> HIDE DEF s
      <3> QED
        BY <3>1, <3>2, QueueTyped
    <2>2. CASE ~autoPush
      BY <1>3, <2>2 DEF OnV1Connected, push
    <2> QED
      BY <2>1, <2>2
  <1>4. CASE CycleProfile
    <2>1. activeSlot' \in Slots
      BY <1>4, NextSlot DEF CycleProfile
    <2>2. QueueSlotPush(activeSlot') \/ UNCHANGED push
      BY <1>4 DEF CycleProfile
    <2>3. CASE QueueSlotPush(activeSlot')
      BY <2>1, <2>3, QueueTyped
    <2> QED
      BY <2>2, <2>3 DEF push
  <1>5. CASE PushActiveSlot
    BY <1>5, QueueTyped DEF PushActiveSlot, TypeSettings
  <1>6. CASE PushNow
    <2>1. PICK s \in Slots, override \in BOOLEAN :
            \E snapshot \in IF override THEN [profile : Profiles, mode : Modes] ELSE {Snapshot(s)} :
               Arm(s, snapshot, TRUE, TRUE)
      BY <1>6 DEF PushNow
    <2>2. PICK snapshot \in IF override THEN [profile : Profiles, mode : Modes] ELSE {Snapshot(s)} :
               Arm(s, snapshot, TRUE, TRUE)
      BY <2>1
    <2>3. snapshot \in Snapshots
      BY SnapshotTyped DEF Snapshots
    <2> QED
      BY <2>2, <2>3, ArmTyped
  <1>7. CASE EditSlot
    BY <1>7 DEF EditSlot, radio, push, history
  <1>8. CASE Activate
    BY <1>8 DEF Activate, radio, push, history
  <1>9. CASE EditProfiles
    BY <1>9 DEF EditProfiles, radio, push, history
  <1>10. CASE EditDevice
    BY <1>10 DEF EditDevice, radio, push, history
  <1>11. CASE Abort
    BY <1>11, ClearTyped DEF Abort
  <1>12. CASE WaitReady
    BY <1>12 DEF WaitReady, At, radio, settings, LinkLost
  <1>13. CASE NoProfileToPush
    BY <1>13, FinishTyped DEF NoProfileToPush
  <1>14. CASE WriteProfile
    BY <1>14 DEF WriteProfile, At, radio, settings, LinkLost, GoTo, AfterWrite, haveProfile
  <1>15. CASE WriteProfileBusy
    <2>1. CASE PushNowRetry
      BY <2>1, RetryTyped
    <2>2. CASE ~PushNowRetry
      <3>1. profileLoaded' = TRUE /\ UNCHANGED <<slotIndex, slot, isPushNow>>
        BY <1>15, <2>2 DEF WriteProfileBusy, GoTo
      <3>2. /\ profileWriteRetries' \in 0..MaxProfileWriteRetries
            /\ commandRetries' \in 0..MaxCommandRetries
        BY <1>15, <2>2 DEF WriteProfileBusy, GoTo
      <3>3. step' \in Steps
        BY <1>15, <2>2 DEF WriteProfileBusy, GoTo
      <3> QED
        BY <3>1, <3>2, <3>3
    <2> QED
      BY <2>1, <2>2
  <1>16. CASE ProfileReadback
    BY <1>16, FinishTyped DEF ProfileReadback
  <1>17. CASE PushDisplay
    BY <1>17, FinishTyped, RetryTyped
       DEF PushDisplay, CommandOut, CommandBusy, CommandSkipped
  <1>18. CASE PushMode
    BY <1>18, FinishTyped, RetryTyped DEF PushMode, CommandOut, CommandBusy, CommandSkipped
  <1>19. CASE PushVolume
    BY <1>19, FinishTyped, RetryTyped
       DEF PushVolume, CommandOut, CommandBusy, CommandSkipped
  <1>20. CASE UNCHANGED vars
    BY <1>20 DEF vars, settings, radio, push, history
  <1> QED
    BY <1>1, <1>2, <1>3, <1>4, <1>5, <1>6, <1>7, <1>8, <1>9, <1>10, <1>11, <1>12, <1>13,
       <1>14, <1>15, <1>16, <1>17, <1>18, <1>19, <1>20
       DEF Next, Process

\* and of the history.
LEMMA HistoryStep == ASSUME TypeRadio, TypeHistory, [Next]_vars PROVE TypeHistory'
  <1> USE DEF TypeHistory, Commands
  <1>1. CASE Connect
    BY <1>1 DEF Connect, settings, push, history
  <1>2. CASE Disconnect
    BY <1>2 DEF Disconnect, settings, push, history
  <1>3. CASE OnV1Connected
    BY <1>3, QueueHistory DEF OnV1Connected, history
  <1>4. CASE CycleProfile
    BY <1>4, QueueHistory DEF CycleProfile, history
  <1>5. CASE PushActiveSlot
    BY <1>5, QueueHistory DEF PushActiveSlot
  <1>6. CASE PushNow
    <2>1. armedLink' = link /\ sent' = <<>> /\ failed' = FALSE
      BY <1>6 DEF PushNow, Arm
    <2>2. <<>> \in Seq(Commands)
      OBVIOUS
    <2>3. armedLink' \in {0, 1} /\ sent' \in Seq(Commands)
      BY <2>1, <2>2 DEF TypeRadio
    <2>4. failed' \in BOOLEAN
      BY <2>1
    <2> QED
      BY <2>3, <2>4
  <1>7. CASE EditSlot
    BY <1>7 DEF EditSlot, radio, push, history
  <1>8. CASE Activate
    BY <1>8 DEF Activate, radio, push, history
  <1>9. CASE EditProfiles
    BY <1>9 DEF EditProfiles, radio, push, history
  <1>10. CASE EditDevice
    BY <1>10 DEF EditDevice, radio, push, history
  <1>11. CASE Abort
    BY <1>11 DEF Abort, settings, history, Clear, LinkLost
  <1>12. CASE WaitReady
    BY <1>12 DEF WaitReady, At, radio, settings, LinkLost
  <1>13. CASE NoProfileToPush
    BY <1>13
       DEF NoProfileToPush, At, radio, settings, LinkLost, Finish, GoTo, Clear, haveProfile
  <1>14. CASE WriteProfile
    BY <1>14 DEF WriteProfile, At, radio, settings, LinkLost, GoTo, AfterWrite, haveProfile
  <1>15. CASE WriteProfileBusy
    BY <1>15
       DEF WriteProfileBusy, At, radio, settings, LinkLost, GoTo, Clear, PushNowRetry,
           RetriesLeft, Counted, haveProfile
  <1>16. CASE ProfileReadback
    BY <1>16 DEF ProfileReadback, At, radio, settings, LinkLost, Finish, GoTo, Clear
  <1>17. CASE PushDisplay
    BY <1>17, CommandHistory DEF PushDisplay, At
  <1>18. CASE PushMode
    BY <1>18, CommandHistory DEF PushMode, At
  <1>19. CASE PushVolume
    BY <1>19, CommandHistory DEF PushVolume, At
  <1>20. CASE UNCHANGED vars
    BY <1>20 DEF vars, settings, radio, push, history
  <1> QED
    BY <1>1, <1>2, <1>3, <1>4, <1>5, <1>6, <1>7, <1>8, <1>9, <1>10, <1>11, <1>12, <1>13,
       <1>14, <1>15, <1>16, <1>17, <1>18, <1>19, <1>20
       DEF Next, Process

---------------------------------------------------------------------------
(* A push belongs to one connection, and sends its commands in order *)

\* A queued push belongs to this connection while the link is up; it is gone
\* before the link can come up again.
LinkInv == /\ isActive /\ connected => armedLink = link
           /\ ~connected /\ seenDown => ~isActive

\* Every step keeps an active push on the link it was armed on.
LEMMA LinkStep == ASSUME LinkInv, [Next]_vars PROVE LinkInv'
  <1> USE DEF LinkInv, isActive
  <1>1. CASE Connect
    BY <1>1 DEF Connect, settings, push, history
  <1>2. CASE Disconnect
    BY <1>2 DEF Disconnect, settings, push, history
  <1>3. CASE OnV1Connected
    BY <1>3
       DEF OnV1Connected, settings, push, history, QueueSlotPush, Accepted, isActive, Arm,
           Snapshot
  <1>4. CASE CycleProfile
    BY <1>4
       DEF CycleProfile, radio, push, history, QueueSlotPush, Accepted, isActive, Arm,
           Snapshot
  <1>5. CASE PushActiveSlot
    BY <1>5
       DEF PushActiveSlot, settings, radio, push, history, QueueSlotPush, Accepted,
           isActive, Arm, Snapshot
  <1>6. CASE PushNow
    BY <1>6 DEF PushNow, radio, Accepted, isActive, Arm, Snapshot
  <1>7. CASE EditSlot
    BY <1>7 DEF EditSlot, radio, push, history
  <1>8. CASE Activate
    BY <1>8 DEF Activate, radio, push, history
  <1>9. CASE EditProfiles
    BY <1>9 DEF EditProfiles, radio, push, history
  <1>10. CASE EditDevice
    BY <1>10 DEF EditDevice, radio, push, history
  <1>11. CASE Abort
    BY <1>11 DEF Abort, settings, history, Clear, LinkLost
  <1>12. CASE WaitReady
    BY <1>12 DEF WaitReady, At, radio, settings, LinkLost
  <1>13. CASE NoProfileToPush
    BY <1>13
       DEF NoProfileToPush, At, radio, settings, LinkLost, Finish, GoTo, Clear, haveProfile
  <1>14. CASE WriteProfile
    BY <1>14 DEF WriteProfile, At, radio, settings, LinkLost, GoTo, AfterWrite, haveProfile
  <1>15. CASE WriteProfileBusy
    BY <1>15
       DEF WriteProfileBusy, At, radio, settings, LinkLost, GoTo, Clear, PushNowRetry,
           RetriesLeft, Counted, haveProfile
  <1>16. CASE ProfileReadback
    BY <1>16 DEF ProfileReadback, At, radio, settings, LinkLost, Finish, GoTo, Clear
  <1>17. CASE PushDisplay
    BY <1>17
       DEF PushDisplay, At, radio, settings, LinkLost, CommandOut, CommandBusy,
           CommandSkipped, GoesOn, Finish, GoTo, Clear, PushNowRetry, RetriesLeft, Counted
  <1>18. CASE PushMode
    BY <1>18
       DEF PushMode, At, radio, settings, LinkLost, CommandOut, CommandBusy, CommandSkipped,
           GoesOn, Finish, GoTo, Clear, PushNowRetry, RetriesLeft, Counted
  <1>19. CASE PushVolume
    BY <1>19
       DEF PushVolume, At, radio, settings, LinkLost, CommandOut, CommandBusy,
           CommandSkipped, GoesOn, Finish, GoTo, Clear, PushNowRetry, RetriesLeft, Counted
  <1>20. CASE UNCHANGED vars
    BY <1>20 DEF vars, settings, radio, push, history
  <1> QED
    BY <1>1, <1>2, <1>3, <1>4, <1>5, <1>6, <1>7, <1>8, <1>9, <1>10, <1>11, <1>12, <1>13,
       <1>14, <1>15, <1>16, <1>17, <1>18, <1>19, <1>20
       DEF Next, Process

\* What the V1 has been sent comes before what this step sends.
StepPosition == CASE step \in {"WaitReady", "Profile"}         -> 1
                  [] step \in {"ProfileReadback", "Display"} -> 2
                  [] step = "Mode"                           -> 3
                  [] step = "Volume"                         -> 4
                  [] OTHER                                   -> 5

SentBefore == \A i \in DOMAIN sent : Position(sent[i]) < StepPosition

OrderInv == TypeHistory /\ SentInOrder /\ SentBefore

\* Every command has its place in the order.
LEMMA PositionTyped == \A c : Position(c) \in 1..4
  BY DEF Position

\* A command no later than its step, and no earlier than the last one, is in order.
LEMMA OrderOfAppend ==
  ASSUME OrderInv, NEW c \in Commands, sent' = Append(sent, c), TypeHistory',
         StepPosition <= Position(c), Position(c) < StepPosition',
         StepPosition \in 1..5, StepPosition' \in 1..5
  PROVE  OrderInv'
  <1>1. sent \in Seq(Commands) /\ Len(sent) \in Nat
    BY DEF OrderInv, TypeHistory
  <1>2. /\ DOMAIN sent = 1..Len(sent)
        /\ DOMAIN sent' = 1..(Len(sent) + 1)
        /\ \A i \in 1..Len(sent) : sent'[i] = sent[i]
        /\ sent'[Len(sent) + 1] = c
    BY <1>1
  <1>3. ASSUME NEW i \in DOMAIN sent PROVE Position(sent[i]) < Position(c)
    BY PositionTyped DEF OrderInv, SentBefore
  <1>4. SentInOrder'
    <2> SUFFICES ASSUME NEW i \in DOMAIN sent', NEW j \in DOMAIN sent', i < j
                 PROVE  Position(sent'[i]) < Position(sent'[j])
      BY DEF SentInOrder, Position
    <2>1. i \in DOMAIN sent /\ sent'[i] = sent[i]
      BY <1>1, <1>2
    <2>2. CASE j \in DOMAIN sent
      BY <1>2, <2>1, <2>2 DEF OrderInv, SentInOrder
    <2>3. CASE j = Len(sent) + 1
      BY <1>2, <1>3, <2>1, <2>3
    <2> QED
      BY <1>1, <1>2, <2>2, <2>3
  <1>5. SentBefore'
    <2> SUFFICES ASSUME NEW i \in DOMAIN sent'
                 PROVE  Position(sent'[i]) < StepPosition'
      BY DEF SentBefore, Position
    <2>1. CASE i \in DOMAIN sent
      BY <1>2, <1>3, <2>1, PositionTyped
    <2>2. CASE i = Len(sent) + 1
      BY <1>2, <2>2
    <2> QED
      BY <1>1, <1>2, <2>1, <2>2
  <1> QED
    BY <1>4, <1>5 DEF OrderInv

\* Where nothing is sent the order stays.
LEMMA OrderOfSame ==
  ASSUME OrderInv, sent' = sent, TypeHistory', StepPosition <= StepPosition',
         StepPosition \in 1..5, StepPosition' \in 1..5
  PROVE  OrderInv'
  <1>1. SentInOrder'
    BY DEF OrderInv, SentInOrder, Position
  <1>2. SentBefore'
    <2> SUFFICES ASSUME NEW i \in DOMAIN sent
                 PROVE  Position(sent[i]) < StepPosition'
      BY DEF SentBefore, Position
    <2>1. Position(sent[i]) < StepPosition
      BY DEF OrderInv, SentBefore
    <2> QED
      BY <2>1, PositionTyped
  <1> QED
    BY <1>1, <1>2 DEF OrderInv

\* A push that has sent nothing is in order.
LEMMA OrderOfNew ==
  ASSUME sent' = <<>>, TypeHistory'
  PROVE  OrderInv'
  BY DEF OrderInv, SentInOrder, SentBefore, Position

\* Every step of a push has its place in the order.
LEMMA StepPositionTyped == StepPosition \in 1..5 /\ StepPosition' \in 1..5
  BY DEF StepPosition

\* Every step keeps the order.
LEMMA OrderStep == ASSUME TypeRadio, OrderInv, [Next]_vars PROVE OrderInv'
  <1>1. CASE Connect
    BY <1>1, OrderOfSame, StepPositionTyped, HistoryStep
       DEF Connect, settings, push, history, StepPosition, OrderInv
  <1>2. CASE Disconnect
    BY <1>2, OrderOfSame, StepPositionTyped, HistoryStep
       DEF Disconnect, settings, push, history, StepPosition, OrderInv
  <1>3. CASE OnV1Connected
    <2>1. TypeHistory'
      BY HistoryStep DEF OrderInv
    <2>2. CASE sent' = <<>>
      BY <2>1, <2>2, OrderOfNew
    <2>3. CASE sent' # <<>>
      <3>1. UNCHANGED <<sent, step>>
        BY <1>3, <2>3 DEF OnV1Connected, QueueSlotPush, Arm, push, history
      <3> QED
        BY <2>1, <3>1, OrderOfSame, StepPositionTyped DEF StepPosition
    <2> QED
      BY <2>2, <2>3
  <1>4. CASE CycleProfile
    <2>1. TypeHistory'
      BY HistoryStep DEF OrderInv
    <2>2. CASE sent' = <<>>
      BY <2>1, <2>2, OrderOfNew
    <2>3. CASE sent' # <<>>
      <3>1. UNCHANGED <<sent, step>>
        BY <1>4, <2>3 DEF CycleProfile, QueueSlotPush, Arm, push, history
      <3> QED
        BY <2>1, <3>1, OrderOfSame, StepPositionTyped DEF StepPosition
    <2> QED
      BY <2>2, <2>3
  <1>5. CASE PushActiveSlot
    <2>1. TypeHistory'
      BY HistoryStep DEF OrderInv
    <2>2. CASE sent' = <<>>
      BY <2>1, <2>2, OrderOfNew
    <2>3. CASE sent' # <<>>
      <3>1. UNCHANGED <<sent, step>>
        BY <1>5, <2>3 DEF PushActiveSlot, QueueSlotPush, Arm, push, history
      <3> QED
        BY <2>1, <3>1, OrderOfSame, StepPositionTyped DEF StepPosition
    <2> QED
      BY <2>2, <2>3
  <1>6. CASE PushNow
    BY <1>6, OrderOfNew, HistoryStep DEF PushNow, Arm, OrderInv
  <1>7. CASE EditSlot
    BY <1>7, OrderOfSame, StepPositionTyped, HistoryStep
       DEF EditSlot, radio, push, history, StepPosition, OrderInv
  <1>8. CASE Activate
    BY <1>8, OrderOfSame, StepPositionTyped, HistoryStep
       DEF Activate, radio, push, history, StepPosition, OrderInv
  <1>9. CASE EditProfiles
    BY <1>9, OrderOfSame, StepPositionTyped, HistoryStep
       DEF EditProfiles, radio, push, history, StepPosition, OrderInv
  <1>10. CASE EditDevice
    BY <1>10, OrderOfSame, StepPositionTyped, HistoryStep
       DEF EditDevice, radio, push, history, StepPosition, OrderInv
  <1>11. CASE Abort
    BY <1>11, OrderOfSame, StepPositionTyped, HistoryStep
       DEF Abort, settings, history, Clear, LinkLost, StepPosition, OrderInv
  <1>12. CASE WaitReady
    BY <1>12, OrderOfSame, StepPositionTyped, HistoryStep
       DEF WaitReady, At, radio, settings, LinkLost, StepPosition, OrderInv
  <1>13. CASE NoProfileToPush
    BY <1>13, OrderOfSame, StepPositionTyped, HistoryStep
       DEF NoProfileToPush, At, radio, settings, LinkLost, Finish, GoTo, Clear, haveProfile,
           StepPosition, OrderInv
  <1>14. CASE WriteProfile
    <2>1. TypeHistory'
      BY HistoryStep DEF OrderInv
    <2>2. CASE sent' = Append(sent, "Profile") /\ step' # step
      <3>1. StepPosition <= Position("Profile") /\ Position("Profile") < StepPosition'
        BY <1>14, <2>2
           DEF WriteProfile, At, StepPosition, Position, CommandOut, CommandSkipped,
               CommandBusy, PushNowRetry, Finish, GoTo, Clear, AfterWrite
      <3> QED
        BY <2>1, <2>2, <3>1, OrderOfAppend, StepPositionTyped DEF Commands
    <2>3. CASE sent' = sent
      <3>1. StepPosition <= StepPosition'
        BY <1>14, <2>3
           DEF WriteProfile, At, StepPosition, CommandOut, CommandSkipped, CommandBusy,
               PushNowRetry, Finish, GoTo, Clear, AfterWrite
      <3> QED
        BY <2>1, <2>3, <3>1, OrderOfSame, StepPositionTyped
    <2> QED
      BY <1>14, <2>2, <2>3
         DEF WriteProfile, At, CommandOut, CommandSkipped, CommandBusy, PushNowRetry,
             Finish, GoTo, Clear, AfterWrite
  <1>15. CASE WriteProfileBusy
    BY <1>15, OrderOfSame, StepPositionTyped, HistoryStep
       DEF WriteProfileBusy, At, radio, settings, LinkLost, GoTo, Clear, PushNowRetry,
           RetriesLeft, Counted, haveProfile, StepPosition, OrderInv
  <1>16. CASE ProfileReadback
    BY <1>16, OrderOfSame, StepPositionTyped, HistoryStep
       DEF ProfileReadback, At, radio, settings, LinkLost, Finish, GoTo, Clear,
           StepPosition, OrderInv
  <1>17. CASE PushDisplay
    <2>1. TypeHistory'
      BY HistoryStep DEF OrderInv
    <2>2. CASE sent' = Append(sent, "Display") /\ step' # step
      <3>1. StepPosition <= Position("Display") /\ Position("Display") < StepPosition'
        BY <1>17, <2>2
           DEF PushDisplay, At, StepPosition, Position, CommandOut, CommandSkipped,
               CommandBusy, PushNowRetry, Finish, GoTo, Clear, AfterWrite
      <3> QED
        BY <2>1, <2>2, <3>1, OrderOfAppend, StepPositionTyped DEF Commands
    <2>3. CASE sent' = sent
      <3>1. StepPosition <= StepPosition'
        BY <1>17, <2>3
           DEF PushDisplay, At, StepPosition, CommandOut, CommandSkipped, CommandBusy,
               PushNowRetry, Finish, GoTo, Clear, AfterWrite
      <3> QED
        BY <2>1, <2>3, <3>1, OrderOfSame, StepPositionTyped
    <2> QED
      BY <1>17, <2>2, <2>3
         DEF PushDisplay, At, CommandOut, CommandSkipped, CommandBusy, PushNowRetry, Finish,
             GoTo, Clear, AfterWrite
  <1>18. CASE PushMode
    <2>1. TypeHistory'
      BY HistoryStep DEF OrderInv
    <2>2. CASE sent' = Append(sent, "Mode") /\ step' # step
      <3>1. StepPosition <= Position("Mode") /\ Position("Mode") < StepPosition'
        BY <1>18, <2>2
           DEF PushMode, At, StepPosition, Position, CommandOut, CommandSkipped,
               CommandBusy, PushNowRetry, Finish, GoTo, Clear, AfterWrite
      <3> QED
        BY <2>1, <2>2, <3>1, OrderOfAppend, StepPositionTyped DEF Commands
    <2>3. CASE sent' = sent
      <3>1. StepPosition <= StepPosition'
        BY <1>18, <2>3
           DEF PushMode, At, StepPosition, CommandOut, CommandSkipped, CommandBusy,
               PushNowRetry, Finish, GoTo, Clear, AfterWrite
      <3> QED
        BY <2>1, <2>3, <3>1, OrderOfSame, StepPositionTyped
    <2> QED
      BY <1>18, <2>2, <2>3
         DEF PushMode, At, CommandOut, CommandSkipped, CommandBusy, PushNowRetry, Finish,
             GoTo, Clear, AfterWrite
  <1>19. CASE PushVolume
    <2>1. TypeHistory'
      BY HistoryStep DEF OrderInv
    <2>2. CASE sent' = Append(sent, "Volume") /\ step' # step
      <3>1. StepPosition <= Position("Volume") /\ Position("Volume") < StepPosition'
        BY <1>19, <2>2
           DEF PushVolume, At, StepPosition, Position, CommandOut, CommandSkipped,
               CommandBusy, PushNowRetry, Finish, GoTo, Clear, AfterWrite
      <3> QED
        BY <2>1, <2>2, <3>1, OrderOfAppend, StepPositionTyped DEF Commands
    <2>3. CASE sent' = sent
      <3>1. StepPosition <= StepPosition'
        BY <1>19, <2>3
           DEF PushVolume, At, StepPosition, CommandOut, CommandSkipped, CommandBusy,
               PushNowRetry, Finish, GoTo, Clear, AfterWrite
      <3> QED
        BY <2>1, <2>3, <3>1, OrderOfSame, StepPositionTyped
    <2> QED
      BY <1>19, <2>2, <2>3
         DEF PushVolume, At, CommandOut, CommandSkipped, CommandBusy, PushNowRetry, Finish,
             GoTo, Clear, AfterWrite
  <1>20. CASE UNCHANGED vars
    BY <1>20, OrderOfSame, StepPositionTyped, HistoryStep
       DEF vars, push, history, StepPosition, OrderInv
  <1> QED
    BY <1>1, <1>2, <1>3, <1>4, <1>5, <1>6, <1>7, <1>8, <1>9, <1>10, <1>11, <1>12, <1>13,
       <1>14, <1>15, <1>16, <1>17, <1>18, <1>19, <1>20
       DEF Next, Process

---------------------------------------------------------------------------
(* A push-now sends everything *)

\* The commands of this push that went out.
Gone == {sent[i] : i \in DOMAIN sent}

\* A push-now is past a step only with that step's command sent.
NowInv ==
    /\ step = "Idle" => ~isPushNow
    /\ isPushNow => profileLoaded
    /\ isPushNow /\ step \in {"ProfileReadback", "Display", "Mode", "Volume"} => "Profile" \in Gone
    /\ isPushNow /\ step \in {"Mode", "Volume"} => "Display" \in Gone
    /\ isPushNow /\ step = "Volume" /\ slot.mode # UnknownMode => "Mode" \in Gone

\* A command that is sent is among those sent, and so are the earlier ones.
LEMMA GoneOfAppend ==
  ASSUME TypeHistory, NEW c, sent' = Append(sent, c)
  PROVE  c \in Gone' /\ Gone \subseteq Gone'
  <1>1. sent \in Seq(Commands) /\ Len(sent) \in Nat
    BY DEF TypeHistory
  <1>2. /\ DOMAIN sent = 1..Len(sent)
        /\ DOMAIN sent' = 1..(Len(sent) + 1)
        /\ \A i \in 1..Len(sent) : sent'[i] = sent[i]
        /\ sent'[Len(sent) + 1] = c
    BY <1>1
  <1>3. Len(sent) + 1 \in DOMAIN sent'
    BY <1>1, <1>2
  <1>4. \A i \in DOMAIN sent : i \in DOMAIN sent' /\ sent'[i] = sent[i]
    BY <1>1, <1>2
  <1> QED
    BY <1>2, <1>3, <1>4 DEF Gone

\* Where nothing is sent the same commands are.
LEMMA GoneOfSame == ASSUME sent' = sent PROVE Gone' = Gone
  BY DEF Gone

\* Every step keeps what a push on demand has sent in line with its progress.
LEMMA NowStep == ASSUME TypeHistory, NowInv, [Next]_vars PROVE NowInv'
  <1> USE DEF NowInv
  <1>1. CASE Connect
    BY <1>1, GoneOfSame DEF Connect, settings, push, history
  <1>2. CASE Disconnect
    BY <1>2, GoneOfSame DEF Disconnect, settings, push, history
  <1>3. CASE OnV1Connected
    BY <1>3, GoneOfSame
       DEF OnV1Connected, settings, push, history, QueueSlotPush, Accepted, isActive, Arm,
           Snapshot
  <1>4. CASE CycleProfile
    BY <1>4, GoneOfSame
       DEF CycleProfile, radio, push, history, QueueSlotPush, Accepted, isActive, Arm,
           Snapshot
  <1>5. CASE PushActiveSlot
    BY <1>5, GoneOfSame
       DEF PushActiveSlot, settings, radio, push, history, QueueSlotPush, Accepted,
           isActive, Arm, Snapshot
  <1>6. CASE PushNow
    BY <1>6, GoneOfSame DEF PushNow, radio, Accepted, isActive, Arm, Snapshot
  <1>7. CASE EditSlot
    BY <1>7, GoneOfSame DEF EditSlot, radio, push, history
  <1>8. CASE Activate
    BY <1>8, GoneOfSame DEF Activate, radio, push, history
  <1>9. CASE EditProfiles
    BY <1>9, GoneOfSame DEF EditProfiles, radio, push, history
  <1>10. CASE EditDevice
    BY <1>10, GoneOfSame DEF EditDevice, radio, push, history
  <1>11. CASE Abort
    BY <1>11, GoneOfSame DEF Abort, settings, history, Clear, LinkLost
  <1>12. CASE WaitReady
    BY <1>12, GoneOfSame DEF WaitReady, At, radio, settings, LinkLost
  <1>13. CASE NoProfileToPush
    BY <1>13, GoneOfSame
       DEF NoProfileToPush, At, radio, settings, LinkLost, Finish, GoTo, Clear, haveProfile
  <1>14. CASE WriteProfile
    <2>1. "Profile" \in Gone'
      BY <1>14, GoneOfAppend DEF WriteProfile
    <2> QED
      BY <1>14, <2>1 DEF WriteProfile, GoTo, AfterWrite
  <1>15. CASE WriteProfileBusy
    BY <1>15, GoneOfSame
       DEF WriteProfileBusy, At, radio, settings, LinkLost, GoTo, Clear, PushNowRetry,
           RetriesLeft, Counted, haveProfile
  <1>16. CASE ProfileReadback
    BY <1>16, GoneOfSame
       DEF ProfileReadback, At, radio, settings, LinkLost, Finish, GoTo, Clear
  <1>17. CASE PushDisplay
    <2>1. CASE sent' = Append(sent, "Display")
      <3>1. "Display" \in Gone' /\ Gone \subseteq Gone'
        BY <2>1, GoneOfAppend
      <3> QED
        BY <1>17, <2>1, <3>1
           DEF PushDisplay, At, radio, settings, LinkLost, CommandOut, CommandBusy,
               CommandSkipped, GoesOn, Finish, GoTo, Clear, PushNowRetry, RetriesLeft,
               Counted, AfterWrite
    <2>2. CASE sent' = sent
      BY <1>17, <2>2, GoneOfSame
         DEF PushDisplay, At, radio, settings, LinkLost, CommandOut, CommandBusy,
             CommandSkipped, GoesOn, Finish, GoTo, Clear, PushNowRetry, RetriesLeft,
             Counted, AfterWrite
    <2> QED
      BY <1>17, <2>1, <2>2
         DEF PushDisplay, CommandOut, CommandSkipped, CommandBusy, PushNowRetry
  <1>18. CASE PushMode
    <2>1. CASE sent' = Append(sent, "Mode")
      <3>1. "Mode" \in Gone' /\ Gone \subseteq Gone'
        BY <2>1, GoneOfAppend
      <3> QED
        BY <1>18, <2>1, <3>1
           DEF PushMode, At, radio, settings, LinkLost, CommandOut, CommandBusy,
               CommandSkipped, GoesOn, Finish, GoTo, Clear, PushNowRetry, RetriesLeft,
               Counted, AfterWrite
    <2>2. CASE sent' = sent
      BY <1>18, <2>2, GoneOfSame
         DEF PushMode, At, radio, settings, LinkLost, CommandOut, CommandBusy,
             CommandSkipped, GoesOn, Finish, GoTo, Clear, PushNowRetry, RetriesLeft,
             Counted, AfterWrite
    <2> QED
      BY <1>18, <2>1, <2>2
         DEF PushMode, CommandOut, CommandSkipped, CommandBusy, PushNowRetry
  <1>19. CASE PushVolume
    <2>1. CASE sent' = Append(sent, "Volume")
      <3>1. "Volume" \in Gone' /\ Gone \subseteq Gone'
        BY <2>1, GoneOfAppend
      <3> QED
        BY <1>19, <2>1, <3>1
           DEF PushVolume, At, radio, settings, LinkLost, CommandOut, CommandBusy,
               CommandSkipped, GoesOn, Finish, GoTo, Clear, PushNowRetry, RetriesLeft,
               Counted, AfterWrite
    <2>2. CASE sent' = sent
      BY <1>19, <2>2, GoneOfSame
         DEF PushVolume, At, radio, settings, LinkLost, CommandOut, CommandBusy,
             CommandSkipped, GoesOn, Finish, GoTo, Clear, PushNowRetry, RetriesLeft,
             Counted, AfterWrite
    <2> QED
      BY <1>19, <2>1, <2>2
         DEF PushVolume, CommandOut, CommandSkipped, CommandBusy, PushNowRetry
  <1>20. CASE UNCHANGED vars
    BY <1>20, GoneOfSame DEF vars, push, history
  <1> QED
    BY <1>1, <1>2, <1>3, <1>4, <1>5, <1>6, <1>7, <1>8, <1>9, <1>10, <1>11, <1>12, <1>13,
       <1>14, <1>15, <1>16, <1>17, <1>18, <1>19, <1>20
       DEF Next, Process

\* The step on which a push-now ends.
LEMMA NowEnds ==
  ASSUME TypeHistory, NowInv, [Next]_vars,
         isPushNow, connected, step' = "Idle", ~failed'
  PROVE  Needed \subseteq Gone'
  <1> USE DEF NowInv
  <1>1. CASE Connect
    BY <1>1 DEF Connect, settings, push, history
  <1>2. CASE Disconnect
    BY <1>2 DEF Disconnect, settings, push, history
  <1>3. CASE OnV1Connected
    BY <1>3
       DEF OnV1Connected, settings, push, history, QueueSlotPush, Accepted, isActive, Arm,
           Snapshot
  <1>4. CASE CycleProfile
    BY <1>4
       DEF CycleProfile, radio, push, history, QueueSlotPush, Accepted, isActive, Arm,
           Snapshot
  <1>5. CASE PushActiveSlot
    BY <1>5
       DEF PushActiveSlot, settings, radio, push, history, QueueSlotPush, Accepted,
           isActive, Arm, Snapshot
  <1>6. CASE PushNow
    BY <1>6 DEF PushNow, radio, Accepted, isActive, Arm, Snapshot
  <1>7. CASE EditSlot
    BY <1>7 DEF EditSlot, radio, push, history
  <1>8. CASE Activate
    BY <1>8 DEF Activate, radio, push, history
  <1>9. CASE EditProfiles
    BY <1>9 DEF EditProfiles, radio, push, history
  <1>10. CASE EditDevice
    BY <1>10 DEF EditDevice, radio, push, history
  <1>11. CASE Abort
    BY <1>11 DEF Abort, settings, history, Clear, LinkLost
  <1>12. CASE WaitReady
    BY <1>12 DEF WaitReady, At, radio, settings, LinkLost
  <1>13. CASE NoProfileToPush
    BY <1>13
       DEF NoProfileToPush, At, radio, settings, LinkLost, Finish, GoTo, Clear, haveProfile
  <1>14. CASE WriteProfile
    BY <1>14 DEF WriteProfile, At, radio, settings, LinkLost, GoTo, AfterWrite, haveProfile
  <1>15. CASE WriteProfileBusy
    BY <1>15
       DEF WriteProfileBusy, At, radio, settings, LinkLost, GoTo, Clear, PushNowRetry,
           RetriesLeft, Counted, haveProfile
  <1>16. CASE ProfileReadback
    BY <1>16 DEF ProfileReadback, At, radio, settings, LinkLost, Finish, GoTo, Clear
  <1>17. CASE PushDisplay
    BY <1>17
       DEF PushDisplay, At, radio, settings, LinkLost, CommandOut, CommandBusy,
           CommandSkipped, GoesOn, Finish, GoTo, Clear, PushNowRetry, RetriesLeft, Counted
  <1>18. CASE PushMode
    BY <1>18
       DEF PushMode, At, radio, settings, LinkLost, CommandOut, CommandBusy, CommandSkipped,
           GoesOn, Finish, GoTo, Clear, PushNowRetry, RetriesLeft, Counted
  <1>19. CASE PushVolume
    <2>1. At("Volume")
      BY <1>19 DEF PushVolume
    <2>2. CASE sent' = Append(sent, "Volume")
      <3>1. "Volume" \in Gone' /\ Gone \subseteq Gone'
        BY <2>2, GoneOfAppend
      <3> QED
        BY <2>1, <3>1 DEF Needed, At
    <2>3. CASE sent' = sent /\ slots[slotIndex].volume # "both"
      BY <2>1, <2>3, GoneOfSame DEF Needed, At
    <2> QED
      BY <1>19, <2>2, <2>3
         DEF PushVolume, CommandOut, CommandSkipped, CommandBusy, GoesOn, PushNowRetry,
             RetriesLeft, At
  <1>20. CASE UNCHANGED vars
    BY <1>20 DEF vars, push
  <1> QED
    BY <1>1, <1>2, <1>3, <1>4, <1>5, <1>6, <1>7, <1>8, <1>9, <1>10, <1>11,
       <1>12, <1>13, <1>14, <1>15, <1>16, <1>17, <1>18, <1>19, <1>20
       DEF Next, Process

\* No step of a push in flight changes what it pushes.
LEMMA NotClobberedStep == ASSUME isActive, step' # "Idle", [Next]_vars
                          PROVE UNCHANGED <<slotIndex, slot, isPushNow, armedLink>>
  <1> USE DEF isActive
  <1>1. CASE Connect
    BY <1>1 DEF Connect, settings, push, history
  <1>2. CASE Disconnect
    BY <1>2 DEF Disconnect, settings, push, history
  <1>3. CASE OnV1Connected
    BY <1>3
       DEF OnV1Connected, settings, push, history, QueueSlotPush, Accepted, isActive, Arm,
           Snapshot
  <1>4. CASE CycleProfile
    BY <1>4
       DEF CycleProfile, radio, push, history, QueueSlotPush, Accepted, isActive, Arm,
           Snapshot
  <1>5. CASE PushActiveSlot
    BY <1>5
       DEF PushActiveSlot, settings, radio, push, history, QueueSlotPush, Accepted,
           isActive, Arm, Snapshot
  <1>6. CASE PushNow
    BY <1>6 DEF PushNow, radio, Accepted, isActive, Arm, Snapshot
  <1>7. CASE EditSlot
    BY <1>7 DEF EditSlot, radio, push, history
  <1>8. CASE Activate
    BY <1>8 DEF Activate, radio, push, history
  <1>9. CASE EditProfiles
    BY <1>9 DEF EditProfiles, radio, push, history
  <1>10. CASE EditDevice
    BY <1>10 DEF EditDevice, radio, push, history
  <1>11. CASE Abort
    BY <1>11 DEF Abort, settings, history, Clear, LinkLost
  <1>12. CASE WaitReady
    BY <1>12 DEF WaitReady, At, radio, settings, LinkLost
  <1>13. CASE NoProfileToPush
    BY <1>13
       DEF NoProfileToPush, At, radio, settings, LinkLost, Finish, GoTo, Clear, haveProfile
  <1>14. CASE WriteProfile
    BY <1>14 DEF WriteProfile, At, radio, settings, LinkLost, GoTo, AfterWrite, haveProfile
  <1>15. CASE WriteProfileBusy
    BY <1>15
       DEF WriteProfileBusy, At, radio, settings, LinkLost, GoTo, Clear, PushNowRetry,
           RetriesLeft, Counted, haveProfile
  <1>16. CASE ProfileReadback
    BY <1>16 DEF ProfileReadback, At, radio, settings, LinkLost, Finish, GoTo, Clear
  <1>17. CASE PushDisplay
    BY <1>17
       DEF PushDisplay, At, radio, settings, LinkLost, CommandOut, CommandBusy,
           CommandSkipped, GoesOn, Finish, GoTo, Clear, PushNowRetry, RetriesLeft, Counted
  <1>18. CASE PushMode
    BY <1>18
       DEF PushMode, At, radio, settings, LinkLost, CommandOut, CommandBusy, CommandSkipped,
           GoesOn, Finish, GoTo, Clear, PushNowRetry, RetriesLeft, Counted
  <1>19. CASE PushVolume
    BY <1>19
       DEF PushVolume, At, radio, settings, LinkLost, CommandOut, CommandBusy,
           CommandSkipped, GoesOn, Finish, GoTo, Clear, PushNowRetry, RetriesLeft, Counted
  <1>20. CASE UNCHANGED vars
    BY <1>20 DEF vars, settings, radio, push, history
  <1> QED
    BY <1>1, <1>2, <1>3, <1>4, <1>5, <1>6, <1>7, <1>8, <1>9, <1>10, <1>11, <1>12, <1>13,
       <1>14, <1>15, <1>16, <1>17, <1>18, <1>19, <1>20
       DEF Next, Process

\* A command is sent only on the link the push was armed on.
LEMMA SendStep == ASSUME LinkInv, sent' # sent, sent' # <<>>, [Next]_vars
                  PROVE connected /\ armedLink = link
  <1> USE DEF LinkInv, isActive
  <1>1. CASE Connect
    BY <1>1 DEF Connect, settings, push, history
  <1>2. CASE Disconnect
    BY <1>2 DEF Disconnect, settings, push, history
  <1>3. CASE OnV1Connected
    BY <1>3
       DEF OnV1Connected, settings, push, history, QueueSlotPush, Accepted, isActive, Arm,
           Snapshot
  <1>4. CASE CycleProfile
    BY <1>4
       DEF CycleProfile, radio, push, history, QueueSlotPush, Accepted, isActive, Arm,
           Snapshot
  <1>5. CASE PushActiveSlot
    BY <1>5
       DEF PushActiveSlot, settings, radio, push, history, QueueSlotPush, Accepted,
           isActive, Arm, Snapshot
  <1>6. CASE PushNow
    BY <1>6 DEF PushNow, radio, Accepted, isActive, Arm, Snapshot
  <1>7. CASE EditSlot
    BY <1>7 DEF EditSlot, radio, push, history
  <1>8. CASE Activate
    BY <1>8 DEF Activate, radio, push, history
  <1>9. CASE EditProfiles
    BY <1>9 DEF EditProfiles, radio, push, history
  <1>10. CASE EditDevice
    BY <1>10 DEF EditDevice, radio, push, history
  <1>11. CASE Abort
    BY <1>11 DEF Abort, settings, history, Clear, LinkLost
  <1>12. CASE WaitReady
    BY <1>12 DEF WaitReady, At, radio, settings, LinkLost
  <1>13. CASE NoProfileToPush
    BY <1>13
       DEF NoProfileToPush, At, radio, settings, LinkLost, Finish, GoTo, Clear, haveProfile
  <1>14. CASE WriteProfile
    BY <1>14 DEF WriteProfile, At, radio, settings, LinkLost, GoTo, AfterWrite, haveProfile
  <1>15. CASE WriteProfileBusy
    BY <1>15
       DEF WriteProfileBusy, At, radio, settings, LinkLost, GoTo, Clear, PushNowRetry,
           RetriesLeft, Counted, haveProfile
  <1>16. CASE ProfileReadback
    BY <1>16 DEF ProfileReadback, At, radio, settings, LinkLost, Finish, GoTo, Clear
  <1>17. CASE PushDisplay
    BY <1>17
       DEF PushDisplay, At, radio, settings, LinkLost, CommandOut, CommandBusy,
           CommandSkipped, GoesOn, Finish, GoTo, Clear, PushNowRetry, RetriesLeft, Counted
  <1>18. CASE PushMode
    BY <1>18
       DEF PushMode, At, radio, settings, LinkLost, CommandOut, CommandBusy, CommandSkipped,
           GoesOn, Finish, GoTo, Clear, PushNowRetry, RetriesLeft, Counted
  <1>19. CASE PushVolume
    BY <1>19
       DEF PushVolume, At, radio, settings, LinkLost, CommandOut, CommandBusy,
           CommandSkipped, GoesOn, Finish, GoTo, Clear, PushNowRetry, RetriesLeft, Counted
  <1>20. CASE UNCHANGED vars
    BY <1>20 DEF vars, settings, radio, push, history
  <1> QED
    BY <1>1, <1>2, <1>3, <1>4, <1>5, <1>6, <1>7, <1>8, <1>9, <1>10, <1>11, <1>12, <1>13,
       <1>14, <1>15, <1>16, <1>17, <1>18, <1>19, <1>20
       DEF Next, Process

---------------------------------------------------------------------------
(* The theorems *)

\* The types hold at boot.
LEMMA InitTyped == Init => TypeOK
  <1> SUFFICES ASSUME Init PROVE TypeOK
    OBVIOUS
  <1>1. TypeSettings
    BY SlotsAssumption, ConfigAssumption DEF Init, TypeSettings, Slots
  <1>2. TypeRadio
    BY DEF Init, TypeRadio
  <1>3. TypePush
    <2>1. 0 \in Slots /\ NoPush \in Snapshots
      BY SlotsAssumption DEF Slots, NoPush, Snapshots, Modes
    <2>2. step \in Steps /\ slotIndex \in Slots /\ slot \in Snapshots
      BY <2>1 DEF Init, Steps
    <2>3. profileLoaded \in BOOLEAN /\ isPushNow \in BOOLEAN
      BY DEF Init
    <2>4. /\ profileWriteRetries \in 0..MaxProfileWriteRetries
          /\ commandRetries \in 0..MaxCommandRetries
      BY RetryAssumption DEF Init
    <2> QED
      BY <2>2, <2>3, <2>4 DEF TypePush
  <1>4. TypeHistory
    <2>1. armedLink \in {0, 1} /\ sent \in Seq(Commands)
      BY DEF Init
    <2>2. failed \in BOOLEAN
      BY DEF Init
    <2> QED
      BY <2>1, <2>2 DEF TypeHistory
  <1> QED
    BY <1>1, <1>2, <1>3, <1>4 DEF TypeOK

\* Every variable keeps to its values, the retry counters to their limits
\* (auto_push_module.h:59-60).
THEOREM TypeCorrect == Spec => []TypeOK
  <1>1. TypeOK /\ [Next]_vars => TypeOK'
    BY SettingsStep, RadioStep, PushStep, HistoryStep DEF TypeOK
  <1> QED
    BY InitTyped, <1>1, PTL DEF Spec

\* A request never changes what a push in flight is pushing
\* (docs/RUNTIME_OWNERSHIP.md:64).
THEOREM RequestsDoNotClobber == Spec => NotClobbered
  <1>1. [Next]_vars => [isActive /\ step' # "Idle"
                           => UNCHANGED <<slotIndex, slot, isPushNow, armedLink>>]_vars
    BY NotClobberedStep
  <1> QED
    BY <1>1, PTL DEF Spec, NotClobbered

\* Nothing queued on one connection is sent on another: a lost link ends the push
\* before the link can come up again (auto_push_module.cpp:134-140).
THEOREM PushesStayInConnection == Spec => StaysInConnection
  <1>1. Init => LinkInv
    BY DEF Init, LinkInv, isActive
  <1>2. LinkInv /\ [Next]_vars => LinkInv'
    BY LinkStep
  <1>3. LinkInv /\ [Next]_vars
          => [sent' # sent /\ sent' # <<>> => connected /\ armedLink = link]_vars
    BY SendStep
  <1> QED
    BY <1>1, <1>2, <1>3, PTL DEF Spec, StaysInConnection

\* The V1 gets each command at most once and in order, whatever was busy.
THEOREM CommandsInOrder == Spec => []SentInOrder
  <1>1. Init => TypeRadio /\ OrderInv
    BY InitTyped DEF Init, OrderInv, TypeOK, SentInOrder, SentBefore
  <1>2. TypeRadio /\ OrderInv /\ [Next]_vars => (TypeRadio /\ OrderInv)'
    BY RadioStep, OrderStep
  <1>3. OrderInv => SentInOrder
    BY DEF OrderInv
  <1> QED
    BY <1>1, <1>2, <1>3, PTL DEF Spec

\* A push-now that is not counted as failed has sent everything, for every retry
\* limit (auto_push_module.cpp:147-168).
THEOREM PushNowSendsAll == Spec => PushNowComplete
  <1>1. Init => TypeOK /\ NowInv
    BY InitTyped DEF Init, NowInv
  <1>2. TypeOK /\ NowInv /\ [Next]_vars => (TypeOK /\ NowInv)'
    BY SettingsStep, RadioStep, PushStep, HistoryStep, NowStep DEF TypeOK
  <1>3. TypeOK /\ NowInv /\ [Next]_vars
          => [isPushNow /\ connected /\ step' = "Idle" /\ ~failed'
                => Needed \subseteq {sent'[i] : i \in DOMAIN sent'}]_vars
    BY NowEnds DEF TypeOK, Gone
  <1> QED
    BY <1>1, <1>2, <1>3, PTL DEF Spec, PushNowComplete

---------------------------------------------------------------------------
(* QuietVolume: types *)

\* The typing, with a list of frequencies that can be counted.
VolumeTypeInv == VolumeTypeOK /\ IsFiniteSet(seenFreqs)

\* A volume, or the mark of none.
Held == Volumes \union {NoVolume}

\* The bounds, as the proofs use them.
LEMMA VolumeConstants ==
    /\ NoVolume \notin Volumes /\ FadeVolume \in Volumes /\ Volumes \subseteq Nat
    /\ SpeedVolumes \subseteq Held
    /\ FadeDelay \in Nat \ {0} /\ CarryWindow \in Nat
    /\ RestoreWindow \in Nat \ {0} /\ Debounce \in Nat /\ MaxSeenFreqs \in Nat
<1>1. Volumes \subseteq 0..15 /\ FadeVolume \in Volumes
      BY VolumesAssumption
<1>2. NoVolume \notin Volumes /\ Volumes \subseteq Nat
      BY <1>1 DEF NoVolume
<1> QED
      BY <1>1, <1>2, SpeedVolumesAssumption, TimesAssumption, SeenAssumption DEF Held

\* A command sets a volume the V1 has, or none.
LEMMA SendKeeps ==
    ASSUME NEW kind, NEW v \in Held, v1Volume \in Volumes, SendVolume(kind, v)
    PROVE  v1Volume' \in Volumes
BY DEF SendVolume, Held

\* The frequency of the last frame is one there is.
LEMMA SceneFreq == ASSUME TypeScene PROVE scene.freq \in Freqs \union {0}
<1>1. CASE scene = Silence
      BY <1>1 DEF Silence
<1>2. CASE scene \in [alerts : {TRUE}, kaBand : BOOLEAN, muteFlag : BOOLEAN,
                      freq : Freqs \union {0}]
      BY <1>2
<1> QED
      BY <1>1, <1>2 DEF TypeScene, Scenes

\* AddSeen keeps the list within its bound.
LEMMA SeenGrows ==
    ASSUME TypeScene, NEW seen \in SUBSET Freqs, IsFiniteSet(seen),
           Cardinality(seen) <= MaxSeenFreqs
    PROVE  /\ AddSeen(seen) \subseteq Freqs /\ IsFiniteSet(AddSeen(seen))
           /\ Cardinality(AddSeen(seen)) <= MaxSeenFreqs
<1>1. CASE scene.freq # 0 /\ Cardinality(seen) < MaxSeenFreqs
      <2>1. AddSeen(seen) = seen \union {scene.freq} /\ scene.freq \in Freqs
            BY <1>1, SceneFreq DEF AddSeen
      <2>2. /\ IsFiniteSet(seen \union {scene.freq})
            /\ Cardinality(seen \union {scene.freq}) \in {Cardinality(seen), Cardinality(seen) + 1}
            BY FS_AddElement
      <2>3. Cardinality(seen) \in Nat
            BY FS_CardinalityType
      <2> QED
            BY <1>1, <2>1, <2>2, <2>3, VolumeConstants
<1>2. CASE ~(scene.freq # 0 /\ Cardinality(seen) < MaxSeenFreqs)
      BY <1>2 DEF AddSeen
<1> QED
      BY <1>1, <1>2

\* The empty list is within it too.
LEMMA NoneSeen == {} \subseteq Freqs /\ IsFiniteSet({}) /\ Cardinality({}) <= MaxSeenFreqs
BY FS_EmptySet, VolumeConstants

\* At boot neither feature holds or remembers anything.
LEMMA VolumeInitTyped == VolumeInit => VolumeTypeInv
<1> SUFFICES ASSUME VolumeInit PROVE VolumeTypeInv
    OBVIOUS
<1>1. TypeFlags
      BY DEF VolumeInit, TypeFlags
<1>2. TypeVolumes
      BY DEF VolumeInit, TypeVolumes
<1>3. TypeAges
      BY VolumeConstants DEF VolumeInit, TypeAges, Unset
<1>4. TypeScene
      BY NoneSeen DEF VolumeInit, TypeScene, Scenes, Speeds
<1>5. IsFiniteSet(seenFreqs)
      BY NoneSeen DEF VolumeInit
<1> QED
      BY <1>1, <1>2, <1>3, <1>4, <1>5 DEF VolumeTypeInv, VolumeTypeOK

\* What the volumes a command or a memory may take are drawn from.
LEMMA VolumesHeld ==
    ASSUME TypeVolumes
    PROVE  /\ speedVolume \in Held /\ carried \in Held /\ hinted \in Held /\ Baseline \in Held
<1>1. fadeRestore \in Held /\ hint \in Held /\ mainVolume \in Held /\ NoVolume \in Held
      BY DEF TypeVolumes, Held
<1>2. carried \in Held /\ hinted \in Held
      BY <1>1 DEF carried, hinted
<1>3. Baseline \in {carried, hinted, mainVolume}
      BY Zenon DEF Baseline
<1> QED
      BY <1>1, <1>2, <1>3, VolumeConstants DEF TypeVolumes

\* What happens between two frames, and the frame itself.
Outside == UserSetsVolume \/ ChangeSettings \/ ChangeSpeed \/ Tick \/ UpdateSpeedMute \/ Frame

\* The two history flags about the driver are flags: a turn and a frame set the
\* one, a turn and a baseline the other.
LEMMA DriverFlags ==
    ASSUME TypeFlags, Outside \/ ProcessSpeedVolume \/ ExecuteVolumeFade
    PROVE  unshown' \in BOOLEAN /\ overtaken' \in BOOLEAN
<1>1. \A a, b : (a = b) \in BOOLEAN /\ (a # b) \in BOOLEAN
      OBVIOUS
<1>2. \A a, b : (a /\ b) \in BOOLEAN /\ (a \/ b) \in BOOLEAN
      OBVIOUS
<1>3. FALSE \in BOOLEAN
      OBVIOUS
<1> USE DEF Outside, UserSetsVolume, ChangeSettings, ChangeSpeed, Tick, UpdateSpeedMute, Frame,
            ProcessSpeedVolume, DropVolume, HoldVolume, RestoreVolume, RestoreOver, RetryRestore,
            NoSpeedVolume, ExecuteVolumeFade, FadeDisabled, FadeRestores, FadeRestoreWaits,
            FadeEnds, FadeNewFrequency, FadeBegins, FadeContinues, inFade, inSpeed, world, driver,
            TakeBaseline, TypeFlags
<1>4. unshown' \in BOOLEAN
      BY <1>1, <1>2, Zenon
<1>5. overtaken' \in BOOLEAN
      BY <1>2, <1>3, Zenon
<1> QED
      BY <1>4, <1>5

\* Every step keeps the types of the flags,
LEMMA FlagsStep == ASSUME TypeFlags, VolumeNext PROVE TypeFlags'
<1> USE DEF TypeFlags, world, driver, volumeSettings, mute, quiet, session, carry
<1>0. TRUE \in BOOLEAN /\ FALSE \in BOOLEAN
      OBVIOUS
<1>1. ASSUME Outside PROVE TypeFlags'
      <2>1. WantsMute \in BOOLEAN
            BY DEF WantsMute
      <2>2. unshown' \in BOOLEAN /\ overtaken' \in BOOLEAN
            BY <1>1, DriverFlags
      <2> QED
            BY <1>1, <2>1, <2>2, Zenon
            DEF Outside, UserSetsVolume, ChangeSettings, ChangeSpeed, Tick, UpdateSpeedMute,
                Frame
<1>2. ASSUME ProcessSpeedVolume PROVE TypeFlags'
      <2>1. \A g \in BOOLEAN : (givenUp \/ g) \in BOOLEAN
            OBVIOUS
      <2>2. givenUp' \in BOOLEAN
            BY <1>2, Zenon
            DEF ProcessSpeedVolume, DropVolume, HoldVolume, RestoreVolume, RestoreOver,
                RetryRestore, NoSpeedVolume, GiveUp
      <2>3. speedVolActive' \in BOOLEAN
            BY <1>0, <1>2, Zenon
            DEF ProcessSpeedVolume, DropVolume, HoldVolume, RestoreVolume, RestoreOver,
                RetryRestore, NoSpeedVolume
      <2>4. UNCHANGED <<volumeSettings, mute, session>>
            BY <1>2, Zenon
            DEF ProcessSpeedVolume, DropVolume, HoldVolume, RestoreVolume, RestoreOver,
                RetryRestore, NoSpeedVolume, inSpeed, duringSpeed
      <2>5. unshown' \in BOOLEAN /\ overtaken' \in BOOLEAN
            BY <1>2, DriverFlags
      <2> QED
            BY <2>2, <2>3, <2>4, <2>5
<1>3. ASSUME ExecuteVolumeFade PROVE TypeFlags'
      <2> USE DEF ExecuteVolumeFade, FadeDisabled, FadeRestores, FadeRestoreWaits, FadeEnds,
                  FadeNewFrequency, FadeBegins, FadeContinues, inFade, ResetSession
      <2>1. UNCHANGED <<volumeSettings, mute, quiet>>
            BY <1>3, Zenon
      <2>2. givenUp' \in BOOLEAN
            BY <1>3, Zenon DEF GiveUp
      <2>3. faded \in BOOLEAN
            BY DEF faded
      <2>4. fadeActive' \in BOOLEAN
            BY <1>0, <1>3, <2>3, Zenon
      <2>5. commandSent' \in BOOLEAN
            BY <1>0, <1>3, Zenon
      <2>6. restoreTried' \in BOOLEAN
            BY <1>0, <1>3, Zenon
      <2>7. unshown' \in BOOLEAN /\ overtaken' \in BOOLEAN
            BY <1>3, DriverFlags
      <2> QED
            BY <2>1, <2>2, <2>4, <2>5, <2>6, <2>7
<1> QED
      BY <1>1, <1>2, <1>3 DEF VolumeNext, Outside

\* of the volumes,
LEMMA VolumesStep == ASSUME TypeVolumes, VolumeNext PROVE TypeVolumes'
<1> USE DEF world, driver, volumeSettings, mute, quiet, session, carry
<1>1. ASSUME Outside PROVE TypeVolumes'
      BY <1>1
      DEF TypeVolumes, Outside, UserSetsVolume, ChangeSettings, ChangeSpeed, Tick,
          UpdateSpeedMute, Frame
<1>2. ASSUME ProcessSpeedVolume PROVE TypeVolumes'
      <2> USE DEF ProcessSpeedVolume, DropVolume, HoldVolume, RestoreVolume, RestoreOver,
                  RetryRestore, NoSpeedVolume, inSpeed, duringSpeed, busy, free, TakeBaseline
      <2>1. UNCHANGED <<mainVolume, userVolume, speedVolume, originalVolume, fadeRestore>>
            BY <1>2
      <2>2. v1Volume' \in Volumes
            BY <1>2, SendKeeps, VolumesHeld DEF TypeVolumes, Held
      <2>3. savedOriginal' \in Held
            BY <1>2 DEF TypeVolumes, Held, SaveOriginal
      <2>4. pendingRestore' \in Held
            BY <1>2 DEF TypeVolumes, Held
      <2>5. hint' \in Held
            BY <1>2 DEF TypeVolumes, Held
      <2> QED
            BY <2>1, <2>2, <2>3, <2>4, <2>5 DEF TypeVolumes, Held
<1>3. ASSUME ExecuteVolumeFade PROVE TypeVolumes'
      <2> USE DEF ExecuteVolumeFade, FadeDisabled, FadeRestores, FadeRestoreWaits, FadeEnds,
                  FadeNewFrequency, FadeBegins, FadeContinues, inFade, ResetSession, TakeBaseline
      <2>1. UNCHANGED <<mainVolume, userVolume, speedVolume, savedOriginal, pendingRestore>>
            BY <1>3
      <2>2. v1Volume' \in Volumes
            BY <1>3, SendKeeps, VolumeConstants DEF TypeVolumes, Held
      <2>3. originalVolume' \in Held
            BY <1>3, VolumesHeld DEF TypeVolumes, Held
      <2>4. fadeRestore' \in Held
            BY <1>3, VolumesHeld DEF TypeVolumes, Held
      <2>5. hint' \in Held
            BY <1>3, VolumesHeld DEF TypeVolumes, Held
      <2> QED
            BY <2>1, <2>2, <2>3, <2>4, <2>5 DEF TypeVolumes, Held
<1> QED
      BY <1>1, <1>2, <1>3 DEF VolumeNext, Outside

\* of the ages,
LEMMA AgesStep == ASSUME TypeAges, VolumeNext PROVE TypeAges'
<1> USE VolumeConstants
    DEF TypeAges, Unset, world, driver, volumeSettings, mute, quiet, session, carry
<1>1. ASSUME Outside PROVE TypeAges'
      <2>1. CASE Tick
            BY <2>1 DEF Tick, older
      <2> QED
            BY <1>1, <2>1
            DEF Outside, UserSetsVolume, ChangeSettings, ChangeSpeed, UpdateSpeedMute, Frame
<1>2. ASSUME ProcessSpeedVolume PROVE TypeAges'
      BY <1>2
      DEF ProcessSpeedVolume, DropVolume, HoldVolume, RestoreVolume, RestoreOver,
          RetryRestore, NoSpeedVolume, inSpeed, duringSpeed, busy, free
<1>3. ASSUME ExecuteVolumeFade PROVE TypeAges'
      <2> USE DEF ExecuteVolumeFade, FadeDisabled, FadeRestores, FadeRestoreWaits, FadeEnds,
                  FadeNewFrequency, FadeBegins, FadeContinues, inFade, ResetSession
      <2>1. UNCHANGED <<mute, quiet, hintAge>>
            BY <1>3, Zenon
      <2>2. alertAge' \in {alertAge, 0, Unset}
            BY <1>3
      <2>3. fadeRestoreAge' \in {fadeRestoreAge, 0}
            BY <1>3
      <2> QED
            BY <2>1, <2>2, <2>3
<1> QED
      BY <1>1, <1>2, <1>3 DEF VolumeNext, Outside

\* of the alert, and the bound of the frequencies seen.
LEMMA SceneStep ==
    ASSUME TypeScene, IsFiniteSet(seenFreqs), VolumeNext
    PROVE  TypeScene' /\ IsFiniteSet(seenFreqs')
<1> USE DEF world, driver, volumeSettings, mute, quiet, session, carry
<1>1. ASSUME Outside PROVE TypeScene' /\ IsFiniteSet(seenFreqs')
      BY <1>1
      DEF TypeScene, Outside, UserSetsVolume, ChangeSettings, ChangeSpeed, Tick,
          UpdateSpeedMute, Frame
<1>2. ASSUME ProcessSpeedVolume PROVE TypeScene' /\ IsFiniteSet(seenFreqs')
      BY <1>2
      DEF TypeScene, ProcessSpeedVolume, DropVolume, HoldVolume, RestoreVolume, RestoreOver,
          RetryRestore, NoSpeedVolume, inSpeed, duringSpeed, busy, free
<1>3. ASSUME ExecuteVolumeFade PROVE TypeScene' /\ IsFiniteSet(seenFreqs')
      <2> USE DEF ExecuteVolumeFade, FadeDisabled, FadeRestores, FadeRestoreWaits, FadeEnds,
                  FadeNewFrequency, FadeBegins, FadeContinues, inFade, ResetSession
      <2>1. pc' = "idle" /\ UNCHANGED <<scene, mute>>
            BY <1>3
      <2>2. seenFreqs' \in {seenFreqs, {}, AddSeen(seenFreqs), AddSeen({})}
            BY <1>3
      <2>3. /\ seenFreqs' \subseteq Freqs /\ IsFiniteSet(seenFreqs')
            /\ Cardinality(seenFreqs') <= MaxSeenFreqs
            BY <2>2, SeenGrows, NoneSeen DEF TypeScene
      <2> QED
            BY <2>1, <2>3 DEF TypeScene
<1> QED
      BY <1>1, <1>2, <1>3 DEF VolumeNext, Outside

\* All of them together.
LEMMA VolumeTypeStep == VolumeTypeInv /\ [VolumeNext]_volumeVars => VolumeTypeInv'
<1>1. VolumeTypeInv /\ VolumeNext => VolumeTypeInv'
      BY FlagsStep, VolumesStep, AgesStep, SceneStep DEF VolumeTypeInv, VolumeTypeOK
<1>2. VolumeTypeInv /\ UNCHANGED volumeVars => VolumeTypeInv'
      BY DEF VolumeTypeInv, VolumeTypeOK, TypeFlags, TypeVolumes, TypeAges, TypeScene,
             volumeVars, world, driver, volumeSettings, mute, quiet, session, carry
<1> QED
      BY <1>1, <1>2

\* Every variable of the two volume features keeps its type, and the list of
\* frequencies seen keeps within MAX_FADE_SEEN_FREQS (volume_fade_module.cpp).
THEOREM VolumeTypeCorrect == VolumeSpec => []VolumeTypeOK
<1>1. VolumeTypeInv => VolumeTypeOK
      BY DEF VolumeTypeInv
<1> QED
      BY <1>1, VolumeInitTyped, VolumeTypeStep, PTL DEF VolumeSpec

---------------------------------------------------------------------------
(* QuietVolume: the volume of the driver is not lost *)

\* The fade holds the driver's volume: it lowered it, or has sent it and waits.
Holds == originalVolume = userVolume /\ (fadeActive \/ fadeRestore = userVolume)

\* The speed mute holds none.
SpeedFree == ~speedVolActive /\ pendingRestore = NoVolume

\* What the fade remembers is the driver's volume.
FadeMemory ==
    /\ originalVolume \in {NoVolume, userVolume} /\ fadeRestore \in {NoVolume, userVolume}
    /\ alertAge = Unset <=> originalVolume = NoVolume
    /\ originalVolume = NoVolume => fadeRestore = NoVolume /\ ~fadeActive
    /\ ~fadeEnabled => originalVolume = NoVolume

\* What the speed mute remembers is the driver's volume too, or the fade volume
\* while the fade remembers the driver's.
Restorable(v) == v = userVolume \/ (v = FadeVolume /\ Holds)

SpeedMemory ==
    /\ speedVolActive <=> savedOriginal # NoVolume
    /\ speedVolActive => Restorable(savedOriginal) /\ pendingRestore = NoVolume
    /\ pendingRestore # NoVolume =>
          Restorable(pendingRestore) /\ v1Volume = pendingRestore /\ hint = pendingRestore
    /\ pc = "fade" => SpeedFree

\* The hint the fade gets from the speed mute is the driver's volume, or lapses
\* before the fade looks for a baseline.
HintMemory ==
    hint \notin {NoVolume, userVolume} =>
        /\ Holds
        /\ speedVolActive \/ pendingRestore = hint \/ (v1Volume = hint /\ mainVolume = hint)

\* Without the speed mute the V1 is at the driver's volume or at the fade volume.
InForce ==
    SpeedFree =>
        /\ {v1Volume, mainVolume} \subseteq {userVolume, FadeVolume}
        /\ ~Holds => v1Volume = userVolume /\ mainVolume = userVolume
        /\ fadeRestore = userVolume /\ mainVolume = userVolume => v1Volume = userVolume

Memory == FadeMemory /\ SpeedMemory /\ HintMemory /\ InForce

\* The knob has been turned, no frame has shown it, and no feature has begun.
Turned ==
    /\ unshown /\ v1Volume = userVolume
    /\ SpeedFree /\ originalVolume = NoVolume /\ fadeRestore = NoVolume /\ hint = NoVolume

\* The flags tell whether there is a baseline, lost or not.
Sessions ==
    /\ speedVolActive <=> savedOriginal # NoVolume
    /\ alertAge = Unset <=> originalVolume = NoVolume
    /\ originalVolume = NoVolume => ~fadeActive
    /\ ~fadeEnabled => originalVolume = NoVolume

MemoryInv == Sessions /\ (givenUp \/ overtaken \/ Turned \/ Memory)

\* No restore is lost on its way to the V1.
RestoresArrive == "restore" \notin Lossy

\* NoVolume is not a volume the driver has.
LEMMA UserIsSomething == ASSUME TypeVolumes PROVE userVolume # NoVolume /\ mainVolume # NoVolume
BY VolumeConstants DEF TypeVolumes

\* Between two frames a session neither begins nor ends.
LEMMA SessionAges ==
    ASSUME TypeAges, Outside
    PROVE  alertAge' = Unset <=> alertAge = Unset
<1>1. CASE Tick
      BY <1>1, VolumeConstants DEF Tick, older, TypeAges, Unset
<1> QED
      BY <1>1 DEF Outside, UserSetsVolume, ChangeSettings, ChangeSpeed, UpdateSpeedMute, Frame,
                  session

\* A feature that begins takes a volume, and one that ends leaves none.
LEMMA SessionsStep ==
    ASSUME fadeActive \in BOOLEAN, TypeVolumes, TypeAges, Sessions, VolumeNext
    PROVE  Sessions'
<1> USE DEF Sessions
<1>1. CASE Outside
      <2>1. UNCHANGED <<fadeEnabled, speedVolActive, savedOriginal, originalVolume, fadeActive>>
            BY <1>1 DEF Outside, UserSetsVolume, ChangeSettings, ChangeSpeed, Tick,
                        UpdateSpeedMute, Frame, volumeSettings, quiet, session
      <2> QED
            BY <1>1, <2>1, SessionAges
<1>2. CASE ProcessSpeedVolume
      <2>1. UNCHANGED <<fadeEnabled, alertAge, originalVolume, fadeActive>>
            BY <1>2 DEF ProcessSpeedVolume, DropVolume, HoldVolume, RestoreVolume, RestoreOver,
                RetryRestore, NoSpeedVolume, inSpeed, duringSpeed, volumeSettings, session
      <2>2. speedVolActive' <=> savedOriginal' # NoVolume
            <3>1. CASE DropVolume
                  BY <3>1, UserIsSomething DEF DropVolume, SaveOriginal
            <3>2. CASE ~DropVolume
                  BY <1>2, <3>2 DEF ProcessSpeedVolume, HoldVolume, RestoreVolume, RestoreOver,
                                    RetryRestore, NoSpeedVolume, quiet
            <3> QED
                  BY <3>1, <3>2
      <2> QED
            BY <2>1, <2>2
<1>3. CASE ExecuteVolumeFade
      <2>1. UNCHANGED <<fadeEnabled, speedVolActive, savedOriginal>>
            BY <1>3 DEF ExecuteVolumeFade, FadeDisabled, FadeRestores, FadeRestoreWaits, FadeEnds,
                FadeNewFrequency, FadeBegins, FadeContinues, inFade, volumeSettings, quiet
      <2>2. CASE FadeDisabled \/ FadeEnds
            BY <2>1, <2>2 DEF FadeDisabled, FadeEnds, ResetSession
      <2>3. CASE FadeRestores \/ FadeRestoreWaits
            BY <2>1, <2>3 DEF FadeRestores, FadeRestoreWaits, faded
      <2>4. CASE FadeContinues
            <3>1. alertAge # Unset /\ UNCHANGED <<alertAge, originalVolume>>
                  BY <2>4 DEF FadeContinues
            <3> QED
                  BY <2>1, <3>1
      <2>5. CASE FadeNewFrequency
            BY <2>1, <2>5 DEF FadeNewFrequency, faded, Unset
      <2>6. CASE FadeBegins
            <3>1. Baseline # NoVolume
                  BY UserIsSomething DEF Baseline
            <3>2. fadeEnabled /\ alertAge' = 0 /\ originalVolume' = Baseline
                  BY <2>6 DEF FadeBegins
            <3> QED
                  BY <2>1, <3>1, <3>2 DEF Unset
      <2> QED
            BY <1>3, <2>2, <2>3, <2>4, <2>5, <2>6 DEF ExecuteVolumeFade
<1> QED
      BY <1>1, <1>2, <1>3 DEF VolumeNext, Outside

\* At boot the V1 is at the volume of the driver.
LEMMA MemoryInit == VolumeInit => MemoryInv
BY DEF VolumeInit, MemoryInv, Sessions, Memory, FadeMemory, SpeedMemory, HintMemory, InForce,
       Holds, SpeedFree, Unset

\* Between two frames, and by a frame, nothing that is remembered changes.
LEMMA OutsideKeeps ==
    ASSUME TypeAges, Memory, Outside, ~UserSetsVolume
    PROVE  Memory'
<1> USE DEF volumeSettings, mute, quiet, session, carry
<1>1. /\ pc = "idle" /\ pc' \in {"idle", "speed"} /\ UNCHANGED <<v1Volume, userVolume>>
      /\ mainVolume' \in {v1Volume, mainVolume}
      /\ UNCHANGED <<fadeEnabled, speedVolActive, savedOriginal, pendingRestore,
                     originalVolume, fadeActive, fadeRestore, hint>>
      BY DEF Outside, ChangeSettings, ChangeSpeed, Tick, UpdateSpeedMute, Frame, world, driver
<1>2. alertAge' = Unset <=> alertAge = Unset
      BY SessionAges
<1>3. Holds' = Holds /\ SpeedFree' = SpeedFree
      BY <1>1 DEF Holds, SpeedFree
<1>4. FadeMemory'
      BY <1>1, <1>2 DEF Memory, FadeMemory
<1>5. SpeedMemory'
      BY <1>1, <1>3 DEF Memory, SpeedMemory, Restorable
<1>6. HintMemory'
      BY <1>1, <1>3 DEF Memory, HintMemory
<1>7. InForce'
      BY <1>1, <1>3 DEF Memory, InForce
<1> QED
      BY <1>4, <1>5, <1>6, <1>7 DEF Memory

\* A volume the driver sets while nobody holds one is in force at once.
LEMMA UserKeeps ==
    ASSUME Sessions, UserSetsVolume
    PROVE  Turned' \/ Memory'
<1>1. /\ SpeedFree /\ originalVolume = NoVolume /\ fadeRestore = NoVolume /\ hint = NoVolume
      /\ v1Volume' = userVolume' /\ unshown' = (mainVolume # v1Volume') /\ pc = "idle"
      /\ UNCHANGED <<pc, mainVolume, volumeSettings, quiet, session, carry>>
      BY DEF UserSetsVolume, SpeedFree
<1>2. CASE unshown'
      BY <1>1, <1>2 DEF Turned, SpeedFree, quiet, session, carry
<1>3. CASE ~unshown'
      BY <1>1, <1>3 DEF Sessions, Memory, FadeMemory, SpeedMemory, HintMemory, InForce, Holds,
                        SpeedFree, Restorable, volumeSettings, quiet, session, carry
<1> QED
      BY <1>2, <1>3

\* Until a feature begins, a turn stays in force, and a frame may show it.
LEMMA TurnedKeeps ==
    ASSUME TypeAges, Sessions, Turned, VolumeNext, ~UserSetsVolume, ~overtaken'
    PROVE  Turned' \/ Memory'
<1>1. CASE Outside
      <2>1. /\ UNCHANGED <<v1Volume, userVolume>> /\ pc' \in {"idle", "speed"}
            /\ UNCHANGED <<fadeEnabled, speedVolActive, savedOriginal, pendingRestore,
                           originalVolume, fadeActive, fadeRestore, hint>>
            /\ unshown' \/ mainVolume' = v1Volume
            BY <1>1 DEF Turned, Outside, ChangeSettings, ChangeSpeed, Tick, UpdateSpeedMute,
                        Frame, world, driver, volumeSettings, quiet, session, carry
      <2>2. CASE unshown'
            BY <2>1, <2>2 DEF Turned, SpeedFree
      <2>3. CASE mainVolume' = v1Volume
            <3>1. alertAge' = Unset <=> alertAge = Unset
                  BY <1>1, SessionAges
            <3>2. FadeMemory'
                  BY <2>1, <3>1 DEF Turned, Sessions, FadeMemory
            <3>3. SpeedMemory' /\ HintMemory' /\ InForce'
                  BY <2>1, <2>3
                  DEF Turned, Sessions, SpeedMemory, HintMemory, InForce, SpeedFree, Holds
            <3> QED
                  BY <3>2, <3>3 DEF Memory
      <2> QED
            BY <2>1, <2>2, <2>3
<1>2. CASE ProcessSpeedVolume
      <2>1. NoSpeedVolume
            BY <1>2 DEF Turned, SpeedFree, ProcessSpeedVolume, DropVolume, HoldVolume,
                        RestoreVolume, RestoreOver, RetryRestore, restorePending, TakeBaseline
      <2> QED
            BY <2>1 DEF NoSpeedVolume, inSpeed, duringSpeed, driver, free, Turned, SpeedFree,
                        quiet, session, carry
<1>3. CASE ExecuteVolumeFade
      <2>1. ~Due /\ ~faded /\ alertAge = Unset /\ carried = NoVolume /\ hinted = NoVolume
            BY DEF Turned, Sessions, Due, faded, carried, hinted
      <2>2. FadeDisabled \/ FadeEnds
            BY <1>3, <2>1 DEF ExecuteVolumeFade, FadeRestores, FadeRestoreWaits,
                FadeNewFrequency, FadeBegins, FadeContinues, TakeBaseline, Turned
      <2> QED
            BY <2>1, <2>2 DEF FadeDisabled, FadeEnds, inFade, ResetSession, Turned, SpeedFree,
                              world, driver, quiet
<1> QED
      BY <1>1, <1>2, <1>3 DEF VolumeNext, Outside

\* The speed mute saves what it finds, which may be restored, and restores it.
LEMMA SpeedVolumeKeeps ==
    ASSUME RestoresArrive, TypeVolumes, Memory, ProcessSpeedVolume, ~givenUp'
    PROVE  Memory'
<1>1. /\ pc = "speed" /\ UNCHANGED <<mainVolume, userVolume, fadeEnabled>>
      /\ UNCHANGED <<alertAge, originalVolume, fadeActive, fadeRestore>>
      BY DEF ProcessSpeedVolume, DropVolume, HoldVolume, RestoreVolume, RestoreOver,
             RetryRestore, NoSpeedVolume, inSpeed, duringSpeed, TakeBaseline, driver, busy, free,
             volumeSettings, session, carry
<1>2. Holds' = Holds
      BY <1>1 DEF Holds
<1>3. FadeMemory'
      BY <1>1 DEF Memory, FadeMemory
<1>4. CASE DropVolume
      <2>1. /\ ~speedVolActive /\ speedVolActive' = TRUE /\ savedOriginal' = mainVolume
            /\ pendingRestore \in {NoVolume, mainVolume} /\ pendingRestore' = NoVolume
            /\ pc' = "idle" /\ UNCHANGED hint
            BY <1>4 DEF DropVolume, SaveOriginal, GiveUp, busy, carry
      <2>2. Restorable(mainVolume)
            BY <2>1 DEF Memory, SpeedMemory, InForce, SpeedFree, Restorable
      <2>3. SpeedMemory'
            BY <1>1, <1>2, <2>1, <2>2, UserIsSomething DEF SpeedMemory, Restorable
      <2>4. HintMemory' /\ InForce'
            BY <1>1, <1>2, <2>1 DEF Memory, HintMemory, InForce, SpeedFree
      <2> QED
            BY <1>3, <2>3, <2>4 DEF Memory
<1>5. CASE HoldVolume
      <2>1. speedVolActive /\ pc' = "idle" /\ UNCHANGED <<quiet, hint>>
            BY <1>5 DEF HoldVolume, busy, carry
      <2>2. pendingRestore = NoVolume
            BY <2>1 DEF Memory, SpeedMemory
      <2>3. SpeedMemory'
            BY <1>1, <1>2, <2>1, <2>2 DEF Memory, SpeedMemory, Restorable, quiet
      <2>4. HintMemory' /\ InForce'
            BY <1>1, <1>2, <2>1 DEF Memory, HintMemory, InForce, SpeedFree, quiet
      <2> QED
            BY <1>3, <2>3, <2>4 DEF Memory
<1>6. CASE RestoreVolume
      <2>1. /\ speedVolActive /\ speedVolActive' = FALSE /\ savedOriginal' = NoVolume
            /\ pendingRestore' = (IF mainVolume = savedOriginal THEN NoVolume ELSE savedOriginal)
            /\ hint' = savedOriginal
            /\ mainVolume # savedOriginal => pc' = "idle"
            BY <1>6 DEF RestoreVolume
      <2>2. savedOriginal # NoVolume /\ Restorable(savedOriginal)
            BY <2>1 DEF Memory, SpeedMemory
      <2>3. v1Volume' = savedOriginal
            BY <1>6, <2>2 DEF RestoreVolume, SendVolume, RestoresArrive
      <2>4. SpeedMemory'
            BY <1>1, <1>2, <2>1, <2>2, <2>3 DEF SpeedMemory, Restorable, SpeedFree
      <2>5. HintMemory'
            BY <1>1, <1>2, <2>1, <2>2, <2>3 DEF HintMemory, Restorable
      <2>6. InForce'
            BY <1>1, <1>2, <2>1, <2>2, <2>3 DEF InForce, Restorable, SpeedFree
      <2> QED
            BY <1>3, <2>4, <2>5, <2>6 DEF Memory
<1>7. CASE RestoreOver
      <2>1. /\ ~speedVolActive /\ pendingRestore # NoVolume /\ mainVolume = pendingRestore
            /\ pendingRestore' = NoVolume
            /\ UNCHANGED <<v1Volume, speedVolActive, savedOriginal, hint>>
            BY <1>7 DEF RestoreOver, restorePending, GiveUp, free, carry
      <2>2. Restorable(pendingRestore) /\ v1Volume = pendingRestore /\ hint = pendingRestore
            BY <2>1 DEF Memory, SpeedMemory
      <2>3. SpeedMemory'
            BY <1>1, <1>2, <2>1 DEF Memory, SpeedMemory, SpeedFree
      <2>4. HintMemory'
            BY <1>1, <1>2, <2>1, <2>2 DEF HintMemory, Restorable
      <2>5. InForce'
            BY <1>1, <1>2, <2>1, <2>2 DEF InForce, Restorable
      <2> QED
            BY <1>3, <2>3, <2>4, <2>5 DEF Memory
<1>8. CASE RetryRestore \/ NoSpeedVolume
      <2>1. UNCHANGED <<quiet, hint>>
            BY <1>8 DEF RetryRestore, NoSpeedVolume, busy, free, carry
      <2>2. UNCHANGED v1Volume
            <3>1. CASE RetryRestore
                  <4>1. pendingRestore # NoVolume
                        BY <3>1 DEF RetryRestore, restorePending
                  <4>2. v1Volume' \in {v1Volume, pendingRestore}
                        BY <3>1, <4>1 DEF RetryRestore, SendVolume
                  <4> QED
                        BY <4>1, <4>2 DEF Memory, SpeedMemory
            <3> QED
                  BY <1>8, <3>1 DEF NoSpeedVolume
      <2>3. pc' = "fade" => SpeedFree
            BY <1>8 DEF RetryRestore, NoSpeedVolume, busy, free, SpeedFree
      <2>4. SpeedMemory'
            BY <1>1, <1>2, <2>1, <2>2, <2>3 DEF Memory, SpeedMemory, Restorable, SpeedFree, quiet
      <2>5. HintMemory'
            BY <1>1, <1>2, <2>1, <2>2 DEF Memory, HintMemory, quiet
      <2>6. InForce'
            BY <1>1, <1>2, <2>1, <2>2 DEF Memory, InForce, SpeedFree, quiet
      <2> QED
            BY <1>3, <2>4, <2>5, <2>6 DEF Memory
<1> QED
      BY <1>4, <1>5, <1>6, <1>7, <1>8 DEF ProcessSpeedVolume

\* What the fade finds when it runs.
FadeFinds ==
    /\ SpeedFree /\ hinted \in {NoVolume, userVolume}
    /\ restoreLapsed => v1Volume = userVolume /\ mainVolume = userVolume
    /\ fadeRestore = userVolume /\ ~restoreLapsed => mainVolume # userVolume
    /\ ~Holds => v1Volume = userVolume /\ mainVolume = userVolume

\* The hint has lapsed or is the volume of the driver, and a restore that lapses
\* has reached the V1.
LEMMA FadeLooks ==
    ASSUME TypeVolumes, Memory, pc = "fade", restoreLapsed => mainVolume = fadeRestore
    PROVE  FadeFinds
<1>1. SpeedFree
      BY DEF Memory, SpeedMemory
<1>2. hinted \in {NoVolume, userVolume}
      <2>1. CASE hint \notin {NoVolume, userVolume}
            BY <1>1, <2>1 DEF Memory, HintMemory, SpeedFree, hinted, hintLapsed
      <2> QED
            BY <2>1 DEF hinted
<1>3. restoreLapsed => v1Volume = userVolume /\ mainVolume = userVolume
      BY <1>1 DEF Memory, FadeMemory, InForce, restoreLapsed
<1>4. fadeRestore = userVolume /\ ~restoreLapsed => mainVolume # userVolume
      BY UserIsSomething DEF restoreLapsed
<1> QED
      BY <1>1, <1>2, <1>3, <1>4 DEF Memory, InForce, FadeFinds

\* The fade leaves the speed mute alone, so that three of its parts are enough.
LEMMA FadeFrame ==
    ASSUME Memory, pc = "fade", ExecuteVolumeFade,
           FadeMemory', hint' \in {NoVolume, userVolume},
           {v1Volume', mainVolume} \subseteq {userVolume, FadeVolume},
           ~Holds' => v1Volume' = userVolume /\ mainVolume = userVolume,
           fadeRestore' = userVolume /\ mainVolume = userVolume => v1Volume' = userVolume
    PROVE  Memory'
<1>1. pc' = "idle" /\ UNCHANGED <<mainVolume, userVolume, quiet>>
      BY DEF ExecuteVolumeFade, FadeDisabled, FadeRestores, FadeRestoreWaits, FadeEnds,
             FadeNewFrequency, FadeBegins, FadeContinues, inFade, TakeBaseline, world, driver
<1>2. SpeedFree
      BY DEF Memory, SpeedMemory
<1>3. SpeedMemory'
      BY <1>1, <1>2 DEF Memory, SpeedMemory, SpeedFree, quiet
<1>4. HintMemory' /\ InForce'
      BY <1>1 DEF HintMemory, InForce
<1> QED
      BY <1>3, <1>4 DEF Memory

\* The fade: each of its ends leaves the driver's volume in force or remembered.
LEMMA FadeKeeps ==
    ASSUME RestoresArrive, fadeActive \in BOOLEAN, TypeVolumes, Memory, ExecuteVolumeFade,
           ~givenUp'
    PROVE  Memory'
<1>1. /\ pc = "fade" /\ UNCHANGED <<userVolume, mainVolume, fadeEnabled>>
      /\ userVolume # NoVolume
      BY UserIsSomething
      DEF ExecuteVolumeFade, FadeDisabled, FadeRestores, FadeRestoreWaits, FadeEnds,
          FadeNewFrequency, FadeBegins, FadeContinues, inFade, TakeBaseline, world, driver,
          volumeSettings
<1>2. {v1Volume, mainVolume} \subseteq {userVolume, FadeVolume}
      BY <1>1 DEF Memory, SpeedMemory, InForce
<1>3. CASE FadeDisabled
      <2>1. ~fadeEnabled /\ originalVolume = NoVolume
            BY <1>3 DEF FadeDisabled, Memory, FadeMemory
      <2>2. /\ alertAge' = Unset /\ originalVolume' = NoVolume /\ fadeActive' = FALSE
            /\ fadeRestore' = NoVolume /\ hint' = NoVolume /\ UNCHANGED v1Volume
            BY <1>3 DEF FadeDisabled, ResetSession, world
      <2>3. v1Volume = userVolume /\ mainVolume = userVolume
            BY <1>1, <2>1 DEF Memory, SpeedMemory, InForce, Holds
      <2>4. FadeMemory'
            BY <2>2 DEF FadeMemory
      <2> QED
            BY <1>1, <1>2, <2>2, <2>3, <2>4, FadeFrame
<1>4. CASE ~FadeDisabled
      <2>1. /\ fadeEnabled
            /\ restoreLapsed => mainVolume = fadeRestore
            /\ hint' \in {NoVolume, hinted}
            BY <1>4 DEF ExecuteVolumeFade, FadeRestores, FadeRestoreWaits, FadeEnds,
                        FadeNewFrequency, FadeBegins, FadeContinues, inFade, GiveUp
      <2>2. FadeFinds /\ hint' \in {NoVolume, userVolume}
            BY <1>1, <2>1, FadeLooks DEF FadeFinds
      <2>3. CASE FadeRestores
            <3>1. originalVolume = userVolume
                  BY <2>3 DEF FadeRestores, Due, Memory, FadeMemory
            <3>2. /\ v1Volume' = userVolume /\ originalVolume' = userVolume
                  /\ fadeRestore' = userVolume /\ UNCHANGED alertAge
                  BY <1>1, <2>3, <3>1
                  DEF FadeRestores, SendVolume, RestoresArrive, carried, Memory, FadeMemory
            <3>3. FadeMemory'
                  BY <1>1, <2>1, <3>1, <3>2 DEF Memory, FadeMemory
            <3>4. Holds'
                  BY <1>1, <3>2 DEF Holds
            <3> QED
                  BY <1>1, <1>2, <2>2, <3>2, <3>3, <3>4, FadeFrame
      <2>4. CASE FadeRestoreWaits
            <3>1. ~restoreLapsed
                  BY <2>4 DEF FadeRestoreWaits, Due, carried, faded
            <3>2. UNCHANGED <<v1Volume, alertAge, originalVolume, fadeActive, fadeRestore>>
                  BY <2>4, <3>1 DEF FadeRestoreWaits, carried, faded
            <3>3. FadeMemory' /\ Holds' = Holds
                  BY <1>1, <3>2 DEF Memory, FadeMemory, Holds
            <3> QED
                  BY <1>1, <1>2, <2>2, <3>2, <3>3, FadeFrame DEF Memory, InForce, FadeFinds
      <2>5. CASE FadeEnds
            <3>1. /\ alertAge' = Unset /\ originalVolume' = NoVolume /\ fadeActive' = FALSE
                  /\ fadeRestore' = carried /\ UNCHANGED v1Volume
                  BY <2>5 DEF FadeEnds, ResetSession
            <3>2. carried = NoVolume
                  <4>1. CASE originalVolume = NoVolume
                        BY <4>1 DEF Memory, FadeMemory, carried
                  <4>2. CASE originalVolume = userVolume
                        BY <1>1, <2>2, <2>5, <4>2
                        DEF FadeEnds, Due, carried, FadeFinds, Memory, FadeMemory
                  <4> QED
                        BY <4>1, <4>2 DEF Memory, FadeMemory
            <3>3. v1Volume = userVolume /\ mainVolume = userVolume
                  <4>1. CASE ~restoreLapsed
                        BY <1>1, <2>2, <2>5, <3>2, <4>1
                        DEF FadeEnds, Due, faded, carried, Holds, FadeFinds
                  <4> QED
                        BY <2>2, <4>1 DEF FadeFinds
            <3>4. FadeMemory'
                  BY <1>1, <3>1, <3>2 DEF FadeMemory
            <3> QED
                  BY <1>1, <1>2, <2>2, <3>1, <3>3, <3>4, FadeFrame
      <2>6. CASE FadeNewFrequency
            <3>1. originalVolume = userVolume
                  BY <2>6 DEF FadeNewFrequency, faded, Memory, FadeMemory
            <3>2. /\ v1Volume' = userVolume /\ UNCHANGED originalVolume
                  /\ fadeRestore' = userVolume /\ alertAge' = 0 /\ fadeActive' = FALSE
                  BY <1>1, <2>6, <3>1 DEF FadeNewFrequency, SendVolume, RestoresArrive
            <3>3. FadeMemory' /\ Holds'
                  BY <1>1, <2>1, <3>1, <3>2 DEF Memory, FadeMemory, Holds, Unset
            <3> QED
                  BY <1>1, <1>2, <2>2, <3>2, <3>3, FadeFrame
      <2>7. CASE FadeBegins
            <3>1. originalVolume = NoVolume /\ fadeRestore = NoVolume
                  BY <2>7 DEF FadeBegins, Memory, FadeMemory
            <3>2. v1Volume = userVolume /\ mainVolume = userVolume /\ carried = NoVolume
                  BY <1>1, <2>2, <3>1 DEF FadeFinds, Holds, carried
            <3>3. Baseline = userVolume
                  <4>1. Baseline = mainVolume \/ (hinted # NoVolume /\ Baseline = hinted)
                        BY <3>2, Zenon DEF Baseline
                  <4> QED
                        BY <2>2, <3>2, <4>1 DEF FadeFinds
            <3>4. /\ alertAge' = 0 /\ originalVolume' = Baseline /\ fadeActive' = FALSE
                  /\ fadeRestore' \in {NoVolume, carried} /\ UNCHANGED v1Volume
                  BY <2>7, Zenon DEF FadeBegins, world
            <3>5. FadeMemory'
                  BY <1>1, <2>1, <3>2, <3>3, <3>4 DEF FadeMemory, Unset
            <3> QED
                  BY <1>1, <1>2, <2>2, <3>2, <3>4, <3>5, FadeFrame
      <2>8. CASE FadeContinues
            <3>1. alertAge # Unset /\ originalVolume = userVolume
                  BY <2>8 DEF FadeContinues, Memory, FadeMemory
            <3>2. /\ UNCHANGED <<alertAge, originalVolume>> /\ fadeRestore' = carried
                  /\ \/ fadeActive' = TRUE /\ v1Volume' \in {v1Volume, FadeVolume}
                     \/ fadeActive' = faded /\ UNCHANGED v1Volume
                  BY <2>8, VolumeConstants DEF FadeContinues, SendVolume
            <3>3. FadeMemory'
                  BY <1>1, <2>1, <3>1, <3>2 DEF Memory, FadeMemory, carried
            <3>4. fadeRestore' = userVolume => mainVolume # userVolume
                  BY <1>1, <2>2, <3>2 DEF carried, FadeFinds
            <3>5. CASE fadeActive' = TRUE /\ v1Volume' \in {v1Volume, FadeVolume}
                  <4>1. Holds'
                        BY <1>1, <3>1, <3>2, <3>5 DEF Holds
                  <4> QED
                        BY <1>1, <1>2, <2>2, <3>3, <3>4, <3>5, <4>1, FadeFrame
            <3>6. CASE fadeActive' = faded /\ UNCHANGED v1Volume
                  <4>1. CASE restoreLapsed
                        BY <1>1, <1>2, <2>2, <3>3, <3>4, <3>6, <4>1, FadeFrame DEF FadeFinds
                  <4>2. CASE ~restoreLapsed
                        <5>1. UNCHANGED <<fadeActive, fadeRestore>>
                              BY <3>2, <3>6, <4>2 DEF faded, carried
                        <5>2. Holds' = Holds
                              BY <1>1, <3>2, <5>1 DEF Holds
                        <5> QED
                              BY <1>1, <1>2, <2>2, <3>3, <3>4, <3>6, <5>2, FadeFrame DEF FadeFinds
                  <4> QED
                        BY <4>1, <4>2
            <3> QED
                  BY <3>2, <3>5, <3>6
      <2> QED
            BY <1>4, <2>3, <2>4, <2>5, <2>6, <2>7, <2>8 DEF ExecuteVolumeFade
<1> QED
      BY <1>3, <1>4

\* A restore that was given up stays so, and a turn stays overtaken until the next.
LEMMA LossStays ==
    ASSUME VolumeNext
    PROVE  /\ ~givenUp' => ~givenUp
           /\ ~overtaken' => ~overtaken \/ UserSetsVolume
<1>1. ~givenUp' => ~givenUp
      BY Zenon
      DEF VolumeNext, UserSetsVolume, ChangeSettings, ChangeSpeed, Tick, UpdateSpeedMute, Frame,
          ProcessSpeedVolume, DropVolume, HoldVolume, RestoreVolume, RestoreOver, RetryRestore,
          NoSpeedVolume, ExecuteVolumeFade, FadeDisabled, FadeRestores, FadeRestoreWaits,
          FadeEnds, FadeNewFrequency, FadeBegins, FadeContinues, inFade, GiveUp
<1>2. ASSUME ~UserSetsVolume PROVE overtaken' = overtaken \/ overtaken' = (overtaken \/ unshown)
      <2> USE DEF driver, TakeBaseline
      <2>1. CASE Outside
            BY <1>2, <2>1 DEF Outside, ChangeSettings, ChangeSpeed, Tick, UpdateSpeedMute, Frame,
                              world
      <2>2. CASE ProcessSpeedVolume
            BY <2>2, Zenon DEF ProcessSpeedVolume, DropVolume, HoldVolume, RestoreVolume,
                        RestoreOver, RetryRestore, NoSpeedVolume, inSpeed
      <2>3. CASE ExecuteVolumeFade
            <3>1. CASE FadeBegins
                  BY <3>1 DEF FadeBegins
            <3>2. CASE ~FadeBegins
                  BY <2>3, <3>2
                  DEF ExecuteVolumeFade, FadeDisabled, FadeRestores, FadeRestoreWaits, FadeEnds,
                      FadeNewFrequency, FadeContinues, inFade, world
            <3> QED
                  BY <3>1, <3>2
      <2> QED
            BY <2>1, <2>2, <2>3 DEF VolumeNext, Outside
<1>3. ~overtaken' => ~overtaken \/ UserSetsVolume
      BY <1>2, Zenon
<1> QED
      BY <1>1, <1>3, Zenon

\* The invariant is kept by every step.
LEMMA MemoryStep ==
    ASSUME RestoresArrive
    PROVE  VolumeTypeInv /\ MemoryInv /\ [VolumeNext]_volumeVars => MemoryInv'
<1> SUFFICES ASSUME VolumeTypeInv, MemoryInv, [VolumeNext]_volumeVars PROVE MemoryInv'
    OBVIOUS
<1>1. CASE VolumeNext
      <2>1. Sessions /\ TypeVolumes /\ TypeAges /\ fadeActive \in BOOLEAN
            BY DEF MemoryInv, VolumeTypeInv, VolumeTypeOK, TypeFlags
      <2>2. Sessions'
            BY <1>1, <2>1, SessionsStep
      <2>3. ASSUME ~givenUp', ~overtaken' PROVE Turned' \/ Memory'
            <3>1. CASE UserSetsVolume
                  BY <2>1, <3>1, UserKeeps
            <3>2. CASE ~UserSetsVolume
                  <4>1. Turned \/ Memory
                        BY <1>1, <2>3, <3>2, LossStays DEF MemoryInv
                  <4> QED
                        BY <1>1, <2>1, <2>3, <3>2, <4>1, TurnedKeeps, OutsideKeeps,
                           SpeedVolumeKeeps, FadeKeeps DEF VolumeNext, Outside
            <3> QED
                  BY <3>1, <3>2
      <2> QED
            BY <2>2, <2>3 DEF MemoryInv
<1>2. CASE UNCHANGED volumeVars
      BY <1>2
      DEF MemoryInv, Sessions, Turned, Memory, FadeMemory, SpeedMemory, HintMemory, InForce,
          Holds, SpeedFree, Restorable, volumeVars, world, driver, volumeSettings, mute, quiet,
          session, carry
<1> QED
      BY <1>1, <1>2

\* Whoever holds the volume, what the driver asked for is in force or remembered.
LEMMA MemoryRemembers == Memory => VolumeRemembered
<1> SUFFICES ASSUME Memory PROVE VolumeRemembered
    OBVIOUS
<1>1. CASE speedVolActive
      BY <1>1 DEF Memory, SpeedMemory, Restorable, Holds, VolumeRemembered, Remembered
<1>2. CASE pendingRestore # NoVolume
      BY <1>2 DEF Memory, SpeedMemory, Restorable, Holds, VolumeRemembered, Remembered
<1>3. CASE SpeedFree
      BY <1>3 DEF Memory, InForce, Holds, VolumeRemembered, Remembered
<1> QED
      BY <1>1, <1>2, <1>3 DEF SpeedFree

\* processSpeedVolume() and VolumeFadeModule::process(): however speed mute, fade,
\* restore and new frequency follow each other, the driver's volume is in force or
\* remembered, unless a restore was given up before a frame showed it or a feature
\* began before a frame showed the driver's volume.
THEOREM BaselineIsKept == ASSUME RestoresArrive PROVE VolumeSpec => []BaselineKept
<1>1. MemoryInv => BaselineKept
      BY MemoryRemembers DEF MemoryInv, Turned, VolumeRemembered, BaselineKept
<1> QED
      BY <1>1, VolumeInitTyped, VolumeTypeStep, MemoryInit, MemoryStep, PTL DEF VolumeSpec

\* A fade volume of 0 reads as muted, and the fade would undo its own work.
FadeIsAudible == FadeVolume # 0

\* The step that raises the volume: a restore that is due, or a new frequency.
LEMMA RaisesWhenDue ==
    ASSUME FadeIsAudible, TypeVolumes, Memory, ExecuteVolumeFade, v1Volume' > v1Volume
    PROVE  ~scene.alerts \/ scene.muteFlag \/ scene.freq \notin seenFreqs \union {0}
<1>1. pc = "fade"
      BY DEF ExecuteVolumeFade, FadeDisabled, FadeRestores, FadeRestoreWaits, FadeEnds,
             FadeNewFrequency, FadeBegins, FadeContinues, inFade
<1>2. {v1Volume, mainVolume} \subseteq {userVolume, FadeVolume}
      BY <1>1 DEF Memory, SpeedMemory, InForce
<1>3. v1Volume \in Nat /\ userVolume \in Nat /\ FadeVolume \in Nat /\ mainVolume \in Nat
      BY VolumeConstants DEF TypeVolumes
<1>4. CASE FadeRestores
      <2>1. originalVolume = userVolume
            BY <1>4 DEF FadeRestores, Due, Memory, FadeMemory
      <2>2. v1Volume' \in {v1Volume, userVolume}
            BY <1>4, <2>1, UserIsSomething DEF FadeRestores, SendVolume
      <2>3. userVolume > v1Volume
            BY <1>3, <2>2
      <2>4. mainVolume # 0
            BY <1>2, <1>3, <2>3 DEF FadeIsAudible
      <2> QED
            BY <1>4, <2>4 DEF FadeRestores, Silent, Muted
<1>5. CASE FadeNewFrequency
      BY <1>5 DEF FadeNewFrequency, NewFrequency
<1>6. CASE FadeContinues
      <2>1. v1Volume' = v1Volume \/ (v1Volume' = FadeVolume /\ mainVolume > FadeVolume)
            BY <1>6, VolumeConstants DEF FadeContinues, SendVolume
      <2> QED
            BY <1>2, <1>3, <2>1
<1>7. CASE FadeDisabled \/ FadeRestoreWaits \/ FadeEnds \/ FadeBegins
      <2>1. UNCHANGED v1Volume
            BY <1>7 DEF FadeDisabled, FadeRestoreWaits, FadeEnds, FadeBegins, world
      <2> QED
            BY <1>3, <2>1
<1> QED
      BY <1>4, <1>5, <1>6, <1>7 DEF ExecuteVolumeFade

\* VolumeFadeModule::process(): the fade raises the volume only when the alert has
\* gone or is muted, or for a frequency not seen in this session.
THEOREM FadeRestoresWhenDue ==
    ASSUME RestoresArrive, FadeIsAudible PROVE VolumeSpec => RestoreOnlyWhenDue
<1>1. ASSUME VolumeTypeInv, MemoryInv, [VolumeNext]_volumeVars
      PROVE  ~givenUp /\ ~overtaken /\ pc = "fade" /\ v1Volume' > v1Volume
                => ~scene.alerts \/ scene.muteFlag \/ scene.freq \notin seenFreqs \union {0}
      <2> SUFFICES ASSUME ~givenUp, ~overtaken, pc = "fade", v1Volume' > v1Volume
                   PROVE  ~scene.alerts \/ scene.muteFlag \/ scene.freq \notin seenFreqs \union {0}
          OBVIOUS
      <2>1. TypeVolumes /\ Sessions /\ (Turned \/ Memory)
            BY <1>1 DEF MemoryInv, VolumeTypeInv, VolumeTypeOK
      <2>2. v1Volume \in Nat
            BY <2>1, VolumeConstants DEF TypeVolumes
      <2>3. ExecuteVolumeFade \/ UNCHANGED v1Volume
            BY <1>1
            DEF VolumeNext, UserSetsVolume, ChangeSettings, ChangeSpeed, Tick, UpdateSpeedMute,
                Frame, ProcessSpeedVolume, DropVolume, HoldVolume, RestoreVolume, RestoreOver,
                RetryRestore, NoSpeedVolume, inSpeed, duringSpeed, volumeVars, world
      <2>4. ExecuteVolumeFade
            BY <2>2, <2>3
      <2>5. CASE Memory
            BY <2>1, <2>4, <2>5, RaisesWhenDue
      <2>6. CASE Turned
            <3>1. ~Due /\ ~faded /\ alertAge = Unset
                  BY <2>1, <2>6 DEF Turned, Sessions, Due, faded, carried
            <3>2. FadeDisabled \/ FadeEnds \/ FadeBegins
                  BY <2>4, <3>1 DEF ExecuteVolumeFade, FadeRestores, FadeRestoreWaits,
                                    FadeNewFrequency, FadeContinues
            <3>3. UNCHANGED v1Volume
                  BY <3>2 DEF FadeDisabled, FadeEnds, FadeBegins, world
            <3> QED
                  BY <2>2, <3>3
      <2> QED
            BY <2>1, <2>5, <2>6
<1> QED
      BY <1>1, VolumeInitTyped, VolumeTypeStep, MemoryInit, MemoryStep, PTL
      DEF VolumeSpec, RestoreOnlyWhenDue
=============================================================================
