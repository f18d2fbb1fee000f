---------------------------- MODULE QuietVolume ----------------------------
(***************************************************************************)
(* Who sets the V1's volume.  Two features lower it and put it back: the   *)
(* speed mute (below a speed threshold) and the volume fade (some seconds  *)
(* into an alert).  DisplayOrchestrationModule runs them one after the     *)
(* other for every parsed frame, the speed mute first; each remembers the  *)
(* volume it found, and neither is told what the other remembers.          *)
(*                                                                         *)
(* A pass over a frame is sliced by pc: "idle" between frames, "speed" for *)
(* QuietCoordinatorModule::processSpeedVolume, "fade" for                  *)
(* VolumeFadeModule::process.  The V1 is one number, its volume; what the  *)
(* firmware sees of it is the number in the last display frame it parsed.  *)
(* Only the main volume is followed; the volume of a muted alert travels   *)
(* with it in every command.                                               *)
(***************************************************************************)
EXTENDS Integers, FiniteSets

CONSTANTS
    Volumes,         \* the volumes there are
    Freqs,           \* frequencies of a priority alert
    FadeVolume,      \* alertVolumeFadeVolume
    SpeedVolumes,    \* the values speedMuteVolume takes; NoVolume is "voice only"
    FadeDelay,       \* alertVolumeFadeDelaySec,              in ticks
    CarryWindow,     \* PENDING_RESTORE_WINDOW_MS, HINT_WINDOW_MS, in ticks
    RestoreWindow,   \* SPEED_VOL_RESTORE_TIMEOUT_MS,         in ticks
    Debounce,        \* TRANSITION_DEBOUNCE_MS,               in ticks
    MaxSeenFreqs,    \* MAX_FADE_SEEN_FREQS
    Lossy            \* the commands that may fail to go out

NoVolume == 255

ASSUME VolumesAssumption == Volumes \subseteq 0..15 /\ FadeVolume \in Volumes
ASSUME FreqsAssumption == 0 \notin Freqs
ASSUME SpeedVolumesAssumption == SpeedVolumes \subseteq Volumes \union {NoVolume}
ASSUME TimesAssumption ==
    /\ FadeDelay \in Nat \ {0} /\ CarryWindow \in Nat
    /\ RestoreWindow \in Nat \ {0} /\ Debounce \in Nat
ASSUME SeenAssumption == MaxSeenFreqs \in Nat
ASSUME LossyAssumption == Lossy \subseteq {"lower", "restore"}

VARIABLES
    pc,
    v1Volume,          \* the V1's main volume
    mainVolume,        \* ... as last parsed: DisplayState::mainVolume
    scene,             \* the alert the last frame left in the parser
    userVolume,        \* history: the volume last asked for, by knob or by slot
    unshown,           \* history: no frame has shown that volume yet
    overtaken,         \* history: and a feature took the one before for it
    givenUp,           \* history: a restore was given up before the V1 showed it
    speedVolume,       \* settings: speedMuteVolume
    fadeEnabled,       \* settings: alertVolumeFadeEnabled
    \* SpeedMuteModule
    speed, muteActive, sinceTransition,
    \* QuietCoordinatorModule
    speedVolActive, savedOriginal, pendingRestore, restoreAge,
    \* VolumeFadeModule
    alertAge, originalVolume, fadeActive, commandSent, seenFreqs, restoreTried,
    fadeRestore, fadeRestoreAge, hint, hintAge

driver  == <<userVolume, unshown, overtaken>>
world   == <<v1Volume, mainVolume, scene, driver>>
volumeSettings == <<speedVolume, fadeEnabled>>
mute    == <<speed, muteActive, sinceTransition>>
quiet   == <<speedVolActive, savedOriginal, pendingRestore, restoreAge>>
session == <<alertAge, originalVolume, fadeActive, commandSent, seenFreqs, restoreTried>>
carry   == <<fadeRestore, fadeRestoreAge, hint, hintAge>>
volumeVars == <<pc, givenUp, world, volumeSettings, mute, quiet, session, carry>>

---------------------------------------------------------------------------

Unset == -1

Speeds == {"invalid", "below", "between", "above"}

\* What the parser holds of the alerts: laser or Ka among the active bands,
\* the mute flag, the frequency of the priority alert (0: none to show).
Silence == [alerts |-> FALSE, kaBand |-> FALSE, muteFlag |-> FALSE, freq |-> 0]
Scenes  == {Silence} \union
           [alerts : {TRUE}, kaBand : BOOLEAN, muteFlag : BOOLEAN, freq : Freqs \union {0}]

TypeFlags ==
    /\ givenUp \in BOOLEAN /\ fadeEnabled \in BOOLEAN /\ muteActive \in BOOLEAN
    /\ speedVolActive \in BOOLEAN /\ unshown \in BOOLEAN /\ overtaken \in BOOLEAN
    /\ fadeActive \in BOOLEAN /\ commandSent \in BOOLEAN /\ restoreTried \in BOOLEAN
TypeVolumes ==
    /\ v1Volume \in Volumes /\ mainVolume \in Volumes /\ userVolume \in Volumes
    /\ speedVolume \in SpeedVolumes
    /\ {savedOriginal, pendingRestore, originalVolume, fadeRestore, hint}
           \subseteq Volumes \union {NoVolume}
TypeAges ==
    /\ sinceTransition \in 0..Debounce /\ restoreAge \in 0..RestoreWindow
    /\ alertAge \in Unset..FadeDelay
    /\ fadeRestoreAge \in 0..(CarryWindow + 1) /\ hintAge \in 0..(CarryWindow + 1)
TypeScene ==
    /\ pc \in {"idle", "speed", "fade"} /\ scene \in Scenes /\ speed \in Speeds
    /\ seenFreqs \subseteq Freqs /\ Cardinality(seenFreqs) <= MaxSeenFreqs

VolumeTypeOK == TypeFlags /\ TypeVolumes /\ TypeAges /\ TypeScene

VolumeInit ==
    /\ pc = "idle" /\ scene = Silence
    /\ userVolume \in Volumes /\ v1Volume = userVolume /\ mainVolume = userVolume
    /\ unshown = FALSE /\ overtaken = FALSE
    /\ givenUp = FALSE
    /\ speedVolume \in SpeedVolumes /\ fadeEnabled \in BOOLEAN
    /\ speed = "invalid" /\ muteActive = FALSE /\ sinceTransition = 0
    /\ speedVolActive = FALSE /\ savedOriginal = NoVolume
    /\ pendingRestore = NoVolume /\ restoreAge = 0
    /\ alertAge = Unset /\ originalVolume = NoVolume
    /\ fadeActive = FALSE /\ commandSent = FALSE /\ seenFreqs = {} /\ restoreTried = FALSE
    /\ fadeRestore = NoVolume /\ fadeRestoreAge = 0
    /\ hint = NoVolume /\ hintAge = 0

---------------------------------------------------------------------------
(* The rest of the system, between two frames *)

\* The driver turns the knob, or the auto-push sets the slot's volume, while
\* neither feature holds or remembers one.  The firmware knows of it when a
\* frame shows it.
UserSetsVolume ==
    /\ pc = "idle"
    /\ ~speedVolActive /\ pendingRestore = NoVolume
    /\ originalVolume = NoVolume /\ fadeRestore = NoVolume /\ hint = NoVolume
    /\ \E v \in Volumes \ {v1Volume} :
          v1Volume' = v /\ userVolume' = v /\ unshown' = (mainVolume # v)
    /\ overtaken' = FALSE
    /\ UNCHANGED <<pc, givenUp, mainVolume, scene, volumeSettings, mute, quiet, session, carry>>

\* POST /api/audio/settings, and syncSettings() in the next loop.  Switching the
\* fade off in the middle of one is left out: see the README.
ChangeSettings ==
    /\ pc = "idle"
    /\ speedVolume' \in SpeedVolumes \ {speedVolume}
    /\ UNCHANGED <<pc, givenUp, world, fadeEnabled, mute, quiet, session, carry>>

ChangeSpeed ==
    /\ pc = "idle"
    /\ speed' \in Speeds \ {speed}
    /\ UNCHANGED <<pc, givenUp, world, volumeSettings, muteActive, sinceTransition,
                   quiet, session, carry>>

older(age, running, limit) == IF running /\ age < limit THEN age + 1 ELSE age

\* A tick.  Within one, the parser catches up with the V1.
Tick ==
    /\ pc = "idle" /\ mainVolume = v1Volume
    /\ sinceTransition' = older(sinceTransition, TRUE, Debounce)
    /\ restoreAge' = older(restoreAge, pendingRestore # NoVolume, RestoreWindow)
    /\ alertAge' = older(alertAge, alertAge # Unset, FadeDelay)
    /\ fadeRestoreAge' = older(fadeRestoreAge, fadeRestore # NoVolume, CarryWindow + 1)
    /\ hintAge' = older(hintAge, hint # NoVolume, CarryWindow + 1)
    /\ UNCHANGED <<pc, givenUp, world, volumeSettings, speed, muteActive, speedVolActive,
                   savedOriginal, pendingRestore, originalVolume, fadeActive, commandSent, seenFreqs,
                   restoreTried, fadeRestore, hint>>

---------------------------------------------------------------------------
(* evaluateSpeedMute(), once per loop *)

\* Hysteresis; without a valid speed nothing is muted.
WantsMute == \/ speed = "below"
             \/ muteActive /\ speed = "between"

UpdateSpeedMute ==
    /\ pc = "idle"
    /\ muteActive # WantsMute
    /\ speed = "invalid" \/ sinceTransition >= Debounce
    /\ muteActive' = WantsMute /\ sinceTransition' = 0
    /\ UNCHANGED <<pc, givenUp, world, volumeSettings, speed, quiet, session, carry>>

---------------------------------------------------------------------------
(* QuietCoordinatorModule::processSpeedVolume, first on every parsed frame *)

\* The frame is parsed: the alert, and the volume unless it is a frame that
\* carries none or one the V1 sent before it had applied the last command.
Frame ==
    /\ pc = "idle" /\ pc' = "speed"
    /\ scene' \in Scenes
    /\ mainVolume' \in {v1Volume, mainVolume}
    /\ unshown' = (unshown /\ mainVolume' # v1Volume)
    /\ UNCHANGED <<v1Volume, givenUp, userVolume, overtaken, volumeSettings, mute, quiet,
                   session, carry>>

\* setVolume() sends nothing for 0xFF, and fails when another command went out
\* less than 5 ms ago or the stack is busy.
SendVolume(kind, v) == \/ v1Volume' = IF v = NoVolume THEN v1Volume ELSE v
                       \/ kind \in Lossy /\ UNCHANGED v1Volume

\* History: a feature takes the volume of the last frame for the driver's
\* choice, although the knob has been turned since.
TakeBaseline == /\ overtaken' = (overtaken \/ unshown)
                /\ UNCHANGED <<userVolume, unshown>>

\* History: a restore is dropped though the last frame does not show it.
GiveUp(given) == givenUp' = (givenUp \/ given)

Override == scene.alerts /\ scene.kaBand
WantsQuiet == speedVolume # NoVolume /\ muteActive /\ ~Override

duringSpeed == /\ pc = "speed"
               /\ UNCHANGED <<mainVolume, scene, volumeSettings, mute, session>>
inSpeed     == duringSpeed /\ UNCHANGED driver

\* The speed mute holds the volume: the fade does not run for this frame.
busy == pc' = "idle" /\ UNCHANGED carry
\* The fade runs next, unless a preview keeps the display.
free == pc' \in {"fade", "idle"} /\ UNCHANGED carry

\* Slip: what is saved is the volume of the settings.
SaveOriginal_Setting == savedOriginal' = speedVolume

SaveOriginal == savedOriginal' = mainVolume

DropVolume ==
    /\ duringSpeed /\ busy /\ TakeBaseline
    /\ WantsQuiet /\ ~speedVolActive
    /\ speedVolActive' = TRUE
    /\ SaveOriginal
    /\ pendingRestore' = NoVolume /\ GiveUp(pendingRestore \notin {NoVolume, mainVolume})
    /\ SendVolume("lower", speedVolume)
    /\ UNCHANGED restoreAge

\* Sent again until a frame shows it, at most every 75 ms.
HoldVolume ==
    /\ inSpeed /\ busy /\ UNCHANGED givenUp
    /\ WantsQuiet /\ speedVolActive
    /\ \/ UNCHANGED v1Volume
       \/ mainVolume # speedVolume /\ SendVolume("lower", speedVolume)
    /\ UNCHANGED quiet

\* The restore ends with retryPendingSpeedVolRestore(), which finds it
\* confirmed when the frame shows that volume already.
RestoreVolume ==
    /\ inSpeed /\ UNCHANGED givenUp
    /\ ~WantsQuiet /\ speedVolActive
    /\ SendVolume("restore", savedOriginal)
    /\ speedVolActive' = FALSE /\ savedOriginal' = NoVolume
    /\ pendingRestore' = IF mainVolume = savedOriginal THEN NoVolume ELSE savedOriginal
    /\ restoreAge' = 0
    /\ hint' = savedOriginal /\ hintAge' = 0
    /\ UNCHANGED <<fadeRestore, fadeRestoreAge>>
    /\ IF mainVolume = savedOriginal THEN pc' \in {"fade", "idle"} ELSE pc' = "idle"

restorePending == ~WantsQuiet /\ ~speedVolActive /\ pendingRestore # NoVolume

\* Given up, or confirmed.
RestoreOver ==
    /\ inSpeed /\ free
    /\ restorePending
    /\ restoreAge >= RestoreWindow \/ mainVolume = pendingRestore
    /\ pendingRestore' = NoVolume /\ GiveUp(mainVolume # pendingRestore)
    /\ UNCHANGED <<v1Volume, speedVolActive, savedOriginal, restoreAge>>

RetryRestore ==
    /\ inSpeed /\ busy /\ UNCHANGED givenUp
    /\ restorePending
    /\ restoreAge < RestoreWindow /\ mainVolume # pendingRestore
    /\ SendVolume("restore", pendingRestore) \/ UNCHANGED v1Volume
    /\ UNCHANGED quiet

NoSpeedVolume ==
    /\ inSpeed /\ free /\ UNCHANGED givenUp
    /\ ~WantsQuiet /\ ~speedVolActive /\ pendingRestore = NoVolume
    /\ UNCHANGED <<v1Volume, quiet>>

ProcessSpeedVolume == \/ DropVolume \/ HoldVolume \/ RestoreVolume \/ RestoreOver
                      \/ RetryRestore \/ NoSpeedVolume

---------------------------------------------------------------------------
(* VolumeFadeModule::process, then the command it asks for *)

\* The carried-over baselines lapse when a frame shows them or with time; a
\* restore that lapses also ends the fade.
restoreLapsed == /\ fadeRestore # NoVolume
                 /\ mainVolume = fadeRestore \/ fadeRestoreAge > CarryWindow
hintLapsed    == /\ hint # NoVolume
                 /\ mainVolume = hint \/ hintAge > CarryWindow
carried == IF restoreLapsed THEN NoVolume ELSE fadeRestore
hinted  == IF hintLapsed THEN NoVolume ELSE hint
faded   == fadeActive /\ ~restoreLapsed

\* Slip: a faded volume counts as muted.
Muted_WhenFaded == scene.muteFlag \/ mainVolume <= FadeVolume

\* A display frame with volume 0 reads as muted (packet_parser.cpp:266).
Muted  == scene.muteFlag \/ mainVolume = 0
Silent == ~scene.alerts \/ Muted

\* Slip: a restore that has been sent is taken for done.
Due_Once == originalVolume # NoVolume /\ faded /\ carried = NoVolume

Due == originalVolume # NoVolume
       /\ IF carried = NoVolume THEN faded ELSE mainVolume # originalVolume

NewFrequency == scene.freq # 0 /\ scene.freq \notin seenFreqs

\* Slip: the list has no limit.
AddSeen_NoLimit(seen) == IF scene.freq # 0 THEN seen \union {scene.freq} ELSE seen

AddSeen(seen) == IF scene.freq # 0 /\ Cardinality(seen) < MaxSeenFreqs
                 THEN seen \union {scene.freq} ELSE seen

inFade == /\ pc = "fade" /\ pc' = "idle"
          /\ UNCHANGED <<mainVolume, scene, driver, volumeSettings, mute, quiet>>
          /\ hint' = hinted /\ UNCHANGED hintAge
          /\ GiveUp(restoreLapsed /\ mainVolume # fadeRestore)

ResetSession ==
    /\ alertAge' = Unset /\ originalVolume' = NoVolume
    /\ fadeActive' = FALSE /\ commandSent' = FALSE
    /\ seenFreqs' = {} /\ restoreTried' = FALSE

FadeDisabled ==
    /\ pc = "fade" /\ pc' = "idle"
    /\ ~fadeEnabled
    /\ ResetSession
    /\ fadeRestore' = NoVolume /\ hint' = NoVolume
    /\ UNCHANGED <<world, givenUp, volumeSettings, mute, quiet, fadeRestoreAge, hintAge>>

\* The alert has gone or is muted: restore, at the earliest after 75 ms again
\* while the restore is not confirmed.
FadeRestores ==
    /\ inFade /\ fadeEnabled
    /\ Silent /\ Due
    /\ SendVolume("restore", originalVolume)
    /\ fadeActive' = faded
    /\ restoreTried' = TRUE
    /\ fadeRestore' = IF carried = NoVolume THEN originalVolume ELSE carried
    /\ fadeRestoreAge' = IF carried = NoVolume THEN 0 ELSE fadeRestoreAge
    /\ UNCHANGED <<alertAge, originalVolume, commandSent, seenFreqs>>

FadeRestoreWaits ==
    /\ inFade /\ fadeEnabled
    /\ Silent /\ Due /\ restoreTried
    /\ fadeActive' = faded /\ fadeRestore' = carried
    /\ UNCHANGED <<v1Volume, restoreTried, fadeRestoreAge, alertAge, originalVolume,
                   commandSent, seenFreqs>>

\* Nothing to restore (any more): the session is over.
FadeEnds ==
    /\ inFade /\ fadeEnabled
    /\ Silent /\ ~Due
    /\ ResetSession
    /\ fadeRestore' = carried
    /\ UNCHANGED <<v1Volume, fadeRestoreAge>>

\* A threat not seen in this session: full volume, and the timer again.
FadeNewFrequency ==
    /\ inFade /\ fadeEnabled
    /\ ~Silent /\ faded /\ NewFrequency
    /\ SendVolume("restore", originalVolume)
    /\ fadeRestore' = IF originalVolume # NoVolume THEN originalVolume ELSE carried
    /\ fadeRestoreAge' = IF originalVolume # NoVolume THEN 0 ELSE fadeRestoreAge
    /\ alertAge' = 0
    /\ fadeActive' = FALSE /\ commandSent' = FALSE
    /\ seenFreqs' = AddSeen(seenFreqs)
    /\ UNCHANGED <<originalVolume, restoreTried>>

\* The volume to come back to.
Baseline == CASE carried # NoVolume /\ mainVolume < carried -> carried
              [] ~(carried # NoVolume /\ mainVolume < carried)
                 /\ hinted # NoVolume /\ mainVolume < hinted -> hinted
              [] OTHER -> mainVolume

\* The first alert of a session.
FadeBegins ==
    /\ pc = "fade" /\ pc' = "idle" /\ fadeEnabled
    /\ ~Silent /\ ~(faded /\ NewFrequency) /\ alertAge = Unset
    /\ alertAge' = 0
    /\ originalVolume' = Baseline
    /\ LET fromCarry == carried # NoVolume /\ mainVolume < carried
       IN  /\ fadeRestore' = IF fromCarry THEN NoVolume ELSE carried
           /\ hint' = IF ~fromCarry /\ hinted # NoVolume /\ mainVolume < hinted
                      THEN NoVolume ELSE hinted
    /\ fadeActive' = FALSE /\ commandSent' = FALSE
    /\ seenFreqs' = AddSeen({})
    /\ GiveUp(restoreLapsed /\ mainVolume # fadeRestore)
    /\ TakeBaseline
    /\ UNCHANGED <<v1Volume, mainVolume, scene, volumeSettings, mute, quiet, restoreTried,
                   fadeRestoreAge, hintAge>>

\* The alert goes on, faded after the delay; the fade is sent once.
FadeContinues ==
    /\ inFade /\ fadeEnabled
    /\ ~Silent /\ ~(faded /\ NewFrequency) /\ alertAge # Unset
    /\ fadeRestore' = carried
    /\ IF ~commandSent /\ alertAge >= FadeDelay
       THEN /\ commandSent' = TRUE
            /\ IF mainVolume > FadeVolume
               THEN SendVolume("lower", FadeVolume) /\ fadeActive' = TRUE
               ELSE UNCHANGED v1Volume /\ fadeActive' = faded
       ELSE fadeActive' = faded /\ UNCHANGED <<commandSent, v1Volume>>
    /\ UNCHANGED <<alertAge, originalVolume, seenFreqs, restoreTried, fadeRestoreAge>>

ExecuteVolumeFade == \/ FadeDisabled \/ FadeRestores \/ FadeRestoreWaits \/ FadeEnds
                     \/ FadeNewFrequency \/ FadeBegins \/ FadeContinues

---------------------------------------------------------------------------

VolumeNext ==
    \/ UserSetsVolume \/ ChangeSettings \/ ChangeSpeed \/ Tick
    \/ UpdateSpeedMute \/ Frame \/ ProcessSpeedVolume \/ ExecuteVolumeFade

(***************************************************************************)
(* Fairness: the loop runs, time passes, and the V1 goes on sending frames *)
(* (some hundred milliseconds apart) that sooner or later show the volume  *)
(* it has; a preview ends, so that the fade is not kept from running for   *)
(* good; and 75 ms pass, though the loop looks often before they have.     *)
(***************************************************************************)
VolumeFairness ==
    /\ WF_volumeVars(Frame) /\ WF_volumeVars(Tick) /\ WF_volumeVars(UpdateSpeedMute)
    /\ WF_volumeVars(ProcessSpeedVolume) /\ WF_volumeVars(ExecuteVolumeFade)
    /\ SF_volumeVars(Frame /\ mainVolume' = v1Volume)
    /\ SF_volumeVars(NoSpeedVolume /\ pc' = "fade") /\ SF_volumeVars(FadeRestores)

VolumeSpec == VolumeInit /\ [][VolumeNext]_volumeVars
VolumeFairSpec == VolumeSpec /\ VolumeFairness

---------------------------------------------------------------------------
(* Properties *)

Remembered == {savedOriginal, pendingRestore, originalVolume, fadeRestore, hint}

\* The volume the driver asked for is in force at the V1 or remembered by one of
\* the two features, however speed mute, Ka/laser override, fade, restore, new
\* frequency and late frames follow each other (quiet_coordinator_templates.h:
\* 52-88, volume_fade_module.cpp:30-262).
VolumeRemembered == userVolume \in {v1Volume} \union Remembered

\* ... and once lost, because a restore was given up before a frame showed it:
\* overtaken by the next drop, or timed out while the fade was kept from running;
\* or because a feature began before any frame showed it and took the one before.
BaselineKept == VolumeRemembered \/ givenUp \/ overtaken

\* The fade puts the volume back only when the alert has gone, the driver has
\* muted it, or a new frequency has appeared (docs/MANUAL.md:1036-1041).  A lost
\* volume may leave the V1 at the speed volume, and 0 reads as muted.
RestoreOnlyWhenDue ==
    [][~givenUp /\ ~overtaken /\ pc = "fade" /\ v1Volume' > v1Volume
         => ~scene.alerts \/ scene.muteFlag \/ scene.freq \notin seenFreqs \union {0}]_volumeVars

\* A driver without alerts and above the speed threshold ends up with the
\* volume they asked for, unless it was lost as above.
VolumeReturns ==
    <>[](~scene.alerts /\ ~muteActive) => <>[](v1Volume = userVolume \/ givenUp \/ overtaken)
=============================================================================
