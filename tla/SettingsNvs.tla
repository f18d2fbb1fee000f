---------------------------- MODULE SettingsNvs -----------------------------
(***************************************************************************)
(* The settings in flash: two namespaces written in turn, a legacy one of  *)
(* older firmware, and a meta entry that names the active one.  A save     *)
(* clears the other namespace, writes about 150 keys, writes a marker      *)
(* last, reads it back and moves the meta entry; when the meta entry       *)
(* cannot be written it rewrites the active namespace in place.  Power may *)
(* go at any moment; the next boot picks a namespace by the meta entry     *)
(* and, when that one has no marker, by score.                             *)
(*                                                                         *)
(* The keys are one value, or what remains of it when the puts of some     *)
(* failed: no save looks at the result of a put, and a boot then takes the *)
(* default of the key.  The score is kept as a rank: with the marker of    *)
(* this firmware, of an older one, with a marker but short of keys that    *)
(* count, some keys, none.  Two namespaces without a marker may tie here   *)
(* where their scores differ by a few keys; neither holds settings.        *)
(***************************************************************************)
EXTENDS Integers, StoredValues

CONSTANTS
    Damaged,          \* what a namespace reads while it is half cleared
    Default,          \* the settings of a device that has none
    Faults            \* which faults a device may be exposed to

\* At most one: the flash may refuse to write the meta entry, be interrupted in
\* the middle of clearing a namespace, or refuse a put now and then.  (An active
\* namespace that is rewritten in place and interrupted while it is cleared is lost.)
FaultKinds == {"none", "metaFails", "tornClear", "putsFail"}

Settings == Value \union Remains

ASSUME ValueAssumption ==
    Damaged \notin Settings /\ Damaged # NoValue /\ Default \in Value
ASSUME FaultAssumption == Faults \subseteq FaultKinds

VARIABLES
    settings,      \* settings_
    ns,            \* the three namespaces
    meta,          \* kNvsMetaActive
    \* the call in progress
    step, activeNs, stagingNs, retried,
    result,        \* how the last call ended
    \* the environment and history
    fault,
    before,        \* what a boot would have read before that last changed
    tried          \* the settings last written to the staging namespace

history == <<before, tried>>
call == <<step, activeNs, stagingNs, retried>>
vars == <<settings, ns, meta, call, result, fault, history>>

---------------------------------------------------------------------------

Namespaces == {"A", "B", "Legacy"}
NoMeta     == "none"
Stages     == {"empty", "partial", "short", "old", "full"}
Contents   == [stage : Stages, value : Settings \union {NoValue, Damaged}]
Steps      == {"idle", "clear", "tearing", "keys", "marker", "meta",
               "clearActive", "keysActive", "markerActive"}

EmptyNs == [stage |-> "empty", value |-> NoValue]
Kept(stage, v) == [stage |-> stage, value |-> v]

\* Slip: the marker counts no more than the keys.
Score_NoMarker(n) == IF ns[n].stage = "empty" THEN 0 ELSE 1

\* namespaceHealthScore()
Score(n) == CASE ns[n].stage = "full"    -> 4
              [] ns[n].stage = "old"     -> 3
              [] ns[n].stage = "short"   -> 2
              [] ns[n].stage = "partial" -> 1
              [] OTHER                   -> 0

HasMarker(n) == ns[n].stage \in {"short", "old", "full"}

\* The healthiest, the first of equals.
Healthiest ==
    LET first == IF Score("A") > Score("Legacy") THEN "A" ELSE "Legacy"
    IN  IF Score("B") > Score(first) THEN "B" ELSE first

\* getActiveNamespace()
MetaIsHealthy_Trusted == meta # NoMeta   \* slip: the marker is not looked at

MetaIsHealthy == meta # NoMeta /\ HasMarker(meta)
Active        == IF MetaIsHealthy THEN meta ELSE Healthiest

\* Its last lines: the meta entry is put right, unless that fails.
Repaired == IF Active = "Legacy" THEN {meta}
            ELSE {Active} \union (IF fault = "metaFails" THEN {meta} ELSE {})

\* getStagingNamespace()
Staging(n) == IF n = "A" THEN "B" ELSE "A"

\* What load() reads.
Loaded == IF HasMarker(Active) THEN ns[Active].value ELSE NoValue

TypeOK ==
    /\ settings \in Settings
    /\ ns \in [Namespaces -> Contents]
    /\ meta \in {"A", "B", NoMeta}
    /\ step \in Steps /\ activeNs \in Namespaces /\ stagingNs \in {"A", "B"}
    /\ retried \in BOOLEAN
    /\ result \in {"none", "stored", "failed"}
    /\ fault \in Faults
    /\ before \in Settings \union {NoValue} /\ tried \in Settings

\* A device that has never saved, or only with the firmware of the legacy
\* namespace; or one whose saves have gone through the two namespaces.
Fresh ==
    /\ meta = NoMeta
    /\ \E v \in Value, legacy \in {"empty", "old"} :
           ns = [n \in Namespaces |-> IF n = "Legacy" /\ legacy = "old" THEN Kept("old", v)
                                      ELSE EmptyNs]
    /\ fault # "metaFails"

Saved ==
    /\ meta \in {"A", "B"}
    /\ \E v \in Value, stage \in {"old", "full"} :
           ns = [n \in Namespaces |-> IF n = meta THEN Kept(stage, v) ELSE EmptyNs]

Init ==
    /\ fault \in Faults
    /\ Fresh \/ Saved
    /\ settings = (IF Loaded = NoValue THEN Default ELSE Loaded)
    /\ step = "idle" /\ activeNs = "A" /\ stagingNs = "B" /\ retried = FALSE
    /\ result = "none"
    /\ before = Loaded /\ tried = settings

---------------------------------------------------------------------------
(* A save *)

Remember ==
    /\ before' = IF Loaded' # Loaded THEN Loaded ELSE before
    /\ tried' = IF step' = "keys" THEN settings ELSE tried

At(s) == step = s

\* A setter changes the settings and saves them, now or a little later.
Edit(v) ==
    /\ At("idle") /\ v # settings
    /\ settings' = v
    /\ UNCHANGED <<ns, meta, call, result, fault>> /\ Remember

\* persistSettingsAtomically() begins.
Persist ==
    /\ At("idle")
    /\ \E m \in Repaired : meta' = m
    /\ activeNs' = Active /\ stagingNs' = Staging(Active)
    /\ step' = "clear" /\ retried' = FALSE /\ result' = "none"
    /\ UNCHANGED <<settings, ns, fault>> /\ Remember

Return(answer) ==
    /\ step' = "idle" /\ result' = answer
    /\ UNCHANGED <<settings, activeNs, stagingNs, retried, fault>> /\ Remember

GoTo(s) ==
    /\ step' = s
    /\ UNCHANGED <<settings, activeNs, stagingNs, retried, result, fault>> /\ Remember

Put(n, contents) == ns' = [ns EXCEPT ![n] = contents]

\* What the puts of the keys leave, and how a namespace scores that has its marker
\* after them.
KeysWritten == {settings} \union
               (IF fault = "putsFail" /\ settings \in Value THEN {Incomplete(settings)} ELSE {})
StagesMarked == {"full"} \union (IF fault = "putsFail" THEN {"short"} ELSE {})

\* attemptNvsRecovery() clears the namespace that is not active, and a second
\* attempt is made, once.
RetryOnce ==
    \/ /\ ~retried
       /\ retried' = TRUE /\ step' = "clear"
       /\ ns' = IF activeNs = "Legacy" THEN ns
                ELSE [ns EXCEPT ![Staging(activeNs)] = EmptyNs]
       /\ UNCHANGED <<settings, meta, activeNs, stagingNs, result, fault>> /\ Remember
    \/ /\ retried
       /\ UNCHANGED <<ns, meta>>
       /\ Return("failed")

\* writeSettingsToNamespace(): begin() and clear() ...
ClearStaging ==
    /\ At("clear")
    /\ \/ Put(stagingNs, EmptyNs) /\ UNCHANGED meta /\ GoTo("keys")
       \/ /\ fault = "tornClear"
          /\ Put(stagingNs, Kept(ns[stagingNs].stage, Damaged))
          /\ UNCHANGED meta /\ GoTo("tearing")
       \/ RetryOnce

ClearedStaging ==
    /\ At("tearing")
    /\ Put(stagingNs, EmptyNs) /\ UNCHANGED meta /\ GoTo("keys")

\* ... the version and the other keys, none of which is looked at again ...
WriteKeys ==
    /\ At("keys")
    /\ \E w \in KeysWritten : Put(stagingNs, Kept("partial", w))
    /\ UNCHANGED meta /\ GoTo("marker")

\* ... and the marker, which is read back.
WriteMarker ==
    /\ At("marker")
    /\ \/ /\ \E stage \in StagesMarked : Put(stagingNs, Kept(stage, ns[stagingNs].value))
          /\ UNCHANGED meta /\ GoTo("meta")
       \/ RetryOnce

SwitchMeta ==
    /\ At("meta")
    /\ \/ meta' = stagingNs /\ UNCHANGED ns /\ Return("stored")
       \/ fault = "metaFails" /\ UNCHANGED <<ns, meta>> /\ GoTo("clearActive")

\* The meta entry could not be written: the active namespace again, in place.
ClearActive ==
    /\ At("clearActive")
    /\ \/ Put(activeNs, EmptyNs) /\ UNCHANGED meta /\ GoTo("keysActive")
       \/ UNCHANGED <<ns, meta>> /\ Return("failed")

WriteKeysActive ==
    /\ At("keysActive")
    /\ \E w \in KeysWritten : Put(activeNs, Kept("partial", w))
    /\ UNCHANGED meta /\ GoTo("markerActive")

WriteMarkerActive ==
    /\ At("markerActive")
    /\ \/ /\ \E stage \in StagesMarked : Put(activeNs, Kept(stage, ns[activeNs].value))
          /\ UNCHANGED meta /\ Return("stored")
       \/ UNCHANGED <<ns, meta>> /\ Return("failed")

---------------------------------------------------------------------------
(* Clearing, and the loss of power *)

\* cleanupNamespacesIfNeeded() when the flash is nearly full, and the recovery
\* when a Wi-Fi password cannot be written.
ClearInactive ==
    /\ At("idle") /\ Active # "Legacy"
    /\ \E legacyToo \in BOOLEAN, m \in Repaired :
          /\ meta' = m
          /\ ns' = [n \in Namespaces |->
                       IF n = Staging(Active) \/ (legacyToo /\ n = "Legacy") THEN EmptyNs
                       ELSE ns[n]]
    /\ UNCHANGED <<settings, call, result, fault>> /\ Remember

\* Power loss and boot: load() starts from what getActiveNamespace() picks.
Reboot ==
    /\ \E m \in Repaired : meta' = m
    /\ settings' = (IF Loaded = NoValue THEN Default ELSE Loaded)
    /\ step' = "idle" /\ retried' = FALSE
    /\ result' = IF At("idle") THEN result ELSE "failed"
    /\ UNCHANGED <<ns, activeNs, stagingNs, fault>> /\ Remember

Write == \/ ClearStaging \/ ClearedStaging \/ WriteKeys \/ WriteMarker \/ SwitchMeta
         \/ ClearActive \/ WriteKeysActive \/ WriteMarkerActive

Next == (\E v \in Value : Edit(v)) \/ Persist \/ Write \/ ClearInactive \/ Reboot

Spec == Init /\ [][Next]_vars

---------------------------------------------------------------------------
(* Properties *)

\* What a boot would read changes once in a save, from the old settings to the
\* new ones, never to a mix of the two or back; a save that is answered with
\* success is what a boot reads.  Only a flash that refuses puts keeps less than
\* the new settings: what remains of them, answered with success all the same
\* (settings_nvs.cpp:322-488).
Durable == INSTANCE DurableValue WITH
    leaky   <- fault = "putsFail",
    durable <- Loaded,
    busy    <- step # "idle",
    pending <- (IF step = "idle" THEN NoValue ELSE settings),
    answer  <- result

StoresDurably == Durable!Spec

\* Should the meta entry be lost as well, a boot reads settings that were
\* stored whole, at most one save old or new.  (The newer copy is not known from the
\* older one: their scores are equal and A wins.)
WithoutMeta == IF HasMarker(Healthiest) THEN ns[Healthiest].value ELSE NoValue

SurvivesMetaLoss == fault = "none" => WithoutMeta \in {Loaded, before, tried}
=============================================================================
