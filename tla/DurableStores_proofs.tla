------------------------ MODULE DurableStores_proofs ------------------------
(***************************************************************************)
(* Each store of this firmware implements one durable value, for any       *)
(* values: the namespaces of SettingsNvs, whichever of the faults the      *)
(* device has; and the files of FileStores, for any of the three stores,   *)
(* as long as the card does not fill up under the writer that does not     *)
(* look (the list of devices).                                             *)
(***************************************************************************)
EXTENDS SettingsNvs, FileStores, TLAPS

(* The settings in flash *)

Pair == {"A", "B"}

\* The legacy namespace is only cleared, and where it has settings the other two
\* hold none of an older firmware.
LegacyKept ==
    /\ ns["Legacy"].stage \in {"empty", "old"}
    /\ HasMarker("Legacy") => /\ ns["Legacy"].value \in Settings
                              /\ \A n \in Pair : ns[n].stage # "old"

\* A namespace with a marker holds settings, or it is half cleared and the meta
\* entry names the other one; it is short of keys only where puts fail.
MarkersHold ==
    \A n \in Pair : HasMarker(n) =>
        /\ \/ ns[n].value \in Settings
           \/ /\ fault = "tornClear" /\ meta = Staging(n)
              /\ HasMarker(meta) /\ ns[meta].value \in Settings
        /\ ns[n].stage = "short" => fault = "putsFail"

\* Where the meta entry cannot be relied on, one namespace has a marker.
OneIsThere ==
    fault = "metaFails" => /\ meta \in Pair /\ ns["Legacy"].stage = "empty"
                           /\ HasMarker("A") \/ HasMarker("B")

\* While the staging namespace is written the other one is what a boot reads:
\* by the meta entry; or by score, because the meta entry could not be put
\* right; or there are no settings in either, or none that count as much as the
\* legacy ones.
ByMeta  == activeNs \in Pair /\ meta = activeNs /\ HasMarker(activeNs)
ByScore == /\ fault = "metaFails" /\ activeNs \in Pair /\ meta = stagingNs
           /\ HasMarker(activeNs) /\ ~HasMarker(stagingNs)
Neither == /\ fault # "metaFails" /\ ~(meta \in Pair /\ HasMarker(meta))
           /\ \A n \in Pair : HasMarker(n) => ns[n].stage = "short" /\ HasMarker("Legacy")

StagingIsMarked == ns[stagingNs].stage \in StagesMarked /\ ns[stagingNs].value \in KeysWritten

InCall ==
    /\ step # "idle" => stagingNs = Staging(activeNs) /\ result = "none"
    /\ step \in {"clear", "tearing", "keys", "marker"} => ByMeta \/ ByScore \/ Neither
    /\ step = "tearing" => fault = "tornClear"
    /\ step \in {"keys", "marker"} => ~HasMarker(stagingNs)
    /\ step = "marker" => ns[stagingNs].value \in KeysWritten
    /\ step \in {"meta", "clearActive", "keysActive", "markerActive"} =>
          StagingIsMarked /\ (fault = "metaFails" => activeNs \in Pair)
    /\ step \in {"clearActive", "keysActive", "markerActive"} => fault = "metaFails"
    /\ step \in {"keysActive", "markerActive"} => ~HasMarker(activeNs)
    /\ step = "markerActive" => ns[activeNs].value \in KeysWritten

NInv == TypeOK /\ LegacyKept /\ MarkersHold /\ OneIsThere /\ InCall

---------------------------------------------------------------------------
(* What a boot reads, in terms of markers. *)

Well == ns \in [Namespaces -> Contents] /\ meta \in {"A", "B", NoMeta}

ReadsByMeta == Well /\ meta \in Pair /\ HasMarker(meta) => Loaded = ns[meta].value

ReadsLegacy ==
    /\ Well /\ ~(meta \in Pair /\ HasMarker(meta))
    /\ \A n \in Pair : HasMarker(n) => ns[n].stage = "short" /\ ns["Legacy"].stage = "old"
    =>  Loaded = IF HasMarker("Legacy") THEN ns["Legacy"].value ELSE NoValue

ReadsBest(n) ==
    /\ Well /\ HasMarker(n) /\ (meta = Staging(n) => ~HasMarker(meta))
    /\ HasMarker(Staging(n)) => ns[n].stage = "full" /\ ns[Staging(n)].stage = "short"
    /\ HasMarker("Legacy") => ns[n].stage = "full" /\ ns["Legacy"].stage = "old"
    =>  Loaded = ns[n].value

\* A boot reads the namespace of the meta entry, the one that counts most, or
\* the legacy one.
LEMMA Reads == ReadsByMeta /\ ReadsLegacy /\ \A n \in Pair : ReadsBest(n)
<1>1. ASSUME Well
      PROVE  \A n \in Namespaces :
                 /\ Score(n) \in 0..4
                 /\ HasMarker(n) <=> Score(n) \in {2, 3, 4}
                 /\ ns[n].stage = "full" <=> Score(n) = 4
                 /\ ns[n].stage = "old" <=> Score(n) = 3
                 /\ ns[n].stage = "short" <=> Score(n) = 2
      BY <1>1 DEF Well, Score, HasMarker, Contents, Stages
<1>2. "A" \in Namespaces /\ "B" \in Namespaces /\ "Legacy" \in Namespaces
      BY DEF Namespaces
<1>3. ReadsByMeta
      BY DEF ReadsByMeta, Loaded, Active, MetaIsHealthy, Pair, NoMeta
<1>4. ReadsLegacy
      <2> SUFFICES ASSUME Well, ~(meta \in Pair /\ HasMarker(meta)),
                          \A n \in Pair : HasMarker(n) => /\ ns[n].stage = "short"
                                                           /\ ns["Legacy"].stage = "old"
                   PROVE  Loaded = IF HasMarker("Legacy") THEN ns["Legacy"].value ELSE NoValue
          BY DEF ReadsLegacy
      <2>1. Active = Healthiest
            BY DEF Active, MetaIsHealthy, Well, NoMeta, Pair
      <2>2. HasMarker("Legacy") => Healthiest = "Legacy"
            <3>1. \A n \in Pair : Score(n) \in {0, 1, 2}
                  BY <1>1, <1>2 DEF Pair
            <3>2. HasMarker("Legacy") => Score("Legacy") > Score("A")
                                       /\ Score("Legacy") > Score("B")
                  BY <1>1, <1>2, <3>1 DEF Pair
            <3> QED
                  BY <1>1, <1>2, <3>2 DEF Healthiest
      <2>3. Healthiest \in Namespaces
            BY <1>2 DEF Healthiest
      <2>4. HasMarker(Healthiest) => Healthiest = "Legacy"
            BY <2>2, <2>3 DEF Namespaces, Pair, HasMarker
      <2> QED
            BY <2>1, <2>2, <2>4 DEF Loaded
<1>5. ASSUME NEW n \in Pair PROVE ReadsBest(n)
      <2> SUFFICES ASSUME Well, HasMarker(n), meta = Staging(n) => ~HasMarker(meta),
                          HasMarker(Staging(n)) => /\ ns[n].stage = "full"
                                                     /\ ns[Staging(n)].stage = "short",
                          HasMarker("Legacy") => /\ ns[n].stage = "full"
                                                   /\ ns["Legacy"].stage = "old"
                   PROVE  Loaded = ns[n].value
          BY DEF ReadsBest
      <2>1. Score(n) > Score("Legacy") /\ Score(n) > Score(Staging(n))
            BY <1>1, <1>2 DEF Pair, Namespaces, Staging
      <2>2. Healthiest = n
            BY <1>1, <1>2, <2>1 DEF Healthiest, Pair, Staging
      <2>3. Active = n
            BY <2>2 DEF Active, MetaIsHealthy, Well, Pair, Staging, NoMeta
      <2> QED
            BY <2>3 DEF Loaded
<1> QED
      BY <1>3, <1>4, <1>5

\* The same of the next state.
LEMMA ReadsNext == ReadsByMeta' /\ ReadsLegacy' /\ \A n \in Pair : ReadsBest(n)'
<1>1. ASSUME Well'
      PROVE  \A n \in Namespaces :
                 /\ Score(n)' \in 0..4
                 /\ HasMarker(n)' <=> Score(n)' \in {2, 3, 4}
                 /\ ns'[n].stage = "full" <=> Score(n)' = 4
                 /\ ns'[n].stage = "old" <=> Score(n)' = 3
                 /\ ns'[n].stage = "short" <=> Score(n)' = 2
      BY <1>1 DEF Well, Score, HasMarker, Contents, Stages
<1>2. "A" \in Namespaces /\ "B" \in Namespaces /\ "Legacy" \in Namespaces
      BY DEF Namespaces
<1>3. ReadsByMeta'
      BY DEF ReadsByMeta, Loaded, Active, MetaIsHealthy, Pair, NoMeta
<1>4. ReadsLegacy'
      <2> SUFFICES ASSUME Well', ~(meta' \in Pair /\ HasMarker(meta)'),
                          \A n \in Pair : HasMarker(n)' => /\ ns'[n].stage = "short"
                                                           /\ ns'["Legacy"].stage = "old"
                   PROVE  Loaded' = IF HasMarker("Legacy")' THEN ns'["Legacy"].value ELSE NoValue
          BY DEF ReadsLegacy
      <2>1. Active' = Healthiest'
            BY DEF Active, MetaIsHealthy, Well, NoMeta, Pair
      <2>2. HasMarker("Legacy")' => Healthiest' = "Legacy"
            <3>1. \A n \in Pair : Score(n)' \in {0, 1, 2}
                  BY <1>1, <1>2 DEF Pair
            <3>2. HasMarker("Legacy")' => Score("Legacy")' > Score("A")'
                                       /\ Score("Legacy")' > Score("B")'
                  BY <1>1, <1>2, <3>1 DEF Pair
            <3> QED
                  BY <1>1, <1>2, <3>2 DEF Healthiest
      <2>3. Healthiest' \in Namespaces
            BY <1>2 DEF Healthiest
      <2>4. HasMarker(Healthiest)' => Healthiest' = "Legacy"
            BY <2>2, <2>3 DEF Namespaces, Pair, HasMarker
      <2> QED
            BY <2>1, <2>2, <2>4 DEF Loaded
<1>5. ASSUME NEW n \in Pair PROVE ReadsBest(n)'
      <2> SUFFICES ASSUME Well', HasMarker(n)', meta' = Staging(n) => ~HasMarker(meta)',
                          HasMarker(Staging(n))' => /\ ns'[n].stage = "full"
                                                     /\ ns'[Staging(n)].stage = "short",
                          HasMarker("Legacy")' => /\ ns'[n].stage = "full"
                                                   /\ ns'["Legacy"].stage = "old"
                   PROVE  Loaded' = ns'[n].value
          BY DEF ReadsBest
      <2>1. Score(n)' > Score("Legacy")' /\ Score(n)' > Score(Staging(n))'
            BY <1>1, <1>2 DEF Pair, Namespaces, Staging
      <2>2. Healthiest' = n
            BY <1>1, <1>2, <2>1 DEF Healthiest, Pair, Staging
      <2>3. Active' = n
            BY <2>2 DEF Active, MetaIsHealthy, Well, Pair, Staging, NoMeta
      <2> QED
            BY <2>3 DEF Loaded
<1> QED
      BY <1>3, <1>4, <1>5

\* The healthiest namespace has a marker if any has.
LEMMA HealthiestHasMarker ==
    Well => /\ Healthiest \in Namespaces
            /\ \A n \in Namespaces : HasMarker(n) => HasMarker(Healthiest)
<1> SUFFICES ASSUME Well
             PROVE  /\ Healthiest \in Namespaces
                    /\ \A n \in Namespaces : HasMarker(n) => HasMarker(Healthiest)
    OBVIOUS
<1>1. \A n \in Namespaces :
          Score(n) \in 0..4 /\ (HasMarker(n) <=> Score(n) \in {2, 3, 4})
      BY DEF Well, Score, HasMarker, Contents, Stages
<1>2. "A" \in Namespaces /\ "B" \in Namespaces /\ "Legacy" \in Namespaces
      BY DEF Namespaces
<1>3. Healthiest \in Namespaces
      BY <1>2 DEF Healthiest
<1>4. Score("A") <= Score(Healthiest) /\ Score("B") <= Score(Healthiest)
      /\ Score("Legacy") <= Score(Healthiest)
      BY <1>1, <1>2 DEF Healthiest
<1>5. \A n \in Namespaces : Score(n) <= Score(Healthiest)
      BY <1>4 DEF Namespaces
<1> QED
      BY <1>1, <1>3, <1>5

---------------------------------------------------------------------------
(* The invariant *)

\* An empty namespace is a content.
LEMMA EmptyType == EmptyNs \in Contents /\ EmptyNs.stage = "empty"
BY DEF EmptyNs, Contents, Stages

\* A value is settings,
LEMMA ValueType == Value \subseteq Settings /\ NoValue \notin Settings /\ Default \in Settings
BY NoValueAssumption, ValueAssumption DEF Settings

\* as is what the puts of its keys leave.
LEMMA WrittenType ==
    ASSUME settings \in Settings
    PROVE  KeysWritten \subseteq Settings /\ StagesMarked \subseteq Stages \ {"old"}
BY DEF KeysWritten, StagesMarked, Settings, Remains, Stages

\* What a namespace is given is a content.
LEMMA KeptType ==
    ASSUME NEW stage \in Stages, NEW v \in Settings \union {NoValue, Damaged}
    PROVE  Kept(stage, v) \in Contents /\ Kept(stage, v).stage = stage /\ Kept(stage, v).value = v
BY DEF Kept, Contents

\* What a boot reads is a value or nothing, never half of one.
LEMMA LoadedIsWhole == NInv => Loaded \in Settings \union {NoValue}
<1> SUFFICES ASSUME NInv PROVE Loaded \in Settings \union {NoValue}
    OBVIOUS
<1>1. Well
      BY DEF NInv, TypeOK, Well
<1>2. CASE meta \in Pair /\ HasMarker(meta)
      BY <1>1, <1>2, Reads
      DEF ReadsByMeta, NInv, MarkersHold, Pair, Staging
<1>3. CASE ~(meta \in Pair /\ HasMarker(meta))
      <2>1. \A n \in Pair : HasMarker(n) => ns[n].value \in Settings
            BY <1>3 DEF NInv, MarkersHold, Pair, Staging
      <2>2. HasMarker("Legacy") => ns["Legacy"].value \in Settings
            BY DEF NInv, LegacyKept
      <2>3. Active \in Namespaces
            BY <1>1, <1>3 DEF Active, MetaIsHealthy, Healthiest, Well, Pair, NoMeta, Namespaces
      <2>4. HasMarker(Active) => ns[Active].value \in Settings
            BY <2>1, <2>2, <2>3 DEF Namespaces, Pair
      <2> QED
            BY <2>4 DEF Loaded
<1> QED
      BY <1>2, <1>3

\* The invariant holds at boot.
LEMMA InvInit == Init => NInv
<1> SUFFICES ASSUME Init PROVE NInv
    OBVIOUS
<1>1. /\ ns \in [Namespaces -> Contents] /\ meta \in {"A", "B", NoMeta}
      /\ LegacyKept /\ MarkersHold /\ OneIsThere
      <2>1. CASE Fresh
            <3>1. meta = NoMeta /\ fault # "metaFails"
                  BY <2>1 DEF Fresh
            <3>2. PICK v \in Value, legacy \in {"empty", "old"} :
                      ns = [n \in Namespaces |-> IF n = "Legacy" /\ legacy = "old"
                                                THEN Kept("old", v) ELSE EmptyNs]
                  BY <2>1 DEF Fresh
            <3>3. Kept("old", v) \in Contents /\ Kept("old", v).stage = "old"
                  /\ Kept("old", v).value = v
                  BY KeptType, ValueType DEF Stages
            <3>4. ns \in [Namespaces -> Contents]
                  BY <3>2, <3>3, EmptyType
            <3>5. /\ ns["A"].stage = "empty" /\ ns["B"].stage = "empty"
                  /\ ns["Legacy"].stage \in {"empty", "old"}
                  /\ ns["Legacy"].stage = "old" => ns["Legacy"].value = v
                  BY <3>2, <3>3, EmptyType DEF Namespaces
            <3> QED
                  BY <3>1, <3>4, <3>5, ValueType
                  DEF LegacyKept, MarkersHold, OneIsThere, HasMarker, Pair
      <2>2. CASE Saved
            <3>1. meta \in Pair
                  BY <2>2 DEF Saved, Pair
            <3>2. PICK v \in Value, stage \in {"old", "full"} :
                      ns = [n \in Namespaces |-> IF n = meta THEN Kept(stage, v) ELSE EmptyNs]
                  BY <2>2 DEF Saved
            <3>3. Kept(stage, v) \in Contents /\ Kept(stage, v).stage = stage
                  /\ Kept(stage, v).value = v
                  BY KeptType, ValueType DEF Stages
            <3>4. ns \in [Namespaces -> Contents]
                  BY <3>2, <3>3, EmptyType
            <3>5. /\ ns[meta].stage = stage /\ ns[meta].value = v
                  /\ \A n \in Namespaces \ {meta} : ns[n].stage = "empty"
                  BY <3>1, <3>2, <3>3, EmptyType DEF Namespaces, Pair
            <3> QED
                  BY <3>1, <3>4, <3>5, ValueType
                  DEF LegacyKept, MarkersHold, OneIsThere, HasMarker, Pair, Namespaces
      <2> QED
            BY <2>1, <2>2 DEF Init
<1>2. Well
      BY <1>1 DEF Well
<1>3. Loaded \in Settings \union {NoValue}
      <2>1. CASE Fresh
            <3>1. ~HasMarker("A") /\ ~HasMarker("B")
                  BY <2>1, EmptyType DEF Fresh, Namespaces, HasMarker
            <3> QED
                  BY <1>1, <1>2, <3>1, Reads DEF ReadsLegacy, LegacyKept, Pair
      <2>2. CASE Saved
            <3>1. meta \in Pair /\ HasMarker(meta)
                  BY <2>2 DEF Saved, Pair, Namespaces, HasMarker, Kept
            <3> QED
                  BY <1>1, <1>2, <3>1, Reads
                  DEF ReadsByMeta, MarkersHold, Pair, Staging
      <2> QED
            BY <2>1, <2>2 DEF Init
<1>4. settings \in Settings
      BY <1>3, ValueType DEF Init
<1>5. TypeOK
      BY <1>1, <1>3, <1>4 DEF Init, TypeOK, Steps, Namespaces
<1> QED
      BY <1>1, <1>5 DEF Init, NInv, InCall

\* What a call remembers for the history are settings.
LEMMA RememberType ==
    ASSUME NInv, Remember
    PROVE  before' \in Settings \union {NoValue} /\ tried' \in Settings
BY LoadedIsWhole DEF Remember, NInv, TypeOK

\* A namespace that is written: what it holds then, and that the others stay.
LEMMA PutKeeps ==
    ASSUME Well, NEW n \in Namespaces, NEW c \in Contents, Put(n, c)
    PROVE  /\ ns' \in [Namespaces -> Contents] /\ ns'[n] = c
           /\ \A m \in Namespaces \ {n} : ns'[m] = ns[m]
BY DEF Put, Well

\* The one retry keeps the invariant,
LEMMA RetryKeeps ==
    ASSUME NInv, step \in {"clear", "marker"}, RetryOnce
    PROVE  NInv'
<1> USE DEF NInv, TypeOK, InCall
<1>0. before' \in Settings \union {NoValue} /\ tried' \in Settings
      BY RememberType DEF RetryOnce, Return
<1>1. CASE retried
      BY <1>0, <1>1
      DEF RetryOnce, Return, LegacyKept, MarkersHold, OneIsThere, HasMarker, Steps, Pair, Staging
<1>2. CASE ~retried /\ activeNs = "Legacy"
      BY <1>0, <1>2
      DEF RetryOnce, LegacyKept, MarkersHold, OneIsThere, HasMarker, Steps, Pair, Staging,
          ByMeta, ByScore, Neither
<1>3. CASE ~retried /\ activeNs \in Pair
      <2>1. /\ retried' = TRUE /\ step' = "clear"
            /\ ns' = [ns EXCEPT ![Staging(activeNs)] = EmptyNs]
            /\ UNCHANGED <<settings, meta, activeNs, stagingNs, result, fault>>
            BY <1>3 DEF RetryOnce, Pair
      <2>2. stagingNs = Staging(activeNs) /\ stagingNs \in Pair
            BY <1>3 DEF Pair, Staging
      <2>3. /\ ns' \in [Namespaces -> Contents] /\ ns'[stagingNs].stage = "empty"
            /\ \A m \in Namespaces \ {stagingNs} : ns'[m] = ns[m]
            BY <2>1, <2>2, EmptyType DEF Namespaces, Pair
      <2>4. LegacyKept'
            BY <2>2, <2>3 DEF LegacyKept, HasMarker, Namespaces, Pair
      <2>5. ByMeta' \/ ByScore' \/ Neither'
            BY <1>3, <2>1, <2>2, <2>3
            DEF ByMeta, ByScore, Neither, HasMarker, Namespaces, Pair, Staging
      <2>6. MarkersHold'
            BY <1>3, <2>1, <2>2, <2>3
            DEF MarkersHold, ByMeta, ByScore, Neither, HasMarker, Namespaces, Pair, Staging
      <2>7. OneIsThere'
            BY <1>3, <2>1, <2>2, <2>3
            DEF OneIsThere, ByMeta, ByScore, Neither, HasMarker, Namespaces, Pair, Staging
      <2> QED
            BY <1>0, <2>1, <2>2, <2>3, <2>4, <2>5, <2>6, <2>7 DEF Steps
<1> QED
      BY <1>1, <1>2, <1>3 DEF Namespaces, Pair

\* A write to the staging namespace that leaves the meta entry alone and gives it
\* no marker.
LEMMA StagingKeeps ==
    ASSUME NInv, step \in {"clear", "tearing", "keys"}, NEW c \in Contents, Put(stagingNs, c),
           c.stage \in {"empty", "partial"}, NEW s \in {"keys", "marker"}, GoTo(s), UNCHANGED meta,
           s = "marker" => c.value \in KeysWritten
    PROVE  NInv'
<1> USE DEF NInv, TypeOK, InCall
<1>0. before' \in Settings \union {NoValue} /\ tried' \in Settings
      BY RememberType DEF GoTo
<1>1. stagingNs = Staging(activeNs) /\ stagingNs \in Pair /\ Well /\ stagingNs \in Namespaces
      BY DEF Pair, Staging, Well, Namespaces
<1>2. /\ ns' \in [Namespaces -> Contents] /\ ns'[stagingNs] = c
      /\ \A m \in Namespaces \ {stagingNs} : ns'[m] = ns[m]
      BY <1>1, PutKeeps
<1>3. step' = s /\ UNCHANGED <<settings, activeNs, stagingNs, retried, result, fault, meta>>
      BY DEF GoTo
<1>4. LegacyKept'
      BY <1>1, <1>2 DEF LegacyKept, HasMarker, Namespaces, Pair
<1>5. ByMeta' \/ ByScore' \/ Neither'
      BY <1>1, <1>2, <1>3 DEF ByMeta, ByScore, Neither, HasMarker, Namespaces, Pair, Staging
<1>6. MarkersHold'
      BY <1>1, <1>2, <1>3
      DEF MarkersHold, ByMeta, ByScore, Neither, HasMarker, Namespaces, Pair, Staging
<1>7. OneIsThere'
      BY <1>1, <1>2, <1>3
      DEF OneIsThere, ByMeta, ByScore, Neither, HasMarker, Namespaces, Pair, Staging
<1>8. ~HasMarker(stagingNs)' /\ (step' = "marker" => ns'[stagingNs'].value \in KeysWritten')
      BY <1>2, <1>3 DEF HasMarker, KeysWritten
<1> QED
      BY <1>0, <1>1, <1>2, <1>3, <1>4, <1>5, <1>6, <1>7, <1>8 DEF Steps

\* what happens between two calls keeps it,
LEMMA IdleActionsKeep ==
    ASSUME NInv, step = "idle", (\E v \in Value : Edit(v)) \/ Persist \/ ClearInactive
    PROVE  NInv'
<1> USE DEF NInv, TypeOK, InCall
<1>1. ASSUME NEW v \in Value, Edit(v)
      PROVE  NInv'
      <2>1. before' \in Settings \union {NoValue} /\ tried' \in Settings
            BY <1>1, RememberType DEF Edit
      <2> QED
            BY <1>1, <2>1, ValueType
            DEF Edit, At, call, LegacyKept, MarkersHold, OneIsThere, HasMarker, Pair, Staging
<1>2. Active \in Namespaces
      BY DEF Active, MetaIsHealthy, Healthiest, Namespaces, NoMeta
<1>3. Active # "Legacy" => Active \in Pair /\ Repaired \subseteq Pair \union {meta}
      BY <1>2 DEF Namespaces, Pair, Repaired
<1>4. CASE Persist
      <2>1. before' \in Settings \union {NoValue} /\ tried' \in Settings
            BY <1>4, RememberType DEF Persist
      <2>2. PICK m \in Repaired : meta' = m
            BY <1>4 DEF Persist
      <2>3. /\ activeNs' = Active /\ stagingNs' = Staging(Active) /\ step' = "clear"
            /\ retried' = FALSE /\ result' = "none" /\ UNCHANGED <<settings, ns, fault>>
            BY <1>4 DEF Persist
      <2>4. stagingNs' \in {"A", "B"} /\ meta' \in {"A", "B", NoMeta}
            BY <1>3, <2>2, <2>3 DEF Staging, Repaired, Pair
      <2>5. CASE meta \in Pair /\ HasMarker(meta)
            <3>1. Active = meta /\ meta' = meta
                  BY <2>2, <2>5 DEF Active, MetaIsHealthy, Pair, NoMeta, Repaired
            <3>2. ByMeta'
                  BY <2>3, <2>5, <3>1 DEF ByMeta, HasMarker
            <3> QED
                  BY <1>2, <2>1, <2>3, <2>4, <2>5, <3>1, <3>2
                  DEF LegacyKept, MarkersHold, OneIsThere, HasMarker, Pair, Steps
      <2>6. CASE ~(meta \in Pair /\ HasMarker(meta))
            <3>1. Active = Healthiest
                  BY <2>6 DEF Active, MetaIsHealthy, Pair, NoMeta
            <3>2. \A n \in Pair : HasMarker(n) => ns[n].value \in Settings
                  BY <2>6 DEF MarkersHold, Pair, Staging
            <3>3. CASE fault = "metaFails"
                  <4>1. /\ meta \in Pair /\ ~HasMarker(meta) /\ HasMarker(Staging(meta))
                        /\ ~HasMarker("Legacy")
                        BY <2>6, <3>3 DEF OneIsThere, Pair, Staging, HasMarker
                  <4>2. Active = Staging(meta)
                        BY <3>1, <4>1
                        DEF Healthiest, Score, HasMarker, Pair, Staging, Contents, Stages,
                           Namespaces
                  <4>3. meta' = Staging(meta) \/ meta' = meta
                        BY <2>2, <4>1, <4>2 DEF Repaired, Pair, Staging
                  <4>4. ByMeta' \/ ByScore'
                        BY <2>3, <3>3, <4>1, <4>2, <4>3
                        DEF ByMeta, ByScore, Pair, Staging, HasMarker
                  <4> QED
                        BY <1>2, <2>1, <2>3, <2>4, <3>2, <3>3, <4>1, <4>3, <4>4
                        DEF LegacyKept, MarkersHold, OneIsThere, HasMarker, Pair, Steps, Staging
            <3>4. CASE fault # "metaFails"
                  <4>1. Active # "Legacy" => meta' = Active
                        BY <2>2, <3>4 DEF Repaired
                  <4>2. ASSUME Active = "Legacy", NEW n \in Pair, HasMarker(n)
                        PROVE  ns[n].stage = "short" /\ HasMarker("Legacy")
                        <5>1. Healthiest = "Legacy"
                              BY <3>1, <4>2
                        <5>2. HasMarker("Legacy")
                              BY <4>2, <5>1, HealthiestHasMarker DEF Well, Pair, Namespaces
                        <5>3. ns["Legacy"].stage = "old" /\ ns[n].stage # "old"
                              BY <5>2 DEF LegacyKept, HasMarker
                        <5>4. ns[n].stage # "full"
                              BY <5>1, <5>3 DEF Healthiest, Score, Pair
                        <5> QED
                              BY <4>2, <5>2, <5>3, <5>4 DEF HasMarker
                  <4>2a. Active = "Legacy" => meta' = meta
                        BY <2>2 DEF Repaired
                  <4>3. Active \in Pair /\ ~HasMarker(Active) => \A n \in Pair : ~HasMarker(n)
                        BY <3>1, HealthiestHasMarker DEF Well, Pair, Namespaces
                  <4>4. ByMeta' \/ Neither'
                        BY <1>2, <2>3, <2>6, <3>4, <4>1, <4>2, <4>2a, <4>3
                        DEF ByMeta, Neither, Namespaces, Pair, HasMarker
                  <4> QED
                        BY <1>2, <2>1, <2>3, <2>4, <3>2, <3>4, <4>4
                        DEF LegacyKept, MarkersHold, OneIsThere, HasMarker, Pair, Steps, Staging
            <3> QED
                  BY <3>3, <3>4
      <2> QED
            BY <2>5, <2>6
<1>5. CASE ClearInactive
      <2>1. before' \in Settings \union {NoValue} /\ tried' \in Settings
            BY <1>5, RememberType DEF ClearInactive
      <2>2. Active \in Pair
            BY <1>2, <1>5 DEF ClearInactive, Namespaces, Pair
      <2>3. PICK legacyToo \in BOOLEAN, m \in Repaired :
                /\ meta' = m
                /\ ns' = [n \in Namespaces |->
                             IF n = Staging(Active) \/ (legacyToo /\ n = "Legacy") THEN EmptyNs
                             ELSE ns[n]]
            BY <1>5 DEF ClearInactive
      <2>4. UNCHANGED <<settings, step, activeNs, stagingNs, retried, result, fault>>
            BY <1>5 DEF ClearInactive, call
      <2>5. /\ ns' \in [Namespaces -> Contents] /\ ns'[Active] = ns[Active]
            /\ ns'[Staging(Active)].stage = "empty"
            /\ ns'["Legacy"].stage = "empty" \/ ns'["Legacy"] = ns["Legacy"]
            BY <2>2, <2>3, EmptyType DEF Pair, Staging, Namespaces
      <2>6. HasMarker(Active) => ns[Active].value \in Settings
            BY <2>2 DEF MarkersHold, Active, MetaIsHealthy, Pair, Staging, NoMeta
      <2>7. fault = "metaFails" => HasMarker(Active)
            <3>1. Well
                  BY DEF Well
            <3>2. fault = "metaFails" => HasMarker(Healthiest)
                  BY <3>1, HealthiestHasMarker DEF OneIsThere, Namespaces
            <3> QED
                  BY <3>2 DEF Active, MetaIsHealthy
      <2>8. meta' \in {"A", "B", NoMeta} /\ (fault = "metaFails" => meta' \in Pair)
            BY <1>3, <2>2, <2>3 DEF OneIsThere, Pair
      <2>9. LegacyKept'
            BY <2>2, <2>5 DEF LegacyKept, HasMarker, Pair, Staging
      <2>10. MarkersHold'
            BY <2>2, <2>4, <2>5, <2>6 DEF MarkersHold, HasMarker, Pair, Staging
      <2>11. OneIsThere'
            BY <2>2, <2>4, <2>5, <2>7, <2>8 DEF OneIsThere, HasMarker, Pair, Staging
      <2> QED
            BY <2>1, <2>4, <2>5, <2>8, <2>9, <2>10, <2>11
<1> QED
      BY <1>1, <1>4, <1>5

\* a reboot keeps it,
LEMMA RebootKeeps == NInv /\ Reboot => NInv'
<1> SUFFICES ASSUME NInv, Reboot PROVE NInv'
    OBVIOUS
<1> USE DEF NInv, TypeOK, InCall
<1>1. before' \in Settings \union {NoValue} /\ tried' \in Settings
      BY RememberType DEF Reboot
<1>2. settings' \in Settings
      BY LoadedIsWhole, ValueType DEF Reboot
<1>3. /\ step' = "idle" /\ retried' = FALSE /\ result' \in {"none", "stored", "failed"}
      /\ UNCHANGED <<ns, activeNs, stagingNs, fault>>
      BY DEF Reboot
<1>4. PICK m \in Repaired : meta' = m
      BY DEF Reboot
<1>5. Active \in Namespaces
      BY DEF Active, MetaIsHealthy, Healthiest, Namespaces, NoMeta
<1>6. meta' \in {"A", "B", NoMeta} /\ (fault = "metaFails" => meta' \in Pair)
      BY <1>4, <1>5 DEF Repaired, Namespaces, OneIsThere, Pair
<1>7. MarkersHold'
      <2>1. CASE meta \in Pair /\ HasMarker(meta)
            <3>1. meta' = meta
                  BY <1>4, <2>1 DEF Active, MetaIsHealthy, Pair, NoMeta, Repaired
            <3> QED
                  BY <1>3, <3>1 DEF MarkersHold, HasMarker
      <2>2. CASE ~(meta \in Pair /\ HasMarker(meta))
            BY <1>3, <2>2 DEF MarkersHold, HasMarker, Pair, Staging
      <2> QED
            BY <2>1, <2>2
<1> QED
      BY <1>1, <1>2, <1>3, <1>6, <1>7 DEF LegacyKept, OneIsThere, HasMarker, Steps, Pair

\* and every write of a call does.
LEMMA WriteKeeps == NInv /\ Write => NInv'
<1> SUFFICES ASSUME NInv, Write PROVE NInv'
    OBVIOUS
<1> USE DEF NInv, TypeOK, InCall
<1>0. Well /\ stagingNs \in Namespaces
      BY DEF Well, Namespaces
<1>1. CASE ClearStaging
      <2>1. step = "clear"
            BY <1>1 DEF ClearStaging, At
      <2>2. CASE Put(stagingNs, EmptyNs) /\ UNCHANGED meta /\ GoTo("keys")
            BY <2>1, <2>2, EmptyType, StagingKeeps
      <2>3. CASE RetryOnce
            BY <2>1, <2>3, RetryKeeps
      <2>4. CASE /\ fault = "tornClear"
                 /\ Put(stagingNs, Kept(ns[stagingNs].stage, Damaged))
                 /\ UNCHANGED meta /\ GoTo("tearing")
            <3>1. before' \in Settings \union {NoValue} /\ tried' \in Settings
                  BY <2>4, RememberType DEF GoTo
            <3>2. ns[stagingNs].stage \in Stages
                  BY <1>0 DEF Contents
            <3>3. /\ Kept(ns[stagingNs].stage, Damaged) \in Contents
                  /\ Kept(ns[stagingNs].stage, Damaged).stage = ns[stagingNs].stage
                  BY <3>2, KeptType
            <3>4. /\ ns' \in [Namespaces -> Contents]
                  /\ ns'[stagingNs].stage = ns[stagingNs].stage
                  /\ \A m \in Namespaces \ {stagingNs} : ns'[m] = ns[m]
                  BY <1>0, <2>4, <3>3, PutKeeps
            <3>5. /\ step' = "tearing"
                  /\ UNCHANGED <<settings, activeNs, stagingNs, retried, result, fault>>
                  BY <2>4 DEF GoTo
            <3>6. stagingNs = Staging(activeNs) /\ stagingNs \in Pair /\ (ByMeta \/ Neither)
                  BY <2>1, <2>4 DEF Pair, ByScore
            <3>7. LegacyKept'
                  BY <3>4, <3>6 DEF LegacyKept, HasMarker, Namespaces, Pair
            <3>8. ByMeta' \/ Neither'
                  BY <2>4, <3>4, <3>5, <3>6
                  DEF ByMeta, Neither, HasMarker, Namespaces, Pair, Staging
            <3>9. MarkersHold'
                  BY <2>4, <3>4, <3>5, <3>6
                  DEF MarkersHold, ByMeta, Neither, HasMarker, Namespaces, Pair, Staging
            <3> QED
                  BY <2>1, <2>4, <3>1, <3>4, <3>5, <3>6, <3>7, <3>8, <3>9 DEF Steps, OneIsThere
      <2> QED
            BY <1>1, <2>2, <2>3, <2>4 DEF ClearStaging
<1>2. CASE ClearedStaging
      BY <1>2, EmptyType, StagingKeeps DEF ClearedStaging, At
<1>3. CASE WriteKeys
      <2>1. PICK w \in KeysWritten : Put(stagingNs, Kept("partial", w))
            BY <1>3 DEF WriteKeys
      <2>2. /\ Kept("partial", w) \in Contents /\ Kept("partial", w).stage = "partial"
            /\ Kept("partial", w).value = w
            BY WrittenType, KeptType DEF Stages
      <2> QED
            BY <1>3, <2>1, <2>2, StagingKeeps DEF WriteKeys, At
<1>4. CASE WriteMarker
      <2>1. step = "marker"
            BY <1>4 DEF WriteMarker, At
      <2>2. CASE RetryOnce
            BY <2>1, <2>2, RetryKeeps
      <2>3. ASSUME NEW stage \in StagesMarked, Put(stagingNs, Kept(stage, ns[stagingNs].value)),
                   UNCHANGED meta, GoTo("meta")
            PROVE  NInv'
            <3>1. before' \in Settings \union {NoValue} /\ tried' \in Settings
                  BY <2>3, RememberType DEF GoTo
            <3> DEFINE kept == Kept(stage, ns[stagingNs].value)
            <3>1a. ns[stagingNs].value \in KeysWritten /\ ns[stagingNs].value \in Settings
                  BY <2>1, WrittenType
            <3>2. /\ kept \in Contents /\ kept.stage = stage
                  /\ kept.value = ns[stagingNs].value
                  BY <3>1a, WrittenType, KeptType
            <3> HIDE DEF kept
            <3>3. /\ ns' \in [Namespaces -> Contents]
                  /\ ns'[stagingNs].stage = stage /\ ns'[stagingNs].value = ns[stagingNs].value
                  /\ \A m \in Namespaces \ {stagingNs} : ns'[m] = ns[m]
                  BY <1>0, <2>3, <3>2, PutKeeps DEF kept
            <3>4. /\ step' = "meta"
                  /\ UNCHANGED <<settings, activeNs, stagingNs, retried, result, fault>>
                  BY <2>3 DEF GoTo
            <3>5. stagingNs = Staging(activeNs) /\ stagingNs \in Pair
                  BY <2>1 DEF Pair
            <3>6. LegacyKept'
                  BY <3>3, <3>5 DEF LegacyKept, HasMarker, Namespaces, Pair, StagesMarked
            <3>7. MarkersHold'
                  BY <2>1, <2>3, <3>1a, <3>3, <3>4, <3>5
                  DEF MarkersHold, ByMeta, ByScore, Neither, HasMarker, Namespaces, Pair, Staging,
                      StagesMarked
            <3>8. OneIsThere' /\ StagingIsMarked' /\ (fault = "metaFails" => activeNs \in Pair)
                  BY <2>1, <2>3, <3>1a, <3>3, <3>4, <3>5
                  DEF OneIsThere, StagingIsMarked, ByMeta, ByScore, Neither, HasMarker, Namespaces,
                      Pair, Staging, StagesMarked, KeysWritten
            <3> QED
                  BY <2>1, <2>3, <3>1, <3>3, <3>4, <3>5, <3>6, <3>7, <3>8 DEF Steps
      <2> QED
            BY <1>4, <2>2, <2>3 DEF WriteMarker
<1>5. CASE SwitchMeta
      <2>1. before' \in Settings \union {NoValue} /\ tried' \in Settings
            BY <1>5, RememberType DEF SwitchMeta, Return, GoTo
      <2>2. step = "meta" /\ stagingNs = Staging(activeNs) /\ StagingIsMarked /\ ns' = ns
            BY <1>5 DEF SwitchMeta, At
      <2>3. UNCHANGED <<settings, activeNs, stagingNs, retried, fault>>
            BY <1>5 DEF SwitchMeta, Return, GoTo
      <2>4. CASE meta' = stagingNs /\ Return("stored")
            <3>1. MarkersHold'
                  <4>1. HasMarker(stagingNs) /\ ns[stagingNs].value \in Settings
                        BY <2>2, WrittenType DEF StagingIsMarked, StagesMarked, HasMarker
                  <4> QED
                        BY <2>2, <2>3, <2>4, <4>1 DEF MarkersHold, HasMarker, Pair, Staging
            <3> QED
                  BY <2>1, <2>2, <2>3, <2>4, <3>1
                  DEF Return, LegacyKept, OneIsThere, StagingIsMarked, StagesMarked, HasMarker,
                      Steps, Pair
      <2>5. CASE fault = "metaFails" /\ UNCHANGED meta /\ GoTo("clearActive")
            BY <2>1, <2>2, <2>3, <2>5
            DEF GoTo, LegacyKept, MarkersHold, OneIsThere, StagingIsMarked, StagesMarked,
                KeysWritten, HasMarker, Steps
      <2> QED
            BY <1>5, <2>4, <2>5 DEF SwitchMeta
<1>6. CASE ClearActive \/ WriteKeysActive \/ WriteMarkerActive
      <2>1. before' \in Settings \union {NoValue} /\ tried' \in Settings
            BY <1>6, RememberType DEF ClearActive, WriteKeysActive, WriteMarkerActive, Return, GoTo
      <2>2. /\ step \in {"clearActive", "keysActive", "markerActive"} /\ fault = "metaFails"
            /\ activeNs \in Pair /\ stagingNs = Staging(activeNs) /\ StagingIsMarked
            /\ UNCHANGED <<settings, meta, activeNs, stagingNs, retried, fault>>
            BY <1>6 DEF ClearActive, WriteKeysActive, WriteMarkerActive, Return, GoTo, At
      <2>2a. KeysWritten = {settings} /\ StagesMarked = {"full"}
            BY <2>2 DEF KeysWritten, StagesMarked
      <2>2b. KeysWritten' = KeysWritten /\ StagesMarked' = StagesMarked
            BY <2>2 DEF KeysWritten, StagesMarked
      <2>3. CASE UNCHANGED ns /\ Return("failed")
            BY <2>1, <2>2, <2>3
            DEF Return, LegacyKept, MarkersHold, OneIsThere, HasMarker, Steps
      <2>4. ASSUME NEW c \in Contents, Put(activeNs, c),
                   c.stage \in {"empty", "partial", "full"},
                   c.stage # "empty" => c.value = settings,
                   \/ step' = "keysActive" /\ result' = result /\ c.stage = "empty"
                   \/ step' = "markerActive" /\ result' = result /\ c.stage = "partial"
                   \/ step' = "idle" /\ result' = "stored"
            PROVE  NInv'
            <3>1. /\ ns' \in [Namespaces -> Contents] /\ ns'[activeNs] = c
                  /\ \A m \in Namespaces \ {activeNs} : ns'[m] = ns[m]
                  BY <1>0, <2>2, <2>4, PutKeeps DEF Pair, Namespaces
            <3>2. StagingIsMarked'
                  BY <2>2, <2>2b, <3>1 DEF StagingIsMarked, Pair, Staging, Namespaces
            <3>3. LegacyKept'
                  BY <2>2, <2>4, <3>1 DEF LegacyKept, HasMarker, Namespaces, Pair
            <3>4. MarkersHold' /\ OneIsThere'
                  <4>1. /\ ns'[stagingNs].stage = "full" /\ ns'[stagingNs].value = settings
                        /\ ns'[activeNs] = c
                        BY <2>2, <2>2a, <2>2b, <3>1, <3>2 DEF StagingIsMarked
                  <4> QED
                        BY <2>2, <2>4, <3>1, <4>1
                        DEF MarkersHold, OneIsThere, HasMarker, Namespaces, Pair, Staging
            <3>5. /\ step' # "idle" => ~HasMarker(activeNs)'
                  /\ step' = "markerActive" => ns'[activeNs'].value \in KeysWritten'
                  BY <2>2, <2>2a, <2>2b, <2>4, <3>1 DEF HasMarker
            <3> QED
                  BY <2>1, <2>2, <2>4, <3>1, <3>2, <3>3, <3>4, <3>5 DEF Steps
      <2>5. CASE Put(activeNs, EmptyNs) /\ GoTo("keysActive")
            BY <2>4, <2>5, EmptyType DEF GoTo
      <2>6. CASE Put(activeNs, Kept("partial", settings)) /\ GoTo("markerActive")
            BY <2>4, <2>6, KeptType DEF GoTo, Stages
      <2>7. CASE Put(activeNs, Kept("full", settings)) /\ Return("stored")
            BY <2>4, <2>7, KeptType DEF Return, Stages
      <2>8. WriteMarkerActive => ns[activeNs].value = settings
            BY <2>2a DEF WriteMarkerActive, At
      <2> QED
            BY <1>6, <2>2a, <2>3, <2>5, <2>6, <2>7, <2>8
            DEF ClearActive, WriteKeysActive, WriteMarkerActive
<1> QED
      BY <1>1, <1>2, <1>3, <1>4, <1>5, <1>6 DEF Write

\* Every step keeps the invariant.
LEMMA InvStep == NInv /\ [Next]_vars => NInv'
<1> SUFFICES ASSUME NInv, [Next]_vars PROVE NInv'
    OBVIOUS
<1>1. CASE UNCHANGED vars
      BY <1>1
      DEF vars, call, history, NInv, TypeOK, LegacyKept, MarkersHold, OneIsThere, InCall, HasMarker,
          ByMeta, ByScore, Neither, StagingIsMarked, StagesMarked, KeysWritten
<1>2. CASE (\E v \in Value : Edit(v)) \/ Persist \/ ClearInactive
      <2>1. step = "idle"
            BY <1>2 DEF Edit, Persist, ClearInactive, At
      <2> QED
            BY <1>2, <2>1, IdleActionsKeep
<1> QED
      BY <1>1, <1>2, RebootKeeps, WriteKeeps DEF Next

\* Every variable keeps its type, for any settings and whatever the flash does.
THEOREM TypeCorrect == Spec => []TypeOK
<1>1. NInv => TypeOK
      BY DEF NInv
<1> QED
      BY <1>1, InvInit, InvStep, PTL DEF Spec
---------------------------------------------------------------------------
(* The refinement: what a step does to what a boot would read. *)

\* A write to the staging namespace before it has its marker changes nothing.
LEMMA StagingIsUnread ==
    ASSUME NInv, NInv', step \in {"clear", "tearing", "keys", "marker"},
           NEW c \in Contents, Put(stagingNs, c),
           c.stage \in {"short", "old", "full"} => HasMarker(stagingNs) /\ fault = "tornClear",
           UNCHANGED <<meta, stagingNs, activeNs, fault>>
    PROVE  Loaded' = Loaded
<1> USE DEF NInv, TypeOK, InCall
<1>1. Well /\ Well' /\ stagingNs = Staging(activeNs) /\ stagingNs \in Pair
      BY DEF Well, Pair
<1>2. /\ ns'[stagingNs] = c
      /\ \A m \in Namespaces \ {stagingNs} : ns'[m] = ns[m]
      BY <1>1, PutKeeps DEF Pair, Namespaces
<1>3. HasMarker(stagingNs)' => HasMarker(stagingNs) /\ fault = "tornClear"
      BY <1>2 DEF HasMarker
<1>3a. HasMarker(stagingNs) /\ fault = "tornClear" => ns[stagingNs].stage # "short"
      BY <1>1 DEF MarkersHold
<1>4. CASE ByMeta
      <2>1. HasMarker(meta)' /\ meta \in Pair /\ ns'[meta] = ns[meta] /\ HasMarker(meta)
            BY <1>1, <1>2, <1>4 DEF ByMeta, HasMarker, Pair, Staging, Namespaces
      <2> QED
            BY <1>1, <2>1, Reads, ReadsNext DEF ReadsByMeta, HasMarker
<1>5. CASE Neither
      <2>1. ns'["Legacy"] = ns["Legacy"] /\ ~HasMarker(stagingNs)'
            BY <1>1, <1>2, <1>3, <1>3a, <1>5 DEF Neither, Pair, Namespaces
      <2>2. ASSUME NEW n \in Pair, HasMarker(n)'
            PROVE  /\ HasMarker(n) /\ ns'[n].stage = "short" /\ ns["Legacy"].stage = "old"
            <3>1. n # stagingNs /\ ns'[n] = ns[n]
                  BY <1>2, <2>1, <2>2 DEF Pair, Namespaces
            <3> QED
                  BY <1>5, <2>2, <3>1 DEF Neither, HasMarker, LegacyKept
      <2>3. ~(meta' \in Pair /\ HasMarker(meta)')
            BY <1>5, <2>2 DEF Neither
      <2>4. Loaded' = IF HasMarker("Legacy")' THEN ns'["Legacy"].value ELSE NoValue
            BY <1>1, <2>1, <2>2, <2>3, ReadsNext DEF ReadsLegacy
      <2>5. Loaded = IF HasMarker("Legacy") THEN ns["Legacy"].value ELSE NoValue
            BY <1>1, <1>5, Reads DEF ReadsLegacy, Neither, LegacyKept, HasMarker
      <2> QED
            BY <2>1, <2>4, <2>5 DEF HasMarker
<1>6. CASE ByScore
      <2>1. /\ activeNs \in Pair /\ HasMarker(activeNs) /\ HasMarker(activeNs)'
            /\ ns'[activeNs] = ns[activeNs] /\ meta = Staging(activeNs)
            BY <1>1, <1>2, <1>6 DEF ByScore, HasMarker, Pair, Staging, Namespaces
      <2>2. ~HasMarker(Staging(activeNs))'
            BY <1>1, <1>3, <1>6 DEF ByScore
      <2>3. ~HasMarker("Legacy") /\ ~HasMarker("Legacy")'
            BY <1>1, <1>2, <1>6 DEF ByScore, OneIsThere, HasMarker, Pair, Namespaces
      <2>4. Loaded' = ns[activeNs].value
            BY <1>1, <2>1, <2>2, <2>3, ReadsNext DEF ReadsBest, HasMarker
      <2>5. Loaded = ns[activeNs].value
            BY <1>1, <1>6, <2>1, <2>3, Reads DEF ReadsBest, ByScore
      <2> QED
            BY <2>4, <2>5
<1> QED
      BY <1>4, <1>5, <1>6
\* Putting the meta entry right changes nothing.
LEMMA RepairIsUnread ==
    ASSUME NInv, NInv', ns' = ns, meta' \in Repaired
    PROVE  Loaded' = Loaded
<1>1. Well /\ Well'
      BY DEF Well, NInv, TypeOK
<1>2. Healthiest' = Healthiest
      BY DEF Healthiest, Score
<1>3. CASE MetaIsHealthy
      <2>1. meta' = meta
            BY <1>3 DEF Repaired, Active
      <2> QED
            BY <2>1 DEF Loaded, Active, MetaIsHealthy, Healthiest, Score, HasMarker
<1>4. CASE ~MetaIsHealthy
      <2>1. Active = Healthiest /\ (meta' = meta \/ meta' = Healthiest)
            BY <1>4 DEF Repaired, Active
      <2>2. CASE meta' = meta
            BY <2>2 DEF Loaded, Active, MetaIsHealthy, Healthiest, Score, HasMarker
      <2>3. CASE meta' = Healthiest
            <3>1. Active' = Healthiest
                  BY <1>2, <2>3 DEF Active, MetaIsHealthy
            <3> QED
                  BY <2>1, <3>1 DEF Loaded, HasMarker
      <2> QED
            BY <2>1, <2>2, <2>3
<1> QED
      BY <1>3, <1>4

\* Clearing what is not active changes nothing.
LEMMA InactiveIsUnread ==
    ASSUME NInv, NInv', ClearInactive
    PROVE  Loaded' = Loaded
<1>1. Well /\ Well'
      BY DEF Well, NInv, TypeOK
<1>2. PICK a \in Pair : a = Active
      BY <1>1, HealthiestHasMarker
      DEF ClearInactive, Active, MetaIsHealthy, Well, NoMeta, Namespaces, Pair
<1>3. PICK legacyToo \in BOOLEAN, m \in Repaired :
          /\ meta' = m
          /\ ns' = [n \in Namespaces |->
                       IF n = Staging(Active) \/ (legacyToo /\ n = "Legacy") THEN EmptyNs
                       ELSE ns[n]]
      BY DEF ClearInactive
<1>4. /\ ns'[a] = ns[a] /\ ns'[Staging(a)].stage = "empty"
      /\ ns'["Legacy"].stage = "empty" \/ ns'["Legacy"] = ns["Legacy"]
      BY <1>2, <1>3, EmptyType DEF Pair, Staging, Namespaces
<1>5. ns["Legacy"].stage \in {"empty", "old"}
      BY DEF NInv, LegacyKept
<1>6. CASE HasMarker(a)
      <2>1. HasMarker(a)' /\ ~HasMarker(Staging(a))'
            BY <1>4, <1>6 DEF HasMarker, Staging
      <2>2. meta' \in {a, meta}
            BY <1>2, <1>3 DEF Repaired
      <2>3. Loaded = ns[a].value
            BY <1>2, <1>6 DEF Loaded
      <2>4. CASE meta' = a
            BY <1>1, <1>4, <2>1, <2>3, <2>4, ReadsNext DEF ReadsByMeta, HasMarker
      <2>5. CASE meta' # a
            <3>1. a = Healthiest
                  BY <1>2, <2>2, <2>5 DEF Active
            <3>2. HasMarker("Legacy") => ns[a].stage = "full"
                  <4>1. \A n \in Namespaces :
                            /\ Score(n) \in 0..4
                            /\ HasMarker(n) <=> Score(n) \in {2, 3, 4}
                            /\ ns[n].stage = "full" <=> Score(n) = 4
                            /\ ns[n].stage = "old" <=> Score(n) = 3
                            /\ ns[n].stage = "short" <=> Score(n) = 2
                        BY <1>1 DEF Well, Score, HasMarker, Contents, Stages
                  <4> QED
                        BY <1>5, <3>1, <4>1 DEF Healthiest, Pair, Namespaces
            <3>3. HasMarker("Legacy")' => ns'[a].stage = "full" /\ ns'["Legacy"].stage = "old"
                  BY <1>4, <1>5, <3>2 DEF HasMarker
            <3>4. Loaded' = ns'[a].value
                  BY <1>1, <2>1, <3>3, ReadsNext DEF ReadsBest
            <3> QED
                  BY <1>4, <2>3, <3>4
      <2> QED
            BY <2>4, <2>5
<1>7. CASE ~HasMarker(a)
      <2>1. a = Healthiest
            BY <1>2, <1>7 DEF Active, MetaIsHealthy
      <2>2. \A n \in Namespaces : ~HasMarker(n)
            BY <1>1, <1>7, <2>1, HealthiestHasMarker
      <2>3. \A n \in Namespaces : ~HasMarker(n)'
            BY <1>4, <2>2 DEF HasMarker, Namespaces, Pair, Staging
      <2> QED
            BY <1>1, <2>2, <2>3, Reads, ReadsNext DEF ReadsLegacy, Namespaces, Pair
<1> QED
      BY <1>6, <1>7

\* A boot maps to the initial state of a durable value.
LEMMA RefineInit == Init => Durable!Init
<1> SUFFICES ASSUME Init PROVE Durable!Init
    OBVIOUS
<1>1. Loaded \in Settings \union {NoValue}
      BY InvInit, LoadedIsWhole
<1> QED
      BY <1>1
      DEF Init, Durable!Init, Durable!Values, Settings, Remains, Incomplete, Durable!Remains,
          Durable!Incomplete

\* The ways a step ends up, in the words of the store.
LEMMA Stutters ==
    ASSUME Loaded' = Loaded, step # "idle", step' # "idle", fault' = fault,
           settings' = settings, result' = result
    PROVE  [Durable!Next]_(Durable!vars)
BY DEF Durable!vars

\* A call that ends without storing maps to Fail,
LEMMA Fails ==
    ASSUME Loaded' = Loaded, step # "idle", step' = "idle", result' = "failed", fault' = fault
    PROVE  Durable!Fail
BY DEF Durable!Fail, Durable!End

\* one that ends with what it wrote stored to Succeed,
LEMMA Succeeds ==
    ASSUME Loaded' \in KeysWritten, step # "idle", step' = "idle", result' = "stored",
           fault' = fault
    PROVE  Durable!Succeed
<1>1. Loaded' \in Durable!Keeps(settings)
      BY DEF KeysWritten, Incomplete, Durable!Keeps, Durable!Incomplete
<1> QED
      BY <1>1 DEF Durable!Succeed, Durable!End

\* and the write after which a boot reads them to Commit.
LEMMA Commits ==
    ASSUME Loaded' \in KeysWritten, step # "idle", step' # "idle", fault' = fault,
           settings' = settings, result' = result
    PROVE  Durable!Commit
<1>1. Loaded' \in Durable!Keeps(settings)
      BY DEF KeysWritten, Incomplete, Durable!Keeps, Durable!Incomplete
<1> QED
      BY <1>1 DEF Durable!Commit

\* Neither does giving a write up, or clearing for a second attempt at it.
LEMMA RetryIsUnread ==
    ASSUME NInv, NInv', step \in {"clear", "marker"}, RetryOnce
    PROVE  Loaded' = Loaded
<1>1. CASE ns' = ns /\ meta' = meta
      BY <1>1 DEF Loaded, Active, MetaIsHealthy, Healthiest, Score, HasMarker
<1>2. CASE ~retried /\ activeNs # "Legacy"
      <2>1. Put(stagingNs, EmptyNs) /\ UNCHANGED <<meta, activeNs, stagingNs, fault>>
            BY <1>2 DEF RetryOnce, Put, NInv, InCall
      <2> QED
            BY <2>1, EmptyType, StagingIsUnread
<1> QED
      BY <1>1, <1>2 DEF RetryOnce

\* The retry maps to Fail or to no step,
LEMMA RetryRefines ==
    ASSUME NInv, NInv', step \in {"clear", "marker"}, RetryOnce
    PROVE  [Durable!Next]_(Durable!vars)
<1>1. Loaded' = Loaded
      BY RetryIsUnread
<1>2. CASE retried
      BY <1>1, <1>2, Fails DEF RetryOnce, Return, Durable!Next
<1>3. CASE ~retried
      <2>1. step' = "clear" /\ UNCHANGED <<settings, result, fault>>
            BY <1>3 DEF RetryOnce
      <2> QED
            BY <1>1, <2>1, Stutters
<1> QED
      BY <1>2, <1>3

\* a write to the staging namespace to no step,
LEMMA StagingRefines ==
    ASSUME NInv, NInv', step \in {"clear", "tearing", "keys"}, NEW c \in Contents,
           Put(stagingNs, c),
           c.stage \in {"short", "old", "full"} => HasMarker(stagingNs) /\ fault = "tornClear",
           NEW s \in {"tearing", "keys", "marker"}, GoTo(s), UNCHANGED meta
    PROVE  [Durable!Next]_(Durable!vars)
<1>1. step' = s /\ UNCHANGED <<settings, activeNs, stagingNs, result, fault>>
      BY DEF GoTo
<1>2. Loaded' = Loaded
      BY <1>1, StagingIsUnread
<1> QED
      BY <1>1, <1>2, Stutters

\* its marker to Commit where a boot goes by it,
LEMMA MarkerRefines ==
    ASSUME NInv, NInv', step = "marker", NEW stage \in StagesMarked,
           Put(stagingNs, Kept(stage, ns[stagingNs].value)), UNCHANGED meta, GoTo("meta")
    PROVE  [Durable!Next]_(Durable!vars)
<1> USE DEF NInv, TypeOK, InCall
<1>1. /\ Well /\ Well' /\ stagingNs = Staging(activeNs) /\ stagingNs \in Pair
      /\ step' = "meta" /\ UNCHANGED <<settings, activeNs, stagingNs, result, fault, meta>>
      BY DEF Well, Pair, GoTo
<1>2. /\ HasMarker(stagingNs)' /\ ns'[stagingNs].stage \in {"short", "full"}
      /\ ns'[stagingNs].value \in KeysWritten
      /\ \A m \in Namespaces \ {stagingNs} : ns'[m] = ns[m]
      <2> DEFINE kept == Kept(stage, ns[stagingNs].value)
      <2>1. stage \in {"short", "full"} /\ ns[stagingNs].value \in KeysWritten
            BY DEF StagesMarked
      <2>2. kept \in Contents /\ kept.stage = stage /\ kept.value = ns[stagingNs].value
            BY <2>1, WrittenType, KeptType DEF Stages
      <2> HIDE DEF kept
      <2>3. Put(stagingNs, kept) /\ stagingNs \in Namespaces
            BY <1>1 DEF kept, Pair, Namespaces
      <2>4. ns'[stagingNs] = kept /\ \A m \in Namespaces \ {stagingNs} : ns'[m] = ns[m]
            BY <1>1, <2>2, <2>3, PutKeeps
      <2> QED
            BY <1>1, <2>1, <2>2, <2>4 DEF HasMarker
<1>3. CASE ByMeta
      <2>1. meta \in Pair /\ ns'[meta] = ns[meta] /\ HasMarker(meta) /\ HasMarker(meta)'
            BY <1>1, <1>2, <1>3 DEF ByMeta, HasMarker, Pair, Staging, Namespaces
      <2>2. Loaded' = Loaded
            BY <1>1, <2>1, Reads, ReadsNext DEF ReadsByMeta, HasMarker
      <2> QED
            BY <1>1, <2>2, Stutters
<1>4. CASE ByScore
      <2>1. meta \in Pair /\ meta = stagingNs /\ HasMarker(meta)'
            BY <1>1, <1>2, <1>4 DEF ByScore, HasMarker, Pair
      <2>2. Loaded' \in KeysWritten
            BY <1>1, <1>2, <2>1, ReadsNext DEF ReadsByMeta, HasMarker
      <2> QED
            BY <1>1, <2>2, Commits DEF Durable!Next
<1>5. CASE Neither
      <2>0. PICK other \in Pair : other = Staging(stagingNs)
            BY <1>1 DEF Pair, Staging
      <2>1. /\ other # stagingNs /\ ns'[other] = ns[other] /\ stagingNs' = stagingNs
            /\ Pair = {stagingNs, other} /\ ns'["Legacy"] = ns["Legacy"]
            BY <1>1, <1>2, <2>0 DEF Pair, Staging, Namespaces
      <2>2. /\ ns["Legacy"].stage \in {"empty", "old"}
            /\ HasMarker(other) => ns[other].stage = "short" /\ HasMarker("Legacy")
            /\ meta = other => ~HasMarker(other)
            BY <1>5, <2>1 DEF Neither, LegacyKept
      <2>3. /\ ns'["Legacy"].stage \in {"empty", "old"}
            /\ HasMarker(other)' => ns'[other].stage = "short" /\ ns'["Legacy"].stage = "old"
            /\ meta' = other => ~HasMarker(other)'
            BY <1>1, <2>1, <2>2 DEF HasMarker
      <2>4. CASE meta = stagingNs
            <3>1. Loaded' = ns'[stagingNs].value
                  BY <1>1, <1>2, <2>4, ReadsNext DEF ReadsByMeta, HasMarker
            <3> QED
                  BY <1>1, <1>2, <3>1, Commits DEF Durable!Next
      <2>5. CASE ns'[stagingNs].stage = "full" \/ ~HasMarker("Legacy")'
            <3>1. HasMarker("Legacy")' => ns'["Legacy"].stage = "old"
                  BY <2>3 DEF HasMarker
            <3>2. HasMarker(other)' => ns'[stagingNs].stage = "full"
                  BY <2>3, <2>5 DEF HasMarker
            <3>3. Loaded' = ns'[stagingNs].value
                  BY <1>1, <1>2, <2>1, <2>3, <2>5, <3>1, <3>2, ReadsNext, <2>0 DEF ReadsBest
            <3> QED
                  BY <1>1, <1>2, <3>3, Commits DEF Durable!Next
      <2>6. CASE meta # stagingNs /\ ns'[stagingNs].stage = "short" /\ HasMarker("Legacy")'
            <3>1. ~(meta' \in Pair /\ HasMarker(meta)')
                  BY <1>1, <2>1, <2>3, <2>6
            <3>2. ns'["Legacy"].stage = "old"
                  BY <2>3, <2>6 DEF HasMarker
            <3>3. \A n \in Pair : HasMarker(n)' => /\ ns'[n].stage = "short"
                                                   /\ ns'["Legacy"].stage = "old"
                  BY <2>1, <2>3, <2>6, <3>2
            <3>4. Loaded' = ns'["Legacy"].value
                  BY <1>1, <2>6, <3>1, <3>3, ReadsNext DEF ReadsLegacy
            <3>5. HasMarker("Legacy")
                  BY <2>1, <2>6 DEF HasMarker
            <3>6. \A n \in Pair : HasMarker(n) => /\ ns[n].stage = "short"
                                                  /\ ns["Legacy"].stage = "old"
                  BY <1>5, <2>2 DEF Neither, HasMarker
            <3>7. Loaded = ns["Legacy"].value
                  BY <1>1, <1>5, <3>5, <3>6, Reads DEF ReadsLegacy, Neither
            <3>8. Loaded' = Loaded
                  BY <2>1, <3>4, <3>7
            <3> QED
                  BY <1>1, <3>8, Stutters
      <2> QED
            BY <1>2, <2>4, <2>5, <2>6
<1> QED
      BY <1>3, <1>4, <1>5

\* and every write of a call to a step of a durable value or none.
LEMMA WriteRefines ==
    ASSUME NInv, NInv', Write
    PROVE  [Durable!Next]_(Durable!vars)
<1> USE DEF NInv, TypeOK, InCall
<1>0. Well /\ Well' /\ stagingNs \in Pair /\ stagingNs \in Namespaces
      BY DEF Well, Namespaces, Pair
<1>1. CASE ClearStaging
      <2>1. step = "clear"
            BY <1>1 DEF ClearStaging, At
      <2>2. CASE Put(stagingNs, EmptyNs) /\ UNCHANGED meta /\ GoTo("keys")
            BY <2>1, <2>2, EmptyType, StagingRefines
      <2>3. CASE RetryOnce
            BY <2>1, <2>3, RetryRefines
      <2>4. CASE /\ fault = "tornClear"
                 /\ Put(stagingNs, Kept(ns[stagingNs].stage, Damaged))
                 /\ UNCHANGED meta /\ GoTo("tearing")
            <3>1. ns[stagingNs].stage \in Stages
                  BY <1>0 DEF Contents
            <3>2. /\ Kept(ns[stagingNs].stage, Damaged) \in Contents
                  /\ Kept(ns[stagingNs].stage, Damaged).stage = ns[stagingNs].stage
                  BY <3>1, KeptType
            <3> QED
                  BY <2>1, <2>4, <3>2, StagingRefines DEF HasMarker
      <2> QED
            BY <1>1, <2>2, <2>3, <2>4 DEF ClearStaging
<1>2. CASE ClearedStaging
      BY <1>2, EmptyType, StagingRefines DEF ClearedStaging, At
<1>3. CASE WriteKeys
      <2>1. PICK w \in KeysWritten : Put(stagingNs, Kept("partial", w))
            BY <1>3 DEF WriteKeys
      <2>2. Kept("partial", w) \in Contents /\ Kept("partial", w).stage = "partial"
            BY WrittenType, KeptType DEF Stages
      <2> QED
            BY <1>3, <2>1, <2>2, StagingRefines DEF WriteKeys, At
<1>4. CASE WriteMarker
      BY <1>4, RetryRefines, MarkerRefines DEF WriteMarker, At
<1>5. CASE SwitchMeta
      <2>1. CASE meta' = stagingNs /\ UNCHANGED ns /\ Return("stored")
            <3>1. HasMarker(meta') /\ StagingIsMarked
                  BY <1>5, <2>1 DEF SwitchMeta, At, StagingIsMarked, StagesMarked, HasMarker
            <3>2. Loaded' = ns'[meta'].value
                  BY <1>0, <2>1, <3>1, ReadsNext DEF ReadsByMeta, HasMarker
            <3>3. Loaded' \in KeysWritten
                  BY <2>1, <3>1, <3>2 DEF StagingIsMarked
            <3> QED
                  BY <1>5, <2>1, <3>3, Succeeds DEF SwitchMeta, At, Return, Durable!Next
      <2>2. CASE UNCHANGED <<ns, meta>> /\ GoTo("clearActive")
            <3>1. Loaded' = Loaded
                  BY <2>2 DEF Loaded, Active, MetaIsHealthy, Healthiest, Score, HasMarker
            <3> QED
                  BY <1>5, <2>2, <3>1, Stutters DEF SwitchMeta, At, GoTo
      <2> QED
            BY <1>5, <2>1, <2>2 DEF SwitchMeta
<1>6. CASE ClearActive \/ WriteKeysActive \/ WriteMarkerActive
      <2>1. /\ step \in {"clearActive", "keysActive", "markerActive"} /\ fault = "metaFails"
            /\ activeNs \in Pair /\ stagingNs = Staging(activeNs) /\ StagingIsMarked
            /\ UNCHANGED <<settings, meta, activeNs, stagingNs, fault>>
            BY <1>6 DEF ClearActive, WriteKeysActive, WriteMarkerActive, Return, GoTo, At
      <2>1a. KeysWritten = {settings} /\ StagesMarked = {"full"}
            BY <2>1 DEF KeysWritten, StagesMarked
      <2>1b. WriteMarkerActive => ns[activeNs].value = settings
            BY <2>1a DEF WriteMarkerActive, At
      <2>2. CASE UNCHANGED ns /\ Return("failed")
            <3>1. Loaded' = Loaded
                  BY <2>1, <2>2 DEF Loaded, Active, MetaIsHealthy, Healthiest, Score, HasMarker
            <3> QED
                  BY <2>1, <2>2, <3>1, Fails DEF Return, Durable!Next
      <2>3. ASSUME NEW c \in Contents, Put(activeNs, c),
                   c.stage \in {"empty", "partial"} \/ c = Kept("full", settings)
            PROVE  Loaded' = settings
            <3>1. /\ ns'[activeNs] = c
                  /\ \A m \in Namespaces \ {activeNs} : ns'[m] = ns[m]
                  BY <1>0, <2>1, <2>3, PutKeeps DEF Pair, Namespaces
            <3>2. /\ HasMarker(stagingNs)' /\ ns'[stagingNs].value = settings
                  /\ ns'[stagingNs].stage = "full" /\ stagingNs' = stagingNs
                  BY <2>1, <2>1a, <3>1 DEF StagingIsMarked, HasMarker, Pair, Staging, Namespaces
            <3>3. meta \in {activeNs, stagingNs} /\ ns'["Legacy"].stage = "empty"
                  BY <2>1, <3>1 DEF OneIsThere, Pair, Staging, Namespaces
            <3>4. CASE meta = stagingNs
                  BY <1>0, <2>1, <3>2, <3>4, ReadsNext DEF ReadsByMeta, HasMarker
            <3>5. CASE meta = activeNs /\ c = Kept("full", settings)
                  <4>1. HasMarker(meta)' /\ ns'[meta].value = settings
                        BY <2>1, <3>1, <3>5, KeptType DEF HasMarker, Stages
                  <4> QED
                        BY <1>0, <2>1, <3>5, <4>1, ReadsNext DEF ReadsByMeta, HasMarker
            <3>6. CASE c.stage \in {"empty", "partial"}
                  <4>1. ~HasMarker(Staging(stagingNs))' /\ ~HasMarker("Legacy")'
                        BY <2>1, <3>1, <3>3, <3>6 DEF HasMarker, Pair, Staging
                  <4> QED
                        BY <1>0, <3>2, <4>1, ReadsNext DEF ReadsBest, HasMarker
            <3> QED
                  BY <2>3, <3>3, <3>4, <3>5, <3>6
      <2>4. CASE Put(activeNs, EmptyNs) /\ GoTo("keysActive")
            <3>1. Loaded' \in KeysWritten
                  BY <2>1a, <2>3, <2>4, EmptyType
            <3> QED
                  BY <2>1, <2>4, <3>1, Commits DEF GoTo, Durable!Next
      <2>5. CASE Put(activeNs, Kept("partial", settings)) /\ GoTo("markerActive")
            <3>1. Loaded' \in KeysWritten
                  BY <2>1a, <2>3, <2>5, KeptType DEF Stages
            <3> QED
                  BY <2>1, <2>5, <3>1, Commits DEF GoTo, Durable!Next
      <2>6. CASE Put(activeNs, Kept("full", settings)) /\ Return("stored")
            <3>1. Loaded' \in KeysWritten
                  BY <2>1a, <2>3, <2>6, KeptType DEF Stages
            <3> QED
                  BY <2>1, <2>6, <3>1, Succeeds DEF Return, Durable!Next
      <2> QED
            BY <1>6, <2>1a, <2>1b, <2>2, <2>4, <2>5, <2>6
            DEF ClearActive, WriteKeysActive, WriteMarkerActive
<1> QED
      BY <1>1, <1>2, <1>3, <1>4, <1>5, <1>6 DEF Write

\* Every step maps to a step of a durable value or none.
LEMMA RefineStep ==
    ASSUME NInv, NInv', [Next]_vars
    PROVE  [Durable!Next]_(Durable!vars)
<1>1. ASSUME NEW v \in Value, Edit(v)
      PROVE  UNCHANGED Durable!vars
      BY <1>1
      DEF Edit, At, call, Durable!vars, Loaded, Active, MetaIsHealthy, Healthiest, Score, HasMarker
<1>2. CASE Persist
      <2>1. Loaded' = Loaded
            BY <1>2, RepairIsUnread DEF Persist
      <2>2. settings \in Durable!Values /\ Durable!Call(settings)
            BY <1>2, <2>1 
            DEF Persist, At, Durable!Call, Durable!Values, NInv, TypeOK, Settings, Remains,
                Incomplete, Durable!Remains, Durable!Incomplete
      <2> QED
            BY <2>2 DEF Durable!Next
<1>3. CASE ClearInactive
      BY <1>3, InactiveIsUnread DEF ClearInactive, At, call, Durable!vars
<1>4. CASE Reboot
      <2>1. Loaded' = Loaded
            BY <1>4, RepairIsUnread DEF Reboot
      <2>2. CASE step = "idle"
            BY <1>4, <2>1, <2>2 DEF Reboot, At, Durable!vars
      <2>3. CASE step # "idle"
            BY <1>4, <2>1, <2>3, Fails DEF Reboot, At, Durable!Next
      <2> QED
            BY <2>2, <2>3
<1>5. CASE UNCHANGED vars
      BY <1>5
      DEF vars, call, Durable!vars, Loaded, Active, MetaIsHealthy, Healthiest, Score, HasMarker
<1> QED
      BY <1>1, <1>2, <1>3, <1>4, <1>5, WriteRefines DEF Next

\* persistSettingsAtomically(), getActiveNamespace() and load() keep one value
\* through any loss of power, where the flash may refuse the meta entry, be
\* interrupted while it clears a namespace, or refuse the puts of some keys: then
\* the value is what remains of the new one, which the save does not notice.
THEOREM SettingsAreDurable == Spec => StoresDurably
<1>1. Init => NInv
      BY InvInit
<1>2. NInv /\ [Next]_vars => NInv'
      BY InvStep
<1>3. Init => Durable!Init
      BY RefineInit
<1>4. NInv /\ NInv' /\ [Next]_vars => [Durable!Next]_(Durable!vars)
      BY RefineStep
<1> QED
      BY <1>1, <1>2, <1>3, <1>4, PTL DEF Spec, StoresDurably, Durable!Spec

---------------------------------------------------------------------------
(* The loss of the meta entry *)

\* Every copy with a marker is what a boot reads, what it read before, or what
\* was written last; and a save that has its new copy has no third value.
CopiesKnown ==
    fault = "none" =>
        /\ \A n \in Pair : HasMarker(n) => ns[n].value \in {Loaded, before, tried}
        /\ step \in {"keys", "marker", "meta"} => tried = settings
        /\ step = "meta" =>
              \A n \in Pair : HasMarker(n) => ns[n].value \in {Loaded, settings}

\* What is known of the copies holds at boot.
LEMMA CopiesInit == Init => CopiesKnown
<1> SUFFICES ASSUME Init PROVE CopiesKnown
    OBVIOUS
<1>1. Well
      BY InvInit DEF NInv, TypeOK, Well
<1>2. CASE Fresh
      <2>1. ~HasMarker("A") /\ ~HasMarker("B")
            BY <1>2, EmptyType DEF Fresh, Namespaces, HasMarker
      <2> QED
            BY <2>1 DEF CopiesKnown, Init, Pair
<1>3. CASE Saved
      <2>1. meta \in Pair /\ HasMarker(meta)
            /\ \A n \in Pair : HasMarker(n) => n = meta
            BY <1>3, EmptyType DEF Saved, Pair, Namespaces, HasMarker, Kept
      <2>2. Loaded = ns[meta].value
            BY <1>1, <2>1, Reads DEF ReadsByMeta
      <2> QED
            BY <2>1, <2>2 DEF CopiesKnown, Init
<1> QED
      BY <1>2, <1>3 DEF Init

\* A step that only takes copies away, or none, and begins no write.
LEMMA FewerCopies ==
    ASSUME CopiesKnown, fault' = fault, Loaded' = Loaded, Remember, step' \in {"idle", "clear"},
           \A n \in Pair : HasMarker(n)' => HasMarker(n) /\ ns'[n] = ns[n]
    PROVE  CopiesKnown'
BY DEF CopiesKnown, Remember

\* A step that writes the staging namespace, which has no marker after it: the
\* other copy is what a boot reads.
LEMMA StagingCopies ==
    ASSUME NInv, NInv', step \in {"clear", "keys"}, NEW c \in Contents, Put(stagingNs, c),
           c.stage \in {"empty", "partial"}, NEW s \in {"keys", "marker"}, GoTo(s),
           UNCHANGED meta, s = "keys" \/ tried = settings, fault = "none"
    PROVE  CopiesKnown'
<1> USE DEF NInv, TypeOK, InCall
<1>1. /\ Well /\ Well' /\ stagingNs \in Pair /\ stagingNs = Staging(activeNs) /\ step' = s
      /\ UNCHANGED <<settings, activeNs, stagingNs, fault>> /\ Remember
      BY DEF Well, GoTo, Pair
<1>2. Loaded' = Loaded
      BY <1>1, StagingIsUnread
<1>3. ns'[stagingNs] = c /\ \A m \in Namespaces \ {stagingNs} : ns'[m] = ns[m]
      BY <1>1, PutKeeps DEF Pair, Namespaces
<1>4. ASSUME NEW n \in Pair, HasMarker(n)'
      PROVE  ns'[n].value = Loaded
      <2>1. n # stagingNs /\ HasMarker(n) /\ ns'[n] = ns[n]
            BY <1>3, <1>4 DEF HasMarker, Pair, Namespaces
      <2>2. ByMeta /\ n = activeNs
            BY <1>1, <2>1 DEF ByMeta, ByScore, Neither, MarkersHold, Pair, Staging
      <2> QED
            BY <1>1, <2>1, <2>2, Reads DEF ReadsByMeta, ByMeta
<1>5. tried' = settings
      BY <1>1 DEF Remember
<1> QED
      BY <1>1, <1>2, <1>4, <1>5 DEF CopiesKnown

\* The new copy has its marker: the other is what a boot read so far.
LEMMA MarkerCopies ==
    ASSUME NInv, NInv', CopiesKnown, step = "marker", NEW stage \in StagesMarked,
           Put(stagingNs, Kept(stage, ns[stagingNs].value)),
           UNCHANGED meta, GoTo("meta"), fault = "none"
    PROVE  CopiesKnown'
<1> USE DEF NInv, TypeOK, InCall
<1>1. /\ Well /\ Well' /\ stagingNs \in Pair /\ stagingNs = Staging(activeNs) /\ step' = "meta"
      /\ UNCHANGED <<settings, activeNs, stagingNs, fault>> /\ Remember
      BY DEF Well, GoTo, Pair
<1>2. /\ ns'[stagingNs].value = settings
      /\ \A m \in Namespaces \ {stagingNs} : ns'[m] = ns[m]
      <2> DEFINE kept == Kept(stage, ns[stagingNs].value)
      <2>1. ns[stagingNs].value = settings
            BY DEF KeysWritten
      <2>2. kept \in Contents /\ kept.value = settings
            BY <2>1, WrittenType, KeptType
      <2> HIDE DEF kept
      <2>3. Put(stagingNs, kept) /\ stagingNs \in Namespaces
            BY <1>1 DEF kept, Pair, Namespaces
      <2> QED
            BY <1>1, <2>2, <2>3, PutKeeps
<1>3. tried' = settings
      BY <1>1 DEF Remember, CopiesKnown
<1>4. ASSUME NEW n \in Pair, HasMarker(n)'
      PROVE  ns'[n].value \in {Loaded', settings}
      <2>1. CASE n = stagingNs
            BY <1>2, <2>1
      <2>2. CASE n # stagingNs
            <3>1. HasMarker(n) /\ ns'[n] = ns[n]
                  BY <1>2, <1>4, <2>2 DEF HasMarker, Pair, Namespaces
            <3>2. ByMeta /\ n = activeNs
                  BY <1>1, <2>2, <3>1 DEF ByMeta, ByScore, Neither, MarkersHold, Pair, Staging
            <3> QED
                  BY <1>1, <1>4, <3>1, <3>2, ReadsNext DEF ReadsByMeta, ByMeta
      <2> QED
            BY <2>1, <2>2
<1> QED
      BY <1>1, <1>3, <1>4 DEF CopiesKnown

\* The meta entry moves: what a boot reads changes, and what it read is known.
LEMMA SwitchCopies ==
    ASSUME NInv, NInv', CopiesKnown, SwitchMeta, fault = "none"
    PROVE  CopiesKnown'
<1> USE DEF NInv, TypeOK, InCall
<1>1. /\ step = "meta" /\ meta' = stagingNs /\ stagingNs \in Pair /\ ns' = ns /\ step' = "idle"
      /\ fault' = fault /\ Remember /\ StagingIsMarked /\ Well /\ Well'
      BY DEF SwitchMeta, Return, At, Pair, Well
<1>2. HasMarker(meta') /\ ns'[meta'].value = settings
      BY <1>1 DEF StagingIsMarked, StagesMarked, KeysWritten, HasMarker
<1>3. Loaded' = settings
      BY <1>1, <1>2, ReadsNext DEF ReadsByMeta, HasMarker
<1>4. Loaded' # Loaded => before' = Loaded
      BY <1>1 DEF Remember
<1> QED
      BY <1>1, <1>3, <1>4 DEF CopiesKnown, HasMarker

\* Every step keeps what is known of the copies.
LEMMA CopiesStep == NInv /\ NInv' /\ CopiesKnown /\ [Next]_vars => CopiesKnown'
<1> SUFFICES ASSUME NInv, NInv', CopiesKnown, [Next]_vars PROVE CopiesKnown'
    OBVIOUS
<1>1. fault' = fault
      BY DEF Next, Edit, Persist, Write, ClearStaging, ClearedStaging, WriteKeys, WriteMarker,
             SwitchMeta, ClearActive, WriteKeysActive, WriteMarkerActive, ClearInactive, Reboot,
             GoTo, Return, RetryOnce, vars
<1>2. CASE fault # "none"
      BY <1>1, <1>2 DEF CopiesKnown
<1> SUFFICES ASSUME fault = "none" PROVE CopiesKnown'
    BY <1>2
<1>3. ASSUME NEW v \in Value, Edit(v) PROVE CopiesKnown'
      <2>1. Loaded' = Loaded
            BY <1>3 DEF Edit, Loaded, Active, MetaIsHealthy, Healthiest, Score, HasMarker
      <2> QED
            BY <1>1, <1>3, <2>1, FewerCopies DEF Edit, At, call, HasMarker
<1>4. CASE Persist \/ Reboot
      <2>1. ns' = ns /\ step' \in {"idle", "clear"} /\ Remember /\ meta' \in Repaired
            BY <1>4 DEF Persist, Reboot
      <2>2. Loaded' = Loaded
            BY <2>1, RepairIsUnread
      <2> QED
            BY <1>1, <2>1, <2>2, FewerCopies DEF HasMarker
<1>5. CASE ClearInactive
      <2>1. step' = "idle" /\ Remember /\ Loaded' = Loaded
            BY <1>5, InactiveIsUnread DEF ClearInactive, At, call
      <2>2. \A n \in Pair : HasMarker(n)' => HasMarker(n) /\ ns'[n] = ns[n]
            BY <1>5, EmptyType DEF ClearInactive, HasMarker, Pair, Namespaces
      <2> QED
            BY <1>1, <2>1, <2>2, FewerCopies
<1>6. CASE Write
      <2>1. step \in {"clear", "keys", "marker", "meta"}
            BY <1>6
            DEF Write, ClearStaging, ClearedStaging, WriteKeys, WriteMarker, SwitchMeta,
                ClearActive, WriteKeysActive, WriteMarkerActive, At, NInv, InCall
      <2>2. CASE RetryOnce /\ step \in {"clear", "marker"}
            <3>1. step' \in {"idle", "clear"} /\ Remember
                  BY <2>2 DEF RetryOnce, Return
            <3>2. \A n \in Pair : HasMarker(n)' => HasMarker(n) /\ ns'[n] = ns[n]
                  BY <2>2, EmptyType DEF RetryOnce, HasMarker, Pair, Namespaces, NInv, TypeOK
            <3> QED
                  BY <1>1, <2>2, <3>1, <3>2, RetryIsUnread, FewerCopies
      <2>3. CASE step = "clear" /\ Put(stagingNs, EmptyNs) /\ UNCHANGED meta /\ GoTo("keys")
            BY <2>3, EmptyType, StagingCopies
      <2>4. CASE WriteKeys
            <3>1. step = "keys" /\ tried = settings
                  BY <2>4 DEF WriteKeys, At, CopiesKnown
            <3>2. PICK w \in KeysWritten : Put(stagingNs, Kept("partial", w))
                  BY <2>4 DEF WriteKeys
            <3>3. Kept("partial", w) \in Contents /\ Kept("partial", w).stage = "partial"
                  BY WrittenType, KeptType DEF Stages, NInv, TypeOK
            <3> QED
                  BY <2>4, <3>1, <3>2, <3>3, StagingCopies DEF WriteKeys
      <2>5. CASE /\ step = "marker" /\ UNCHANGED meta /\ GoTo("meta")
                 /\ \E stage \in StagesMarked : Put(stagingNs, Kept(stage, ns[stagingNs].value))
            BY <2>5, MarkerCopies
      <2>6. CASE SwitchMeta
            BY <2>6, SwitchCopies
      <2> QED
            BY <1>6, <2>1, <2>2, <2>3, <2>4, <2>5, <2>6
            DEF Write, ClearStaging, ClearedStaging, WriteMarker, ClearActive, WriteKeysActive,
                WriteMarkerActive, At
<1>7. CASE UNCHANGED vars
      BY <1>7
      DEF vars, call, history, CopiesKnown, Loaded, Active, MetaIsHealthy, Healthiest, Score,
          HasMarker
<1> QED
      BY <1>3, <1>4, <1>5, <1>6, <1>7 DEF Next

\* Without the meta entry the healthiest namespace is read: one of the copies,
\* or the legacy one that a boot reads anyway.
LEMMA CopiesSurvive == NInv /\ CopiesKnown => SurvivesMetaLoss
<1> SUFFICES ASSUME NInv, CopiesKnown, fault = "none"
             PROVE  WithoutMeta \in {Loaded, before, tried}
    BY DEF SurvivesMetaLoss
<1>1. Well
      BY DEF NInv, TypeOK, Well
<1>2. CASE \E n \in Pair : HasMarker(n)
      <2>1. HasMarker(Healthiest) /\ Healthiest \in Namespaces
            BY <1>1, <1>2, HealthiestHasMarker DEF Pair, Namespaces
      <2>2. Healthiest \in Pair
            <3>1. \A n \in Namespaces :
                      /\ Score(n) \in 0..4
                      /\ HasMarker(n) <=> Score(n) \in {2, 3, 4}
                      /\ ns[n].stage = "full" <=> Score(n) = 4
                      /\ ns[n].stage = "old" <=> Score(n) = 3
                  BY <1>1 DEF Well, Score, HasMarker, Contents, Stages
            <3>2. PICK n \in Pair : HasMarker(n)
                  BY <1>2
            <3>3. HasMarker("Legacy") => Score("Legacy") = 3 /\ Score(n) = 4
                  BY <3>1, <3>2 DEF NInv, LegacyKept, MarkersHold, Pair, Namespaces, HasMarker
            <3>4. Score(n) > Score("Legacy")
                  BY <3>1, <3>2, <3>3 DEF Pair, Namespaces
            <3> QED
                  BY <3>1, <3>4 DEF Healthiest, Pair, Namespaces
      <2> QED
            BY <2>1, <2>2 DEF CopiesKnown, WithoutMeta
<1>3. CASE \A n \in Pair : ~HasMarker(n)
      <2>1. Loaded = IF HasMarker("Legacy") THEN ns["Legacy"].value ELSE NoValue
            BY <1>1, <1>3, Reads DEF ReadsLegacy
      <2>2. HasMarker("Legacy") => Healthiest = "Legacy"
            BY <1>1, <1>3, HealthiestHasMarker DEF Namespaces, Pair
      <2>3. ~HasMarker("Legacy") => ~HasMarker(Healthiest)
            BY <1>1, <1>3, HealthiestHasMarker DEF Namespaces, Pair
      <2> QED
            BY <2>1, <2>2, <2>3 DEF WithoutMeta
<1> QED
      BY <1>2, <1>3

\* namespaceHealthScore(): on a flash without faults the settings outlive the
\* meta entry, whenever it is lost; what is read then is at most one save off.
THEOREM SettingsOutliveMeta == Spec => []SurvivesMetaLoss
<1>1. NInv /\ [Next]_vars => NInv'
      BY InvStep
<1>2. NInv /\ NInv' /\ CopiesKnown /\ [Next]_vars => CopiesKnown'
      BY CopiesStep
<1> QED
      BY <1>1, <1>2, InvInit, CopiesInit, CopiesSurvive, PTL DEF Spec

---------------------------------------------------------------------------
(* The files on the card *)

\* The live file and the old copy are whole, and where the call stands in its
\* sequence of renames says which of them is there.
Whole == live # Torn /\ prev # Torn

Written == phase \in {"clearPrev", "rotate", "promote"} => tmp = value /\ value \in Value

Calls ==
    /\ phase = "idle" => value = NoValue
    /\ phase \in {"open", "write", "cleanup"} => value \in Value
    /\ phase \in {"removeLive", "removePrev"} => value = NoValue /\ store = "profile"
    /\ phase = "removePrev" => live = Absent

Renames ==
    /\ phase = "rotate" => live \in Value /\ prev = Absent
    /\ phase = "promote" =>
          \/ live = Absent /\ (rotated => prev \in Value)
          \/ store = "profile" /\ live \in Value /\ prev = Absent
    /\ phase = "cleanup" => live = value /\ store # "profile"

FInv == FilesTypeOK /\ Whole /\ Written /\ Calls /\ Renames

ShortWritesAreSeen == ShortWrites \subseteq {"bonds", "profile"}

USE DEF During, Proceed, Finish, Begin, files

\* The invariant holds at first, and every step keeps it.
LEMMA FilesInvInit == FilesInit => FInv
BY NoValueAssumption, ContentAssumption, StoresAssumption
   DEF FilesInit, FInv, FilesTypeOK, Whole, Written, Calls, Renames, Content, Phases

\* Every step keeps the invariant, where a write that falls short is seen.
LEMMA FilesInvStep ==
    ASSUME ShortWritesAreSeen, FInv, [FilesNext]_filesVars
    PROVE  FInv'
<1> USE NoValueAssumption, ContentAssumption, StoresAssumption
    DEF FInv, FilesTypeOK, Whole, Written, Calls, Renames, Content, Phases
<1>1. ASSUME NEW v \in Value, Save(v) PROVE FInv'
      BY <1>1 DEF Save
<1>2. CASE Delete
      BY <1>2 DEF Delete
<1>3. CASE OpenTmp
      BY <1>3 DEF OpenTmp
<1>4. CASE WriteTmp
      BY <1>4 DEF WriteTmp
<1>5. CASE WriteShort
      BY <1>5 DEF WriteShort, Checks, ShortWritesAreSeen
<1>6. CASE ClearPrev
      BY <1>6 DEF ClearPrev
<1>7. CASE Rotate
      BY <1>7 DEF Rotate
<1>8. CASE RotateFails
      BY <1>8 DEF RotateFails, KeepsPrev
<1>9. CASE Promote
      BY <1>9 DEF Promote, KeepsPrev
<1>10. CASE PromoteFails
      BY <1>10 DEF PromoteFails, RollsBack
<1>11. CASE Cleanup
      BY <1>11 DEF Cleanup
<1>12. CASE RemoveLive
      BY <1>12 DEF RemoveLive
<1>13. CASE RemovePrev
      BY <1>13 DEF RemovePrev
<1>14. CASE LoadProfile
      BY <1>14 DEF LoadProfile, Restored
<1>15. CASE Remount
      BY <1>15 DEF Remount, KeepsPrev, Restored
<1>16. CASE UNCHANGED filesVars
      BY <1>16 DEF filesVars
<1> QED
      BY <1>1, <1>2, <1>3, <1>4, <1>5, <1>6, <1>7, <1>8, <1>9, <1>10, <1>11, <1>12,
         <1>13, <1>14, <1>15, <1>16 DEF FilesNext, Step

\* Every variable keeps its type, and the inductive invariant holds, for any
\* values and any stores.
THEOREM FilesInvHolds == ASSUME ShortWritesAreSeen PROVE FilesSpec => []FInv
<1>1. FilesInit => FInv
      BY FilesInvInit
<1>2. FInv /\ [FilesNext]_filesVars => FInv'
      BY FilesInvStep
<1> QED
      BY <1>1, <1>2, PTL DEF FilesSpec

---------------------------------------------------------------------------
(* The refinement: what a step does to the value a boot would read. *)

\* Empty files map to the initial state of a durable file.
LEMMA FilesRefineInit == FilesInit => DurableFile!Init
BY NoValueAssumption, ContentAssumption
DEF FilesInit, LoadedFile, DurableFile!Init, DurableFile!Values

\* Every step on the files maps to a step of a durable file or none.
LEMMA FilesRefineStep ==
    ASSUME ShortWritesAreSeen, FInv, [FilesNext]_filesVars
    PROVE  [DurableFile!Next]_(DurableFile!vars)
<1> USE NoValueAssumption, ContentAssumption, StoresAssumption
    DEF FInv, FilesTypeOK, Whole, Written, Calls, Renames, Content, Phases, LoadedFile,
        DurableFile!vars, DurableFile!Next, DurableFile!Values, DurableFile!Keeps, DurableFile!End
<1>1. ASSUME NEW v \in Value, Save(v) PROVE DurableFile!Call(v)
      BY <1>1 DEF Save, DurableFile!Call
<1>2. CASE Delete
      <2>1. DurableFile!Call(NoValue)
            BY <1>2 DEF Delete, DurableFile!Call
      <2> QED
            BY <2>1
<1>3. CASE OpenTmp
      BY <1>3 DEF OpenTmp, DurableFile!Fail
<1>4. CASE WriteTmp
      BY <1>4 DEF WriteTmp
<1>5. CASE WriteShort
      BY <1>5 DEF WriteShort, Checks, ShortWritesAreSeen, DurableFile!Fail
<1>6. CASE ClearPrev
      BY <1>6 DEF ClearPrev
<1>7. CASE Rotate
      BY <1>7 DEF Rotate
<1>8. CASE RotateFails
      BY <1>8 DEF RotateFails, KeepsPrev, DurableFile!Fail
<1>9. CASE Promote
      BY <1>9 DEF Promote, KeepsPrev, DurableFile!Commit, DurableFile!Succeed
<1>10. CASE PromoteFails
      BY <1>10 DEF PromoteFails, RollsBack, DurableFile!Fail
<1>11. CASE Cleanup
      BY <1>11 DEF Cleanup, DurableFile!Succeed
<1>12. CASE RemoveLive
      BY <1>12 DEF RemoveLive, DurableFile!RemovalUndone
<1>13. CASE RemovePrev
      BY <1>13 DEF RemovePrev, DurableFile!Succeed
<1>14. CASE LoadProfile
      BY <1>14 DEF LoadProfile, Restored
<1>15. CASE Remount
      BY <1>15 DEF Remount, KeepsPrev, Restored, DurableFile!Fail
<1>16. CASE UNCHANGED filesVars
      BY <1>16 DEF filesVars
<1> QED
      BY <1>1, <1>2, <1>3, <1>4, <1>5, <1>6, <1>7, <1>8, <1>9, <1>10, <1>11, <1>12,
         <1>13, <1>14, <1>15, <1>16 DEF FilesNext, Step

\* Each store of files keeps one value: the files implement DurableValue.
THEOREM FilesAreDurable == ASSUME ShortWritesAreSeen PROVE FilesSpec => FilesDurable
<1>1. FilesInit => DurableFile!Init
      BY FilesRefineInit
<1>2. FInv /\ [FilesNext]_filesVars => [DurableFile!Next]_(DurableFile!vars)
      BY FilesRefineStep
<1>3. FilesSpec => []FInv
      BY FilesInvHolds
<1> QED
      BY <1>1, <1>2, <1>3, PTL DEF FilesSpec, FilesDurable, DurableFile!Spec
=============================================================================
