---------------------------- MODULE VoiceAlerts -----------------------------
(***************************************************************************)
(* What is said about the alerts on the screen.  For every table that is   *)
(* drawn VoiceModule::process() says at most one thing: the priority alert *)
(* when it is another one, its new direction, the new number of alerts, an *)
(* alert other than the priority, or that such an alert has grown from     *)
(* weak to strong.  All share one cooldown, and each has a rule of its own *)
(* against saying a thing twice.                                           *)
(*                                                                         *)
(* An alert is a band and a frequency, as in makeAlertId().  Times are the *)
(* ticks since an event, up to the longest that is asked for.  The present *)
(* direction and number of alerts may differ from those last said at any   *)
(* time.  Whether a change of direction is throttled is left open.         *)
(***************************************************************************)
EXTENDS Integers, FiniteSets, Functions, SequencesExt

CONSTANTS
    Alerts,
    Laser, Filtered, Secondaries,    \* alerts of a laser, of the bands in voiceBandFilter,
                                     \* and of those enabled for secondary alerts
    Options,                         \* the settings that may be on together
    MaxAnnounced, MaxHistories,      \* MAX_ANNOUNCED_ALERTS, MAX_ALERT_HISTORIES
    MaxBogeys,                       \* MAX_BOGEYS_FOR_ESCALATION
    Cooldown, CountCooldown, Stability, Gap, Sustained, Stale    \* the times, in ticks

OptionNames == {"direction", "bogeyCount", "directionChangeOnly", "firstAlertOnly", "secondary"}

ASSUME AlertAssumption ==
    IsFiniteSet(Alerts) /\ Laser \subseteq Alerts /\ Filtered \subseteq Alerts
    /\ Secondaries \subseteq Alerts
ASSUME OptionAssumption == Options \subseteq SUBSET OptionNames
ASSUME LimitAssumption ==
    /\ {MaxAnnounced, MaxHistories, MaxBogeys, Sustained, Stability, Gap} \subseteq Nat
    /\ CountCooldown \in 0 .. Cooldown /\ Cooldown \in Nat /\ Stale \in Nat

VARIABLES
    last,                        \* lastVoiceAlertBand_, lastVoiceAlertFrequency_
    sinceVoice,                  \* lastVoiceAlertTime_
    sincePriority,               \* lastPriorityAnnouncementTime_
    stablePriority, stable,      \* lastPriorityAlertId_, priorityStableSince_
    announced,                   \* announcedAlertIds_
    histories,                   \* alertHistories_
    \* the environment and history
    options,                     \* the settings that are on
    screen,                      \* the table that stays for good, once there is one
    spoken,                      \* alerts named, as priority or secondary, since the last clear
    grown,                       \* alerts in every table since their growth was said
    repeated                     \* the rules against saying a thing twice that failed

ghosts == <<spoken, grown, repeated>>
voiceVars == <<last, sinceVoice, sincePriority, stablePriority, stable, announced,
               histories, options, screen, ghosts>>

---------------------------------------------------------------------------

NoAlert == "none"
Unset   == -1
Later(age, most) == IF age = Unset \/ age = most THEN age ELSE age + 1

\* A history that was told is only kept, and aged.
History == [age : 0 .. Stale + 1, wasWeak : BOOLEAN, strong : Unset .. Sustained,
            told : BOOLEAN]
Tracked == DOMAIN histories

\* A table and its priority alert.
Screens == {p \in [table : SUBSET Alerts, priority : Alerts] : p.priority \in p.table}
Moving   == [table |-> {}, priority |-> NoAlert]

VoiceTypeOK ==
    /\ last \in Alerts \union {NoAlert} /\ stablePriority \in Alerts \union {NoAlert}
    /\ sinceVoice \in 0 .. Cooldown /\ sincePriority \in 0 .. Gap
    /\ stable \in Unset .. Stability
    /\ announced \subseteq Alerts /\ Cardinality(announced) <= MaxAnnounced
    /\ Tracked \subseteq Alerts \ Laser /\ Cardinality(Tracked) <= MaxHistories
    /\ histories \in [Tracked -> History]
    /\ options \in Options /\ screen \in Screens \union {Moving}
    /\ spoken \subseteq Alerts /\ grown \subseteq Alerts \ Laser
    /\ repeated \subseteq {"name", "growth"}

\* The times are 0, long ago.
VoiceInit ==
    /\ last = NoAlert /\ sinceVoice = Cooldown /\ sincePriority = Gap
    /\ stablePriority = NoAlert /\ stable = Unset
    /\ announced = {} /\ histories = <<>>
    /\ options \in Options
    /\ screen = Moving /\ spoken = {} /\ grown = {} /\ repeated = {}

---------------------------------------------------------------------------
(* The histories of the alerts *)

NewHistory == [age |-> 0, wasWeak |-> FALSE, strong |-> Unset, told |-> FALSE]

\* A new history beside those that are kept.
WithNew(h, kept, a) == [b \in kept \union {a} |-> IF b = a THEN NewHistory ELSE h[b]]

\* The alerts whose place may be taken when all are: the oldest, if older than
\* this frame.  (The first of them; which that is, is left open.)
Oldest(h) == {a \in DOMAIN h : h[a].age > 0 /\ \A b \in DOMAIN h : h[b].age <= h[a].age}

\* getOrCreateAlertHistory(): what the histories may become.
WithHistory(h, a) ==
    IF a \in DOMAIN h THEN {h}
    ELSE IF Cardinality(DOMAIN h) < MaxHistories THEN {WithNew(h, DOMAIN h, a)}
    ELSE IF Oldest(h) = {} THEN {h}
    ELSE {WithNew(h, DOMAIN h \ {old}, a) : old \in Oldest(h)}

Strengths == {"weak", "middle", "strong"}

\* A sample of the signal.
Sampled(history, bars) ==
    IF history.told THEN [history EXCEPT !.age = 0]
    ELSE [history EXCEPT !.age = 0,
                         !.wasWeak = @ \/ bars = "weak",
                         !.strong = IF bars # "strong" THEN Unset
                                    ELSE IF @ = Unset THEN 0 ELSE @]

\* updateAlertHistory()
WithRow(h, a) ==
    {IF a \in DOMAIN new THEN [new EXCEPT ![a] = Sampled(@, bars)] ELSE new :
        new \in WithHistory(h, a), bars \in Strengths}

\* The same for each that the rows before may have left, if the alert is in the table.
AfterRow(some, table, a) ==
    IF a \in table THEN UNION {WithRow(h, a) : h \in some} ELSE some

\* The rows of a table may come in any order.
Orders == SetToSeqs(Alerts \ Laser)

\* The update of all alerts of a table, in their order.
Updated(h, table, rows) ==
    LET upTo[i \in 0 .. Len(rows)] ==
            IF i = 0 THEN {h} ELSE AfterRow(upTo[i - 1], table, rows[i])
    IN  upTo[Len(rows)]

\* The one that a pass over the rows comes to first.
First(rows, some) ==
    rows[CHOOSE i \in DOMAIN rows : /\ rows[i] \in some
                                   /\ \A j \in DOMAIN rows : rows[j] \in some => i <= j]

\* cleanupStaleHistories()
CleanedUp(h) == Restrict(h, {a \in DOMAIN h : h[a].age <= Stale})

\* Slip: the stale ones are removed before those of the table are updated.
Refreshed_TooLate(table, rows) == Updated(CleanedUp(histories), table, rows)

Refreshed(table, rows) == {CleanedUp(h) : h \in Updated(histories, table, rows)}

\* shouldAnnounceThreatEscalation()
HasGrown(h, a, count) ==
    /\ a \in DOMAIN h
    /\ h[a].wasWeak /\ h[a].strong = Sustained /\ ~h[a].told
    /\ count <= MaxBogeys

---------------------------------------------------------------------------
(* One table, with its priority alert p *)

On(option) == option \in options

\* updatePriorityStability()
StableFor(p) == IF p = stablePriority THEN stable ELSE 0

\* markAlertAnnounced()
Marked(a) == IF Cardinality(announced) < MaxAnnounced THEN announced \union {a} ELSE announced

\* Band and frequency are said.
Name(a) ==
    /\ announced' = Marked(a) /\ sinceVoice' = 0
    /\ spoken' = spoken \union {a}

\* An alert of the table that is not there any more may be told again later.
Stays(table) == grown \intersect table

Quiet(table) ==
    /\ UNCHANGED <<last, sinceVoice, sincePriority, announced, spoken, repeated>>
    /\ grown' = Stays(table)

\* Case 1: another priority alert.
IsNew(p) == p # last /\ sinceVoice = Cooldown

MayBeNamed(p) == p \notin Filtered /\ ~(On("firstAlertOnly") /\ p \in announced)

AnnouncePriority(table, p) ==
    /\ IsNew(p) /\ MayBeNamed(p)
    /\ last' = p /\ Name(p) /\ sincePriority' = 0
    /\ grown' = Stays(table)
    /\ UNCHANGED <<histories, repeated>>

SkipPriority(table, p) ==
    /\ IsNew(p) /\ ~MayBeNamed(p)
    /\ Quiet(table) /\ UNCHANGED histories

\* Case 2: the same alert in another direction.
IsTurned(p) == p = last /\ sinceVoice = Cooldown /\ On("direction")

\* Case 3: the same alert and direction, another number of alerts.
IsCounted_AnyAlert(p) ==    \* slip: of any alert
    /\ sinceVoice >= CountCooldown
    /\ On("bogeyCount") /\ ~On("directionChangeOnly")

IsCounted(p) ==
    /\ p = last /\ sinceVoice >= CountCooldown
    /\ On("bogeyCount") /\ ~On("directionChangeOnly")

AnnounceDirection(table, p) ==
    /\ ~IsNew(p)
    /\ IsTurned(p) \/ IsCounted(p)
    /\ sinceVoice' = 0 /\ sincePriority' = 0
    /\ grown' = Stays(table)
    /\ UNCHANGED <<last, announced, histories, spoken, repeated>>

\* It is noted, but not said.
ThrottleDirection(table, p) ==
    /\ IsTurned(p)
    /\ Quiet(table) /\ UNCHANGED histories

\* canAnnounceSecondary()
MayNameOthers(table, p) ==
    /\ On("secondary") /\ Cardinality(table) > 1
    /\ StableFor(p) = Stability /\ sincePriority = Gap

Unnamed(table, p) == (Secondaries \intersect table) \ ({p} \union Filtered \union announced)

AnnounceSecondary(table, p) ==
    /\ MayNameOthers(table, p)
    /\ \E a \in Unnamed(table, p) :
          /\ Name(a)
          /\ repeated' = IF a \in spoken /\ Cardinality(spoken) <= MaxAnnounced
                         THEN repeated \union {"name"} ELSE repeated
    /\ grown' = Stays(table)
    /\ UNCHANGED <<last, sincePriority, histories>>

SaysName(table, p) == MayNameOthers(table, p) /\ Unnamed(table, p) # {}

\* More alerts than histories: one may be recycled.
Crowded(table) == Cardinality(Tracked \union (table \ Laser)) > MaxHistories

\* The alerts whose growth may be said, after the histories have become h.
Growing(h, table, p) ==
    {a \in (Secondaries \intersect table) \ ({p} \union Laser) :
        sinceVoice >= CountCooldown /\ HasGrown(h, a, Cardinality(table))}

\* Those that have grown, and whose histories have not had to make room.
Remembered(table) == IF Crowded(table) THEN {} ELSE Stays(table)

\* No growth is said.
Watch(table, h) ==
    /\ histories' = h /\ grown' = Remembered(table)
    /\ UNCHANGED <<sinceVoice, repeated>>

\* markThreatEscalationAnnounced()
SayGrowth(table, h, a) ==
    /\ histories' = [h EXCEPT ![a].told = TRUE, ![a].strong = Unset]
    /\ sinceVoice' = 0
    /\ grown' = Remembered(table) \union {a}
    /\ repeated' = IF a \in Remembered(table) THEN repeated \union {"growth"} ELSE repeated

\* The histories are brought up to date, and the first alert that has grown is
\* said, with the other directions.
Escalate(table, p) ==
    /\ On("secondary") /\ Cardinality(table) > 1
    /\ UNCHANGED <<last, sincePriority, announced, spoken>>
    /\ \E rows \in Orders : \E h \in Refreshed(table, rows) :
          LET growing == Growing(h, table, p)
          IN  \/ growing = {} /\ Watch(table, h)
              \/ growing # {} /\ SayGrowth(table, h, First(rows, growing))

SayNothing(table) ==
    /\ ~(On("secondary") /\ Cardinality(table) > 1)
    /\ Quiet(table) /\ UNCHANGED histories

\* VoiceModule::process() for a table that is not muted or suppressed, with no
\* app connected.
Process(table, p) ==
    /\ stablePriority' = p /\ stable' = StableFor(p)
    /\ UNCHANGED <<options, screen>>
    /\ \/ AnnouncePriority(table, p) \/ SkipPriority(table, p)
       \/ AnnounceDirection(table, p) \/ ThrottleDirection(table, p)
       \/ /\ ~IsNew(p)
          /\ \/ AnnounceSecondary(table, p)
             \/ ~SaysName(table, p) /\ (Escalate(table, p) \/ SayNothing(table))

\* DisplayPipelineModule::handleParsed() with alerts on the screen.
Frame ==
    \E shown \in (IF screen = Moving THEN Screens ELSE {screen}) :
        Process(shown.table, shown.priority)

\* Muted, suppressed, switched off or left to the app: nothing is looked at.
SilencedFrame ==
    /\ screen = Moving
    /\ \E table \in SUBSET Alerts \ {{}} : grown' = Stays(table)
    /\ UNCHANGED <<last, sinceVoice, sincePriority, stablePriority, stable, announced,
                   histories, options, screen, spoken, repeated>>

\* No alerts: clearAllState().
ClearVoice ==
    /\ screen = Moving
    /\ last' = NoAlert /\ sinceVoice' = Cooldown
    /\ stablePriority' = NoAlert /\ stable' = Unset
    /\ announced' = {} /\ histories' = <<>>
    /\ spoken' = {} /\ grown' = {}
    /\ UNCHANGED <<sincePriority, options, screen, repeated>>

\* From here on the V1 shows one table of several alerts, and voice is on.
Settle ==
    /\ screen = Moving
    /\ screen' \in {p \in Screens : Cardinality(p.table) > 1}
    /\ UNCHANGED <<last, sinceVoice, sincePriority, stablePriority, stable, announced,
                   histories, options, ghosts>>

VoiceTick ==
    /\ sinceVoice' = Later(sinceVoice, Cooldown)
    /\ sincePriority' = Later(sincePriority, Gap)
    /\ stable' = Later(stable, Stability)
    /\ histories' = [a \in Tracked |->
                        [histories[a] EXCEPT !.age = Later(@, Stale + 1),
                                             !.strong = Later(@, Sustained)]]
    /\ UNCHANGED <<last, stablePriority, announced, options, screen, ghosts>>

VoiceNext == Frame \/ SilencedFrame \/ ClearVoice \/ Settle \/ VoiceTick

\* The V1 sends display frames all the time, and each is drawn or followed by
\* one that is.  (It is asked for where it is needed, once the screen stays.)
VoiceFairness == WF_voiceVars(screen # Moving /\ Frame) /\ WF_voiceVars(VoiceTick)

VoiceSpec == VoiceInit /\ [][VoiceNext]_voiceVars /\ VoiceFairness

---------------------------------------------------------------------------
(* Properties *)

\* Until the alerts have gone, an alert that was named, as the priority or as
\* another one, is not named again as another one, unless the list is full; and the
\* growth of an alert that stays is said once, through muted frames and tables of one
\* alert as well, unless its history had to make room.
SaidOnce == repeated = {}

\* An alert that finds the list full is named again and again.
ListFull ==
    /\ Cardinality(announced) = MaxAnnounced
    /\ Unnamed(screen.table, screen.priority) # {}

\* A priority alert that stays is named in the end, whatever else there is to say:
\* the other announcements, which all start the cooldown again, come to an end.
PriorityIsNamed ==
    screen # Moving /\ MayBeNamed(screen.priority)
        ~> last = screen.priority \/ ListFull
=============================================================================
