------------------------------ MODULE AlertTable ------------------------------
(***************************************************************************)
(* From the V1's notifications to the table of alerts.  The host task puts *)
(* them in a queue that drops its oldest entry when full; the loop takes    *)
(* them out and assembles the rows of an alert table, which the V1 sends    *)
(* one by one and over again.  A table is published when its rows are       *)
(* complete; until then the last one stays.                                 *)
(*                                                                         *)
(* A notification is a frame.  What the buffer between queue and parser     *)
(* does to frames when bytes are missing is to lose one or to join two.     *)
(* The content of a row is the picture of the road it belongs to, the V1    *)
(* numbers the pictures modulo Pictures.  Time is counted in ticks.         *)
(***************************************************************************)
EXTENDS Integers, Sequences

CONSTANTS
    MaxAlerts,        \* MAX_ALERTS
    Pictures,
    QueueDepth,       \* config_.queueDepth
    FreshTicks,       \* kAlertRowFreshnessMs
    AssemblyTicks,    \* kAlertAssemblyTimeoutMs
    Bases,            \* numbers a table may begin with: 0, 1 or either
    Exposures         \* what the run lets happen beside, see LostRequest

ASSUME BoundsAssumption ==
    /\ {MaxAlerts, QueueDepth, FreshTicks, AssemblyTicks} \subseteq Nat \ {0}
    /\ Pictures \in Nat \ {0, 1} /\ AssemblyTicks >= FreshTicks
ASSUME StreamAssumption == Bases \subseteq {0, 1}
ASSUME ExposureAssumption == Exposures \subseteq {"requestLostOverTable"}

VARIABLES
    \* the V1
    up,                   \* its link
    base,                 \* number of the first row: 0 or 1
    picture, bogeys,      \* what is on the road now
    alertsOn,             \* alert rows have been asked for
    sent,                 \* rows of the present table already sent
    \* BleQueueModule
    queue,                \* queueHandle_ and what follows it in rxBuffer_
    \* PacketParser
    chunk,                \* alertChunk..._: present row by raw index, or NoRow; its old
                          \* is history: received before a clearing
    firstSeen,            \* alertTableFirstSeenMs_ by count, as an age, or Never
    resetFlag,            \* s_resetAlertCountFlag
    alerts,               \* alerts_
    bandsActive,          \* displayState_.activeBands # BAND_NONE
    \* ConnectionStateModule
    wasConnected,
    \* history
    cleared,              \* no link: rows were cleared, and none of the lost one came since
    damaged               \* a row was lost, and what it left behind may still be here

v1       == <<up, base, picture, bogeys, alertsOn, sent>>
assembly == <<chunk, firstSeen, resetFlag, cleared>>
shown    == <<alerts, bandsActive>>
vars == <<v1, queue, assembly, shown, wasConnected, damaged>>

---------------------------------------------------------------------------

Slots  == 0 .. MaxAlerts            \* RAW_ALERT_INDEX_SLOTS
Counts == 1 .. MaxAlerts
Never  == -1

Row(i, n, p)    == [kind |-> "row", idx |-> i, cnt |-> n, pic |-> p]
Clear           == [kind |-> "clear"]
Display(active) == [kind |-> "display", active |-> active]

NoRow         == [cnt |-> 0, pic |-> 0, age |-> 0, old |-> FALSE]
EmptyChunk    == [i \in Slots |-> NoRow]
NothingSeen   == [n \in Counts |-> Never]

Tags   == 0 .. Pictures - 1
Frames == [kind : {"row"}, idx : Slots, cnt : Counts, pic : Tags]
          \union {Clear, Display(TRUE), Display(FALSE)}
Ages   == 0 .. (AssemblyTicks + 1)

TypeOK ==
    /\ up \in BOOLEAN /\ base \in {0, 1}
    /\ picture \in 0 .. Pictures - 1 /\ bogeys \in 0 .. MaxAlerts
    /\ alertsOn \in BOOLEAN /\ sent \in 0 .. MaxAlerts
    /\ queue \in Seq(Frames) /\ Len(queue) <= QueueDepth
    /\ chunk \in [Slots -> [cnt : 0 .. MaxAlerts, pic : Tags, age : Ages, old : BOOLEAN]]
    /\ firstSeen \in [Counts -> Ages \union {Never}] /\ resetFlag \in BOOLEAN
    /\ alerts \subseteq [pos : Slots, cnt : Counts, pic : Tags, old : BOOLEAN]
    /\ bandsActive \in BOOLEAN /\ wasConnected \in BOOLEAN
    /\ cleared \in BOOLEAN /\ damaged \in BOOLEAN

Init ==
    /\ up = FALSE /\ base \in Bases /\ picture = 0 /\ bogeys = 0
    /\ alertsOn = FALSE /\ sent = 0
    /\ queue = <<>>
    /\ chunk = EmptyChunk /\ firstSeen = NothingSeen /\ resetFlag = FALSE
    /\ alerts = {} /\ bandsActive = FALSE
    /\ wasConnected = FALSE
    /\ cleared = TRUE /\ damaged = FALSE

---------------------------------------------------------------------------
(* The V1: rows of a table in order, display frames between the tables. *)

\* A table begins and nothing is left of a loss: its traces end here.
Settled == sent = 0 /\ queue = <<>> /\ chunk = EmptyChunk

\* onNotify(): the oldest entry makes room.
Notify(f) ==
    /\ queue' = Append(IF Len(queue) < QueueDepth THEN queue ELSE Tail(queue), f)
    /\ damaged' = ((damaged /\ ~Settled) \/ Len(queue) = QueueDepth)

Send(f) ==
    /\ up /\ Notify(f)
    /\ UNCHANGED <<up, base, picture, bogeys, alertsOn, assembly, shown, wasConnected>>

SendRow ==
    /\ alertsOn /\ bogeys > 0 /\ Send(Row(base + sent, bogeys, picture))
    /\ sent' = (sent + 1) % bogeys

SendClear   == alertsOn /\ bogeys = 0 /\ Send(Clear) /\ UNCHANGED sent

\* Display frames that repeat what is known change nothing and are left out.
SendDisplay ==
    /\ sent = 0 /\ bandsActive # (bogeys > 0)
    /\ Send(Display(bogeys > 0)) /\ UNCHANGED sent

PictureChanges ==
    /\ sent = 0
    /\ bogeys' \in 0 .. MaxAlerts /\ picture' = (picture + 1) % Pictures
    /\ UNCHANGED <<up, base, alertsOn, sent, queue, assembly, shown, wasConnected, damaged>>

LinkDown ==
    /\ up /\ up' = FALSE
    /\ alertsOn' = FALSE /\ sent' = 0
    /\ damaged' = (damaged \/ sent # 0)
    /\ UNCHANGED <<base, picture, bogeys, queue, assembly, shown, wasConnected>>

\* The connect follow-up asks for the rows once and does not look at the
\* outcome; nothing but display frames comes before.
LostRequest == alerts = {} \/ "requestLostOverTable" \in Exposures

\* History: the rows that are still kept where they should have been cleared.
Outdated(rows) ==
    [i \in Slots |-> IF rows[i] = NoRow THEN NoRow ELSE [rows[i] EXCEPT !.old = TRUE]]

\* It takes longer to come back than the loop to empty the queue.
LinkUp ==
    /\ ~up /\ queue = <<>> /\ up' = TRUE
    /\ alertsOn' \in {TRUE} \union (IF LostRequest THEN {FALSE} ELSE {})
    /\ chunk' = (IF cleared THEN Outdated(chunk) ELSE chunk) /\ cleared' = FALSE
    /\ UNCHANGED <<firstSeen, resetFlag>>
    /\ UNCHANGED <<base, picture, bogeys, sent, queue, shown, wasConnected, damaged>>

---------------------------------------------------------------------------
(* The parser *)

Present(rows, n) == {i \in Slots : rows[i].cnt = n}
Fresh(r)         == r.age <= FreshTicks

Dropped(rows, slots) == [i \in Slots |-> IF i \in slots THEN NoRow ELSE rows[i]]

\* resetAlertCountTracker() takes effect with the next row.
Kept     == IF resetFlag THEN EmptyChunk ELSE chunk
KeptSeen == IF resetFlag THEN NothingSeen ELSE firstSeen

\* Stale rows go, and with the last row of a count the time it began.
Aged  == {i \in Slots : Kept[i] # NoRow /\ ~Fresh(Kept[i])}
Young == Dropped(Kept, Aged)
YoungSeen ==
    LET aged  == Aged
        young == Young
    IN  [n \in Counts |-> IF Present(Kept, n) \intersect aged # {} /\ Present(young, n) = {}
                          THEN Never ELSE KeptSeen[n]]

ValidIndex(f) == f.idx \in 1 .. f.cnt \/ f.idx < f.cnt

Stored(f) == [Young EXCEPT ![f.idx] = [cnt |-> f.cnt, pic |-> f.pic, age |-> 0,
                                         old |-> FALSE]]
StoredSeen(f) ==
    LET seen == YoungSeen
    IN  IF Present(Young, f.cnt) = {} \/ seen[f.cnt] = Never
        THEN [seen EXCEPT ![f.cnt] = 0] ELSE seen

ZeroBased(n) == 0 .. n - 1
OneBased(n)  == 1 .. n
Complete(rows, n, slots) == \A i \in slots : rows[i].cnt = n /\ Fresh(rows[i])

FirstIndex(slots) == IF 0 \in slots THEN 0 ELSE 1
Table(rows, slots) ==
    {[pos |-> i - FirstIndex(slots), cnt |-> rows[i].cnt, pic |-> rows[i].pic,
      old |-> rows[i].old] : i \in slots}

\* Slip: a published table's rows stay.
ClearCount_KeepsRows(rows, seen, n) ==
    /\ chunk' = rows /\ firstSeen' = [seen EXCEPT ![n] = Never]

\* clearAlertCacheForCount()
ClearCount(rows, seen, n) ==
    /\ chunk' = Dropped(rows, Present(rows, n))
    /\ firstSeen' = [seen EXCEPT ![n] = Never]

Assemble(f) ==
    LET rows == Stored(f)
        seen == StoredSeen(f)
        used == IF Complete(rows, f.cnt, ZeroBased(f.cnt)) THEN ZeroBased(f.cnt)
                ELSE IF Complete(rows, f.cnt, OneBased(f.cnt)) THEN OneBased(f.cnt) ELSE {}
    IN  IF used # {}
        THEN alerts' = Table(rows, used) /\ ClearCount(rows, seen, f.cnt)
        ELSE /\ UNCHANGED alerts
             /\ IF seen[f.cnt] > AssemblyTicks
                THEN ClearCount(rows, seen, f.cnt)
                ELSE chunk' = rows /\ firstSeen' = seen

\* clearAlertCache()
ClearCache == chunk' = EmptyChunk /\ firstSeen' = NothingSeen

\* A row that is parsed while there is no link was received over the lost one.
ParseRow(f) ==
    /\ resetFlag' = FALSE /\ cleared' = FALSE /\ UNCHANGED bandsActive
    /\ IF ValidIndex(f) THEN Assemble(f)
       ELSE chunk' = Young /\ firstSeen' = YoungSeen /\ UNCHANGED alerts

\* A count of zero: the road is clear.
ParseClear ==
    /\ alerts' = {} /\ ClearCache /\ cleared' = ~up /\ UNCHANGED <<resetFlag, bandsActive>>

ParseDisplay(f) == bandsActive' = f.active /\ UNCHANGED <<alerts, assembly>>

ParseContent(f) ==
    \/ f.kind = "row" /\ ParseRow(f)
    \/ f.kind = "clear" /\ ParseClear
    \/ f.kind = "display" /\ ParseDisplay(f)

\* A first half with the second half of another frame, which goes with it:
\* the first names the frame, and the checksum is not looked at. Number, count
\* and content of a row may be another's; a count of zero makes it the all-clear.
Joined(f) ==
    IF f.kind = "display" THEN {Display(TRUE), Display(FALSE)}
    ELSE {Row(i, n, p) : i \in Slots, n \in Counts, p \in Tags} \union {Clear}

Loop == queue # <<>> /\ UNCHANGED <<v1, wasConnected>>

ParseFrame ==
    /\ Loop /\ queue' = Tail(queue) /\ ParseContent(Head(queue)) /\ UNCHANGED damaged

\* What does not fit in the buffer is cut off, and bytes are skipped up to a
\* start marker, and a frame whose end marker is missing.
LoseFrame ==
    /\ Loop /\ queue' = Tail(queue) /\ damaged' = TRUE /\ UNCHANGED <<assembly, shown>>

JoinFrames ==
    /\ Loop /\ queue' = Tail(queue) /\ damaged' = TRUE
    /\ \E f \in Joined(Head(queue)) : ParseContent(f)

---------------------------------------------------------------------------
(* What asks for the rows, and what notices that the link has gone *)

Request   == /\ up /\ alertsOn' = TRUE
             /\ UNCHANGED <<up, base, picture, bogeys, sent>>

\* Slip: only a table that has begun is asked for again.
RecoverGap_OnlyBegun ==
    /\ alerts = {} /\ bandsActive /\ chunk # EmptyChunk /\ Request
    /\ UNCHANGED <<queue, assembly, shown, wasConnected, damaged>>

\* handleParsed(): the V1 shows a band and no table has come.
RecoverGap ==
    /\ alerts = {} /\ bandsActive /\ Request
    /\ UNCHANGED <<queue, assembly, shown, wasConnected, damaged>>

\* Slip: the loss is noticed and nothing is reset.
NoticeLink_NoReset ==
    /\ wasConnected' = up /\ UNCHANGED <<queue, shown, v1>>
    /\ \/ wasConnected /\ ~up /\ cleared' = TRUE
          /\ UNCHANGED <<chunk, firstSeen, resetFlag, damaged>>
       \/ ~wasConnected /\ up /\ UNCHANGED <<assembly, damaged>>

\* process() of the connection state; a preview on the screen or the display
\* cadence put it off. A V1 silent for two seconds is asked again.
NoticeLink ==
    /\ wasConnected' = up /\ UNCHANGED <<queue, shown>>
    /\ \/ wasConnected /\ ~up /\ resetFlag' = TRUE /\ ClearCache /\ cleared' = TRUE
          /\ damaged' = (damaged \/ queue # <<>>) /\ UNCHANGED v1
       \/ ~wasConnected /\ up /\ UNCHANGED <<v1, assembly, damaged>>
       \/ queue = <<>> /\ Request /\ UNCHANGED <<assembly, damaged>>

---------------------------------------------------------------------------
(* Time: the V1 sends the rows of a table, and the loop deals with them, *)
(* within a tick. *)

Older(age, last) == IF age > last THEN age ELSE age + 1

Tick ==
    /\ sent = 0 /\ queue = <<>>
    /\ chunk' = [i \in Slots |-> IF chunk[i] = NoRow THEN NoRow
                                 ELSE [chunk[i] EXCEPT !.age = Older(@, FreshTicks)]]
    /\ firstSeen' = [n \in Counts |-> IF firstSeen[n] = Never THEN Never
                                      ELSE Older(firstSeen[n], AssemblyTicks)]
    /\ UNCHANGED <<v1, queue, resetFlag, cleared, shown, wasConnected, damaged>>

Radio == SendRow \/ SendClear \/ SendDisplay \/ PictureChanges \/ LinkDown \/ LinkUp
LoopStep == ParseFrame \/ LoseFrame \/ JoinFrames
Next == Radio \/ LoopStep \/ RecoverGap \/ NoticeLink \/ Tick

Spec == Init /\ [][Next]_vars

\* The loop runs, and does not join all the frames it takes; a V1 that was asked
\* sends its tables, and display frames in any case; a request tried again and
\* again gets through.
Fairness ==
    /\ WF_vars(LoseFrame \/ ParseFrame) /\ SF_vars(RecoverGap)
    /\ SF_vars(SendRow \/ SendClear) /\ SF_vars(SendDisplay)

FairSpec == Spec /\ Fairness

---------------------------------------------------------------------------
(* Properties *)

Publishes == alerts' # alerts /\ alerts' # {}

\* A table is published from rows received over the present link
\* (connection_state_module.cpp:59, packet_parser_alerts.cpp:142) -- unless the
\* loop did not notice the loss of the earlier link before this one came up, or
\* parsed rows of the lost link, still queued, after it had noticed: those only
\* their age keeps out, until the next all-clear.
NoOldRows == [][Publishes => \A a \in alerts' : ~a.old]_vars

\* While nothing is lost a published table shows one picture of the road,
\* also when the number of alerts goes up and down between the tables
\* (packet_parser_alerts.cpp:467).
WholeTable == [][Publishes /\ ~damaged' => \A a, b \in alerts' : a.pic = b.pic]_vars

\* The screen catches up: when the picture stays, the link holds and nothing
\* more is lost, the table becomes that of the V1 and stays so, whatever halves,
\* stale rows and requests lost over an empty table came before (over an old one
\* nothing asks again: LostRequest)
\* (ble_queue_module.cpp:262, display_pipeline_module.cpp:123).
Drops == Len(queue) = QueueDepth /\ Len(queue') = QueueDepth /\ queue' # queue
Takes == queue # <<>> /\ queue' = Tail(queue)
ShowsPicture ==
    /\ alerts = {} <=> bogeys = 0
    /\ \A a \in alerts : a.cnt = bogeys /\ a.pic = picture
TableFollows ==
    <>[]up /\ <>[][picture' = picture /\ ~Drops /\ (Takes => ParseFrame)]_vars
    => <>[]ShowsPicture
===============================================================================
