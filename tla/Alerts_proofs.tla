---------------------------- MODULE Alerts_proofs ----------------------------
(***************************************************************************)
(* What the parser shows of the V1's alerts, for tables of any size, any   *)
(* depth of the queue and any losses.  ClearInv: no row is kept over the   *)
(* end of a link that the loop sees with nothing queued.  InOrder:         *)
(* what has been kept, what waits in the queue and what the V1 will send   *)
(* are one stream of frames until one of them is lost or damaged, so an    *)
(* undamaged table is of one picture.                                      *)
(*                                                                         *)
(* And what the voice says of them, for any alerts and any limits.         *)
(* SaidInv: the list of announced alerts has what was named as long as it  *)
(* has had room, and an alert whose growth was said, and that stays, has   *)
(* a history that says so.  What a pass over the rows of a table makes of  *)
(* the histories follows by induction over the rows, for which the section *)
(* on recursion has the principle.                                         *)
(***************************************************************************)
EXTENDS AlertTable, VoiceAlerts, SequenceTheorems, FiniteSetTheorems, WellFoundedInduction,
        TLAPS

\* The V1 is within its table: what it sends has a number of the table.
Within == bogeys = 0 \/ sent < bogeys

\* A link that comes up after the rows were cleared finds none, so none grows old.
NoneIsOld ==
    /\ \A i \in Slots : ~chunk[i].old
    /\ cleared => chunk = EmptyChunk

TypeInv  == TypeOK /\ Within
ClearInv == TypeInv /\ NoneIsOld

Chunks == [Slots -> [cnt : 0 .. MaxAlerts, pic : Tags, age : Ages, old : BOOLEAN]]
Seen   == [Counts -> Ages \union {Never}]

---------------------------------------------------------------------------
(* What the helpers of the parser return *)

\* The bounds, as the proofs use them.
LEMMA ConstantTypes ==
    /\ MaxAlerts \in Nat \ {0} /\ QueueDepth \in Nat \ {0} /\ Pictures \in Nat \ {0, 1}
    /\ FreshTicks \in Nat \ {0} /\ AssemblyTicks \in Nat /\ AssemblyTicks >= FreshTicks
    /\ Bases \subseteq {0, 1}
BY BoundsAssumption, StreamAssumption

\* What a boot and a cleared cache start from.
LEMMA EmptyTypes == NoRow \in [cnt : 0 .. MaxAlerts, pic : Tags, age : Ages, old : BOOLEAN]
                    /\ EmptyChunk \in Chunks /\ NothingSeen \in Seen
BY ConstantTypes DEF NoRow, EmptyChunk, NothingSeen, Chunks, Seen, Tags, Ages, Never

\* Dropping rows leaves rows, and makes none.
LEMMA DroppedType ==
    ASSUME NEW rows \in Chunks, NEW slots
    PROVE  /\ Dropped(rows, slots) \in Chunks
           /\ \A i \in Slots : Dropped(rows, slots)[i].old => rows[i].old
BY EmptyTypes DEF Dropped, Chunks, NoRow

\* So does dropping the ones that have grown old.
LEMMA YoungType ==
    ASSUME TypeOK
    PROVE  /\ Young \in Chunks /\ YoungSeen \in Seen
           /\ \A i \in Slots : Young[i].old => chunk[i].old
<1>1. Kept \in Chunks /\ KeptSeen \in Seen
      BY EmptyTypes DEF TypeOK, Kept, KeptSeen, Chunks, Seen
<1>2. \A i \in Slots : Kept[i].old => chunk[i].old
      BY DEF Kept, EmptyChunk, NoRow
<1>3. Young \in Chunks /\ \A i \in Slots : Young[i].old => Kept[i].old
      BY <1>1, DroppedType DEF Young
<1>4. YoungSeen \in Seen
      BY <1>1 DEF YoungSeen, Seen, Never
<1> QED
      BY <1>2, <1>3, <1>4

RowFrames == [kind : {"row"}, idx : Slots, cnt : Counts, pic : Tags]

\* A frame is a row, the all-clear or a display frame.
LEMMA FrameForms ==
    /\ \A f \in Frames : f \in RowFrames \/ f = Clear \/ f = Display(TRUE) \/ f = Display(FALSE)
    /\ RowFrames \subseteq Frames /\ Clear \in Frames
    /\ \A b \in BOOLEAN : Display(b) \in Frames
    /\ \A f \in RowFrames : f.kind = "row"
    /\ Clear.kind = "clear"
    /\ \A b \in BOOLEAN : Display(b).kind = "display" /\ Display(b).active = b
<1>1. /\ \A f \in Frames : f \in RowFrames \/ f = Clear \/ f = Display(TRUE) \/ f = Display(FALSE)
      /\ RowFrames \subseteq Frames /\ Clear \in Frames
      BY Zenon DEF Frames, RowFrames
<1>2. ASSUME NEW b \in BOOLEAN PROVE Display(b) \in Frames
      <2>1. b = TRUE \/ b = FALSE
            OBVIOUS
      <2> QED
            BY <2>1, Zenon DEF Frames
<1>3. \A f \in RowFrames : f.kind = "row"
      BY DEF RowFrames
<1>4. Clear.kind = "clear" /\ \A b \in BOOLEAN : Display(b).kind = "display" /\ Display(b).active = b
      BY Zenon DEF Clear, Display
<1> QED
      BY <1>1, <1>2, <1>3, <1>4

\* Storing a row and reading its table change no other row.
LEMMA StoredType ==
    ASSUME TypeOK, NEW f \in RowFrames
    PROVE  /\ Stored(f) \in Chunks /\ StoredSeen(f) \in Seen
           /\ \A i \in Slots : Stored(f)[i].old => chunk[i].old
<1>1. [cnt |-> f.cnt, pic |-> f.pic, age |-> 0, old |-> FALSE]
        \in [cnt : 0 .. MaxAlerts, pic : Tags, age : Ages, old : BOOLEAN]
      BY ConstantTypes DEF RowFrames, Counts, Ages
<1>2. 0 \in Ages /\ f.idx \in Slots /\ f.cnt \in Counts
      BY ConstantTypes DEF Ages, RowFrames
<1>3. Stored(f) \in Chunks
      BY <1>1, <1>2, YoungType DEF Stored, Chunks
<1>4. StoredSeen(f) \in Seen
      BY <1>2, YoungType DEF StoredSeen, Seen
<1>5. /\ \A i \in Slots : i # f.idx => Stored(f)[i] = Young[i]
      /\ ~Stored(f)[f.idx].old
      BY <1>2, YoungType DEF Stored, Chunks
<1> QED
      BY <1>3, <1>4, <1>5, YoungType

\* A row leads to a table of rows that are kept, or to none.
LEMMA AssembleType ==
    ASSUME TypeOK, NEW f \in RowFrames, Assemble(f)
    PROVE  /\ chunk' \in Chunks /\ firstSeen' \in Seen
           /\ alerts' \subseteq [pos : Slots, cnt : Counts, pic : Tags, old : BOOLEAN]
           /\ \A i \in Slots : chunk'[i].old => Stored(f)[i].old
           /\ Publishes => \A a \in alerts' : \E i \in Slots : a.old = Stored(f)[i].old
<1> DEFINE rows == Stored(f)
           seen == StoredSeen(f)
           zero == Complete(rows, f.cnt, ZeroBased(f.cnt))
           used == IF zero THEN ZeroBased(f.cnt)
                   ELSE IF Complete(rows, f.cnt, OneBased(f.cnt)) THEN OneBased(f.cnt) ELSE {}
<1>1. rows \in Chunks /\ seen \in Seen /\ f.cnt \in Counts
      BY StoredType DEF RowFrames
<1>2. used \subseteq Slots /\ \A i \in used : rows[i].cnt = f.cnt
      BY <1>1, ConstantTypes DEF Complete, ZeroBased, OneBased, Slots, Counts
<1>3. ASSUME ClearCount(rows, seen, f.cnt)
      PROVE  /\ chunk' \in Chunks /\ firstSeen' \in Seen
             /\ \A i \in Slots : chunk'[i].old => rows[i].old
      BY <1>1, <1>3, DroppedType DEF ClearCount, Seen
<1>4. CASE used # {}
      <2>1. alerts' = Table(rows, used) /\ ClearCount(rows, seen, f.cnt)
            BY <1>4 DEF Assemble
      <2>2. \A a \in alerts' : /\ a \in [pos : Slots, cnt : Counts, pic : Tags, old : BOOLEAN]
                               /\ \E i \in Slots : a.old = rows[i].old
            <3> SUFFICES ASSUME NEW a \in alerts'
                         PROVE  /\ a \in [pos : Slots, cnt : Counts, pic : Tags, old : BOOLEAN]
                                /\ \E i \in Slots : a.old = rows[i].old
                OBVIOUS
            <3>1. PICK i \in used : a = [pos |-> i - FirstIndex(used), cnt |-> rows[i].cnt,
                                         pic |-> rows[i].pic, old |-> rows[i].old]
                  BY <2>1, Zenon DEF Table
            <3>2. i \in Slots /\ rows[i].cnt = f.cnt /\ rows[i].pic \in Tags
                  /\ rows[i].old \in BOOLEAN
                  BY <1>1, <1>2 DEF Chunks
            <3>3. i - FirstIndex(used) \in Slots
                  BY <1>2, <3>2, ConstantTypes DEF FirstIndex, Slots
            <3> QED
                BY <1>1, <3>1, <3>2, <3>3
      <2> QED
            BY <1>3, <2>1, <2>2
<1>5. CASE used = {}
      <2>1. UNCHANGED alerts
            BY <1>5 DEF Assemble
      <2>2. ClearCount(rows, seen, f.cnt) \/ (chunk' = rows /\ firstSeen' = seen)
            BY <1>5 DEF Assemble
      <2> QED
            BY <1>1, <1>3, <2>1, <2>2 DEF TypeOK, Publishes
<1> QED
      BY <1>4, <1>5

\* A frame, whatever it says, keeps the types, and no row of it is old.
LEMMA ParseKeeps ==
    ASSUME ClearInv, NEW f \in Frames, ParseContent(f)
    PROVE  /\ chunk' \in Chunks /\ firstSeen' \in Seen /\ resetFlag' \in BOOLEAN
           /\ alerts' \subseteq [pos : Slots, cnt : Counts, pic : Tags, old : BOOLEAN]
           /\ bandsActive' \in BOOLEAN /\ cleared' \in BOOLEAN
           /\ \A i \in Slots : ~chunk'[i].old
           /\ cleared' => chunk' = EmptyChunk
           /\ Publishes => \A a \in alerts' : ~a.old
<1>1. CASE f.kind = "row" /\ ParseRow(f)
      <2>1. f \in RowFrames /\ f.idx \in Slots
            BY <1>1, FrameForms DEF RowFrames
      <2>2. resetFlag' = FALSE /\ bandsActive' = bandsActive /\ cleared' = FALSE
            BY <1>1, Zenon DEF ParseRow
      <2>3. \A i \in Slots : ~Stored(f)[i].old
            BY <2>1, StoredType DEF ClearInv, TypeInv, NoneIsOld
      <2>4. CASE ValidIndex(f)
            <3>1. Assemble(f)
                  BY <1>1, <2>4 DEF ParseRow
            <3>2. /\ chunk' \in Chunks /\ firstSeen' \in Seen
                  /\ alerts' \subseteq [pos : Slots, cnt : Counts, pic : Tags, old : BOOLEAN]
                  /\ bandsActive' \in BOOLEAN
                  BY <2>1, <2>2, <3>1, AssembleType DEF ClearInv, TypeInv, TypeOK
            <3>3. /\ \A i \in Slots : chunk'[i].old => Stored(f)[i].old
                  /\ Publishes => \A a \in alerts' : \E i \in Slots : a.old = Stored(f)[i].old
                  BY <2>1, <3>1, AssembleType DEF ClearInv, TypeInv
            <3>4. \A i \in Slots : ~chunk'[i].old
                  BY <2>3, <3>3, Zenon
            <3>5. Publishes => \A a \in alerts' : ~a.old
                  BY <2>3, <3>3, Zenon
            <3> QED
                  BY <2>2, <3>2, <3>4, <3>5, Zenon
      <2>5. CASE ~ValidIndex(f)
            <3>1. chunk' = Young /\ firstSeen' = YoungSeen /\ alerts' = alerts
                  BY <1>1, <2>5 DEF ParseRow
            <3> QED
                  BY <2>1, <2>2, <3>1, YoungType
                  DEF ClearInv, TypeInv, TypeOK, NoneIsOld, Publishes
      <2> QED
            BY <2>4, <2>5
<1>2. CASE f.kind = "clear" /\ ParseClear
      BY <1>2, EmptyTypes
      DEF ParseClear, ClearCache, ClearInv, TypeInv, TypeOK, NoneIsOld, EmptyChunk, NoRow,
          Publishes
<1>3. CASE f.kind = "display" /\ ParseDisplay(f)
      <2>1. f.active \in BOOLEAN
            BY <1>3, FrameForms, Zenon
      <2> QED
            BY <1>3, <2>1
            DEF ParseDisplay, assembly, ClearInv, TypeInv, TypeOK, NoneIsOld, Publishes, Chunks,
                Seen
<1> QED
      BY <1>1, <1>2, <1>3 DEF ParseContent

\* A frame glued from two is a frame.
LEMMA JoinedType ==
    ASSUME NEW f \in Frames
    PROVE  Joined(f) \subseteq Frames
<1>1. CASE f.kind = "display"
      <2>1. Joined(f) = {Display(TRUE), Display(FALSE)}
            BY <1>1 DEF Joined
      <2> QED
            BY <2>1, FrameForms, Zenon
<1>2. CASE f.kind # "display"
      <2>1. Joined(f) = {Row(i, n, p) : i \in Slots, n \in Counts, p \in Tags} \union {Clear}
            BY <1>2 DEF Joined
      <2>2. \A i \in Slots, n \in Counts, p \in Tags : Row(i, n, p) \in RowFrames
            BY DEF RowFrames, Row
      <2> QED
            BY <2>1, <2>2, FrameForms
<1> QED
      BY <1>1, <1>2

\* Where nothing is kept nothing grows old.
LEMMA OutdatedEmpty == Outdated(EmptyChunk) = EmptyChunk
BY DEF Outdated, EmptyChunk

---------------------------------------------------------------------------
(* The invariant *)

\* The invariant holds at boot.
LEMMA InitHolds == Init => ClearInv
<1> SUFFICES ASSUME Init PROVE ClearInv
    OBVIOUS
<1>1. queue \in Seq(Frames) /\ Len(queue) <= QueueDepth
      BY ConstantTypes DEF Init
<1>2. chunk \in Chunks /\ firstSeen \in Seen /\ NoneIsOld
      BY EmptyTypes DEF Init, NoneIsOld, EmptyChunk, NoRow
<1>3. /\ base \in {0, 1} /\ picture \in 0 .. Pictures - 1
      /\ bogeys \in 0 .. MaxAlerts /\ sent \in 0 .. MaxAlerts /\ Within
      BY ConstantTypes DEF Init, Within
<1>4. /\ up \in BOOLEAN /\ alertsOn \in BOOLEAN /\ resetFlag \in BOOLEAN
      /\ bandsActive \in BOOLEAN /\ wasConnected \in BOOLEAN /\ damaged \in BOOLEAN
      BY DEF Init
<1>5. alerts \subseteq [pos : Slots, cnt : Counts, pic : Tags, old : BOOLEAN] /\ cleared \in BOOLEAN
      BY DEF Init
<1> QED
      BY <1>1, <1>2, <1>3, <1>4, <1>5, Zenon DEF ClearInv, TypeInv, TypeOK, Chunks, Seen

\* A notification that was put in the queue, or one that was taken out.
LEMMA QueueTypes ==
    ASSUME TypeOK
    PROVE  /\ \A f \in Frames : Notify(f) => /\ queue' \in Seq(Frames) /\ Len(queue') <= QueueDepth
                                             /\ damaged' \in BOOLEAN
           /\ queue # <<>> => /\ Head(queue) \in Frames
                              /\ Tail(queue) \in Seq(Frames) /\ Len(Tail(queue)) <= QueueDepth
<1>1. queue \in Seq(Frames) /\ Len(queue) <= QueueDepth /\ Len(queue) \in Nat
      BY DEF TypeOK
<1>2. queue # <<>> => /\ Head(queue) \in Frames /\ Tail(queue) \in Seq(Frames)
                      /\ Len(Tail(queue)) = Len(queue) - 1
      BY <1>1
<1>3. ASSUME NEW f \in Frames, Notify(f)
      PROVE  /\ queue' \in Seq(Frames) /\ Len(queue') <= QueueDepth
             /\ damaged' \in BOOLEAN
      <2>1. CASE Len(queue) < QueueDepth
            BY <1>1, <1>3, <2>1, ConstantTypes DEF Notify
      <2>2. CASE ~(Len(queue) < QueueDepth)
            <3>1. queue # <<>>
                  BY <1>1, <2>2, ConstantTypes
            <3>2. queue' = Append(Tail(queue), f)
                  BY <1>3, <2>2 DEF Notify
            <3> QED
                  BY <1>1, <1>2, <1>3, <3>1, <3>2, ConstantTypes DEF Notify
      <2> QED
            BY <2>1, <2>2
<1> QED
      BY <1>1, <1>2, <1>3, ConstantTypes

\* What a frame of the V1 leaves alone.
LEMMA SendKeeps ==
    ASSUME ClearInv, NEW f \in Frames, Send(f), sent' \in 0 .. MaxAlerts, bogeys = 0 \/ sent' < bogeys
    PROVE  ClearInv'
<1>1. queue' \in Seq(Frames) /\ Len(queue') <= QueueDepth /\ damaged' \in BOOLEAN
      BY QueueTypes DEF Send, ClearInv, TypeInv
<1> QED
      BY <1>1 DEF Send, ClearInv, TypeInv, TypeOK, Within, NoneIsOld, assembly, shown

\* Every step keeps it, and publishes no old row.
LEMMA StepKeeps ==
    ASSUME ClearInv, [Next]_vars
    PROVE  ClearInv' /\ (Publishes => \A a \in alerts' : ~a.old)
<1> USE DEF ClearInv, TypeInv
<1>1. CASE SendRow
      <2>1. base + sent \in Slots /\ bogeys \in Counts /\ picture \in Tags
            <3>1. /\ base \in {0, 1} /\ sent \in Nat /\ bogeys \in 0 .. MaxAlerts
                  /\ picture \in 0 .. Pictures - 1 /\ bogeys > 0 /\ (bogeys = 0 \/ sent < bogeys)
                  BY <1>1, ConstantTypes DEF SendRow, TypeOK, Within
            <3> QED
                BY <3>1, ConstantTypes DEF Slots, Counts, Tags
      <2>2. Row(base + sent, bogeys, picture) \in Frames
            BY <2>1 DEF Row, Frames
      <2>3. sent' \in 0 .. MaxAlerts /\ sent' < bogeys
            BY <1>1, <2>1, ConstantTypes DEF SendRow, TypeOK, Counts
      <2> QED
            BY <1>1, <2>2, <2>3, SendKeeps DEF SendRow, Send, shown, Publishes
<1>2. CASE SendClear
      BY <1>2, SendKeeps DEF SendClear, Frames, TypeOK, Within, Send, shown, Publishes
<1>3. CASE SendDisplay
      <2>1. Display(bogeys > 0) \in Frames
            <3>1. (bogeys > 0) \in BOOLEAN
                  BY DEF TypeOK
            <3> QED
                  BY <3>1, FrameForms, Zenon
      <2> QED
            BY <1>3, <2>1, SendKeeps DEF SendDisplay, TypeOK, Within, Send, shown, Publishes
<1>4. CASE PictureChanges
      <2>1. picture' \in 0 .. Pictures - 1
            BY <1>4, ConstantTypes DEF PictureChanges, TypeOK
      <2> QED
            BY <1>4, <2>1, ConstantTypes
            DEF PictureChanges, TypeOK, Within, NoneIsOld, assembly, shown, Publishes
<1>5. CASE LinkDown
      <2>1. sent' \in 0 .. MaxAlerts /\ Within'
            BY <1>5, ConstantTypes DEF LinkDown, TypeOK, Within
      <2>2. damaged' \in BOOLEAN
            BY <1>5, Zenon DEF LinkDown
      <2> QED
            BY <1>5, <2>1, <2>2 DEF LinkDown, TypeOK, NoneIsOld, assembly, shown, Publishes
<1>6. CASE LinkUp
      <2>1. UNCHANGED <<chunk, firstSeen, resetFlag>> /\ cleared' = FALSE
            BY <1>6, OutdatedEmpty DEF LinkUp, NoneIsOld
      <2> QED
            BY <1>6, <2>1 DEF LinkUp, TypeOK, Within, NoneIsOld, shown, Publishes
<1>7. ASSUME Loop, queue' = Tail(queue), damaged' \in BOOLEAN,
             NEW f \in Frames, ParseContent(f)
      PROVE  ClearInv' /\ (Publishes => \A a \in alerts' : ~a.old)
      <2>1. queue' \in Seq(Frames) /\ Len(queue') <= QueueDepth
            BY <1>7, QueueTypes DEF Loop
      <2> QED
            BY <1>7, <2>1, ParseKeeps DEF Loop, TypeOK, Within, NoneIsOld, v1, Chunks, Seen
<1>8. CASE ParseFrame
      <2>1. Head(queue) \in Frames /\ damaged' \in BOOLEAN
            BY <1>8, QueueTypes DEF ParseFrame, Loop, TypeOK
      <2> QED
            BY <1>7, <1>8, <2>1 DEF ParseFrame
<1>9. CASE LoseFrame
      <2>1. queue' \in Seq(Frames) /\ Len(queue') <= QueueDepth
            BY <1>9, QueueTypes DEF LoseFrame, Loop
      <2> QED
            BY <1>9, <2>1
            DEF LoseFrame, Loop, TypeOK, Within, NoneIsOld, v1, assembly, shown, Publishes
<1>10. CASE JoinFrames
      <2>1. Head(queue) \in Frames
            BY <1>10, QueueTypes DEF JoinFrames, Loop
      <2>2. PICK f \in Joined(Head(queue)) : ParseContent(f)
            BY <1>10 DEF JoinFrames
      <2>3. f \in Frames
            BY <2>1, JoinedType
      <2> QED
            BY <1>7, <1>10, <2>2, <2>3 DEF JoinFrames
<1>11. CASE RecoverGap
      BY <1>11 DEF RecoverGap, Request, TypeOK, Within, NoneIsOld, assembly, shown, Publishes
<1>12. CASE NoticeLink
      <2>1. CASE wasConnected /\ ~up /\ resetFlag' = TRUE /\ ClearCache /\ cleared' = TRUE
                 /\ damaged' = (damaged \/ queue # <<>>) /\ UNCHANGED v1
            BY <1>12, <2>1, EmptyTypes
            DEF NoticeLink, ClearCache, TypeOK, Within, NoneIsOld, EmptyChunk, NoRow, Chunks, Seen,
                v1, shown, Publishes
      <2>2. CASE UNCHANGED <<v1, assembly, damaged>>
            BY <1>12, <2>2
            DEF NoticeLink, TypeOK, Within, NoneIsOld, v1, assembly, shown, Publishes
      <2>3. CASE Request /\ UNCHANGED <<assembly, damaged>>
            BY <1>12, <2>3
            DEF NoticeLink, Request, TypeOK, Within, NoneIsOld, assembly, shown, Publishes
      <2> QED
            BY <1>12, <2>1, <2>2, <2>3 DEF NoticeLink
<1>13. CASE Tick
      <2>1. /\ chunk' \in Chunks /\ \A i \in Slots : chunk'[i].old => chunk[i].old
            /\ chunk = EmptyChunk => chunk' = EmptyChunk
            <3>1. \A i \in Slots :
                    chunk[i] \in [cnt : 0 .. MaxAlerts, pic : Tags, age : Ages, old : BOOLEAN]
                  BY DEF TypeOK
            <3>2. \A i \in Slots : Older(chunk[i].age, FreshTicks) \in Ages
                  BY <3>1, ConstantTypes DEF Older, Ages
            <3> QED
                  BY <1>13, <3>1, <3>2, EmptyTypes DEF Tick, Chunks, NoRow, EmptyChunk
      <2>2. firstSeen' \in Seen
            <3>1. \A n \in Counts : firstSeen[n] \in Ages \union {Never}
                  BY DEF TypeOK
            <3>2. \A n \in Counts : firstSeen[n] # Never
                                    => Older(firstSeen[n], AssemblyTicks) \in Ages
                  BY <3>1, ConstantTypes DEF Older, Ages
            <3> QED
                  BY <1>13, <3>2 DEF Tick, Seen
      <2> QED
            BY <1>13, <2>1, <2>2
            DEF Tick, TypeOK, Within, NoneIsOld, Chunks, Seen, v1, shown, Publishes
<1>14. CASE UNCHANGED vars
      BY <1>14 DEF vars, v1, assembly, shown, TypeOK, Within, NoneIsOld, Publishes
<1> QED
      BY <1>1, <1>2, <1>3, <1>4, <1>5, <1>6, <1>8, <1>9, <1>10, <1>11, <1>12, <1>13, <1>14
      DEF Next, Radio, LoopStep

\* Every variable keeps its type: the queue its bound, a row its number, an age
\* its limit.
THEOREM TypeCorrect == Spec => []TypeOK
<1>1. Init => ClearInv
      BY InitHolds
<1>2. ClearInv /\ [Next]_vars => ClearInv'
      BY StepKeeps
<1>3. ClearInv => TypeOK
      BY DEF ClearInv, TypeInv
<1> QED
      BY <1>1, <1>2, <1>3, PTL DEF Spec

\* A table is published from rows of the present link, in whatever order rows,
\* clears, losses and disconnects come, where the loop saw the earlier links end and
\* parsed no row of them later
\* (connection_state_module.cpp:59, packet_parser_alerts.cpp:142).
THEOREM NoOldRowIsShown == Spec => NoOldRows
<1>1. Init => ClearInv
      BY InitHolds
<1>2. ClearInv /\ [Next]_vars => ClearInv'
      BY StepKeeps
<1>3. ClearInv /\ [Next]_vars => [Publishes => \A a \in alerts' : ~a.old]_vars
      BY StepKeeps
<1> QED
      BY <1>1, <1>2, <1>3, PTL DEF Spec, NoOldRows

---------------------------------------------------------------------------
(* Whole tables *)

\* A row that is not the last of its table, and the numbers of a table.
Mid(f)  == f.kind = "row" /\ f.idx # base + f.cnt - 1
Fits(f) == f.kind = "row" => f.idx \in base .. base + f.cnt - 1

\* What the V1 may send after a frame: the next row, or where a table has ended
\* the first of another one.
Follows(f, g) ==
    IF Mid(f) THEN g.kind = "row" /\ g.idx = f.idx + 1 /\ g.cnt = f.cnt /\ g.pic = f.pic
    ELSE g.kind = "row" => g.idx = base

\* The rows that are kept when nothing was lost up to a frame.
Gathered(f) ==
    [i \in Slots |-> IF Mid(f) /\ i \in base .. f.idx
                     THEN [cnt |-> f.cnt, pic |-> f.pic, age |-> 0, old |-> FALSE] ELSE NoRow]

\* The frame after which the V1 is where it is.
Reached(f) == IF sent = 0 THEN ~Mid(f) ELSE f = Row(base + sent - 1, bogeys, picture)

\* The frames from the one that was parsed last to the newest.
At(newest, i) == IF i = 0 THEN newest ELSE queue[i]

\* The frames of an undisturbed V1, with what was kept of the ones parsed.
InStream(newest) ==
    /\ Fits(newest) /\ chunk = Gathered(newest) /\ (Mid(newest) => firstSeen[newest.cnt] = 0)
    /\ \A i \in 1 .. Len(queue) : Follows(At(newest, i - 1), queue[i]) /\ Fits(queue[i])
    /\ Reached(At(newest, Len(queue)))

\* A V1 without a link is between two tables; a cache to be cleared is clear.
Between ==
    /\ sent = 0 \/ sent < bogeys
    /\ ~up => sent = 0
    /\ resetFlag => chunk = EmptyChunk /\ firstSeen = NothingSeen

\* Until something is lost, what is kept and what waits is one stream of frames.
InOrder == Between /\ (~damaged => \E newest \in Frames : InStream(newest))

\* A row of the table: its number and its count are integers, and fit.
LEMMA RowFields ==
    ASSUME TypeOK, NEW f \in Frames, f.kind = "row"
    PROVE  /\ f \in RowFrames /\ f.idx \in Slots /\ f.cnt \in Counts
           /\ f.idx \in Int /\ f.cnt \in Int /\ f.cnt >= 1 /\ f.cnt <= MaxAlerts
           /\ base \in {0, 1} /\ MaxAlerts \in Int
<1>1. f \in RowFrames
      BY FrameForms, Zenon DEF Clear, Display
<1> QED
      BY <1>1, ConstantTypes DEF RowFrames, Slots, Counts, TypeOK

\* Where nothing is left of a table, none is kept, and the V1 is between two.
LEMMA SettledInStream == ASSUME TypeOK, Settled PROVE InStream(Clear)
<1>1. Clear.kind # "row"
      BY FrameForms
<1>2. queue = <<>> /\ Len(queue) = 0 /\ sent = 0
      BY DEF Settled
<1>3. ~Mid(Clear) /\ Fits(Clear)
      BY <1>1 DEF Mid, Fits
<1>4. Gathered(Clear) = EmptyChunk
      BY <1>3, Zenon DEF Gathered, EmptyChunk
<1> QED
      BY <1>2, <1>3, <1>4 DEF Settled, InStream, Reached, At

\* A row of a stream joins the ones kept, which are all of its table and young.
LEMMA StoredInStream ==
    ASSUME TypeOK, Between, NEW newest \in Frames, InStream(newest),
           NEW f \in Frames, f.kind = "row", Follows(newest, f), Fits(f)
    PROVE  /\ \A i \in Slots : Stored(f)[i] = IF i \in base .. f.idx
                                              THEN [cnt |-> f.cnt, pic |-> f.pic, age |-> 0, old |-> FALSE]
                                              ELSE NoRow
           /\ Stored(f) \in Chunks
           /\ StoredSeen(f)[f.cnt] = 0
<1>1. /\ f \in RowFrames /\ f.idx \in Slots /\ f.cnt \in Counts
      /\ f.idx \in Int /\ f.cnt \in Int /\ f.cnt >= 1 /\ f.cnt <= MaxAlerts
      /\ base \in {0, 1} /\ MaxAlerts \in Int
      BY RowFields
<1>2. Kept = chunk /\ KeptSeen = firstSeen
      BY DEF Kept, KeptSeen, Between
<1>3. chunk \in Chunks /\ firstSeen \in Seen
      BY DEF TypeOK, Chunks, Seen
<1>4. \A i \in Slots : chunk[i] = NoRow \/ chunk[i].age = 0
      BY DEF InStream, Gathered
<1>5. Aged = {}
      BY <1>2, <1>4, ConstantTypes DEF Aged, Fresh
<1>6. Young = chunk
      BY <1>2, <1>3, <1>5 DEF Young, Dropped, Chunks
<1>7. YoungSeen = firstSeen
      BY <1>2, <1>3, <1>5 DEF YoungSeen, Seen
<1>8. /\ Stored(f) = [chunk EXCEPT ![f.idx] =
                          [cnt |-> f.cnt, pic |-> f.pic, age |-> 0, old |-> FALSE]]
      /\ \A i \in Slots : Stored(f)[i] = IF i = f.idx
                                         THEN [cnt |-> f.cnt, pic |-> f.pic, age |-> 0, old |-> FALSE]
                                         ELSE chunk[i]
      BY <1>1, <1>3, <1>6 DEF Stored, Chunks
<1>9. CASE Mid(newest)
      <2>1. newest.kind = "row" /\ f.idx = newest.idx + 1 /\ f.cnt = newest.cnt /\ f.pic = newest.pic
            BY <1>9 DEF Follows, Mid
      <2>2. newest.idx \in Int /\ newest.idx >= base
            BY <2>1, RowFields DEF InStream, Fits
      <2>3. \A i \in Slots : i \in base .. f.idx <=> i = f.idx \/ i \in base .. newest.idx
            BY <1>1, <2>1, <2>2 DEF Slots
      <2>4. \A i \in Slots : chunk[i] = IF i \in base .. newest.idx
                                        THEN [cnt |-> f.cnt, pic |-> f.pic, age |-> 0, old |-> FALSE]
                                        ELSE NoRow
            BY <1>9, <2>1 DEF InStream, Gathered
      <2>5. firstSeen[f.cnt] = 0
            BY <1>9, <2>1 DEF InStream
      <2>6. StoredSeen(f)[f.cnt] = 0
            BY <1>1, <1>3, <1>7, <2>5 DEF StoredSeen, Seen
      <2> QED
            BY <1>8, <2>3, <2>4, <2>6, StoredType, <1>1
<1>10. CASE ~Mid(newest)
      <2>1. f.idx = base
            BY <1>10 DEF Follows
      <2>2. \A i \in Slots : chunk[i] = NoRow
            BY <1>10 DEF InStream, Gathered
      <2>3. \A i \in Slots : i \in base .. f.idx <=> i = f.idx
            BY <1>1, <2>1 DEF Slots
      <2>4. Present(Young, f.cnt) = {}
            BY <1>1, <1>6, <2>2 DEF Present, NoRow
      <2>5. StoredSeen(f)[f.cnt] = 0
            BY <1>1, <1>3, <1>7, <2>4 DEF StoredSeen, Seen
      <2> QED
            BY <1>1, <1>8, <2>2, <2>3, <2>5, StoredType
<1> QED
      BY <1>9, <1>10

\* The table is published with its last row, and then nothing of it is kept.
LEMMA RowInStream ==
    ASSUME TypeOK, Between, NEW newest \in Frames, InStream(newest),
           NEW f \in Frames, f.kind = "row", Follows(newest, f), Fits(f), ParseRow(f)
    PROVE  /\ chunk' = Gathered(f) /\ (Mid(f) => firstSeen'[f.cnt] = 0)
           /\ Publishes => \A a \in alerts' : a.pic = f.pic
<1> DEFINE rows == Stored(f)
           seen == StoredSeen(f)
           row  == [cnt |-> f.cnt, pic |-> f.pic, age |-> 0, old |-> FALSE]
           used == IF Complete(rows, f.cnt, ZeroBased(f.cnt)) THEN ZeroBased(f.cnt)
                   ELSE IF Complete(rows, f.cnt, OneBased(f.cnt)) THEN OneBased(f.cnt) ELSE {}
<1>1. /\ f \in RowFrames /\ f.idx \in Slots /\ f.cnt \in Counts
      /\ f.idx \in Int /\ f.cnt \in Int /\ f.cnt >= 1 /\ f.cnt <= MaxAlerts
      /\ base \in {0, 1} /\ MaxAlerts \in Int
      BY RowFields
<1>2. f.idx >= base /\ f.idx <= base + f.cnt - 1
      BY <1>1 DEF Fits
<1>3. \A i \in Slots : rows[i] = IF i \in base .. f.idx THEN row ELSE NoRow
      BY StoredInStream
<1>4. rows \in Chunks /\ seen[f.cnt] = 0
      BY StoredInStream
<1>5. row.cnt = f.cnt /\ row.pic = f.pic /\ NoRow.cnt # f.cnt /\ Fresh(row)
      BY <1>1, ConstantTypes DEF NoRow, Fresh
<1>6. ValidIndex(f)
      BY <1>1, <1>2 DEF ValidIndex
<1>7. Assemble(f)
      BY <1>6 DEF ParseRow
<1>8. \A i \in Slots : rows[i].cnt = f.cnt /\ Fresh(rows[i]) <=> i \in base .. f.idx
      BY <1>3, <1>5
<1>9. ZeroBased(f.cnt) \subseteq Slots /\ OneBased(f.cnt) \subseteq Slots
      BY <1>1 DEF ZeroBased, OneBased, Slots
<1>10. CASE Mid(f)
      <2>1. f.idx < base + f.cnt - 1
            BY <1>1, <1>2, <1>10 DEF Mid
      <2>2. ~Complete(rows, f.cnt, ZeroBased(f.cnt))
            <3>1. CASE base = 0
                  <4>1. f.cnt - 1 \in ZeroBased(f.cnt) /\ f.cnt - 1 \notin base .. f.idx
                        BY <1>1, <2>1, <3>1 DEF ZeroBased
                  <4> QED
                        BY <1>8, <1>9, <4>1 DEF Complete
            <3>2. CASE base = 1
                  <4>1. 0 \in ZeroBased(f.cnt) /\ 0 \notin base .. f.idx
                        BY <1>1, <3>2 DEF ZeroBased
                  <4> QED
                        BY <1>8, <1>9, <4>1 DEF Complete
            <3> QED
                  BY <1>1, <3>1, <3>2
      <2>3. ~Complete(rows, f.cnt, OneBased(f.cnt))
            <3>1. f.cnt \in OneBased(f.cnt) /\ f.cnt \notin base .. f.idx
                  BY <1>1, <2>1 DEF OneBased
            <3> QED
                  BY <1>8, <1>9, <3>1 DEF Complete
      <2>4. used = {} /\ ~(seen[f.cnt] > AssemblyTicks)
            BY <1>4, <2>2, <2>3, ConstantTypes
      <2>5. UNCHANGED alerts /\ chunk' = rows /\ firstSeen' = seen
            BY <1>7, <2>4 DEF Assemble
      <2>6. rows = Gathered(f)
            BY <1>3, <1>4, <1>10, Zenon DEF Gathered, Chunks
      <2> QED
            BY <1>4, <2>5, <2>6 DEF Publishes
<1>11. CASE ~Mid(f)
      <2>1. f.idx = base + f.cnt - 1
            BY <1>11 DEF Mid
      <2>2. used # {} /\ used \subseteq base .. f.idx
            <3>1. CASE base = 0
                  <4>1. \A i \in ZeroBased(f.cnt) : i \in base .. f.idx
                        BY <1>1, <2>1, <3>1 DEF ZeroBased
                  <4>2. Complete(rows, f.cnt, ZeroBased(f.cnt))
                        BY <1>8, <1>9, <4>1 DEF Complete
                  <4>3. 0 \in ZeroBased(f.cnt)
                        BY <1>1 DEF ZeroBased
                  <4> QED
                        BY <4>1, <4>2, <4>3
            <3>2. CASE base = 1
                  <4>1. 0 \in ZeroBased(f.cnt) /\ 0 \notin base .. f.idx
                        BY <1>1, <3>2 DEF ZeroBased
                  <4>2. ~Complete(rows, f.cnt, ZeroBased(f.cnt))
                        BY <1>8, <1>9, <4>1 DEF Complete
                  <4>3. \A i \in OneBased(f.cnt) : i \in base .. f.idx
                        BY <1>1, <2>1, <3>2 DEF OneBased
                  <4>4. Complete(rows, f.cnt, OneBased(f.cnt))
                        BY <1>8, <1>9, <4>3 DEF Complete
                  <4>5. f.cnt \in OneBased(f.cnt)
                        BY <1>1 DEF OneBased
                  <4> QED
                        BY <4>2, <4>3, <4>4, <4>5
            <3> QED
                  BY <1>1, <3>1, <3>2
      <2>3. alerts' = Table(rows, used) /\ chunk' = Dropped(rows, Present(rows, f.cnt))
            BY <1>7, <2>2 DEF Assemble, ClearCount
      <2>4. base .. f.idx \subseteq Slots
            BY <1>1, <2>1 DEF Slots
      <2>5. \A a \in alerts' : a.pic = f.pic
            BY <1>3, <1>5, <2>2, <2>3, <2>4 DEF Table
      <2>6. Dropped(rows, Present(rows, f.cnt)) = [i \in Slots |-> NoRow]
            BY <1>3, <1>5 DEF Dropped, Present
      <2>7. Gathered(f) = [i \in Slots |-> NoRow]
            BY <1>11 DEF Gathered
      <2> QED
            BY <1>11, <2>3, <2>5, <2>6, <2>7
<1> QED
      BY <1>10, <1>11

\* Whatever the next frame of a stream is, it becomes the last one parsed.
LEMMA ParseInStream ==
    ASSUME TypeOK, Between, NEW newest \in Frames, InStream(newest),
           NEW f \in Frames, Follows(newest, f), Fits(f), ParseContent(f)
    PROVE  /\ chunk' = Gathered(f) /\ (Mid(f) => firstSeen'[f.cnt] = 0)
           /\ Publishes => \A a \in alerts' : a.pic = f.pic
<1>1. CASE f.kind = "row"
      <2>1. ParseRow(f)
            BY <1>1 DEF ParseContent
      <2> QED
            BY <1>1, <2>1, RowInStream
<1>2. CASE f.kind # "row"
      <2>1. ~Mid(f) /\ ~Mid(newest) /\ Gathered(f) = EmptyChunk /\ Gathered(newest) = EmptyChunk
            BY <1>2 DEF Follows, Mid, Gathered, EmptyChunk
      <2>2. chunk = EmptyChunk
            BY <2>1 DEF InStream
      <2>3. CASE ParseClear
            BY <2>1, <2>3 DEF ParseClear, ClearCache, Publishes
      <2>4. CASE ParseDisplay(f)
            BY <2>1, <2>2, <2>4 DEF ParseDisplay, assembly, Publishes
      <2> QED
            BY <1>2, <2>3, <2>4 DEF ParseContent
<1> QED
      BY <1>1, <1>2

\* The stream goes on one frame later.
LEMMA PopInStream ==
    ASSUME TypeOK, NEW newest \in Frames, InStream(newest), queue # <<>>, queue' = Tail(queue),
           NEW f \in Frames, f = queue[1], UNCHANGED v1,
           chunk' = Gathered(f), Mid(f) => firstSeen'[f.cnt] = 0
    PROVE  InStream(f)'
<1> DEFINE n == Len(queue) - 1
<1>1. /\ queue \in Seq(Frames) /\ n \in Nat /\ Len(queue') = n
      /\ \A i \in 1 .. n : queue'[i] = queue[i + 1]
      BY DEF TypeOK
<1>2. base' = base /\ sent' = sent /\ bogeys' = bogeys /\ picture' = picture
      BY DEF v1
<1>3. \A i \in 1 .. n + 1 : Follows(At(newest, i - 1), queue[i]) /\ Fits(queue[i])
      BY <1>1 DEF InStream
<1>4. /\ \A i \in 1 .. n : Follows(queue[i], queue[i + 1]) /\ Fits(queue[i + 1])
      /\ Fits(f)
      BY <1>1, <1>3 DEF At
<1>5. Reached(queue[n + 1])
      BY <1>1 DEF InStream, At
<1>6. /\ \A g : Mid(g)' <=> Mid(g)
      /\ \A g : Fits(g)' <=> Fits(g)
      /\ \A g, h : Follows(g, h)' <=> Follows(g, h)
      /\ \A g : Reached(g)' <=> Reached(g)
      /\ Gathered(f)' = Gathered(f)
      BY <1>2 DEF Follows, Mid, Fits, Reached, Gathered
<1>7. \A i \in 1 .. n : (Follows(At(f, i - 1), queue[i]) /\ Fits(queue[i]))'
      <2> SUFFICES ASSUME NEW i \in 1 .. n
                   PROVE  (Follows(At(f, i - 1), queue[i]) /\ Fits(queue[i]))'
          OBVIOUS
      <2>1. At(f, i - 1)' = queue[i] /\ queue'[i] = queue[i + 1]
            BY <1>1 DEF At
      <2> QED
            BY <1>4, <1>6, <2>1
<1>8. Reached(At(f, Len(queue)))'
      BY <1>1, <1>5, <1>6 DEF At
<1> QED
      BY <1>1, <1>4, <1>6, <1>7, <1>8 DEF InStream

\* The stream goes on with what the V1 sends next.
LEMMA PushInStream ==
    ASSUME TypeOK, NEW newest \in Frames, InStream(newest),
           NEW g \in Frames, queue' = Append(queue, g), UNCHANGED <<base, chunk, firstSeen>>,
           Follows(At(newest, Len(queue)), g), Fits(g), Reached(g)'
    PROVE  InStream(newest)'
<1> DEFINE n == Len(queue)
<1>1. /\ queue \in Seq(Frames) /\ n \in Nat /\ Len(queue') = n + 1
      /\ queue'[n + 1] = g /\ \A i \in 1 .. n : queue'[i] = queue[i]
      BY DEF TypeOK
<1>2. /\ \A h : Mid(h)' <=> Mid(h)
      /\ \A h : Fits(h)' <=> Fits(h)
      /\ \A h, k : Follows(h, k)' <=> Follows(h, k)
      /\ Gathered(newest)' = Gathered(newest)
      BY DEF Follows, Mid, Fits, Gathered
<1>3. \A i \in 0 .. n : At(newest, i)' = At(newest, i)
      BY <1>1 DEF At
<1>4. \A i \in 1 .. n : Follows(At(newest, i - 1), queue[i]) /\ Fits(queue[i])
      BY DEF InStream
<1>5. \A i \in 1 .. n + 1 : (Follows(At(newest, i - 1), queue[i]) /\ Fits(queue[i]))'
      <2> SUFFICES ASSUME NEW i \in 1 .. n + 1
                   PROVE  (Follows(At(newest, i - 1), queue[i]) /\ Fits(queue[i]))'
          OBVIOUS
      <2>1. CASE i = n + 1
            BY <1>1, <1>2, <1>3, <2>1
      <2>2. CASE i \in 1 .. n
            BY <1>1, <1>2, <1>3, <1>4, <2>2
      <2> QED
            BY <1>1, <2>1, <2>2
<1>6. Reached(At(newest, Len(queue)))'
      BY <1>1 DEF At
<1>7. Fits(newest) /\ chunk = Gathered(newest) /\ (Mid(newest) => firstSeen[newest.cnt] = 0)
      BY DEF InStream
<1> QED
      BY <1>1, <1>2, <1>5, <1>6, <1>7 DEF InStream

\* What the V1 sends follows what it sent last.
LEMMA SendInStream ==
    ASSUME ClearInv, InOrder, NEW g \in Frames, Send(g),
           \A h : Reached(h) => Follows(h, g), Fits(g), Reached(g)'
    PROVE  ~damaged' => \E newest \in Frames : InStream(newest)'
<1> SUFFICES ASSUME ~damaged' PROVE \E newest \in Frames : InStream(newest)'
    OBVIOUS
<1>0. Notify(g) /\ Len(queue) # QueueDepth
      BY Zenon DEF Send, Notify
<1>1. TypeOK /\ Len(queue) < QueueDepth /\ queue' = Append(queue, g)
      BY <1>0, ConstantTypes DEF ClearInv, TypeInv, TypeOK, Notify
<1>2. ~damaged \/ Settled
      BY <1>0, Zenon DEF Notify
<1>3. PICK newest \in Frames : InStream(newest)
      BY <1>1, <1>2, SettledInStream, FrameForms DEF InOrder
<1>4. Follows(At(newest, Len(queue)), g)
      BY <1>3 DEF InStream
<1>5. UNCHANGED <<base, chunk, firstSeen>>
      BY DEF Send, assembly
<1> QED
      BY <1>1, <1>3, <1>4, <1>5, PushInStream

\* Nothing is kept, nothing waits, and the V1 is between two tables.
LEMMA RestInStream ==
    ASSUME chunk' = EmptyChunk, queue' = <<>>, sent' = 0
    PROVE  \E newest \in Frames : InStream(newest)'
<1>1. Clear \in Frames /\ Clear.kind # "row"
      BY FrameForms
<1>2. ~Mid(Clear)' /\ Fits(Clear)'
      BY <1>1 DEF Mid, Fits
<1>3. Gathered(Clear)' = EmptyChunk
      BY <1>2 DEF Gathered, EmptyChunk
<1>4. InStream(Clear)'
      BY <1>2, <1>3 DEF InStream, Reached, At
<1> QED
      BY <1>1, <1>4

\* No step but a loss breaks the stream, and a table is of one picture.
LEMMA OrderStep ==
    ASSUME ClearInv, InOrder, Next
    PROVE  InOrder' /\ (Publishes /\ ~damaged' => \A a, b \in alerts' : a.pic = b.pic)
<1> USE DEF ClearInv, TypeInv
<1>0. /\ base \in {0, 1} /\ sent \in Nat /\ bogeys \in 0 .. MaxAlerts /\ MaxAlerts \in Nat
      /\ picture \in Tags /\ sent <= MaxAlerts
      BY ConstantTypes DEF TypeOK, Tags
<1>1. CASE SendRow
      <2>1. /\ sent < bogeys /\ Send(Row(base + sent, bogeys, picture))
            /\ bogeys' = bogeys /\ picture' = picture /\ base' = base
            BY <1>0, <1>1 DEF SendRow, Send, InOrder, Between
      <2>2. base + sent \in Slots /\ bogeys \in Counts
            BY <1>0, <2>1 DEF Slots, Counts
      <2>3. PICK g \in Frames : /\ g = Row(base + sent, bogeys, picture)
                               /\ g.kind = "row" /\ g.idx = base + sent
                               /\ g.cnt = bogeys /\ g.pic = picture
            <3>1. Row(base + sent, bogeys, picture) \in Frames
                  BY <1>0, <2>2 DEF Row, Frames
            <3> QED
                  BY <3>1 DEF Row
      <2>4. sent' = IF sent + 1 = bogeys THEN 0 ELSE sent + 1
            BY <1>0, <1>1, <2>1 DEF SendRow
      <2>5. Fits(g)
            BY <1>0, <2>1, <2>3 DEF Fits
      <2>6. Reached(g)'
            BY <1>0, <2>1, <2>3, <2>4 DEF Reached, Mid
      <2>7. ASSUME NEW h, Reached(h) PROVE Follows(h, g)
            BY <1>0, <2>1, <2>3, <2>7 DEF Reached, Follows, Mid, Row
      <2>8. ~damaged' => \E newest \in Frames : InStream(newest)'
            BY <2>1, <2>3, <2>5, <2>6, <2>7, SendInStream
      <2>9. Between' /\ ~Publishes
            BY <1>0, <2>1, <2>4 DEF Send, InOrder, Between, assembly, shown, Publishes
      <2> QED
            BY <2>8, <2>9 DEF InOrder
<1>2. ASSUME NEW g \in Frames, g.kind # "row", Send(g), sent = 0, UNCHANGED sent
      PROVE  InOrder' /\ ~Publishes
      <2>1. Fits(g) /\ Reached(g)' /\ \A h : Reached(h) => Follows(h, g)
            BY <1>2 DEF Fits, Reached, Mid, Follows
      <2>2. Between' /\ ~Publishes
            BY <1>2 DEF Send, InOrder, Between, assembly, shown, Publishes
      <2> QED
            BY <1>2, <2>1, <2>2, SendInStream DEF InOrder
<1>3. CASE SendClear
      <2>1. sent = 0
            BY <1>0, <1>3 DEF SendClear, InOrder, Between
      <2> QED
            BY <1>2, <1>3, <2>1, FrameForms DEF SendClear
<1>4. CASE SendDisplay
      <2>1. (bogeys > 0) \in BOOLEAN
            BY <1>0
      <2>2. Display(bogeys > 0) \in Frames /\ Display(bogeys > 0).kind # "row"
            BY <2>1, FrameForms
      <2> QED
            BY <1>2, <1>4, <2>2 DEF SendDisplay
<1>5. CASE PictureChanges \/ LinkDown \/ LinkUp
      <2>0. ~damaged' => ~damaged /\ (LinkDown => ~(sent # 0))
            BY <1>5, Zenon DEF PictureChanges, LinkDown, LinkUp
      <2>1. /\ ~damaged' => ~damaged /\ (sent = 0 \/ UNCHANGED <<bogeys, picture>>)
            /\ ~damaged' => UNCHANGED sent
            /\ UNCHANGED <<base, chunk, firstSeen, queue, resetFlag, alerts>>
            BY <1>5, <2>0, OutdatedEmpty
            DEF PictureChanges, LinkDown, LinkUp, NoneIsOld, assembly, shown
      <2>2. \A newest \in Frames : ~damaged' /\ InStream(newest) => InStream(newest)'
            BY <2>1 DEF InStream, Fits, Follows, Gathered, Mid, Reached, At
      <2>3. Between'
            BY <1>0, <1>5, <2>1 DEF PictureChanges, LinkDown, LinkUp, InOrder, Between
      <2> QED
            BY <2>1, <2>2, <2>3 DEF InOrder, Publishes
<1>6. CASE ParseFrame
      <2>1. queue # <<>> /\ queue' = Tail(queue) /\ UNCHANGED <<v1, damaged>>
            BY <1>6 DEF ParseFrame, Loop
      <2>2. PICK f \in Frames : f = queue[1] /\ f = Head(queue)
            BY <2>1 DEF TypeOK
      <2>3. ParseContent(f)
            BY <1>6, <2>2 DEF ParseFrame
      <2>4. ASSUME ~damaged
            PROVE  /\ \E newest \in Frames : InStream(newest)'
                   /\ Publishes => \A a \in alerts' : a.pic = f.pic
            <3>1. PICK newest \in Frames : InStream(newest)
                  BY <2>4 DEF InOrder
            <3>2. Follows(newest, f) /\ Fits(f)
                  <4>1. 1 \in 1 .. Len(queue)
                        BY <2>1 DEF TypeOK
                  <4> QED
                        BY <2>2, <3>1, <4>1 DEF InStream, At
            <3>3. /\ chunk' = Gathered(f) /\ (Mid(f) => firstSeen'[f.cnt] = 0)
                  /\ Publishes => \A a \in alerts' : a.pic = f.pic
                  BY <2>3, <3>1, <3>2, ParseInStream DEF InOrder
            <3> QED
                  BY <2>1, <2>2, <3>1, <3>3, PopInStream
      <2>5. resetFlag' => chunk' = EmptyChunk /\ firstSeen' = NothingSeen
            BY <2>3
            DEF ParseContent, ParseRow, ParseClear, ClearCache, ParseDisplay, assembly, InOrder,
                Between
      <2>6. Between'
            BY <2>1, <2>5 DEF InOrder, Between, v1
      <2> QED
            BY <2>1, <2>4, <2>6 DEF InOrder
<1>7. CASE LoseFrame
      BY <1>7 DEF LoseFrame, Loop, InOrder, Between, v1, assembly
<1>8. CASE JoinFrames
      <2>1. damaged' = TRUE /\ UNCHANGED v1
            BY <1>8 DEF JoinFrames, Loop
      <2>2. PICK f \in Joined(Head(queue)) : ParseContent(f)
            BY <1>8 DEF JoinFrames
      <2>3. resetFlag' => chunk' = EmptyChunk /\ firstSeen' = NothingSeen
            BY <2>2
            DEF ParseContent, ParseRow, ParseClear, ClearCache, ParseDisplay, assembly, InOrder,
                Between
      <2> QED
            BY <2>1, <2>3 DEF InOrder, Between, v1
<1>9. ASSUME UNCHANGED <<up, base, picture, bogeys, sent, queue, assembly, damaged, alerts>>
      PROVE  InOrder' /\ ~Publishes
      <2>1. Between' /\ ~Publishes
            BY <1>9 DEF InOrder, Between, assembly, Publishes
      <2>2. \A newest \in Frames : InStream(newest) => InStream(newest)'
            BY <1>9 DEF InStream, Fits, Follows, Gathered, Mid, Reached, At, assembly
      <2> QED
            BY <1>9, <2>1, <2>2 DEF InOrder
<1>10. CASE RecoverGap
      BY <1>9, <1>10 DEF RecoverGap, Request, shown
<1>11. CASE NoticeLink
      <2>1. CASE wasConnected /\ ~up /\ resetFlag' = TRUE /\ ClearCache /\ cleared' = TRUE
                 /\ damaged' = (damaged \/ queue # <<>>) /\ UNCHANGED v1
            <3>1. Between' /\ ~Publishes
                  BY <1>11, <2>1
                  DEF NoticeLink, ClearCache, InOrder, Between, v1, shown, Publishes
            <3>2. chunk' = EmptyChunk /\ sent' = 0 /\ queue' = queue
                  BY <1>11, <2>1 DEF NoticeLink, ClearCache, InOrder, Between, v1
            <3>3. ~damaged' => queue = <<>>
                  BY <2>1
            <3> QED
                  BY <3>1, <3>2, <3>3, RestInStream DEF InOrder
      <2>2. CASE UNCHANGED <<v1, assembly, damaged>>
            BY <1>9, <1>11, <2>2 DEF NoticeLink, v1, shown
      <2>3. CASE Request /\ UNCHANGED <<assembly, damaged>>
            BY <1>9, <1>11, <2>3 DEF NoticeLink, Request, shown
      <2> QED
            BY <1>11, <2>1, <2>2, <2>3 DEF NoticeLink
<1>12. CASE Tick
      <2>1. /\ sent = 0 /\ queue = <<>>
            /\ UNCHANGED <<v1, queue, resetFlag, damaged, alerts>>
            BY <1>12 DEF Tick, shown
      <2>2. chunk = EmptyChunk => chunk' = EmptyChunk
            BY <1>12 DEF Tick, EmptyChunk
      <2>3. firstSeen = NothingSeen => firstSeen' = NothingSeen
            BY <1>12 DEF Tick, NothingSeen
      <2>4. ~damaged => chunk = EmptyChunk
            <3> SUFFICES ASSUME ~damaged PROVE chunk = EmptyChunk
                OBVIOUS
            <3>1. PICK newest \in Frames : InStream(newest)
                  BY DEF InOrder
            <3>2. ~Mid(newest) /\ chunk = Gathered(newest)
                  BY <2>1, <3>1 DEF InStream, Reached, At
            <3> QED
                  BY <3>2 DEF Gathered, EmptyChunk
      <2>5. ~damaged' => \E newest \in Frames : InStream(newest)'
            BY <2>1, <2>2, <2>4, RestInStream DEF v1
      <2>6. Between' /\ ~Publishes
            BY <2>1, <2>2, <2>3 DEF InOrder, Between, v1, Publishes
      <2> QED
            BY <2>5, <2>6 DEF InOrder
<1> QED
      BY <1>1, <1>3, <1>4, <1>5, <1>6, <1>7, <1>8, <1>10, <1>11, <1>12 DEF Next, Radio, LoopStep

\* Until a row is lost, joined or overrun, a published table shows one picture
\* of the road, also when the number of alerts goes up and down between the
\* tables (packet_parser_alerts.cpp:462).
THEOREM TablesAreWhole == Spec => WholeTable
<1>1. Init => ClearInv /\ InOrder
      <2> SUFFICES ASSUME Init PROVE ClearInv /\ InOrder
          OBVIOUS
      <2>1. ClearInv /\ Settled
            BY InitHolds DEF Init, Settled
      <2>2. Clear \in Frames /\ InStream(Clear)
            BY <2>1, SettledInStream, FrameForms DEF ClearInv, TypeInv
      <2> QED
            BY <2>1, <2>2 DEF InOrder, Between, Init
<1>2. ClearInv /\ InOrder /\ [Next]_vars => ClearInv' /\ InOrder'
      <2> SUFFICES ASSUME ClearInv, InOrder, [Next]_vars PROVE ClearInv' /\ InOrder'
          OBVIOUS
      <2>1. CASE Next
            BY <2>1, StepKeeps, OrderStep
      <2>2. CASE UNCHANGED vars
            <3>1. InOrder'
                  BY <2>2
                  DEF vars, v1, assembly, InOrder, Between, InStream, Fits, Follows, Gathered, Mid,
                      Reached, At
            <3> QED
                  BY <3>1, StepKeeps
      <2> QED
            BY <2>1, <2>2
<1>3. ClearInv /\ InOrder /\ [Next]_vars
          => [Publishes /\ ~damaged' => \A a, b \in alerts' : a.pic = b.pic]_vars
      BY OrderStep
<1> QED
      BY <1>1, <1>2, <1>3, PTL DEF Spec, WholeTable

---------------------------------------------------------------------------
(* Recursion over the rows of a table *)

Below == OpToRel(<, Nat)

\* A set of numbers has a least one.
LEMMA LeastNumber ==
    ASSUME NEW T \in SUBSET Nat, T # {}
    PROVE  \E x \in T : \A y \in T : x <= y
<1>1. IsWellFoundedOn(Below, Nat)
      BY NatLessThanWellFounded, Zenon DEF Below
<1>2. PICK x \in T : \A y \in T : <<y, x>> \notin Below
      BY <1>1, WFMin
<1>3. ASSUME NEW y \in T PROVE x <= y
      <2>1. SUFFICES ASSUME y < x PROVE FALSE
            OBVIOUS
      <2>2. <<y, x>> \in Below
            BY <2>1 DEF Below, OpToRel
      <2> QED
            BY <1>2, <2>2
<1> QED
      BY <1>3

\* Hence what holds of 0 and of the next number holds of all.
LEMMA AllNumbers ==
    ASSUME NEW S, 0 \in S, \A n \in Nat : n \in S => n + 1 \in S
    PROVE  Nat \subseteq S
<1> SUFFICES ASSUME ~(Nat \subseteq S) PROVE FALSE
    OBVIOUS
<1>1. PICK x \in Nat \ S : \A y \in Nat \ S : x <= y
      BY LeastNumber
<1>2. x # 0 /\ x - 1 \in Nat /\ x - 1 \in S
      BY <1>1
<1>3. (x - 1) + 1 \in S
      BY <1>2
<1> QED
      BY <1>1, <1>3

\* An order of the alerts has each of them once.
LEMMA OrderTypes ==
    ASSUME NEW rows \in Orders
    PROVE  /\ Len(rows) \in Nat /\ DOMAIN rows = 1 .. Len(rows)
           /\ \A i \in 1 .. Len(rows) : rows[i] \in Alerts \ Laser
           /\ \A a \in Alerts \ Laser : \E i \in 1 .. Len(rows) : rows[i] = a
<1> DEFINE S == Alerts \ Laser
           n == Cardinality(S)
<1>1. IsFiniteSet(S) /\ n \in Nat
      BY AlertAssumption, FS_Subset, FS_CardinalityType
<1>2. rows \in [1 .. n -> S] /\ \A i, j \in 1 .. n : i # j => rows[i] # rows[j]
      BY Zenon DEF Orders, SetToSeqs
<1>3. rows \in Seq(S) /\ Len(rows) = n /\ DOMAIN rows = 1 .. n
      <2>1. rows \in Seq(S)
            BY <1>1, <1>2, SeqDef
      <2> QED
            BY <1>1, <1>2, <2>1, LenProperties
<1>4. rows \in Injection(1 .. n, S)
      <2>1. IsInjective(rows)
            BY <1>2 DEF IsInjective
      <2> QED
            BY <1>2, <2>1, Zenon DEF Injection
<1>5. Cardinality(1 .. n) = n
      BY <1>1, FS_Interval
<1>6. rows \in Surjection(1 .. n, S)
      BY <1>1, <1>4, <1>5, FS_Injection
<1> QED
      BY <1>1, <1>2, <1>3, <1>6 DEF Surjection

\* The first of some alerts is one of them.
LEMMA FirstIsOne ==
    ASSUME NEW rows \in Orders, NEW some \in SUBSET (Alerts \ Laser), some # {}
    PROVE  First(rows, some) \in some
<1> DEFINE at == {i \in 1 .. Len(rows) : rows[i] \in some}
<1>1. at \subseteq Nat /\ at # {}
      BY OrderTypes
<1>2. PICK i \in at : \A j \in at : i <= j
      BY <1>1, LeastNumber
<1>3. \E k \in DOMAIN rows : /\ rows[k] \in some
                             /\ \A j \in DOMAIN rows : rows[j] \in some => k <= j
      BY <1>2, OrderTypes
<1> QED
      BY <1>3 DEF First


\* The histories after so many rows: the recursion that Updated is.
Pass(f, h, table, rows, n) ==
    f = [i \in 0 .. n |-> IF i = 0 THEN {h} ELSE AfterRow(f[i - 1], table, rows[i])]

\* There is such a recursion over any number of rows.
LEMMA PassExists ==
    ASSUME NEW h, NEW table, NEW rows
    PROVE  \A n \in Nat : \E f : Pass(f, h, table, rows, n)
<1> DEFINE S == {n \in Nat : \E f : Pass(f, h, table, rows, n)}
<1>1. 0 \in S
      <2> DEFINE f == [i \in 0 .. 0 |-> {h}]
      <2>1. Pass(f, h, table, rows, 0)
            BY DEF Pass
      <2> QED
            BY <2>1
<1>2. ASSUME NEW n \in Nat, n \in S PROVE n + 1 \in S
      <2>1. PICK f : Pass(f, h, table, rows, n)
            BY <1>2
      <2> DEFINE u == [i \in 0 .. n + 1 |-> IF i = n + 1 THEN AfterRow(f[n], table, rows[n + 1])
                                            ELSE f[i]]
      <2>2. \A i \in 0 .. n : f[i] = IF i = 0 THEN {h} ELSE AfterRow(f[i - 1], table, rows[i])
            BY <2>1 DEF Pass
      <2>3. u \in [0 .. n + 1 -> {u[i] : i \in 0 .. n + 1}] /\ DOMAIN u = 0 .. n + 1
            OBVIOUS
      <2>4. ASSUME NEW i \in 0 .. n + 1
            PROVE  u[i] = IF i = 0 THEN {h} ELSE AfterRow(u[i - 1], table, rows[i])
            <3>1. CASE i = 0
                  BY <2>2, <3>1
            <3>2. CASE i \in 1 .. n
                  BY <2>2, <3>2
            <3>3. CASE i = n + 1
                  BY <3>3
            <3> QED
                  BY <3>1, <3>2, <3>3
      <2> HIDE DEF u
      <2>5. Pass(u, h, table, rows, n + 1)
            BY <2>3, <2>4 DEF Pass
      <2> QED
            BY <2>5
<1> HIDE DEF S
<1>3. Nat \subseteq S
      BY <1>1, <1>2, AllNumbers
<1> QED
      BY <1>3 DEF S

\* So what Updated yields is the end of one.
LEMMA UpdatedIsPass ==
    ASSUME NEW h, NEW table, NEW rows, Len(rows) \in Nat
    PROVE  \E f : Pass(f, h, table, rows, Len(rows)) /\ Updated(h, table, rows) = f[Len(rows)]
<1> DEFINE f == CHOOSE f : Pass(f, h, table, rows, Len(rows))
<1>1. Updated(h, table, rows) = f[Len(rows)]
      BY DEF Updated, Pass
<1>2. Pass(f, h, table, rows, Len(rows))
      BY PassExists
<1> QED
      BY <1>1, <1>2

---------------------------------------------------------------------------
(* The histories *)

\* What a table of histories is.
Store(h) ==
    /\ h \in [DOMAIN h -> History] /\ DOMAIN h \subseteq Alerts \ Laser
    /\ Cardinality(DOMAIN h) <= MaxHistories

\* The bounds, as the proofs use them.
LEMMA VoiceConstants ==
    /\ MaxAnnounced \in Nat /\ MaxHistories \in Nat /\ Sustained \in Nat /\ Stability \in Nat
    /\ Gap \in Nat /\ Cooldown \in Nat /\ Stale \in Nat
BY LimitAssumption

\* Any set of alerts is finite.
LEMMA AlertsFinite ==
    ASSUME NEW some \in SUBSET Alerts
    PROVE  IsFiniteSet(some) /\ Cardinality(some) \in Nat
BY AlertAssumption, FS_Subset, FS_CardinalityType

\* A sample makes a history young and leaves it told or untold.
LEMMA SampledTypes ==
    ASSUME NEW history \in History, NEW bars \in Strengths
    PROVE  /\ Sampled(history, bars) \in History
           /\ Sampled(history, bars).age = 0 /\ Sampled(history, bars).told = history.told
<1>1. 0 \in 0 .. Stale + 1 /\ 0 \in Unset .. Sustained /\ Unset \in Unset .. Sustained
      BY VoiceConstants DEF Unset
<1>2. CASE history.told
      BY <1>1, <1>2 DEF Sampled, History
<1>3. CASE ~history.told
      BY <1>1, <1>3 DEF Sampled, History, Strengths
<1> QED
      BY <1>2, <1>3

\* A new history is one.
LEMMA NewHistoryType == NewHistory \in History
BY VoiceConstants DEF NewHistory, History, Unset

\* A place for an alert takes none away as long as there is room.
LEMMA WithHistoryTypes ==
    ASSUME NEW h, Store(h), NEW a \in Alerts \ Laser, NEW new \in WithHistory(h, a)
    PROVE  /\ Store(new)
           /\ Cardinality(DOMAIN h \union {a}) <= MaxHistories =>
                 DOMAIN new = DOMAIN h \union {a} /\ \A b \in DOMAIN h : new[b] = h[b]
<1> DEFINE S == DOMAIN h
<1>1. /\ S \in SUBSET (Alerts \ Laser) /\ h \in [S -> History]
      /\ IsFiniteSet(S) /\ Cardinality(S) \in Nat /\ Cardinality(S) <= MaxHistories
      BY AlertsFinite DEF Store
<1>2. CASE a \in S
      <2>1. new = h /\ S \union {a} = S
            BY <1>2 DEF WithHistory
      <2> QED
            BY <2>1
<1>3. CASE a \notin S
      <2>1. Cardinality(S \union {a}) = Cardinality(S) + 1
            BY <1>1, <1>3, FS_AddElement
      <2>2. CASE Cardinality(S) < MaxHistories
            <3>1. new = WithNew(h, S, a)
                  BY <1>3, <2>2 DEF WithHistory
            <3>2. new \in [S \union {a} -> History] /\ \A b \in S : new[b] = h[b]
                  BY <1>1, <1>3, <3>1, NewHistoryType DEF WithNew
            <3>3. DOMAIN new = S \union {a} /\ S \union {a} \subseteq Alerts \ Laser
                  BY <1>1, <3>2
            <3>4. Cardinality(DOMAIN new) <= MaxHistories
                  BY <1>1, <2>1, <2>2, <3>3, VoiceConstants
            <3> QED
                  BY <3>2, <3>3, <3>4 DEF Store
      <2>3. CASE ~(Cardinality(S) < MaxHistories) /\ Oldest(h) = {}
            <3>1. new = h
                  BY <1>3, <2>3 DEF WithHistory
            <3> QED
                  BY <1>1, <2>1, <2>3, <3>1, VoiceConstants
      <2>4. CASE ~(Cardinality(S) < MaxHistories) /\ Oldest(h) # {}
            <3>1. PICK old \in Oldest(h) : new = WithNew(h, S \ {old}, a)
                  BY <1>3, <2>4 DEF WithHistory
            <3>2. old \in S
                  BY DEF Oldest
            <3> DEFINE R == S \ {old}
            <3>4. new \in [R \union {a} -> History]
                  BY <1>1, <1>3, <3>1, NewHistoryType DEF WithNew
            <3>5. IsFiniteSet(R) /\ Cardinality(R) = Cardinality(S) - 1
                  BY <1>1, <3>2, FS_RemoveElement
            <3>6. Cardinality(R \union {a}) = Cardinality(S)
                  <4>1. a \notin R
                        BY <1>3
                  <4>2. Cardinality(R \union {a}) = Cardinality(R) + 1
                        BY <3>5, <4>1, FS_AddElement
                  <4> QED
                        BY <1>1, <3>5, <4>2
            <3> QED
                  BY <1>1, <2>1, <2>4, <3>4, <3>6, VoiceConstants DEF Store
      <2> QED
            BY <2>2, <2>3, <2>4
<1> QED
      BY <1>2, <1>3

\* The same of the whole update of an alert, which leaves its own history young.
LEMMA WithRowTypes ==
    ASSUME NEW h, Store(h), NEW a \in Alerts \ Laser, NEW new \in WithRow(h, a)
    PROVE  /\ Store(new)
           /\ Cardinality(DOMAIN h \union {a}) <= MaxHistories =>
                 /\ DOMAIN new = DOMAIN h \union {a} /\ new[a].age = 0
                 /\ \A b \in DOMAIN h : /\ h[b].told => new[b].told
                                        /\ h[b].age = 0 => new[b].age = 0
<1>1. PICK g \in WithHistory(h, a), bars \in Strengths :
          new = IF a \in DOMAIN g THEN [g EXCEPT ![a] = Sampled(@, bars)] ELSE g
      BY DEF WithRow
<1>2. /\ Store(g)
      /\ Cardinality(DOMAIN h \union {a}) <= MaxHistories =>
            DOMAIN g = DOMAIN h \union {a} /\ \A b \in DOMAIN h : g[b] = h[b]
      BY WithHistoryTypes
<1>3. CASE a \in DOMAIN g
      <2>1. /\ Sampled(g[a], bars) \in History
            /\ Sampled(g[a], bars).age = 0 /\ Sampled(g[a], bars).told = g[a].told
            BY <1>2, <1>3, SampledTypes DEF Store
      <2>2. /\ new \in [DOMAIN g -> History] /\ new[a] = Sampled(g[a], bars)
            /\ \A b \in DOMAIN g : b # a => new[b] = g[b]
            BY <1>1, <1>2, <1>3, <2>1 DEF Store
      <2> QED
            BY <1>2, <1>3, <2>1, <2>2 DEF Store
<1>4. CASE a \notin DOMAIN g
      BY <1>1, <1>2, <1>4
<1> QED
      BY <1>3, <1>4


\* What some rows have made of the histories: if there is room for all, none has gone,
\* what was told is, and those of the rows are young.
RowsDone(g, h, table, rows, n) ==
    /\ Store(g)
    /\ Cardinality(DOMAIN h \union (table \ Laser)) <= MaxHistories =>
          /\ DOMAIN h \subseteq DOMAIN g /\ DOMAIN g \subseteq DOMAIN h \union (table \ Laser)
          /\ \A b \in DOMAIN h : h[b].told => g[b].told
          /\ \A i \in 1 .. n : rows[i] \in table => rows[i] \in DOMAIN g /\ g[rows[i]].age = 0

\* One more row.
LEMMA NextRow ==
    ASSUME NEW h, Store(h), NEW table \in SUBSET Alerts, NEW rows \in Orders,
           NEW n \in Nat, n + 1 <= Len(rows), rows[n + 1] \in table,
           NEW g, RowsDone(g, h, table, rows, n), NEW new \in WithRow(g, rows[n + 1])
    PROVE  RowsDone(new, h, table, rows, n + 1)
<1> DEFINE a == rows[n + 1]
           all == DOMAIN h \union (table \ Laser)
<1>1. n + 1 \in 1 .. Len(rows) /\ a \in table \ Laser /\ a \in Alerts \ Laser
      BY OrderTypes
<1>2. Store(g)
      BY DEF RowsDone
<1>3. /\ Store(new)
      /\ Cardinality(DOMAIN g \union {a}) <= MaxHistories =>
            /\ DOMAIN new = DOMAIN g \union {a} /\ new[a].age = 0
            /\ \A b \in DOMAIN g : /\ g[b].told => new[b].told
                                   /\ g[b].age = 0 => new[b].age = 0
      <2>1. new \in WithRow(g, a)
            OBVIOUS
      <2> HIDE DEF a
      <2> QED
            BY <1>1, <1>2, <2>1, WithRowTypes
<1>4. ASSUME Cardinality(all) <= MaxHistories
      PROVE  /\ DOMAIN h \subseteq DOMAIN new /\ DOMAIN new \subseteq all
             /\ \A b \in DOMAIN h : h[b].told => new[b].told
             /\ \A i \in 1 .. n + 1 : rows[i] \in table =>
                   rows[i] \in DOMAIN new /\ new[rows[i]].age = 0
      <2>1. /\ DOMAIN h \subseteq DOMAIN g /\ DOMAIN g \subseteq all
            /\ \A b \in DOMAIN h : h[b].told => g[b].told
            /\ \A i \in 1 .. n : rows[i] \in table => rows[i] \in DOMAIN g /\ g[rows[i]].age = 0
            BY <1>4 DEF RowsDone
      <2>2. DOMAIN g \union {a} \subseteq all /\ all \subseteq Alerts
            BY <1>1, <2>1 DEF Store
      <2>3. Cardinality(DOMAIN g \union {a}) <= MaxHistories
            <3>1. IsFiniteSet(all) /\ Cardinality(all) \in Nat
                  BY <2>2, AlertsFinite
            <3>2. DOMAIN g \union {a} \in SUBSET Alerts
                  BY <2>2
            <3>3. Cardinality(DOMAIN g \union {a}) <= Cardinality(all)
                  BY <2>2, <3>1, FS_Subset
            <3>4. Cardinality(DOMAIN g \union {a}) \in Nat
                  BY <3>2, AlertsFinite
            <3> QED
                  BY <1>4, <3>1, <3>3, <3>4, VoiceConstants
      <2>4. /\ DOMAIN new = DOMAIN g \union {a} /\ new[a].age = 0
            /\ \A b \in DOMAIN g : /\ g[b].told => new[b].told
                                   /\ g[b].age = 0 => new[b].age = 0
            BY <1>3, <2>3
      <2>5. ASSUME NEW i \in 1 .. n + 1, rows[i] \in table
            PROVE  rows[i] \in DOMAIN new /\ new[rows[i]].age = 0
            <3>1. CASE i = n + 1
                  BY <2>4, <3>1
            <3>2. CASE i \in 1 .. n
                  BY <2>1, <2>4, <2>5, <3>2
            <3> QED
                  BY <3>1, <3>2
      <2> QED
            BY <2>1, <2>2, <2>4, <2>5
<1> QED
      BY <1>3, <1>4 DEF RowsDone

\* Hence all rows, by induction.
LEMMA UpdatedTypes ==
    ASSUME NEW h, Store(h), NEW table \in SUBSET Alerts, NEW rows \in Orders
    PROVE  \A g \in Updated(h, table, rows) : RowsDone(g, h, table, rows, Len(rows))
<1>1. PICK f : Pass(f, h, table, rows, Len(rows)) /\ Updated(h, table, rows) = f[Len(rows)]
      BY OrderTypes, UpdatedIsPass
<1>2. \A i \in 0 .. Len(rows) :
          f[i] = IF i = 0 THEN {h} ELSE AfterRow(f[i - 1], table, rows[i])
      BY <1>1 DEF Pass
<1> DEFINE S == {n \in Nat : n <= Len(rows) => \A g \in f[n] : RowsDone(g, h, table, rows, n)}
<1>3. 0 \in S
      <2>1. f[0] = {h}
            BY <1>2, OrderTypes
      <2>2. RowsDone(h, h, table, rows, 0)
            BY DEF RowsDone
      <2> QED
            BY <2>1, <2>2
<1>4. ASSUME NEW n \in Nat, n \in S PROVE n + 1 \in S
      <2> SUFFICES ASSUME n + 1 <= Len(rows), NEW new \in f[n + 1]
                   PROVE  RowsDone(new, h, table, rows, n + 1)
          OBVIOUS
      <2>1. /\ n + 1 \in 1 .. Len(rows) /\ n <= Len(rows)
            /\ f[n + 1] = AfterRow(f[n], table, rows[n + 1])
            BY <1>2, OrderTypes
      <2>2. \A g \in f[n] : RowsDone(g, h, table, rows, n)
            BY <1>4, <2>1
      <2>3. CASE rows[n + 1] \in table
            <3>1. PICK g \in f[n] : new \in WithRow(g, rows[n + 1])
                  BY <2>1, <2>3 DEF AfterRow
            <3> QED
                  BY <2>2, <2>3, <3>1, NextRow
      <2>4. CASE rows[n + 1] \notin table
            <3>1. RowsDone(new, h, table, rows, n)
                  BY <2>1, <2>2, <2>4 DEF AfterRow
            <3>2. \A i \in 1 .. n + 1 : rows[i] \in table => i \in 1 .. n
                  BY <2>4
            <3> QED
                  BY <3>1, <3>2 DEF RowsDone
      <2> QED
            BY <2>3, <2>4
<1> HIDE DEF S
<1>5. Nat \subseteq S
      BY <1>3, <1>4, AllNumbers
<1> QED
      BY <1>1, <1>5, OrderTypes DEF S

\* What has become of the histories after a table, the stale ones removed.
LEMMA RefreshedTypes ==
    ASSUME Store(histories), NEW table \in SUBSET Alerts, NEW rows \in Orders,
           NEW h \in Refreshed(table, rows)
    PROVE  /\ Store(h)
           /\ ~Crowded(table) =>
                 \A a \in Tracked \intersect table :
                     histories[a].told => a \in DOMAIN h /\ h[a].told
<1>1. PICK g \in Updated(histories, table, rows) : h = CleanedUp(g)
      BY DEF Refreshed
<1>2. RowsDone(g, histories, table, rows, Len(rows))
      BY <1>1, UpdatedTypes
<1> DEFINE R == {a \in DOMAIN g : g[a].age <= Stale}
<1>3. h = [a \in R |-> g[a]] /\ R \subseteq DOMAIN g
      BY <1>1 DEF CleanedUp, Restrict
<1>4. Store(h)
      <2>1. Store(g)
            BY <1>2 DEF RowsDone
      <2>2. DOMAIN g \in SUBSET Alerts /\ R \in SUBSET DOMAIN g
            BY <2>1 DEF Store
      <2>3. IsFiniteSet(DOMAIN g) /\ Cardinality(DOMAIN g) \in Nat /\ Cardinality(R) \in Nat
            BY <2>2, AlertsFinite
      <2>4. Cardinality(R) <= Cardinality(DOMAIN g)
            BY <2>2, <2>3, FS_Subset
      <2> QED
            BY <1>3, <2>1, <2>3, <2>4, VoiceConstants DEF Store
<1>5. ASSUME ~Crowded(table), NEW a \in Tracked \intersect table, histories[a].told
      PROVE  a \in DOMAIN h /\ h[a].told
      <2>1. a \in Alerts \ Laser
            BY DEF Store, Tracked
      <2>2. PICK i \in 1 .. Len(rows) : rows[i] = a
            BY <2>1, OrderTypes
      <2>3. Cardinality(DOMAIN histories \union (table \ Laser)) <= MaxHistories
            <3>1. DOMAIN histories \union (table \ Laser) \in SUBSET Alerts
                  BY DEF Store
            <3>2. Cardinality(DOMAIN histories \union (table \ Laser)) \in Nat
                  BY <3>1, AlertsFinite
            <3> QED
                  BY <1>5, <3>2, VoiceConstants DEF Crowded, Tracked
      <2>4. a \in DOMAIN g /\ g[a].age = 0 /\ g[a].told
            BY <1>2, <1>5, <2>2, <2>3 DEF RowsDone, Tracked
      <2> QED
            BY <1>3, <2>4, VoiceConstants
<1> QED
      BY <1>4, <1>5

---------------------------------------------------------------------------
(* Types, and nothing is said twice *)

\* The list of announced alerts has what was named, as long as it has had room.
NamesKept ==
    /\ announced \subseteq spoken
    /\ Cardinality(spoken) <= MaxAnnounced => spoken \subseteq announced

\* What has grown and stayed has its history, which knows that it was told.
GrowthKept == \A a \in grown : a \in Tracked /\ histories[a].told

SaidInv == VoiceTypeOK /\ NamesKept /\ GrowthKept /\ SaidOnce

\* What each has to do with its part of the state.
ListKept ==
    /\ announced \subseteq Alerts /\ Cardinality(announced) <= MaxAnnounced
    /\ spoken \subseteq Alerts /\ NamesKept

StoreKept == Store(histories) /\ grown \subseteq Alerts \ Laser /\ GrowthKept

\* The invariant is made of these and of the times and settings.
LEMMA SaidParts ==
    SaidInv <=> /\ last \in Alerts \union {NoAlert}
                /\ stablePriority \in Alerts \union {NoAlert}
                /\ sinceVoice \in 0 .. Cooldown /\ sincePriority \in 0 .. Gap
                /\ stable \in Unset .. Stability
                /\ options \in Options /\ screen \in Screens \union {Moving}
                /\ repeated = {} /\ ListKept /\ StoreKept
BY DEF SaidInv, VoiceTypeOK, SaidOnce, ListKept, StoreKept, Store, Tracked

\* A name that is said is put on the list, or there is no room for all.
LEMMA NameKeeps ==
    ASSUME SaidInv, NEW a \in Alerts, Name(a)
    PROVE  ListKept'
<1>1. /\ announced \subseteq spoken /\ spoken \subseteq Alerts
      /\ Cardinality(spoken) <= MaxAnnounced => spoken \subseteq announced
      /\ Cardinality(announced) <= MaxAnnounced
      BY DEF SaidInv, NamesKept, VoiceTypeOK
<1>2. /\ IsFiniteSet(announced) /\ Cardinality(announced) \in Nat
      /\ IsFiniteSet(spoken) /\ Cardinality(spoken) \in Nat
      BY <1>1, AlertsFinite
<1>3. /\ Cardinality(announced \union {a}) =
            IF a \in announced THEN Cardinality(announced) ELSE Cardinality(announced) + 1
      /\ Cardinality(spoken \union {a}) =
            IF a \in spoken THEN Cardinality(spoken) ELSE Cardinality(spoken) + 1
      BY <1>2, FS_AddElement
<1>4. /\ spoken' = spoken \union {a}
      /\ announced' = IF Cardinality(announced) < MaxAnnounced
                      THEN announced \union {a} ELSE announced
      BY DEF Name, Marked
<1>5. announced' \subseteq spoken' /\ spoken' \subseteq Alerts /\ announced' \subseteq Alerts
      BY <1>1, <1>4
<1>6. Cardinality(announced') <= MaxAnnounced
      BY <1>1, <1>2, <1>3, <1>4, VoiceConstants
<1>7. ASSUME Cardinality(spoken') <= MaxAnnounced PROVE spoken' \subseteq announced'
      <2>1. spoken = announced
            BY <1>1, <1>2, <1>3, <1>4, <1>7, VoiceConstants
      <2> QED
            BY <1>2, <1>3, <1>4, <1>7, <2>1, VoiceConstants
<1> QED
      BY <1>5, <1>6, <1>7 DEF NamesKept, ListKept


LEMMA SaidInit == VoiceInit => SaidInv
<1> SUFFICES ASSUME VoiceInit PROVE SaidInv
    OBVIOUS
<1>1. Tracked = {} /\ histories \in [{} -> History]
      BY DEF VoiceInit, Tracked
<1>2. Cardinality({}) = 0
      BY FS_EmptySet
<1>3. VoiceTypeOK
      BY <1>1, <1>2, VoiceConstants DEF VoiceInit, VoiceTypeOK, Unset
<1> QED
      BY <1>3 DEF VoiceInit, SaidInv, NamesKept, GrowthKept, SaidOnce

\* What is drawn is a table of alerts with one of them as its priority.
LEMMA ScreenTypes ==
    ASSUME VoiceTypeOK, NEW drawn \in (IF screen = Moving THEN Screens ELSE {screen})
    PROVE  drawn.table \in SUBSET Alerts /\ drawn.priority \in Alerts
BY DEF VoiceTypeOK, Screens

\* A step that says no name.
LEMMA ListStays ==
    ASSUME SaidInv, UNCHANGED <<announced, spoken>>
    PROVE  ListKept'
BY SaidParts DEF ListKept, NamesKept

\* A step that leaves the histories.
LEMMA StoreStays ==
    ASSUME SaidInv, UNCHANGED histories, grown' \subseteq grown
    PROVE  StoreKept'
BY SaidParts DEF StoreKept, GrowthKept, Store, Tracked

\* What a table is looked at with.
LEMMA RememberedTypes ==
    ASSUME SaidInv, NEW table \in SUBSET Alerts, NEW rows \in Orders,
           NEW h \in Refreshed(table, rows)
    PROVE  /\ Store(h) /\ Remembered(table) \subseteq Alerts \ Laser
           /\ \A b \in Remembered(table) : b \in DOMAIN h /\ h[b].told
<1>1. /\ Store(histories) /\ grown \subseteq Alerts \ Laser
      /\ \A b \in grown : b \in Tracked /\ histories[b].told
      BY DEF SaidInv, VoiceTypeOK, Store, Tracked, GrowthKept
<1>2. /\ Store(h)
      /\ ~Crowded(table) => \A b \in Tracked \intersect table :
                                histories[b].told => b \in DOMAIN h /\ h[b].told
      <2> USE <1>1
      <2> QED
            BY RefreshedTypes
<1>3. \A b \in Remembered(table) : b \in grown /\ b \in table /\ ~Crowded(table)
      BY DEF Remembered, Stays
<1> QED
      BY <1>1, <1>2, <1>3

\* No growth is said.
LEMMA WatchKeeps ==
    ASSUME SaidInv, NEW table \in SUBSET Alerts, NEW rows \in Orders,
           NEW h \in Refreshed(table, rows), Watch(table, h)
    PROVE  StoreKept' /\ sinceVoice' \in 0 .. Cooldown /\ repeated' = {}
<1>1. histories' = h /\ grown' = Remembered(table) /\ UNCHANGED <<sinceVoice, repeated>>
      BY DEF Watch
<1>2. repeated = {} /\ sinceVoice \in 0 .. Cooldown
      BY DEF SaidInv, SaidOnce, VoiceTypeOK
<1>3. /\ Store(h) /\ Remembered(table) \subseteq Alerts \ Laser
      /\ \A b \in Remembered(table) : b \in DOMAIN h /\ h[b].told
      BY RememberedTypes
<1> QED
      BY <1>1, <1>2, <1>3 DEF StoreKept, GrowthKept, Tracked, Store

\* A growth that is said is one that was not said of an alert that stayed.
LEMMA SayGrowthKeeps ==
    ASSUME SaidInv, NEW table \in SUBSET Alerts, NEW rows \in Orders,
           NEW h \in Refreshed(table, rows), NEW a \in Alerts \ Laser,
           a \in DOMAIN h, ~h[a].told, SayGrowth(table, h, a)
    PROVE  StoreKept' /\ sinceVoice' \in 0 .. Cooldown /\ repeated' = {}
<1>1. /\ Store(h) /\ Remembered(table) \subseteq Alerts \ Laser
      /\ \A b \in Remembered(table) : b \in DOMAIN h /\ h[b].told
      BY RememberedTypes
<1>2. repeated = {}
      BY DEF SaidInv, SaidOnce
<1>3. /\ histories' = [h EXCEPT ![a].told = TRUE, ![a].strong = Unset]
      /\ sinceVoice' = 0 /\ grown' = Remembered(table) \union {a} /\ repeated' = {}
      BY <1>1, <1>2 DEF SayGrowth
<1>4. h \in [DOMAIN h -> History] /\ h[a] \in History
      BY <1>1 DEF Store
<1> DEFINE new == [h[a] EXCEPT !.told = TRUE, !.strong = Unset]
<1>5. new \in History /\ new.told
      <2>1. Unset \in Unset .. Sustained
            BY VoiceConstants DEF Unset
      <2> QED
            BY <1>4, <2>1 DEF History
<1>6. histories' = [h EXCEPT ![a] = new]
      BY <1>3, <1>4 DEF History
<1> HIDE DEF new
<1>7. /\ DOMAIN histories' = DOMAIN h /\ histories' \in [DOMAIN h -> History]
      /\ histories'[a].told /\ \A b \in DOMAIN h : b # a => histories'[b] = h[b]
      BY <1>4, <1>5, <1>6
<1>8. Store(histories)'
      <2>1. (DOMAIN histories)' = DOMAIN h
            BY <1>7
      <2> QED
            BY <1>1, <1>7, <2>1 DEF Store
<1>9. GrowthKept'
      BY <1>1, <1>3, <1>7 DEF GrowthKept, Tracked
<1> QED
      BY <1>1, <1>3, <1>8, <1>9, VoiceConstants DEF StoreKept

\* The two together.
LEMMA EscalateKeeps ==
    ASSUME SaidInv, NEW table \in SUBSET Alerts, NEW p, Escalate(table, p)
    PROVE  StoreKept' /\ sinceVoice' \in 0 .. Cooldown /\ repeated' = {}
<1>1. PICK rows, h :
          /\ rows \in Orders /\ h \in Refreshed(table, rows)
          /\ \/ Watch(table, h)
             \/ /\ Growing(h, table, p) # {}
                /\ SayGrowth(table, h, First(rows, Growing(h, table, p)))
      BY DEF Escalate
<1>2. CASE Watch(table, h)
      BY <1>1, <1>2, WatchKeeps
<1>3. CASE /\ Growing(h, table, p) # {}
           /\ SayGrowth(table, h, First(rows, Growing(h, table, p)))
      <2>1. Growing(h, table, p) \in SUBSET (Alerts \ Laser)
            BY DEF Growing
      <2>2. First(rows, Growing(h, table, p)) \in Growing(h, table, p)
            BY <1>1, <1>3, <2>1, FirstIsOne
      <2>3. PICK a \in Growing(h, table, p) : SayGrowth(table, h, a)
            BY <1>3, <2>2
      <2>4. a \in Alerts \ Laser /\ a \in DOMAIN h /\ ~h[a].told
            BY <2>1 DEF Growing, HasGrown
      <2> QED
            BY <1>1, <2>3, <2>4, SayGrowthKeeps
<1> QED
      BY <1>1, <1>2, <1>3


\* A table that is looked at.
LEMMA ProcessKeeps ==
    ASSUME SaidInv, NEW table \in SUBSET Alerts, NEW p \in Alerts, Process(table, p)
    PROVE  SaidInv'
<1> DEFINE Said == /\ last \in Alerts \union {NoAlert}
                   /\ sinceVoice \in 0 .. Cooldown /\ sincePriority \in 0 .. Gap
                   /\ repeated = {} /\ ListKept /\ StoreKept
<1>1. /\ Said /\ stable \in Unset .. Stability
      /\ options \in Options /\ screen \in Screens \union {Moving}
      BY SaidParts
<1>2. 0 \in 0 .. Cooldown /\ 0 \in 0 .. Gap /\ Stays(table) \subseteq grown
      BY VoiceConstants DEF Stays
<1>3. ASSUME Quiet(table) /\ UNCHANGED histories PROVE Said'
      <2>1. /\ UNCHANGED <<last, sinceVoice, sincePriority, announced, spoken, repeated>>
            /\ grown' \subseteq grown /\ UNCHANGED histories
            BY <1>2, <1>3 DEF Quiet
      <2>2. ListKept' /\ StoreKept'
            BY <2>1, ListStays, StoreStays
      <2> QED
            BY <1>1, <2>1, <2>2
<1>4. ASSUME AnnouncePriority(table, p) PROVE Said'
      <2>1. /\ last' = p /\ sincePriority' = 0 /\ sinceVoice' = 0 /\ repeated' = repeated
            /\ Name(p) /\ grown' \subseteq grown /\ UNCHANGED histories
            BY <1>2, <1>4 DEF AnnouncePriority, Name
      <2>2. ListKept' /\ StoreKept'
            BY <2>1, NameKeeps, StoreStays
      <2> QED
            BY <1>1, <1>2, <2>1, <2>2
<1>5. ASSUME AnnounceDirection(table, p) PROVE Said'
      <2>1. /\ sinceVoice' = 0 /\ sincePriority' = 0 /\ grown' \subseteq grown
            /\ UNCHANGED <<last, announced, histories, spoken, repeated>>
            BY <1>2, <1>5 DEF AnnounceDirection
      <2>2. ListKept' /\ StoreKept'
            BY <2>1, ListStays, StoreStays
      <2> QED
            BY <1>1, <1>2, <2>1, <2>2
<1>6. ASSUME AnnounceSecondary(table, p) PROVE Said'
      <2>1. PICK a \in Unnamed(table, p) :
               /\ Name(a)
               /\ repeated' = IF a \in spoken /\ Cardinality(spoken) <= MaxAnnounced
                              THEN repeated \union {"name"} ELSE repeated
            BY <1>6 DEF AnnounceSecondary
      <2>2. a \in Alerts /\ a \notin announced /\ sinceVoice' = 0
            BY <2>1 DEF Unnamed, Name
      <2>3. repeated' = {}
            BY <1>1, <2>1, <2>2 DEF ListKept, NamesKept
      <2>4. grown' \subseteq grown /\ UNCHANGED <<last, sincePriority, histories>>
            BY <1>2, <1>6 DEF AnnounceSecondary
      <2>5. ListKept' /\ StoreKept'
            BY <2>1, <2>2, <2>4, NameKeeps, StoreStays
      <2> QED
            BY <1>1, <1>2, <2>2, <2>3, <2>4, <2>5
<1>7. ASSUME Escalate(table, p) PROVE Said'
      <2>1. UNCHANGED <<last, sincePriority, announced, spoken>>
            BY <1>7 DEF Escalate
      <2>2. StoreKept' /\ sinceVoice' \in 0 .. Cooldown /\ repeated' = {}
            BY <1>7, EscalateKeeps
      <2>3. ListKept'
            BY <2>1, ListStays
      <2> QED
            BY <1>1, <2>1, <2>2, <2>3
<1>8. Said'
      <2> HIDE DEF Said
      <2> QED
            BY <1>3, <1>4, <1>5, <1>6, <1>7
            DEF Process, SkipPriority, ThrottleDirection, SayNothing
<1>9. /\ stablePriority' = p /\ stable' \in Unset .. Stability
      /\ options' = options /\ screen' = screen
      <2>1. stablePriority' = p /\ stable' = StableFor(p) /\ UNCHANGED <<options, screen>>
            BY DEF Process
      <2> QED
            BY <1>1, <2>1, VoiceConstants DEF StableFor, Unset
<1> QED
      BY <1>8, <1>9, <1>1
      DEF SaidInv, VoiceTypeOK, SaidOnce, ListKept, StoreKept, Store, Tracked, Screens, Moving

\* Time passes.
LEMMA TickKeeps ==
    ASSUME SaidInv, VoiceTick
    PROVE  SaidInv'
<1>1. /\ histories \in [Tracked -> History] /\ sinceVoice \in 0 .. Cooldown
      /\ sincePriority \in 0 .. Gap /\ stable \in Unset .. Stability
      BY DEF SaidInv, VoiceTypeOK
<1>2. \A most \in Nat : \A age \in Unset .. most : Later(age, most) \in Unset .. most
      BY DEF Later, Unset
<1>3. \A most \in Nat : \A age \in 0 .. most : Later(age, most) \in 0 .. most
      BY DEF Later, Unset
<1>4. /\ sinceVoice' \in 0 .. Cooldown /\ sincePriority' \in 0 .. Gap
      /\ stable' \in Unset .. Stability
      BY <1>1, <1>2, <1>3, VoiceConstants DEF VoiceTick
<1> DEFINE Ticked(history) == [history EXCEPT !.age = Later(@, Stale + 1),
                                            !.strong = Later(@, Sustained)]
<1>5. ASSUME NEW history \in History
      PROVE  Ticked(history) \in History /\ Ticked(history).told = history.told
      <2>1. /\ history.age \in 0 .. Stale + 1 /\ history.strong \in Unset .. Sustained
            /\ Stale + 1 \in Nat /\ Sustained \in Nat
            BY VoiceConstants DEF History
      <2>2. /\ Later(history.age, Stale + 1) \in 0 .. Stale + 1
            /\ Later(history.strong, Sustained) \in Unset .. Sustained
            BY <1>2, <1>3, <2>1
      <2> QED
            BY <2>2 DEF History
<1>6. histories' = [a \in Tracked |-> Ticked(histories[a])]
      BY DEF VoiceTick
<1> HIDE DEF Ticked
<1>7. /\ Tracked' = Tracked /\ histories' \in [Tracked -> History]
      /\ \A a \in Tracked : histories'[a].told = histories[a].told
      BY <1>1, <1>5, <1>6 DEF Tracked
<1>8. UNCHANGED <<last, stablePriority, announced, options, screen, spoken, grown, repeated>>
      BY DEF VoiceTick, ghosts
<1>9. VoiceTypeOK'
      BY <1>4, <1>7, <1>8 DEF SaidInv, VoiceTypeOK, Screens, Moving
<1>10. NamesKept' /\ GrowthKept' /\ SaidOnce'
      BY <1>7, <1>8 DEF SaidInv, NamesKept, GrowthKept, SaidOnce
<1> QED
      BY <1>9, <1>10 DEF SaidInv

LEMMA SaidNext == SaidInv /\ [VoiceNext]_voiceVars => SaidInv'
<1> SUFFICES ASSUME SaidInv, [VoiceNext]_voiceVars PROVE SaidInv'
    OBVIOUS
<1>1. CASE Frame
      <2>1. PICK drawn \in (IF screen = Moving THEN Screens ELSE {screen}) :
                Process(drawn.table, drawn.priority)
            BY <1>1 DEF Frame
      <2> QED
            BY <2>1, ScreenTypes, ProcessKeeps DEF SaidInv
<1>2. CASE SilencedFrame
      <2>1. PICK table : grown' = Stays(table)
            BY <1>2 DEF SilencedFrame
      <2>2. UNCHANGED <<announced, spoken, histories, repeated>>
            BY <1>2 DEF SilencedFrame
      <2>3. ListKept' /\ StoreKept'
            BY <2>1, <2>2, ListStays, StoreStays DEF Stays
      <2>4. UNCHANGED <<last, sinceVoice, sincePriority, stablePriority, stable, options,
                        screen, repeated>>
            BY <1>2 DEF SilencedFrame
      <2> QED
            BY <2>3, <2>4
            DEF SaidInv, VoiceTypeOK, SaidOnce, ListKept, StoreKept, Store, Tracked, Screens, Moving
<1>3. CASE ClearVoice
      <2>1. Tracked' = {} /\ histories' \in [{} -> History]
            BY <1>3 DEF ClearVoice, Tracked
      <2>2. Cardinality({}) = 0
            BY FS_EmptySet
      <2>3. VoiceTypeOK'
            BY <1>3, <2>1, <2>2, VoiceConstants DEF ClearVoice, SaidInv, VoiceTypeOK, Unset
      <2> QED
            BY <1>3, <2>3 DEF ClearVoice, SaidInv, NamesKept, GrowthKept, SaidOnce
<1>4. CASE Settle
      BY <1>4 DEF Settle, ghosts, SaidInv, VoiceTypeOK, Tracked, NamesKept, GrowthKept, SaidOnce
<1>5. CASE VoiceTick
      BY <1>5, TickKeeps
<1>6. CASE UNCHANGED voiceVars
      BY <1>6 DEF voiceVars, ghosts, SaidInv, VoiceTypeOK, Tracked, NamesKept, GrowthKept,
                  SaidOnce
<1> QED
      BY <1>1, <1>2, <1>3, <1>4, <1>5, <1>6 DEF VoiceNext

LEMMA SaidHolds == VoiceSpec => []SaidInv
BY SaidInit, SaidNext, PTL DEF VoiceSpec

\* The list of announced alerts and the histories of VoiceModule never outgrow their
\* arrays, whatever is recycled, and the times stay in range.
THEOREM VoiceTypeCorrect == VoiceSpec => []VoiceTypeOK
<1>1. SaidInv => VoiceTypeOK
      BY DEF SaidInv
<1> QED
      BY <1>1, SaidHolds, PTL

\* Nothing is said twice by the rules of VoiceModule::process() against it: no name of
\* another alert while the list has room, no growth of an alert that stays.
THEOREM NothingIsSaidTwice == VoiceSpec => []SaidOnce
<1>1. SaidInv => SaidOnce
      BY DEF SaidInv
<1> QED
      BY <1>1, SaidHolds, PTL
=============================================================================
