------------------------- MODULE ObdRuntime_proofs --------------------------
(***************************************************************************)
(* The OBD runtime asks the BLE task for one thing at a time, through three *)
(* slots that two threads write, and hears of its connection through a     *)
(* queue that drops its oldest entry.  Proved here, for any set of         *)
(* adapters, any limits, any depth of the queue and any choice of races:   *)
(*                                                                         *)
(*   - one slot carries the request the machine waits for (OneAtATime);    *)
(*   - a state that waits for an answer waits for one it takes             *)
(*     (AnswerFits);                                                       *)
(*   - a machine that believes in a link that is down hears of its loss    *)
(*     (LossKnown), which needs that a scan and the queue do not crowd the *)
(*     loss out (ScanMatches).                                             *)
(*                                                                         *)
(* With no call of the driver overtaking what is on its way, a pairing     *)
(* saves only the adapter that answered it (PairedLink, PairedTask).       *)
(***************************************************************************)
EXTENDS ObdRuntime, TLAPS

\* A slot is filled, and the machine still wants what is in it.
Current(slot) == slot # None /\ slot.current

\* What the machine waits for is in exactly one slot; a slot it has turned away
\* from (resetRuntimeState()) may be filled beside it.
OneAtATime ==
    /\ Current(executing) => request = None
    /\ Current(result) => request = None /\ executing = None
    /\ op = None => ~Current(request) /\ ~Current(executing) /\ ~Current(result)
    /\ op # None => /\ ready = None
                    /\ \/ Current(request) /\ request.op = op
                       \/ Current(executing) /\ executing.op = op
                       \/ Current(result) /\ result.op = op

---------------------------------------------------------------------------
(* What a step does to the request under way *)

\* The connection is already there: the request that was made is not awaited.
AlreadyUp ==
    /\ CanBegin /\ op' = None /\ ready' = None /\ UNCHANGED executing
    /\ request' = [op |-> "CONNECT", to |-> Address, current |-> FALSE]

\* The answer is there when the pass begins.
Answered == ReadyNow # None

\* What a pass of update() does to the slots: pumpAsyncResult() always empties
\* the result, and then at most one thing more is done.
PassAsks ==
    /\ result' = None
    /\ \/ Pump
       \/ Answered /\ Take
       \/ \E o \in Ops : BeginRequest(o) /\ (o = "CONNECT" => state = "CONNECTING")
       \/ RequestRefused
       \/ ClearRequest
       \/ AlreadyUp /\ state = "CONNECTING"

\* What a call of the driver, or a callback, does to them.
DriverAsks ==
    \/ ClearRequest /\ result' = Stale(result)
    \/ UNCHANGED <<asking, task, result>>

\* Every branch of the machine asks in one of these ways.
LEMMA UpdateAsks == ASSUME Update PROVE PassAsks
<1> USE DEF PassAsks, Pass
<1>1. CASE Idle \/ IdleScan \/ WaitBoot \/ WaitBootEnds \/ Scanning \/ ScanFinds \/ ScanExpires
      BY <1>1, Zenon
      DEF Idle, IdleScan, WaitBoot, WaitBootEnds, Scanning, ScanFinds, ScanExpires, Wait
<1>2. CASE Connecting \/ ConnectComesUp \/ ConnectTimesOut
      BY <1>2, Zenon DEF Connecting, ConnectComesUp, ConnectTimesOut, ConnectLate, Has, Answered
<1>3. CASE ConnectBegins \/ ConnectFails
      BY <1>3, Zenon
      DEF ConnectBegins, ConnectFails, ConnectLate, ConnectRefused, Has, Answered, AlreadyUp,
          Ops
<1>4. CASE SetupLost("DISCOVERING") \/ Discovering \/ DiscoverBegins \/ Discovered
           \/ Subscribed \/ DiscoverFails
      BY <1>4, Zenon
      DEF SetupLost, Discovering, DiscoverBegins, Discovered, Subscribed, DiscoverFails,
          DiscoverAsks, Has, Answered, Ops
<1>5. CASE SetupLost("AT_INIT") \/ AtInit \/ InitSends \/ InitWritten \/ InitUnwritten
           \/ InitAnswered \/ InitUnanswered \/ InitDone
      BY <1>5, Zenon
      DEF SetupLost, AtInit, InitSends, InitWritten, InitUnwritten, InitAnswered,
          InitUnanswered, InitDone, InitPass, Retry, RetryRefused, Has, Answered, Ops
<1>6. CASE PollLost \/ Polling \/ PollSends \/ PollWritten \/ PollUnwritten
      BY <1>6, Zenon
      DEF PollLost, Polling, PollSends, PollWritten, PollUnwritten, PollPass, PollNext, Has,
          Answered, Ops
<1>7. CASE PollAnswered \/ PollBadAnswer \/ PollUnanswered
      BY <1>7, Zenon
      DEF PollAnswered, PollBadAnswer, PollUnanswered, PollPass, PollNext, Retry,
          RetryRefused, Has, Answered, Ops
<1>8. CASE Backoff \/ BackoffEnds \/ Disconnected \/ Reconnects \/ EcuIdle \/ EcuIdleResumes
           \/ EcuIdleProbes
      BY <1>8, Zenon
      DEF Backoff, BackoffEnds, Disconnected, Reconnects, EcuIdle, EcuIdleResumes,
          EcuIdleProbes, Rest
<1> QED
      BY <1>1, <1>2, <1>3, <1>4, <1>5, <1>6, <1>7, <1>8, Zenon DEF Update

\* So does every step: the other steps are the task's.
LEMMA StepAsks ==
    ASSUME Next
    PROVE  \/ PassAsks \/ DriverAsks \/ Receive \/ Execute
<1>1. CASE Driver
      BY <1>1, Zenon DEF Driver, SetEnabledOff, SetEnabledOn, ManualPair, Forget, DriverAsks
<1>2. CASE Callbacks
      BY <1>2, Zenon
      DEF Callbacks, LinkUp, LinkDown, OnBleDisconnect, OnBleData, OnDeviceFound, OnScanEnd,
          Host, DriverAsks
<1> QED
      BY <1>1, <1>2, UpdateAsks, Zenon DEF Next

\* A request that is turned away from keeps its type and is current no more.
LEMMA StaleType ==
    ASSUME NEW slot \in Request \union {None}
    PROVE  Stale(slot) \in Request \union {None} /\ ~Current(Stale(slot))
<1>1. ASSUME NEW b \in BOOLEAN, slot \in Request
      PROVE  [slot EXCEPT !.current = b] \in Request /\ [slot EXCEPT !.current = b].current = b
      BY <1>1 DEF Request
<1> QED
      BY <1>1 DEF Stale, Current

\* The same for a result.
LEMMA StaleResultType ==
    ASSUME NEW slot \in Result \union {None}
    PROVE  Stale(slot) \in Result \union {None} /\ ~Current(Stale(slot))
<1>1. ASSUME NEW b \in BOOLEAN, slot \in Result
      PROVE  [slot EXCEPT !.current = b] \in Result /\ [slot EXCEPT !.current = b].current = b
      BY <1>1 DEF Result
<1> QED
      BY <1>1 DEF Stale, Current

\* No step puts what the machine waits for in two slots, or in none.
LEMMA TaskStep ==
    ASSUME TypeTask, TypeLink, OneAtATime, Next
    PROVE  TypeTask' /\ OneAtATime'
<1> USE NoneAssumption DEF TypeTask, OneAtATime
<1>1. ASSUME NEW o \in Ops, NEW c \in BOOLEAN
      PROVE  /\ [op |-> o, to |-> Address, current |-> c] \in Request
             /\ [op |-> o, to |-> Address, current |-> c] # None
      BY DEF TypeLink, Pairing, Address, Request, Addresses
<1>2. CASE PassAsks
      <2>1. OpNow \in Ops \union {None} /\ ReadyNow \in Result \union {None}
            BY DEF OpNow, ReadyNow, Awaited
      <2>2. OpNow # None => OpNow = op /\ ~Current(result) /\ ReadyNow = None
            BY DEF OpNow, ReadyNow, Awaited, Current
      <2>3. OpNow = None => ~Current(request) /\ ~Current(executing)
            BY DEF OpNow, Awaited, Current
      <2>4. CASE Pump
            BY <1>2, <2>1, <2>2, <2>3, <2>4 DEF PassAsks, Pump, task, Current
      <2>5. CASE Answered /\ Take
            BY <1>2, <2>1, <2>2, <2>3, <2>5 DEF PassAsks, Answered, Take, task, Current
      <2>6. CASE \E o \in Ops : BeginRequest(o)
            <3>1. PICK o \in Ops : BeginRequest(o)
                  BY <2>6
            <3>2. /\ request' = [op |-> o, to |-> Address, current |-> TRUE]
                  /\ op' = o /\ ready' = None /\ executing' = executing /\ result' = None
                  /\ ~Current(executing)
                  BY <1>2, <2>3, <3>1 DEF PassAsks, BeginRequest, CanBegin
            <3>3. request' \in Request /\ request' # None
                  BY <1>1, <3>2
            <3>4. request'.op = o /\ request'.current
                  BY <3>2
            <3> QED
                  BY <3>2, <3>3, <3>4 DEF Current
      <2>7. CASE RequestRefused
            BY <1>2, <2>1, <2>2, <2>3, <2>7 DEF PassAsks, RequestRefused, task, Current
      <2>8. CASE ClearRequest
            BY <1>2, <2>8, StaleType DEF PassAsks, ClearRequest, Current
      <2>9. CASE AlreadyUp
            BY <1>1, <1>2, <2>3, <2>9 DEF PassAsks, AlreadyUp, CanBegin, Current, Ops
      <2> QED
            BY <1>2, <2>4, <2>5, <2>6, <2>7, <2>8, <2>9 DEF PassAsks
<1>3. CASE DriverAsks
      BY <1>3, StaleType, StaleResultType DEF DriverAsks, ClearRequest, asking, task, Current
<1>4. CASE Receive
      BY <1>4 DEF Receive, asking, Current
<1>5. CASE Execute
      <2>1. PICK ok \in BOOLEAN : executing # None /\ Finish(ok)
            BY <1>5 DEF Execute, ExecuteConnect, ExecuteGatt, ExecuteRssi
      <2>2. /\ result' \in Result /\ result'.op = executing.op /\ result'.current = executing.current
            BY <2>1 DEF Finish, Result, Request
      <2> QED
            BY <2>1, <2>2 DEF Finish, asking, Current
<1> QED
      BY <1>2, <1>3, <1>4, <1>5, StepAsks

---------------------------------------------------------------------------
(* The answer the machine waits for *)

\* What a state waits for; ERROR_BACKOFF, which takes no answer, passes what
\* it has on to POLLING.
AnswerFits ==
    /\ Unsent /\ state \in {"AT_INIT", "POLLING"} => OpInHand = "WRITE"
    /\ state = "DISCOVERING" => OpInHand \in {None, "DISCOVER", "SUBSCRIBE"}
    /\ state = "AT_INIT" => OpInHand \in {None, "WRITE"}
    /\ state \in {"POLLING", "ERROR_BACKOFF"} => OpInHand \in {None, "WRITE", "RSSI_READ"}
    /\ state = "ERROR_BACKOFF" => command = "none"

\* What each way to ask makes of what is awaited.
LEMMA AskedFor ==
    ASSUME TypeTask, OneAtATime
    PROVE  /\ Pump => OpInHand' = OpInHand
           /\ Answered /\ Take => OpInHand' = None
           /\ \A o \in Ops : BeginRequest(o) => OpInHand' = o
           /\ RequestRefused => OpInHand' \in {None, OpInHand}
           /\ ClearRequest \/ AlreadyUp \/ (op' = None /\ ready' = None) => OpInHand' = None
           /\ UNCHANGED asking => OpInHand' = OpInHand
           /\ \A o : Has(o) => OpInHand = o /\ Answered
           /\ OpNow = None /\ ReadyNow = None => OpInHand = None
<1> USE NoneAssumption DEF TypeTask, OneAtATime
<1>1. Awaited => op # None /\ result.op = op /\ ready = None /\ OpNow = None /\ ReadyNow = result
      BY DEF Awaited, Current, OpNow, ReadyNow
<1>2. ~Awaited => OpNow = op /\ ReadyNow = ready
      BY DEF Awaited, OpNow, ReadyNow
<1>3. result # None => result.op \in Ops
      BY DEF Result
<1>4. ready # None => ready.op \in Ops /\ op = None
      BY DEF Result
<1>5. Pump => OpInHand' = OpInHand
      BY <1>1, <1>2, <1>3 DEF Pump, OpInHand, Awaited
<1>6. Answered /\ Take => OpInHand' = None
      BY <1>1, <1>2, <1>4 DEF Answered, Take, OpInHand
<1>7. \A o \in Ops : BeginRequest(o) => OpInHand' = o
      BY DEF BeginRequest, OpInHand
<1>8. RequestRefused => OpInHand' \in {None, OpInHand}
      BY <1>1, <1>2, <1>4 DEF RequestRefused, OpInHand
<1>9. ClearRequest \/ AlreadyUp \/ (op' = None /\ ready' = None) => OpInHand' = None
      BY DEF ClearRequest, AlreadyUp, OpInHand
<1>10. UNCHANGED asking => OpInHand' = OpInHand
      BY DEF asking, OpInHand
<1>11. \A o : Has(o) => OpInHand = o /\ Answered
      BY <1>1, <1>2, <1>4 DEF Has, Answered, OpInHand, Awaited
<1>12. OpNow = None /\ ReadyNow = None => OpInHand = None
      BY <1>1, <1>2 DEF OpInHand, Awaited
<1> QED
      BY <1>5, <1>6, <1>7, <1>8, <1>9, <1>10, <1>11, <1>12

\* No step leaves a state waiting for an answer it would not take.
LEMMA AnswerStep ==
    ASSUME TypeTask, OneAtATime, AnswerFits, Next
    PROVE  AnswerFits'
<1> USE NoneAssumption
DEF AnswerFits, Unsent, Sent, NoExchange, GoTo, Stay, Pass, ConnectFailure, exchange
<1>0. /\ "WRITE" \in Ops /\ "CONNECT" \in Ops /\ "DISCOVER" \in Ops
      /\ "SUBSCRIBE" \in Ops /\ "RSSI_READ" \in Ops
      BY DEF Ops
<1>1. CASE Idle \/ IdleScan \/ WaitBoot \/ WaitBootEnds \/ Scanning \/ ScanFinds \/ ScanExpires
      BY <1>1 DEF Idle, IdleScan, WaitBoot, WaitBootEnds, Scanning, ScanFinds, ScanExpires, Wait
<1>2. CASE Connecting \/ ConnectComesUp \/ ConnectTimesOut \/ ConnectBegins \/ ConnectFails
      BY <1>0, <1>2, AskedFor
      DEF Connecting, ConnectComesUp, ConnectTimesOut, ConnectBegins, ConnectFails
<1>4. CASE SetupLost("DISCOVERING") \/ Discovering \/ DiscoverBegins \/ Discovered
           \/ Subscribed \/ DiscoverFails
      BY <1>0, <1>4, AskedFor
      DEF SetupLost, Discovering, DiscoverBegins, Discovered, Subscribed, DiscoverFails,
          DiscoverAsks, SetupFails
<1>5. CASE SetupLost("AT_INIT") \/ AtInit \/ InitSends \/ InitWritten \/ InitUnwritten
      BY <1>0, <1>5, AskedFor
      DEF SetupLost, AtInit, InitSends, InitWritten, InitUnwritten, InitPass, InitWriteFailed,
          HealBond, SetupFails
<1>51. CASE InitAnswered \/ InitUnanswered \/ InitDone
      BY <1>0, <1>51, AskedFor
      DEF InitAnswered, InitUnanswered, InitDone, InitPass, Retry, RetryRefused, ColdFallback,
          SetupFails
<1>6. CASE PollLost \/ Polling \/ PollWritten \/ PollUnwritten
      BY <1>0, <1>6, AskedFor DEF PollLost, Polling, PollWritten, PollUnwritten, PollPass, PollError
<1>7. CASE PollSends \/ PollAnswered \/ PollBadAnswer \/ PollUnanswered
      BY <1>0, <1>7, AskedFor
      DEF PollSends, PollNext, PollAnswered, PollBadAnswer, PollUnanswered, PollPass,
          PollError, Retry, RetryRefused
<1>8. CASE Backoff \/ BackoffEnds \/ Disconnected \/ Reconnects \/ EcuIdle \/ EcuIdleResumes
           \/ EcuIdleProbes
      BY <1>8, AskedFor
      DEF Backoff, BackoffEnds, Disconnected, Reconnects, EcuIdle, EcuIdleResumes,
          EcuIdleProbes, Rest
<1>9. CASE Driver
      BY <1>9 DEF Driver, SetEnabledOff, SetEnabledOn, ManualPair, Forget, Interrupted
<1>10. CASE Receive \/ Execute
      BY <1>10, AskedFor
      DEF Receive, Execute, ExecuteConnect, ExecuteGatt, ExecuteRssi, Finish, machine
<1>11. CASE Callbacks
      BY <1>11, AskedFor
      DEF Callbacks, LinkUp, LinkDown, OnBleDisconnect, OnBleData, OnDeviceFound, OnScanEnd,
          Host, machine
<1> QED
      BY <1>1, <1>2, <1>4, <1>5, <1>51, <1>6, <1>7, <1>8, <1>9, <1>10, <1>11 DEF Next, Update

---------------------------------------------------------------------------
(* The queue of events *)

\* What a notification does to the queue: a loss is never dropped unseen by
\* its own arrival, and no answer of a scan appears by another event's.
LEMMA Queued ==
    ASSUME TypeEvents, NEW e \in Event, Enqueue(e)
    PROVE  /\ TypeEvents'
           /\ e.type = "lost" => Came("lost")'
           /\ Came("found")' => Came("found") \/ e.type = "found"
<1> USE DepthAssumption DEF TypeEvents
<1>1. [type |-> "bad"] \in Event /\ [type |-> "bad"].type = "bad"
      BY DEF Event
<1>2. CASE Len(events) < EventDepth
      <2>1. events' = Append(events, e)
            BY <1>2 DEF Enqueue
      <2>2. /\ Len(events') = Len(events) + 1 /\ events'[Len(events) + 1] = e
            /\ \A i \in 1 .. Len(events) : events'[i] = events[i]
            BY <2>1
      <2>3. events' \in Seq(Event) /\ Len(events') <= EventDepth
            BY <1>2, <2>1, <2>2
      <2> QED
            BY <2>2, <2>3 DEF Came
<1>3. CASE ~ Len(events) < EventDepth
      <2> DEFINE last == IF IsData(e) /\ IsData(Head(events)) THEN [type |-> "bad"] ELSE e
      <2>1. last \in Event /\ (last = e \/ (last.type = "bad" /\ e.type # "lost"))
            BY <1>1 DEF IsData
      <2>2. events' = Append(Tail(events), last)
            BY <1>3 DEF Enqueue
      <2> HIDE DEF last
      <2>3. events # <<>> /\ Len(events) = EventDepth /\ Len(events) \in Nat \ {0}
            BY <1>3
      <2>4. /\ Tail(events) \in Seq(Event) /\ Len(Tail(events)) = Len(events) - 1
            /\ \A i \in 1 .. Len(events) - 1 : Tail(events)[i] = events[i + 1]
            BY <2>3
      <2>5. /\ events' \in Seq(Event) /\ Len(events') = Len(events)
            /\ events'[Len(events)] = last
            /\ \A i \in 1 .. Len(events) - 1 : events'[i] = events[i + 1]
            BY <2>1, <2>2, <2>3, <2>4
      <2> QED
            BY <2>1, <2>3, <2>5 DEF Came
<1> QED
      BY <1>2, <1>3

\* update() handles every event it finds.
LEMMA Emptied ==
    ASSUME events' = <<>>
    PROVE  TypeEvents' /\ ~Came("found")' /\ ~Came("lost")'
BY DepthAssumption DEF TypeEvents, Came

\* The events that are queued are events.
LEMMA EventTypes ==
    /\ [type |-> "lost"] \in Event
    /\ \A t \in {"good", "bad"} : [type |-> t] \in Event
    /\ \A a \in Adapters : [type |-> "found", from |-> a] \in Event
BY DEF Event

\* What a pass finds is an adapter whose event is in the queue.
LEMMA Found ==
    ASSUME TypeEvents
    PROVE  FoundNow \subseteq Adapters /\ (FoundNow # {} => Came("found"))
BY DEF TypeEvents, FoundNow, Came, Event

\* Every branch of update() leaves the queue empty.
LEMMA UpdateEmpties == ASSUME Update PROVE events' = <<>>
BY Zenon
DEF Update, Pass, Idle, IdleScan, WaitBoot, WaitBootEnds, Scanning, ScanFinds, ScanExpires,
    Connecting, ConnectBegins, ConnectComesUp, ConnectTimesOut, ConnectFails, SetupLost,
    Discovering, DiscoverBegins, Discovered, Subscribed, DiscoverFails, InitPass, AtInit,
    InitSends, InitWritten, InitUnwritten, InitAnswered, InitUnanswered, InitDone, PollPass,
    PollLost, Polling, PollSends, PollWritten, PollUnwritten, PollAnswered, PollBadAnswer,
    PollUnanswered, Backoff, BackoffEnds, Rest, Disconnected, Reconnects, EcuIdle,
    EcuIdleResumes, EcuIdleProbes

\* Every step keeps the queue within its depth.
LEMMA EventsStep ==
    ASSUME TypeEvents, Next
    PROVE  TypeEvents'
<1>1. CASE UNCHANGED events \/ events' = <<>>
      BY <1>1, Emptied DEF TypeEvents
<1>2. CASE Update
      BY <1>1, <1>2, UpdateEmpties
<1>3. CASE Driver \/ Receive \/ Execute
      BY <1>1, <1>3
      DEF Driver, SetEnabledOff, SetEnabledOn, ManualPair, Forget, Interrupted, Receive,
          Execute, ExecuteConnect, ExecuteGatt, ExecuteRssi, Finish
<1>4. CASE Callbacks
      BY <1>1, <1>4, Queued, EventTypes
      DEF Callbacks, LinkUp, LinkDown, OnBleDisconnect, OnBleData, OnDeviceFound, OnScanEnd
<1> QED
      BY <1>2, <1>3, <1>4 DEF Next

---------------------------------------------------------------------------
(* A scan belongs to a pairing *)

\* The states before a candidate is found.
Seeking == {"IDLE", "SCANNING"}

\* Only startManualPair() asks for a scan, and it is over when its first
\* answer is in the queue.
ScanMatches ==
    /\ ~enabled => state = "IDLE" /\ ~scanning
    /\ scanRequested => enabled /\ state = "IDLE" /\ pair.manual
    /\ state = "SCANNING" => pair.manual
    /\ scanning => state \in Seeking /\ ~Came("found")

\* No step leaves a scan running without a pairing that waits for it.
LEMMA ScanStep ==
    ASSUME TypeFlags, TypeEvents, ScanMatches, TypeLink, Next
    PROVE  ScanMatches'
<1> USE DEF ScanMatches, Seeking, NoPairing, SetTarget, TypeFlags, TypeLink, Pairing, GoTo,
            Stay, Pass, ConnectFailure, NoExchange, exchange, pairing, counters, initState,
            air
<1>0. /\ events' = <<>> => ~Came("found")'
      /\ UNCHANGED events => (Came("found")' <=> Came("found"))
      /\ FoundNow # {} => Came("found")
      /\ \A a : [pair EXCEPT !.target = a].manual = pair.manual
      /\ \A a : [pair EXCEPT !.candidate = a, !.target = a, !.preempt = FALSE].manual = pair.manual
      BY Emptied, Found DEF Came
<1>01. /\ \A t \in {"lost", "good", "bad"} : Enqueue([type |-> t]) /\ ~Came("found") => ~Came("found")'
      BY Queued, EventTypes
<1>1. CASE Idle \/ IdleScan \/ WaitBoot \/ WaitBootEnds
      BY <1>0, <1>1 DEF Idle, IdleScan, WaitBoot, WaitBootEnds, Wait
<1>2. CASE Scanning \/ ScanFinds \/ ScanExpires
      <2>1. CASE Scanning
            BY <1>0, <2>1 DEF Scanning, Wait
      <2>2. CASE ScanFinds
            BY <1>0, <2>2 DEF ScanFinds
      <2>3. CASE ScanExpires
            BY <1>0, <2>3 DEF ScanExpires
      <2> QED
            BY <1>2, <2>1, <2>2, <2>3
<1>3. CASE Connecting \/ ConnectComesUp \/ ConnectTimesOut \/ ConnectBegins \/ ConnectFails
      BY <1>0, <1>3 DEF Connecting, ConnectComesUp, ConnectTimesOut, ConnectBegins, ConnectFails
<1>4. CASE SetupLost("DISCOVERING") \/ Discovering \/ DiscoverBegins \/ Discovered
           \/ Subscribed \/ DiscoverFails
      BY <1>0, <1>4
      DEF SetupLost, Discovering, DiscoverBegins, Discovered, Subscribed, DiscoverFails,
          DiscoverAsks, SetupFails
<1>5. CASE SetupLost("AT_INIT") \/ AtInit \/ InitSends \/ InitWritten \/ InitUnwritten
      BY <1>0, <1>5
      DEF SetupLost, AtInit, InitSends, InitWritten, InitUnwritten, InitPass, InitWriteFailed,
          HealBond, SetupFails
<1>6. CASE InitAnswered \/ InitUnanswered \/ InitDone
      BY <1>0, <1>6
      DEF InitAnswered, InitUnanswered, InitDone, InitPass, Retry, RetryRefused, ColdFallback,
          SetupFails
<1>7. CASE PollLost \/ Polling \/ PollWritten \/ PollUnwritten
      BY <1>0, <1>7 DEF PollLost, Polling, PollWritten, PollUnwritten, PollPass, PollError
<1>8. CASE PollSends \/ PollAnswered \/ PollBadAnswer \/ PollUnanswered
      BY <1>0, <1>8
      DEF PollSends, PollNext, PollAnswered, PollBadAnswer, PollUnanswered, PollPass,
          PollError, Retry, RetryRefused
<1>9. CASE Backoff \/ BackoffEnds \/ Disconnected \/ Reconnects \/ EcuIdle \/ EcuIdleResumes
           \/ EcuIdleProbes
      BY <1>0, <1>9
      DEF Backoff, BackoffEnds, Disconnected, Reconnects, EcuIdle, EcuIdleResumes,
          EcuIdleProbes, Rest
<1>10. CASE Driver
      <2>1. CASE SetEnabledOff
            BY <1>0, <2>1 DEF SetEnabledOff, Interrupted
      <2>2. CASE SetEnabledOn
            BY <1>0, <2>2 DEF SetEnabledOn
      <2>3. CASE ManualPair
            BY <1>0, <2>3 DEF ManualPair, Interrupted
      <2>4. CASE Forget
            BY <1>0, <2>4 DEF Forget, Interrupted
      <2> QED
            BY <1>10, <2>1, <2>2, <2>3, <2>4 DEF Driver
<1>11. CASE Receive \/ Execute
      BY <1>0, <1>11 DEF Receive, Execute, ExecuteConnect, ExecuteGatt, ExecuteRssi, Finish, machine
<1>12. CASE Callbacks
      BY <1>0, <1>01, <1>12
      DEF Callbacks, LinkUp, LinkDown, OnBleDisconnect, OnBleData, OnDeviceFound, OnScanEnd,
          Host, machine
<1> QED
      BY <1>1, <1>2, <1>3, <1>4, <1>5, <1>6, <1>7, <1>8, <1>9, <1>10, <1>11, <1>01, <1>12
      DEF Next, Update

---------------------------------------------------------------------------
(* A lost connection is reported *)

\* The states in which the machine takes the connection for up.
Believes == state \in {"DISCOVERING", "AT_INIT", "POLLING", "ERROR_BACKOFF"}

\* The loss is still to be reported by the stack, or the machine has it.
LossKnown == Believes /\ ~IsConnected => owed \/ LostNow

\* No step hides a loss from a machine that believes in the link.
LEMMA LossStep ==
    ASSUME TypeFlags, TypeLink, TypeEvents, ScanMatches, LossKnown, Next
    PROVE  LossKnown'
<1> USE DEF LossKnown, Believes, IsConnected, LostNow, AfterDisconnect, TypeFlags, TypeLink,
            Links, GoTo, Stay, Pass, ConnectFailure, NoExchange, exchange, pairing, counters,
            initState, air
<1>0. /\ events' = <<>> => ~Came("lost")'
      /\ UNCHANGED events => (Came("lost")' <=> Came("lost"))
      /\ Enqueue([type |-> "lost"]) => Came("lost")'
      BY Emptied, Queued, EventTypes DEF Came
<1>1. CASE Idle \/ IdleScan \/ WaitBoot \/ WaitBootEnds
      BY <1>0, <1>1 DEF Idle, IdleScan, WaitBoot, WaitBootEnds, Wait
<1>2. CASE Scanning \/ ScanFinds \/ ScanExpires
      BY <1>0, <1>2 DEF Scanning, ScanFinds, ScanExpires, Wait
<1>3. CASE Connecting \/ ConnectComesUp \/ ConnectTimesOut \/ ConnectBegins \/ ConnectFails
      BY <1>0, <1>3 DEF Connecting, ConnectComesUp, ConnectTimesOut, ConnectBegins, ConnectFails
<1>4. CASE SetupLost("DISCOVERING") \/ Discovering \/ DiscoverBegins \/ Discovered
           \/ Subscribed \/ DiscoverFails
      BY <1>0, <1>4
      DEF SetupLost, Discovering, DiscoverBegins, Discovered, Subscribed, DiscoverFails,
          DiscoverAsks, SetupFails
<1>5. CASE SetupLost("AT_INIT") \/ AtInit \/ InitSends \/ InitWritten \/ InitUnwritten
      BY <1>0, <1>5
      DEF SetupLost, AtInit, InitSends, InitWritten, InitUnwritten, InitPass, InitWriteFailed,
          HealBond, SetupFails
<1>6. CASE InitAnswered \/ InitUnanswered \/ InitDone
      BY <1>0, <1>6
      DEF InitAnswered, InitUnanswered, InitDone, InitPass, Retry, RetryRefused, ColdFallback,
          SetupFails
<1>7. CASE PollLost \/ Polling \/ PollWritten \/ PollUnwritten
      BY <1>0, <1>7 DEF PollLost, Polling, PollWritten, PollUnwritten, PollPass, PollError
<1>8. CASE PollSends \/ PollAnswered \/ PollBadAnswer \/ PollUnanswered
      BY <1>0, <1>8
      DEF PollSends, PollNext, PollAnswered, PollBadAnswer, PollUnanswered, PollPass,
          PollError, Retry, RetryRefused
<1>9. CASE Backoff \/ BackoffEnds \/ Disconnected \/ Reconnects \/ EcuIdle \/ EcuIdleResumes
           \/ EcuIdleProbes
      BY <1>0, <1>9
      DEF Backoff, BackoffEnds, Disconnected, Reconnects, EcuIdle, EcuIdleResumes,
          EcuIdleProbes, Rest
<1>10. CASE Driver
      BY <1>0, <1>10
      DEF Driver, SetEnabledOff, SetEnabledOn, ManualPair, Forget, Interrupted, DisconnectBle
<1>11. CASE Receive \/ Execute
      BY <1>0, <1>11 DEF Receive, Execute, ExecuteConnect, ExecuteGatt, ExecuteRssi, Finish, machine
<1>12. CASE Callbacks
      BY <1>0, <1>12
      DEF ScanMatches, Seeking, Callbacks, LinkUp, LinkDown, OnBleDisconnect, OnBleData,
          OnDeviceFound, OnScanEnd, Host, machine
<1> QED
      BY <1>1, <1>2, <1>3, <1>4, <1>5, <1>6, <1>7, <1>8, <1>9, <1>10, <1>11, <1>12
      DEF ScanMatches, Seeking, Next, Update

---------------------------------------------------------------------------
(* The types *)

\* The last of the errors that a connection stands ends it.
PollBound == state = "POLLING" => errors < ErrorsBeforeDisconnect

\* No step takes the state, or a count, out of its range.
LEMMA MachineStep ==
    ASSUME TypeMachine, PollBound, Next
    PROVE  TypeMachine' /\ PollBound'
<1> USE LimitAssumption
DEF TypeMachine, PollBound, States, Commands, Responses, ResponseNow, GoTo, Stay, Pass,
    ConnectFailure, NoExchange, exchange, pairing, counters, initState, air
<1>1. CASE Idle \/ IdleScan \/ WaitBoot \/ WaitBootEnds
      BY <1>1 DEF Idle, IdleScan, WaitBoot, WaitBootEnds, Wait
<1>2. CASE Scanning \/ ScanFinds \/ ScanExpires
      <2>1. CASE Scanning
            BY <2>1 DEF Scanning, Wait
      <2>2. CASE ScanFinds
            <3>1. /\ attempts' = 0 /\ state' = "CONNECTING"
                  /\ UNCHANGED <<errors, cycles, index, command, response>>
                  BY <2>2 DEF ScanFinds
            <3> QED
                  BY <3>1
      <2>3. CASE ScanExpires
            BY <2>3 DEF ScanExpires
      <2> QED
            BY <1>2, <2>1, <2>2, <2>3
<1>3. CASE Connecting \/ ConnectComesUp \/ ConnectTimesOut \/ ConnectBegins \/ ConnectFails
      BY <1>3 DEF Connecting, ConnectComesUp, ConnectTimesOut, ConnectBegins, ConnectFails
<1>4. CASE SetupLost("DISCOVERING") \/ Discovering \/ DiscoverBegins \/ Discovered
           \/ Subscribed \/ DiscoverFails
      BY <1>4
      DEF SetupLost, Discovering, DiscoverBegins, Discovered, Subscribed, DiscoverFails,
          DiscoverAsks, SetupFails
<1>5. CASE SetupLost("AT_INIT") \/ AtInit \/ InitSends \/ InitWritten \/ InitUnwritten
      BY <1>5
      DEF SetupLost, AtInit, InitSends, InitWritten, InitUnwritten, InitPass, InitWriteFailed,
          HealBond, SetupFails
<1>6. CASE InitAnswered \/ InitUnanswered \/ InitDone
      BY <1>6
      DEF InitAnswered, InitUnanswered, InitDone, InitPass, Retry, RetryRefused, ColdFallback,
          SetupFails
<1>7. CASE PollLost \/ Polling \/ PollWritten \/ PollUnwritten
      BY <1>7 DEF PollLost, Polling, PollWritten, PollUnwritten, PollPass, PollError
<1>8. CASE PollSends \/ PollAnswered \/ PollBadAnswer \/ PollUnanswered
      BY <1>8
      DEF PollSends, PollNext, PollAnswered, PollBadAnswer, PollUnanswered, PollPass,
          PollError, Retry, RetryRefused
<1>9. CASE Backoff \/ BackoffEnds \/ Disconnected \/ Reconnects \/ EcuIdle \/ EcuIdleResumes
           \/ EcuIdleProbes
      BY <1>9
      DEF Backoff, BackoffEnds, Disconnected, Reconnects, EcuIdle, EcuIdleResumes,
          EcuIdleProbes, Rest
<1>10. CASE Driver
      BY <1>10
      DEF Driver, SetEnabledOff, SetEnabledOn, ManualPair, Forget, Interrupted, DisconnectBle
<1>11. CASE Receive \/ Execute
      BY <1>11 DEF Receive, Execute, ExecuteConnect, ExecuteGatt, ExecuteRssi, Finish, machine
<1>12. CASE Callbacks
      BY <1>12
      DEF Callbacks, LinkUp, LinkDown, OnBleDisconnect, OnBleData, OnDeviceFound, OnScanEnd,
          Host, machine
<1> QED
      BY <1>1, <1>2, <1>3, <1>4, <1>5, <1>6, <1>7, <1>8, <1>9, <1>10, <1>11, <1>12 DEF Next, Update

\* No step gives an address that is not one, or a pairing without its parts.
LEMMA LinkStep ==
    ASSUME TypeFlags, TypeTask, TypeLink, TypeEvents, Next
    PROVE  TypeLink'
<1> USE DEF TypeLink, TypeFlags, Links, AfterDisconnect, SetTarget, GoTo, Stay, Pass,
            ConnectFailure, NoExchange, exchange, pairing, counters, initState, air
<1>0. /\ \A a \in Addresses : [pair EXCEPT !.target = a] \in Pairing
      /\ \A a \in Addresses : [pair EXCEPT !.candidate = a, !.target = a, !.preempt = FALSE] \in Pairing
      /\ NoPairing \in Pairing
      /\ [NoPairing EXCEPT !.manual = TRUE, !.preempt = TRUE] \in Pairing
      /\ pair.candidate \in Addresses /\ None \in Addresses
      /\ FoundNow \subseteq Addresses
      /\ executing # None => executing.to \in Addresses
      <2>1. ASSUME NEW a \in Addresses, NEW b \in BOOLEAN, NEW c \in BOOLEAN
            PROVE  /\ [pair EXCEPT !.candidate = a, !.target = a, !.preempt = b] \in Pairing
                   /\ [pair EXCEPT !.target = a] \in Pairing
                   /\ [NoPairing EXCEPT !.manual = b, !.preempt = c] \in Pairing
            BY <2>1 DEF Pairing, NoPairing, Addresses
      <2>2. NoPairing \in Pairing
            BY DEF Pairing, NoPairing, Addresses
      <2> QED
            BY <2>1, <2>2, Found DEF Pairing, Addresses, TypeTask, Request
<1>1. CASE Idle \/ IdleScan \/ WaitBoot \/ WaitBootEnds
      BY <1>0, <1>1 DEF Idle, IdleScan, WaitBoot, WaitBootEnds, Wait
<1>2. CASE Scanning \/ ScanFinds \/ ScanExpires
      BY <1>0, <1>2 DEF Scanning, ScanFinds, ScanExpires, Wait
<1>3. CASE Connecting \/ ConnectComesUp \/ ConnectTimesOut \/ ConnectBegins \/ ConnectFails
      BY <1>0, <1>3 DEF Connecting, ConnectComesUp, ConnectTimesOut, ConnectBegins, ConnectFails
<1>4. CASE SetupLost("DISCOVERING") \/ Discovering \/ DiscoverBegins \/ Discovered
           \/ Subscribed \/ DiscoverFails
      BY <1>0, <1>4
      DEF SetupLost, Discovering, DiscoverBegins, Discovered, Subscribed, DiscoverFails,
          DiscoverAsks, SetupFails
<1>5. CASE SetupLost("AT_INIT") \/ AtInit \/ InitSends \/ InitWritten \/ InitUnwritten
      BY <1>0, <1>5
      DEF SetupLost, AtInit, InitSends, InitWritten, InitUnwritten, InitPass, InitWriteFailed,
          HealBond, SetupFails
<1>6. CASE InitAnswered \/ InitUnanswered \/ InitDone
      BY <1>0, <1>6
      DEF InitAnswered, InitUnanswered, InitDone, Commit, Commits, InitPass, Retry,
          RetryRefused, ColdFallback, SetupFails
<1>7. CASE PollLost \/ Polling \/ PollWritten \/ PollUnwritten
      BY <1>0, <1>7 DEF PollLost, Polling, PollWritten, PollUnwritten, PollPass, PollError
<1>8. CASE PollSends \/ PollAnswered \/ PollBadAnswer \/ PollUnanswered
      BY <1>0, <1>8
      DEF PollSends, PollNext, PollAnswered, PollBadAnswer, PollUnanswered, PollPass,
          PollError, Retry, RetryRefused
<1>9. CASE Backoff \/ BackoffEnds \/ Disconnected \/ Reconnects \/ EcuIdle \/ EcuIdleResumes
           \/ EcuIdleProbes
      BY <1>0, <1>9
      DEF Backoff, BackoffEnds, Disconnected, Reconnects, EcuIdle, EcuIdleResumes,
          EcuIdleProbes, Rest
<1>10. CASE Driver
      BY <1>0, <1>10
      DEF asking, task, Driver, SetEnabledOff, SetEnabledOn, ManualPair, Forget, Interrupted,
          DisconnectBle
<1>11. CASE Receive \/ Execute
      BY <1>0, <1>11 DEF Receive, Execute, ExecuteConnect, ExecuteGatt, ExecuteRssi, Finish, machine
<1>12. CASE Callbacks
      BY <1>0, <1>12
      DEF Callbacks, LinkUp, LinkDown, OnBleDisconnect, OnBleData, OnDeviceFound, OnScanEnd,
          Host, machine
<1> QED
      BY <1>1, <1>2, <1>3, <1>4, <1>5, <1>6, <1>7, <1>8, <1>9, <1>10, <1>11, <1>12 DEF Next, Update

\* No step takes a flag out of BOOLEAN.
LEMMA FlagsStep ==
    ASSUME TypeFlags, Next
    PROVE  TypeFlags'
<1> USE DEF Next, Update, Driver, Execute, Callbacks, Pass, GoTo, Stay, NoExchange,
            ConnectFailure, Wait,
        machine, pairing, counters, initState, exchange, air,
        Idle, IdleScan, WaitBoot, WaitBootEnds, Scanning, ScanFinds, ScanExpires,
        Connecting, ConnectBegins, ConnectComesUp, ConnectTimesOut, ConnectFails,
        SetupLost, SetupFails, Discovering, DiscoverBegins, Discovered, Subscribed, DiscoverFails, DiscoverAsks,
        InitPass, InitWriteFailed, HealBond, AtInit, InitSends, InitWritten, InitUnwritten, InitAnswered,
        InitUnanswered, ColdFallback, InitDone, Commit,
        PollPass, PollLost, PollError, PollNext, Polling, PollSends, PollWritten, PollUnwritten,
        PollAnswered, PollBadAnswer, PollUnanswered, Backoff, BackoffEnds, Rest, Disconnected,
        Reconnects, EcuIdle, EcuIdleResumes, EcuIdleProbes,
        SetEnabledOff, SetEnabledOn, ManualPair, Forget, Interrupted, DisconnectBle, Receive, Finish,
        ExecuteConnect, ExecuteGatt, ExecuteRssi, Host, LinkUp, LinkDown, OnBleDisconnect, OnBleData,
        OnDeviceFound, OnScanEnd
<1>1. /\ (lost \/ Came("lost")) \in BOOLEAN
      /\ (preferWarm /\ saved = pair.candidate) \in BOOLEAN
      /\ (asked \/ executing.op = "WRITE") \in BOOLEAN
      /\ TRUE \in BOOLEAN /\ FALSE \in BOOLEAN
      OBVIOUS
<1>2. enabled' \in BOOLEAN
      BY <1>1, Zenon DEF TypeFlags
<1>3. entered' \in BOOLEAN
      BY <1>1, Zenon DEF TypeFlags
<1>4. scanRequested' \in BOOLEAN
      BY <1>1, Zenon DEF TypeFlags
<1>5. lost' \in BOOLEAN
      BY <1>1, Zenon DEF TypeFlags, LostNow
<1>6. dropping' \in BOOLEAN
      BY <1>1, Zenon DEF TypeFlags
<1>7. preferWarm' \in BOOLEAN
      BY <1>1, Zenon DEF TypeFlags
<1>8. warm' \in BOOLEAN
      BY <1>1, Zenon DEF TypeFlags
<1>9. owed' \in BOOLEAN
      BY <1>1, Zenon DEF TypeFlags
<1>10. asked' \in BOOLEAN
      BY <1>1, Zenon DEF TypeFlags
<1>11. scanning' \in BOOLEAN
      BY <1>1, Zenon DEF TypeFlags
<1> QED
      BY <1>2, <1>3, <1>4, <1>5, <1>6, <1>7, <1>8, <1>9, <1>10, <1>11, Zenon DEF TypeFlags

---------------------------------------------------------------------------
(* A manual pairing talks to the adapter it found *)

\* While it seeks, nothing is on its way to an old connection; once it has
\* a candidate, every connection is one to it.  (A race of Exposed breaks it.)
PairedLink ==
    pair.manual =>
        /\ state \in Seeking \union {"CONNECTING", "DISCOVERING", "AT_INIT"}
        /\ state \in Seeking => link \in {"down", "cancelling"}
        /\ state \notin Seeking => /\ pair.candidate \in Adapters /\ pair.target = pair.candidate
                                   /\ link \notin {"down", "cancelling"} => peer = pair.candidate
        /\ Believes => peer = pair.candidate

\* A slot with a connect in it, wanted or not.
Connects(slot) == slot # None /\ slot.op = "CONNECT"

\* A connect that is on its way goes to the candidate.
PairedTask ==
    pair.manual =>
        /\ Connects(request) => state \notin Seeking /\ request.to = pair.candidate
        /\ Connects(executing) => state \notin Seeking /\ executing.to = pair.candidate

\* Turning away from a connect does not change where it goes.
LEMMA StaleKeeps ==
    ASSUME NEW slot \in Request \union {None}
    PROVE  Connects(Stale(slot)) => Connects(slot) /\ Stale(slot).to = slot.to
BY DEF Stale, Connects, Request

\* A pass asks for a connect only in CONNECTING, and to the target of then.
LEMMA PassConnects ==
    ASSUME TypeTask, PassAsks
    PROVE  /\ Connects(request)' => \/ Connects(request) /\ request'.to = request.to
                                    \/ state = "CONNECTING" /\ request'.to = Address
           /\ Connects(executing)' => Connects(executing) /\ executing'.to = executing.to
<1> USE DEF TypeTask
<1>1. CASE UNCHANGED task
      BY <1>1 DEF task, Connects
<1>2. CASE ClearRequest
      BY <1>2, StaleKeeps DEF ClearRequest, Connects
<1>3. CASE \E o \in Ops : BeginRequest(o) /\ (o = "CONNECT" => state = "CONNECTING")
      BY <1>3 DEF BeginRequest, Connects
<1>4. CASE AlreadyUp /\ state = "CONNECTING"
      BY <1>4 DEF AlreadyUp, Connects
<1> QED
      BY <1>1, <1>2, <1>3, <1>4 DEF PassAsks, Pump, Take, RequestRefused

\* No step connects a pairing to anything but its candidate.
LEMMA PairedLinkStep ==
    ASSUME Races = {}, TypeFlags, TypeTask, TypeLink, TypeEvents, ScanMatches, PairedLink, PairedTask, Next
    PROVE  PairedLink'
<1> USE DEF PairedLink, Seeking, Believes, NoPairing, SetTarget, AfterDisconnect, IsConnected,
            TypeFlags, Links, GoTo, Stay, Pass, ConnectFailure, NoExchange, exchange, pairing,
            counters, initState, air
<1>0. /\ \A a : [pair EXCEPT !.target = a].manual = pair.manual
      /\ \A a : LET p == [pair EXCEPT !.candidate = a, !.target = a, !.preempt = FALSE]
               IN  p.manual = pair.manual /\ p.candidate = a /\ p.target = a
      /\ [NoPairing EXCEPT !.manual = TRUE, !.preempt = TRUE].manual
      /\ FoundNow \subseteq Adapters
      /\ link \in Links
      BY Found DEF TypeLink, Pairing
<1>1. CASE Idle \/ IdleScan \/ WaitBoot \/ WaitBootEnds
      BY <1>0, <1>1 DEF Idle, IdleScan, WaitBoot, WaitBootEnds, Wait
<1>2. CASE Scanning \/ ScanFinds \/ ScanExpires
      <2>1. CASE Scanning
            BY <1>0, <2>1 DEF Scanning, Wait
      <2>2. CASE ScanFinds
            <3>1. /\ pair.manual /\ state = "SCANNING" /\ state' = "CONNECTING"
                  /\ link' = link /\ link \in {"down", "cancelling"}
                  BY <2>2 DEF ScanFinds, ScanMatches
            <3>2. PICK a \in Adapters :
                     pair' = [pair EXCEPT !.candidate = a, !.target = a, !.preempt = FALSE]
                  BY <1>0, <2>2, <3>1, Zenon DEF ScanFinds
            <3>3. pair'.candidate = a /\ pair'.target = a
                  BY <3>2 DEF TypeLink, Pairing
            <3> QED
                  BY <3>1, <3>3
      <2>3. CASE ScanExpires
            BY <1>0, <2>3 DEF ScanExpires
      <2> QED
            BY <1>2, <2>1, <2>2, <2>3
<1>3. CASE Connecting \/ ConnectComesUp \/ ConnectTimesOut \/ ConnectBegins \/ ConnectFails
      BY <1>0, <1>3 DEF Connecting, ConnectComesUp, ConnectTimesOut, ConnectBegins, ConnectFails
<1>4. CASE SetupLost("DISCOVERING") \/ Discovering \/ DiscoverBegins \/ Discovered
           \/ Subscribed \/ DiscoverFails
      BY <1>0, <1>4
      DEF SetupLost, Discovering, DiscoverBegins, Discovered, Subscribed, DiscoverFails,
          DiscoverAsks, SetupFails
<1>5. CASE SetupLost("AT_INIT") \/ AtInit \/ InitSends \/ InitWritten \/ InitUnwritten
      BY <1>0, NoneAssumption, <1>5
      DEF SetupLost, AtInit, InitSends, InitWritten, InitUnwritten, InitPass, InitWriteFailed,
          HealBond, CanHeal, SetupFails
<1>6. CASE InitAnswered \/ InitUnanswered \/ InitDone
      BY <1>0, NoneAssumption, <1>6
      DEF InitAnswered, InitUnanswered, InitDone, Commit, Commits, InitPass, Retry,
          RetryRefused, ColdFallback, SetupFails
<1>7. CASE PollLost \/ Polling \/ PollWritten \/ PollUnwritten
      BY <1>0, <1>7 DEF PollLost, Polling, PollWritten, PollUnwritten, PollPass, PollError
<1>8. CASE PollSends \/ PollAnswered \/ PollBadAnswer \/ PollUnanswered
      BY <1>0, <1>8
      DEF PollSends, PollNext, PollAnswered, PollBadAnswer, PollUnanswered, PollPass,
          PollError, Retry, RetryRefused
<1>9. CASE Backoff \/ BackoffEnds \/ Disconnected \/ Reconnects \/ EcuIdle \/ EcuIdleResumes
           \/ EcuIdleProbes
      BY <1>0, <1>9
      DEF Settled, Backoff, BackoffEnds, Disconnected, Reconnects, EcuIdle, EcuIdleResumes,
          EcuIdleProbes, Rest
<1>10. CASE Driver
      BY <1>0, <1>10
      DEF Driver, SetEnabledOff, SetEnabledOn, ManualPair, Forget, Interrupted, DisconnectBle
<1>11. CASE Receive \/ Execute
      BY <1>0, NoneAssumption, <1>11
      DEF PairedTask, Connects, Receive, Execute, ExecuteConnect, ExecuteGatt, ExecuteRssi,
          Finish, machine
<1>12. CASE Callbacks
      BY <1>0, <1>12
      DEF Exposed, Callbacks, LinkUp, LinkDown, OnBleDisconnect, OnBleData, OnDeviceFound,
          OnScanEnd, Host, machine
<1> QED
      BY <1>1, <1>2, <1>3, <1>4, <1>5, <1>6, <1>7, <1>8, <1>9, <1>10, <1>11, <1>12
      DEF Exposed, Next, Update

\* A pass does not change the candidate, and does not go back to seek another.
LEMMA UpdateKeepsPair ==
    ASSUME TypeLink, ScanMatches, PairedLink, Update
    PROVE  pair'.manual => /\ pair.manual
                           /\ state' \in Seeking => state \in Seeking
                           /\ state \notin Seeking => pair' = pair
<1> USE DEF PairedLink, Seeking, NoPairing, SetTarget, GoTo, Stay, Pass, ConnectFailure,
            NoExchange, exchange, pairing, counters, initState, air
<1>0. /\ \A a : [pair EXCEPT !.target = a].manual = pair.manual
      /\ \A a : [pair EXCEPT !.candidate = a, !.target = a, !.preempt = FALSE].manual = pair.manual
      BY DEF TypeLink, Pairing
<1>1. CASE Idle \/ IdleScan \/ WaitBoot \/ WaitBootEnds
      BY <1>0, <1>1 DEF Idle, IdleScan, WaitBoot, WaitBootEnds, Wait
<1>2. CASE Scanning \/ ScanFinds \/ ScanExpires
      <2>1. CASE Scanning
            BY <1>0, <2>1 DEF Scanning, Wait
      <2>2. CASE ScanFinds
            BY <1>0, <2>2 DEF ScanFinds
      <2>3. CASE ScanExpires
            BY <1>0, <2>3 DEF ScanExpires
      <2> QED
            BY <1>2, <2>1, <2>2, <2>3
<1>3. CASE Connecting \/ ConnectComesUp \/ ConnectTimesOut \/ ConnectBegins \/ ConnectFails
      BY <1>0, <1>3 DEF Connecting, ConnectComesUp, ConnectTimesOut, ConnectBegins, ConnectFails
<1>4. CASE SetupLost("DISCOVERING") \/ Discovering \/ DiscoverBegins \/ Discovered
           \/ Subscribed \/ DiscoverFails
      BY <1>0, <1>4
      DEF SetupLost, Discovering, DiscoverBegins, Discovered, Subscribed, DiscoverFails,
          DiscoverAsks, SetupFails
<1>5. CASE SetupLost("AT_INIT") \/ AtInit \/ InitSends \/ InitWritten \/ InitUnwritten
      BY <1>0, NoneAssumption, <1>5
      DEF SetupLost, AtInit, InitSends, InitWritten, InitUnwritten, InitPass, InitWriteFailed,
          HealBond, CanHeal, SetupFails
<1>6. CASE InitAnswered \/ InitUnanswered \/ InitDone
      BY <1>0, NoneAssumption, <1>6
      DEF InitAnswered, InitUnanswered, InitDone, Commit, Commits, InitPass, Retry,
          RetryRefused, ColdFallback, SetupFails
<1>7. CASE PollLost \/ Polling \/ PollWritten \/ PollUnwritten
      BY <1>0, <1>7 DEF PollLost, Polling, PollWritten, PollUnwritten, PollPass, PollError
<1>8. CASE PollSends \/ PollAnswered \/ PollBadAnswer \/ PollUnanswered
      BY <1>0, <1>8
      DEF PollSends, PollNext, PollAnswered, PollBadAnswer, PollUnanswered, PollPass,
          PollError, Retry, RetryRefused
<1>9. CASE Backoff \/ BackoffEnds \/ Disconnected \/ Reconnects \/ EcuIdle \/ EcuIdleResumes
           \/ EcuIdleProbes
      BY <1>0, <1>9
      DEF Backoff, BackoffEnds, Disconnected, Reconnects, EcuIdle, EcuIdleResumes,
          EcuIdleProbes, Rest
<1> QED
      BY <1>1, <1>2, <1>3, <1>4, <1>5, <1>6, <1>7, <1>8, <1>9 DEF Update

\* No step has a connect on its way to anything but the candidate.
LEMMA PairedTaskStep ==
    ASSUME Races = {}, TypeFlags, TypeTask, TypeLink, ScanMatches, PairedLink, PairedTask, Next
    PROVE  PairedTask'
<1> USE DEF PairedTask, Seeking
<1>1. CASE Update
      <2>1. pair'.manual => /\ pair.manual
                            /\ state' \in Seeking => state \in Seeking
                            /\ state \notin Seeking => pair' = pair
            BY <1>1, UpdateKeepsPair
      <2>2. pair.manual /\ state = "CONNECTING" => Address = pair.candidate
            BY NoneAssumption DEF PairedLink, Address
      <2> QED
            BY <1>1, <2>1, <2>2, UpdateAsks, PassConnects
<1>2. CASE Driver
      <2>1. CASE SetEnabledOff \/ SetEnabledOn \/ Forget
            BY <2>1 DEF SetEnabledOff, SetEnabledOn, Forget, NoPairing
      <2>2. CASE ManualPair
            BY <2>2, StaleKeeps
            DEF ManualPair, Overtakable, NothingToOutlive, Exposed, ClearRequest, Connects,
                TypeTask
      <2> QED
            BY <1>2, <2>1, <2>2 DEF Driver
<1>3. CASE Receive
      BY <1>3 DEF Receive, pairing, machine, Connects
<1>4. CASE Execute
      BY <1>4
      DEF Execute, ExecuteConnect, ExecuteGatt, ExecuteRssi, Finish, pairing, machine,
          Connects
<1>5. CASE Callbacks
      BY <1>5
      DEF Callbacks, LinkUp, LinkDown, OnBleDisconnect, OnBleData, OnDeviceFound, OnScanEnd,
          Host, machine, pairing, task, Connects
<1> QED
      BY <1>1, <1>2, <1>3, <1>4, <1>5 DEF Next

---------------------------------------------------------------------------
(* The invariant, and what follows from it *)

\* The inductive invariant.
Inv == TypeOK /\ OneAtATime /\ AnswerFits /\ PollBound /\ ScanMatches /\ LossKnown

\* The invariant holds at boot.
LEMMA InitInv == Init => Inv
<1> SUFFICES ASSUME Init PROVE Inv
    OBVIOUS
<1> USE NoneAssumption, LimitAssumption, DepthAssumption DEF Init
<1>1. TypeFlags
      BY Zenon DEF TypeFlags
<1>2. TypeTask /\ TypeEvents
      BY DEF TypeTask, TypeEvents
<1>3. TypeMachine
      BY DEF TypeMachine, States, Commands, Responses
<1>4. TypeLink
      BY DEF TypeLink, Pairing, NoPairing, Addresses, Links
<1>5. OneAtATime
      BY DEF OneAtATime, Current
<1>6. AnswerFits /\ PollBound
      BY DEF AnswerFits, PollBound, Unsent
<1>7. ScanMatches /\ LossKnown
      BY DEF ScanMatches, LossKnown, Believes, Seeking
<1> QED
      BY <1>1, <1>2, <1>3, <1>4, <1>5, <1>6, <1>7 DEF Inv, TypeOK

\* Every step keeps it.
LEMMA StepInv == Inv /\ [Next]_vars => Inv'
<1> SUFFICES ASSUME Inv, [Next]_vars PROVE Inv'
    OBVIOUS
<1>1. CASE Next
      <2> USE <1>1 DEF Inv, TypeOK
      <2>1. TypeFlags'
            BY FlagsStep
      <2>2. TypeTask' /\ OneAtATime'
            BY TaskStep
      <2>3. TypeMachine' /\ PollBound'
            BY MachineStep
      <2>4. TypeLink'
            BY LinkStep
      <2>5. TypeEvents'
            BY EventsStep
      <2>6. AnswerFits'
            BY AnswerStep
      <2>7. ScanMatches'
            BY ScanStep
      <2>8. LossKnown'
            BY LossStep
      <2> QED
            BY <2>1, <2>2, <2>3, <2>4, <2>5, <2>6, <2>7, <2>8
<1>2. CASE UNCHANGED vars
      <2> USE <1>2 DEF Inv, TypeOK, vars, machine, pairing, counters, initState, exchange, asking, task, air
      <2>1. TypeFlags' /\ TypeTask' /\ TypeMachine' /\ TypeLink' /\ TypeEvents'
            <3>1. TypeFlags'
                  BY Zenon DEF TypeFlags
            <3>2. TypeTask' /\ TypeMachine' /\ TypeLink' /\ TypeEvents'
                  BY DEF TypeTask, TypeMachine, TypeLink, TypeEvents
            <3> QED
                  BY <3>1, <3>2
      <2>2. OneAtATime' /\ PollBound'
            BY Zenon DEF OneAtATime, Current, PollBound
      <2>3. AnswerFits'
            BY Zenon DEF AnswerFits, Unsent, OpInHand
      <2>4. ScanMatches' /\ LossKnown'
            BY DEF ScanMatches, Seeking, LossKnown, Believes, IsConnected, LostNow, Came
      <2> QED
            BY <2>1, <2>2, <2>3, <2>4
<1> QED
      BY <1>1, <1>2

\* The whole inductive invariant holds in every reachable state, whatever
\* the races that are let in (obd_runtime_module.cpp, update()).
THEOREM InvHolds == Spec => []Inv
BY InitInv, StepInv, PTL DEF Spec

\* Exactly one slot between the driver and the task carries the request
\* that the machine waits for, and none when it waits for nothing
\* (obd_runtime_module.cpp:947).
THEOREM NoRequestIsLost == Spec => []RequestIsCarried
<1>1. Inv => RequestIsCarried
      <2> SUFFICES ASSUME TypeTask, OneAtATime PROVE RequestIsCarried
          BY DEF Inv, TypeOK
      <2>1. /\ "request" \in InHand <=> Current(request)
            /\ "executing" \in InHand <=> Current(executing)
            /\ "result" \in InHand <=> Current(result)
            /\ InHand \subseteq {"request", "executing", "result"}
            BY DEF InHand, Current
      <2>2. op = None => InHand = {}
            BY <2>1 DEF OneAtATime
      <2>3. ASSUME op # None
            PROVE  \E s \in InHand : InHand = {s} /\ Carried.op = op
            <3>1. CASE Current(request) /\ request.op = op
                  <4>1. InHand = {"request"}
                        BY <2>1, <3>1 DEF OneAtATime, Current
                  <4>2. (CHOOSE s \in InHand : TRUE) = "request"
                        BY <4>1
                  <4> QED
                        BY <3>1, <4>1, <4>2 DEF Carried
            <3>2. CASE Current(executing) /\ executing.op = op
                  <4>1. InHand = {"executing"}
                        BY <2>1, <3>2 DEF OneAtATime, Current
                  <4>2. (CHOOSE s \in InHand : TRUE) = "executing"
                        BY <4>1
                  <4> QED
                        BY <3>2, <4>1, <4>2 DEF Carried
            <3>3. CASE Current(result) /\ result.op = op
                  <4>1. InHand = {"result"}
                        BY <2>1, <3>3 DEF OneAtATime, Current
                  <4>2. (CHOOSE s \in InHand : TRUE) = "result"
                        BY <4>1
                  <4> QED
                        BY <3>3, <4>1, <4>2 DEF Carried
            <3> QED
                  BY <2>3, <3>1, <3>2, <3>3 DEF OneAtATime
      <2> QED
            BY <2>2, <2>3 DEF RequestIsCarried
<1> QED
      BY <1>1, InvHolds, PTL

\* A command that waits to be written has its write in hand, and a state
\* that waits for an answer waits for one it takes
\* (obd_runtime_module.cpp:1799).
THEOREM NoAnswerIsStranded == Spec => []AnswerIsTaken
<1>1. Inv => AnswerIsTaken
      BY DEF Inv, AnswerFits, AnswerIsTaken
<1> QED
      BY <1>1, InvHolds, PTL

\* A machine that still believes in a link that is down has the loss ahead
\* of it, however many events have overrun the queue
\* (obd_runtime_module.cpp:412).
THEOREM NoLossIsMissed == Spec => []LossIsKnown
<1>1. Inv => LossIsKnown
      BY DEF Inv, LossKnown, LossIsKnown, Believes, IsConnected
<1> QED
      BY <1>1, InvHolds, PTL

\* What the pairing relies on, where nothing overtakes a call of the driver.
PairInv == PairedLink /\ PairedTask

\* What the pairing relies on holds throughout.
LEMMA PairHolds == ASSUME Races = {} PROVE Spec => []PairInv
<1>1. Init => PairInv
      BY DEF Init, PairInv, PairedLink, PairedTask, NoPairing
<1>2. Inv /\ PairInv /\ [Next]_vars => PairInv'
      <2> SUFFICES ASSUME Inv, PairInv, [Next]_vars PROVE PairInv'
          OBVIOUS
      <2>1. CASE Next
            BY <2>1, PairedLinkStep, PairedTaskStep DEF Inv, TypeOK, PairInv
      <2>2. CASE UNCHANGED vars
            BY <2>2, Zenon
            DEF PairInv, PairedLink, PairedTask, Connects, Seeking, Believes, vars, machine,
                pairing, task, air
      <2> QED
            BY <2>1, <2>2
<1> QED
      BY <1>1, <1>2, InvHolds, PTL DEF Spec

\* Only the end of an initialisation saves an adapter.
LEMMA SavedByInit ==
    ASSUME ScanMatches, Next, saved' \notin {saved, None}
    PROVE  InitDone /\ Commits
<1> USE DEF pairing, ConnectFailure, Pass
<1>1. CASE Idle \/ IdleScan \/ WaitBoot \/ WaitBootEnds
      BY <1>1 DEF Idle, IdleScan, WaitBoot, WaitBootEnds, Wait
<1>2. CASE Scanning \/ ScanFinds \/ ScanExpires
      BY <1>2 DEF Scanning, ScanFinds, ScanExpires, Wait, ScanMatches
<1>3. CASE Connecting \/ ConnectComesUp \/ ConnectTimesOut \/ ConnectBegins \/ ConnectFails
      BY <1>3 DEF Connecting, ConnectComesUp, ConnectTimesOut, ConnectBegins, ConnectFails
<1>4. CASE SetupLost("DISCOVERING") \/ Discovering \/ DiscoverBegins \/ Discovered
           \/ Subscribed \/ DiscoverFails
      BY <1>4
      DEF SetupLost, Discovering, DiscoverBegins, Discovered, Subscribed, DiscoverFails,
          DiscoverAsks, SetupFails
<1>5. CASE SetupLost("AT_INIT") \/ AtInit \/ InitSends \/ InitWritten \/ InitUnwritten
      BY <1>5
      DEF SetupLost, AtInit, InitSends, InitWritten, InitUnwritten, InitPass, InitWriteFailed,
          HealBond, SetupFails
<1>6. CASE InitAnswered \/ InitUnanswered \/ InitDone
      BY <1>6
      DEF InitAnswered, InitUnanswered, InitDone, Commit, Commits, InitPass, Retry,
          RetryRefused, ColdFallback, SetupFails
<1>7. CASE PollLost \/ Polling \/ PollWritten \/ PollUnwritten
      BY <1>7 DEF PollLost, Polling, PollWritten, PollUnwritten, PollPass, PollError
<1>8. CASE PollSends \/ PollAnswered \/ PollBadAnswer \/ PollUnanswered
      BY <1>8
      DEF PollSends, PollNext, PollAnswered, PollBadAnswer, PollUnanswered, PollPass,
          PollError, Retry, RetryRefused
<1>9. CASE Backoff \/ BackoffEnds \/ Disconnected \/ Reconnects \/ EcuIdle \/ EcuIdleResumes
           \/ EcuIdleProbes
      BY <1>9
      DEF Backoff, BackoffEnds, Disconnected, Reconnects, EcuIdle, EcuIdleResumes,
          EcuIdleProbes, Rest
<1>10. CASE Driver
      BY <1>10 DEF Driver, SetEnabledOff, SetEnabledOn, ManualPair, Forget
<1>11. CASE Receive \/ Execute \/ Callbacks
      BY <1>11
      DEF Receive, Execute, ExecuteConnect, ExecuteGatt, ExecuteRssi, Finish, Callbacks,
          LinkUp, LinkDown, OnBleDisconnect, OnBleData, OnDeviceFound, OnScanEnd, Host
<1> QED
      BY <1>1, <1>2, <1>3, <1>4, <1>5, <1>6, <1>7, <1>8, <1>9, <1>10, <1>11 DEF Next, Update

\* Where nothing overtakes a call of the driver, a pairing replaces the saved
\* adapter only by the one that answered it (obd_runtime_module.cpp:662).
THEOREM OnlyAnsweringIsSaved == ASSUME Races = {} PROVE Spec => SavedAnswered
<1>1. ASSUME Inv, PairInv, [Next]_vars
      PROVE  [saved' \notin {saved, None} => peer = saved' /\ (IsConnected \/ owed)]_vars
      <2> SUFFICES ASSUME Next, saved' \notin {saved, None}
                   PROVE  peer = saved' /\ (IsConnected \/ owed)
          BY <1>1
      <2>1. InitDone /\ Commits
            BY <1>1, SavedByInit DEF Inv
      <2>2. /\ state = "AT_INIT" /\ ~LostNow /\ pair.manual /\ saved' = pair.candidate
            BY <2>1 DEF InitDone, InitPass, Pass, Commit, Commits
      <2> QED
            BY <1>1, <2>2 DEF PairInv, PairedLink, Inv, LossKnown, Believes
<1> QED
      BY <1>1, InvHolds, PairHolds, PTL DEF Spec, SavedAnswered
=============================================================================
