--------------------------- MODULE BleProxy_proofs ---------------------------
(***************************************************************************)
(* What the loop knows about the app is right whenever it has handled the  *)
(* events, for any depth of the queue that drops its oldest entry: the     *)
(* newest event always says what the app's link is.  The type invariant is *)
(* proved beside it.  That the proxy advertises with an app only after a   *)
(* race needs what a start that is under way knows: no app, or one that    *)
(* slipped in; and that a V1 link the loop takes for ended is ended needs  *)
(* the clean-up to be pending only while there is no link.                 *)
(***************************************************************************)
EXTENDS BleProxy, SequenceTheorems, TLAPS

Queue == events \in Seq(EventTypes) /\ Len(events) <= EventDepth

\* What the newest event says of the app; without one, what the loop knows.
Newest ==
    /\ events # <<>> =>
          /\ events[Len(events)] = "APP_CONNECTED"    => phone
          /\ events[Len(events)] = "APP_DISCONNECTED" => ~phone
    /\ events = <<>> => (client <=> phone /\ ~stranded)

\* Both hold at boot.
LEMMA InitHolds == Init => Queue /\ Newest
BY EventDepthAssumption DEF Init, Queue, Newest

\* A notification of the host: it is the newest, and there is room for it.
LEMMA EnqueueKeeps ==
    ASSUME Queue, NEW type \in EventTypes, Enqueue(type)
    PROVE  Queue' /\ events' # <<>> /\ events'[Len(events')] = type
<1> DEFINE rest == IF Len(events) < EventDepth THEN events ELSE Tail(events)
<1>1. /\ events \in Seq(EventTypes) /\ Len(events) \in Nat /\ EventDepth \in Nat
      /\ EventDepth >= 1 /\ Len(events) <= EventDepth
      BY EventDepthAssumption DEF Queue
<1>2. rest \in Seq(EventTypes) /\ Len(rest) < EventDepth /\ Len(rest) \in Nat
      <2>1. CASE Len(events) < EventDepth
            BY <1>1, <2>1
      <2>2. CASE ~(Len(events) < EventDepth)
            <3>1. events # <<>>
                  BY <1>1, <2>2
            <3>2. Tail(events) \in Seq(EventTypes) /\ Len(Tail(events)) = Len(events) - 1
                  BY <1>1, <3>1
            <3> QED
                  BY <1>1, <2>2, <3>2
      <2> QED
            BY <2>1, <2>2
<1>3. events' = Append(rest, type)
      BY DEF Enqueue
<1> HIDE DEF rest
<1>4. /\ Append(rest, type) \in Seq(EventTypes) /\ Len(Append(rest, type)) = Len(rest) + 1
      /\ Append(rest, type)[Len(rest) + 1] = type
      BY <1>2
<1> QED
      BY <1>1, <1>2, <1>3, <1>4 DEF Queue

\* The newest event is true of what the host task has just done.
LEMMA HostKeeps ==
    ASSUME Queue, Newest, HostStep
    PROVE  Queue' /\ Newest'
<1>1. CASE V1Connects
      <2>1. UNCHANGED <<events, phone, client, stranded>>
            BY <1>1 DEF V1Connects, appState, ghosts
      <2> QED
            BY <2>1 DEF Queue, Newest
<1>2. CASE V1Disconnects
      <2>1. Queue' /\ events' # <<>> /\ events'[Len(events')] = "V1_DISCONNECTED"
            BY <1>2, EnqueueKeeps DEF V1Disconnects, EventTypes
      <2> QED
            BY <2>1 DEF Newest
<1>3. CASE AppConnects
      <2>1. Queue' /\ events' # <<>> /\ events'[Len(events')] = "APP_CONNECTED"
            BY <1>3, EnqueueKeeps DEF AppConnects, EventTypes
      <2>2. phone' = TRUE
            BY <1>3 DEF AppConnects
      <2> QED
            BY <2>1, <2>2 DEF Newest
<1>4. CASE AppDisconnects
      <2>1. Queue' /\ events' # <<>> /\ events'[Len(events')] = "APP_DISCONNECTED"
            BY <1>4, EnqueueKeeps DEF AppDisconnects, EventTypes
      <2>2. phone' = FALSE
            BY <1>4 DEF AppDisconnects
      <2> QED
            BY <2>1, <2>2 DEF Newest
<1> QED
      BY <1>1, <1>2, <1>3, <1>4 DEF HostStep

\* The last entry stays the last when the first is taken.
LEMMA TailKeepsLast ==
    ASSUME NEW S, NEW s \in Seq(S), Len(s) > 1
    PROVE  Len(Tail(s)) = Len(s) - 1 /\ Tail(s)[Len(s) - 1] = s[Len(s)] /\ Tail(s) # <<>>
<1>1. s # <<>> /\ Len(s) \in Nat
      OBVIOUS
<1>2. Len(Tail(s)) = Len(s) - 1 /\ \A i \in 1 .. Len(Tail(s)) : Tail(s)[i] = s[i + 1]
      BY <1>1, HeadTailProperties
<1>3. Len(s) - 1 \in 1 .. Len(Tail(s)) /\ (Len(s) - 1) + 1 = Len(s)
      BY <1>1, <1>2
<1>4. Tail(s)[Len(s) - 1] = s[(Len(s) - 1) + 1]
      BY <1>2, <1>3, Zenon
<1>5. Tail(s) # <<>>
      <2>1. Len(s) - 1 # 0
            BY <1>1, <1>3
      <2>2. Len(<<>>) = 0
            BY EmptySeq
      <2> QED
            BY <1>2, <2>1, <2>2, Zenon
<1> QED
      BY <1>2, <1>3, <1>4, <1>5

\* The event that is handled: the queue behind it, and what is left to say when
\* it was the last.
LEMMA HandleKeeps ==
    ASSUME Queue, Newest, HandleEvent
    PROVE  Queue' /\ Newest'
<1>1. /\ events \in Seq(EventTypes) /\ events # <<>> /\ Len(events) \in Nat /\ Len(events) > 0
      /\ Head(events) \in EventTypes /\ events' = Tail(events) /\ phone' = phone
      BY DEF HandleEvent, Queue
<1>2. Tail(events) \in Seq(EventTypes) /\ Len(Tail(events)) = Len(events) - 1
      BY <1>1
<1>3. Queue'
      BY <1>1, <1>2, EventDepthAssumption DEF Queue
<1>4. ASSUME Len(events) > 1
      PROVE  Newest'
      <2>1. Tail(events) # <<>> /\ Tail(events)[Len(events) - 1] = events[Len(events)]
            BY <1>1, <1>4, TailKeepsLast
      <2>2. events' # <<>> /\ events'[Len(events')] = events[Len(events)]
            BY <1>1, <1>2, <2>1
      <2> QED
            BY <1>1, <2>2 DEF Newest
<1>5. ASSUME Len(events) = 1
      PROVE  Newest'
      <2>1. events' = <<>> /\ events[Len(events)] = Head(events)
            BY <1>1, <1>2, <1>5
      <2>2. CASE Head(events) = "APP_CONNECTED"
            <3>1. phone
                  BY <1>1, <2>1, <2>2 DEF Newest
            <3>2. client' = TRUE /\ stranded' = FALSE
                  BY <2>2 DEF HandleEvent, Handle, HandleAppConnected
            <3> QED
                  BY <1>1, <2>1, <3>1, <3>2, Zenon DEF Newest
      <2>3. CASE Head(events) = "APP_DISCONNECTED"
            <3>1. ~phone
                  BY <1>1, <2>1, <2>3 DEF Newest
            <3>2. client' = FALSE
                  BY <2>3 DEF HandleEvent, Handle, HandleAppDisconnected
            <3> QED
                  BY <1>1, <2>1, <3>1, <3>2, Zenon DEF Newest
      <2>4. CASE Head(events) = "V1_DISCONNECTED"
            <3>1. client' = FALSE /\ stranded' = phone
                  BY <2>4 DEF HandleEvent, Handle, HandleV1Disconnected
            <3> QED
                  BY <1>1, <2>1, <3>1, Zenon DEF Newest
      <2> QED
            BY <1>1, <2>2, <2>3, <2>4 DEF EventTypes
<1>6. Len(events) > 1 \/ Len(events) = 1
      <2>1. \A n \in Nat : n > 0 => n > 1 \/ n = 1
            OBVIOUS
      <2> QED
            BY <1>1, <2>1, Zenon
<1> QED
      BY <1>3, <1>4, <1>5, <1>6

\* The blocks of process(), and what else the loop does, leave events and
\* the app's link alone; only the clean-up changes what the loop knows of it.
LEMMA ProcessKeeps ==
    ASSUME Queue, Newest, Process \/ LoopStep, ~HandleEvent
    PROVE  Queue' /\ Newest'
<1>1. /\ events' = events /\ phone' = phone
      /\ \/ client' = client /\ stranded' = stranded
         \/ client' = FALSE /\ stranded' = phone
      <2>1. CASE Deferred
            BY <2>1 DEF Deferred, host, appState, ghosts
      <2>2. CASE FollowupSchedules \/ FollowupIsElsewhere
            BY <2>2 DEF FollowupSchedules, FollowupIsElsewhere, host, appState, ghosts
      <2>3. CASE Arbitrate
            <3>1. client' = client
                  BY <2>3 DEF Arbitrate, StopForObd, Resume, appState
            <3> QED
                  BY <2>3, <3>1 DEF Arbitrate
      <2>4. CASE NoClientTimeout
            BY <2>4 DEF NoClientTimeout, appState, ghosts
      <2>5. CASE StartDue \/ NoStart
            BY <2>5 DEF StartDue, NoStart, host, appState, ghosts
      <2>6. CASE Advertise \/ Throttle
            BY <2>6 DEF Advertise, Throttle, appState
      <2>7. CASE LoopStep
            BY <2>7
            DEF LoopStep, SetObdBleArbitrationRequest, SetWifiPriority, ForceProxyAdvertising,
                host, appState, ghosts
      <2>8. CASE LastSubscribeStep \/ SubscribeCompletes \/ ConnectionLost
            BY <2>8
            DEF LastSubscribeStep, SubscribeCompletes, ConnectionLost, host, appState, ghosts
      <2> QED
            BY <2>1, <2>2, <2>3, <2>4, <2>5, <2>6, <2>7, <2>8 DEF Process
<1>2. CASE client' = client /\ stranded' = stranded
      BY <1>1, <1>2 DEF Queue, Newest
<1>3. CASE client' = FALSE /\ stranded' = phone
      BY <1>1, <1>3 DEF Queue, Newest
<1> QED
      BY <1>1, <1>2, <1>3

\* Every step keeps the queue within its depth and the newest event true.
LEMMA QueueStep == Queue /\ Newest /\ [Next]_vars => (Queue /\ Newest)'
<1>1. Queue /\ Newest /\ UNCHANGED vars => (Queue /\ Newest)'
      <2>1. UNCHANGED vars => UNCHANGED <<events, phone, client, stranded>>
            BY DEF vars, host, appState, ghosts
      <2> QED
            BY <2>1 DEF Queue, Newest
<1> QED
      BY <1>1, HostKeeps, HandleKeeps, ProcessKeeps DEF Next

\* drainProxyCallbackEvents(): whatever the queue had to drop, a loop that has
\* handled the events knows whether an app is connected, except one that
\* outlived the V1 link.
THEOREM LoopKnowsTheApp == Spec => []FlagFollowsApp
<1>1. Newest => FlagFollowsApp
      BY DEF Newest, FlagFollowsApp
<1> QED
      BY <1>1, InitHolds, QueueStep, PTL DEF Spec


---------------------------------------------------------------------------
(* The type invariant *)

\* Every flag by itself, as the provers take them.
FlagsTyped ==
    /\ link \in BOOLEAN
    /\ phone \in BOOLEAN
    /\ advertising \in BOOLEAN
    /\ terminating \in BOOLEAN
    /\ connected \in BOOLEAN
    /\ cleanup \in BOOLEAN
    /\ subscribed \in BOOLEAN
    /\ followup \in BOOLEAN
    /\ client \in BOOLEAN
    /\ clientOnce \in BOOLEAN
    /\ start \in BOOLEAN
    /\ window \in BOOLEAN
    /\ retry \in BOOLEAN
    /\ deadline \in BOOLEAN
    /\ latched \in BOOLEAN
    /\ suppressed \in BOOLEAN
    /\ preempted \in BOOLEAN
    /\ wifiPriority \in BOOLEAN
    /\ slipped \in BOOLEAN
    /\ stranded \in BOOLEAN
    /\ abandoned \in BOOLEAN

\* How the links and the flags about them go together.
Linked ==
    /\ phone /\ advertising => slipped
    /\ phone /\ pc \in {"advertise", "forced"} => slipped
    /\ terminating => phone
    /\ link => connected
    /\ cleanup => ~link
    /\ client => clientOnce

\* No step takes a flag out of BOOLEAN.
LEMMA FlagsKept ==
    ASSUME FlagsTyped, [Next]_vars
    PROVE  FlagsTyped'
<1> USE DEF V1Connects, V1Disconnects, AppConnects, AppDisconnects, LookForApp, StartsFrom,
        LastSubscribeStep, SubscribeCompletes, ConnectionLost,
        Deferred, HandleEvent, Handle, HandleAppConnected, HandleAppDisconnected,
        HandleV1Disconnected, Drained, FollowupSchedules, FollowupIsElsewhere,
        Arbitrate, StopForObd, Resume, NoClientTimeout, StartDue, NoStart, Throttle, Throttles,
        Throttled, ThrottleIsOff, WindowOpens, WindowElapses, RetryDue, NoThrottle,
        SetObdBleArbitrationRequest, SetWifiPriority, ForceProxyAdvertising, ForceOn, ForceOff,
        Advertise, StopAdvertising, ClearSchedule, ClearWindowState, Scheduled, At,
        Next, HostStep, Process, LoopStep,
        vars, host, v1, timers, timeout, appState, obd, ghosts
<1>1. TRUE \in BOOLEAN /\ FALSE \in BOOLEAN /\ \A a, b : (a \/ b) \in BOOLEAN
      OBVIOUS
<1>2. \A a : (~a) \in BOOLEAN
      OBVIOUS
<1>3. link' \in BOOLEAN
      BY <1>1, <1>2, Zenon DEF FlagsTyped
<1>4. phone' \in BOOLEAN
      BY <1>1, <1>2, Zenon DEF FlagsTyped
<1>5. advertising' \in BOOLEAN
      BY <1>1, <1>2, Zenon DEF FlagsTyped
<1>6. terminating' \in BOOLEAN
      BY <1>1, <1>2, Zenon DEF FlagsTyped
<1>7. connected' \in BOOLEAN
      BY <1>1, <1>2, Zenon DEF FlagsTyped
<1>8. cleanup' \in BOOLEAN
      BY <1>1, <1>2, Zenon DEF FlagsTyped
<1>9. followup' \in BOOLEAN
      BY <1>1, <1>2, Zenon DEF FlagsTyped
<1>10. client' \in BOOLEAN
      BY <1>1, <1>2, Zenon DEF FlagsTyped
<1>11. clientOnce' \in BOOLEAN
      BY <1>1, <1>2, Zenon DEF FlagsTyped
<1>12. start' \in BOOLEAN
      BY <1>1, <1>2, Zenon DEF FlagsTyped
<1>13. window' \in BOOLEAN
      BY <1>1, <1>2, Zenon DEF FlagsTyped
<1>14. retry' \in BOOLEAN
      BY <1>1, <1>2, Zenon DEF FlagsTyped
<1>15. deadline' \in BOOLEAN
      BY <1>1, <1>2, Zenon DEF FlagsTyped
<1>16. latched' \in BOOLEAN
      BY <1>1, <1>2, Zenon DEF FlagsTyped
<1>17. suppressed' \in BOOLEAN
      BY <1>1, <1>2, Zenon DEF FlagsTyped
<1>18. preempted' \in BOOLEAN
      BY <1>1, <1>2, Zenon DEF FlagsTyped
<1>19. wifiPriority' \in BOOLEAN
      BY <1>1, <1>2, Zenon DEF FlagsTyped
<1>20. slipped' \in BOOLEAN
      <2>1. CASE AppConnects
            BY <2>1
      <2>2. CASE ~AppConnects
            BY <1>1, <2>2, Zenon DEF FlagsTyped
      <2> QED
            BY <2>1, <2>2
<1>21. stranded' \in BOOLEAN
      BY <1>1, <1>2, Zenon DEF FlagsTyped
<1>22. abandoned' \in BOOLEAN
      BY <1>1, <1>2, Zenon DEF FlagsTyped
<1>23. subscribed' \in BOOLEAN
      BY <1>1, <1>2, Zenon DEF FlagsTyped
<1> QED
      BY <1>3, <1>4, <1>5, <1>6, <1>7, <1>8, <1>9, <1>10, <1>11, <1>12, <1>13, <1>14, <1>15,
         <1>16, <1>17, <1>18, <1>19, <1>20, <1>21, <1>22, <1>23
      DEF FlagsTyped

\* Only a start that an app has slipped into advertises while there is one, and no
\* step has the loop take a live V1 link for ended.
LEMMA LinkedKept ==
    ASSUME FlagsTyped, Linked, [Next]_vars
    PROVE  Linked'
<1> USE DEF V1Connects, V1Disconnects, AppConnects, AppDisconnects, LookForApp, StartsFrom,
        LastSubscribeStep, SubscribeCompletes, ConnectionLost,
        Deferred, HandleEvent, Handle, HandleAppConnected, HandleAppDisconnected,
        HandleV1Disconnected, Drained, FollowupSchedules, FollowupIsElsewhere,
        Arbitrate, StopForObd, Resume, NoClientTimeout, StartDue, NoStart, Throttle, Throttles,
        Throttled, ThrottleIsOff, WindowOpens, WindowElapses, RetryDue, NoThrottle,
        SetObdBleArbitrationRequest, SetWifiPriority, ForceProxyAdvertising, ForceOn, ForceOff,
        Advertise, StopAdvertising, ClearSchedule, ClearWindowState, Scheduled, At,
        Next, HostStep, Process, LoopStep,
        vars, host, v1, timers, timeout, appState, obd, ghosts
<1>1. phone' /\ advertising' => slipped'
      BY Zenon DEF Linked
<1>6. phone' /\ pc' \in {"advertise", "forced"} => slipped'
      BY Zenon DEF Linked
<1>2. terminating' => phone'
      BY Zenon DEF Linked
<1>3. link' => connected'
      BY Zenon DEF Linked
<1>4. cleanup' => ~link'
      BY Zenon DEF Linked
<1>5. client' => clientOnce'
      BY Zenon DEF Linked
<1> QED
      BY <1>1, <1>2, <1>3, <1>4, <1>5, <1>6 DEF Linked

\* process() is always at one of its blocks, and a request is one of three.
LEMMA PlacesKept ==
    ASSUME pc \in Blocks, request \in Requests, [Next]_vars
    PROVE  pc' \in Blocks /\ request' \in Requests
<1> USE DEF V1Connects, V1Disconnects, AppConnects, AppDisconnects, LookForApp, StartsFrom,
        LastSubscribeStep, SubscribeCompletes, ConnectionLost,
        Deferred, HandleEvent, Handle, HandleAppConnected, HandleAppDisconnected,
        HandleV1Disconnected, Drained, FollowupSchedules, FollowupIsElsewhere,
        Arbitrate, StopForObd, Resume, NoClientTimeout, StartDue, NoStart, Throttle, Throttles,
        Throttled, ThrottleIsOff, WindowOpens, WindowElapses, RetryDue, NoThrottle,
        SetObdBleArbitrationRequest, SetWifiPriority, ForceProxyAdvertising, ForceOn, ForceOff,
        Advertise, StopAdvertising, ClearSchedule, ClearWindowState, Scheduled, At,
        Next, HostStep, Process, LoopStep,
        vars, host, v1, timers, timeout, appState, obd, ghosts
<1>1. pc' \in Blocks
      BY Zenon DEF Blocks
<1>2. request' \in Requests
      BY Zenon
<1> QED
      BY <1>1, <1>2

\* The types of the proxy's state hold, and with them: the proxy advertises with an
\* app on its link only when the app connected between the two looks of a start
\* (startProxyAdvertising), a link is being terminated only while it is there, and
\* the loop never takes a live V1 link for ended.
THEOREM TypeCorrect == Spec => []TypeOK
<1> DEFINE Typed == FlagsTyped /\ Linked /\ pc \in Blocks /\ request \in Requests
<1> DEFINE Inv == Typed /\ Queue /\ Newest
<1>1. Init => Inv
      <2>1. Init => FlagsTyped
            BY Zenon DEF Init, FlagsTyped
      <2>2. Init => Linked /\ pc \in Blocks /\ request \in Requests
            BY DEF Init, Linked, Blocks, Requests
      <2> QED
            BY <2>1, <2>2, InitHolds
<1>2. Inv /\ [Next]_vars => Inv'
      <2>1. Typed /\ [Next]_vars => Typed'
            BY FlagsKept, LinkedKept, PlacesKept
      <2>2. Queue /\ Newest /\ [Next]_vars => Queue' /\ Newest'
            BY QueueStep
      <2> QED
            BY <2>1, <2>2
<1>3. Inv => TypeOK
      <2>1. Queue /\ pc \in Blocks /\ request \in Requests /\ Linked /\ FlagsTyped
            => /\ events \in Seq(EventTypes) /\ Len(events) <= EventDepth
               /\ pc \in Blocks /\ request \in Requests
               /\ (phone /\ advertising => slipped) /\ (terminating => phone)
               /\ (link => connected) /\ (client => clientOnce)
            BY DEF Queue, Linked
      <2>2. FlagsTyped
            => \A flag \in {link, phone, advertising, terminating, connected, cleanup, subscribed,
                             followup, client, clientOnce, start, window, retry, deadline, latched,
                             suppressed, preempted, wifiPriority, slipped, stranded, abandoned} :
                  flag \in BOOLEAN
            BY Zenon DEF FlagsTyped
      <2> QED
            BY <2>1, <2>2, Zenon DEF TypeOK
<1> QED
      BY <1>1, <1>2, <1>3, PTL DEF Spec
=============================================================================
