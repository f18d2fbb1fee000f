------------------------------- MODULE BleProxy -------------------------------
(***************************************************************************)
(* The proxy: the GATT server the device offers to a phone app while it is *)
(* the client of the V1.  The Bluetooth host task reports what happens on  *)
(* both links through a bounded queue; process(), called by the loop,      *)
(* handles the events, decides whether to advertise, and takes the V1      *)
(* connection a step further (BleLink has the steps).  Advertising needs a *)
(* V1 link, and gives way to the web interface (Wi-Fi priority), to the    *)
(* OBD runtime (arbitration), to an app that is connected, and for good to *)
(* the no-client timeout; while the station link is up it pauses.  There   *)
(* is one app; more could connect.                                         *)
(*                                                                         *)
(* One pass of process() is the sequence of its blocks, pc naming the next *)
(* one: the host task runs between them.  A timer is set or not, and a set *)
(* timer may have elapsed whenever it is looked at.  Reasons are recorded  *)
(* for the metrics only and left out.                                      *)
(***************************************************************************)
EXTENDS Integers, Sequences

CONSTANT EventDepth    \* PROXY_CALLBACK_EVENT_QUEUE_DEPTH

ASSUME EventDepthAssumption == EventDepth \in Nat \ {0}

VARIABLES
    \* the host's side
    link, phone, advertising,    \* V1 link, app's link, the advertiser
    terminating,                 \* the app's link is being terminated
    events,                      \* proxyCallbackEventQueue_
    \* the V1 connection as the loop knows it
    connected, cleanup,          \* connected_, pendingDisconnectCleanup_
    subscribed,                  \* bleState_ is CONNECTED
    followup,                    \* the proxy's step of the connect follow-up is to come
    \* the proxy
    pc,
    client, clientOnce,          \* proxyClientConnected_, ...OnceThisBoot_
    start, window, retry,        \* proxyAdvertising{Start,WindowStart,RetryAt}Ms_ # 0
    deadline, latched,           \* proxyNoClientDeadlineMs_ # 0, ...TimeoutLatched_
    request,                     \* obdBleArbitrationRequest_
    suppressed, preempted,       \* proxySuppressedForObdHold_, proxyDisconnectRequested...
    \* what it depends on
    wifiPriority,
    \* history
    slipped,      \* the app connected between the two looks of a start
    stranded,     \* the app outlived the V1 link it was served from
    abandoned     \* advertising was given up with nothing left to resume it

host     == <<link, phone, advertising, terminating, events, slipped>>
v1       == <<connected, cleanup, subscribed, followup>>
timers   == <<start, window, retry>>
timeout  == <<deadline, latched>>
appState == <<client, clientOnce>>
obd      == <<request, suppressed, preempted>>
ghosts   == <<stranded, abandoned>>
vars == <<host, v1, pc, timers, timeout, appState, obd, wifiPriority, ghosts>>

---------------------------------------------------------------------------

EventTypes == {"APP_CONNECTED", "APP_DISCONNECTED", "V1_DISCONNECTED"}
Requests   == {"NONE", "HOLD", "PREEMPT"}
Blocks     == {"deferred", "drain", "arbitrate", "start", "advertise", "throttle",
               "commit", "forced"}

TypeOK ==
    /\ \A flag \in {link, phone, advertising, terminating, connected, cleanup, subscribed, followup,
                    client, clientOnce, start, window, retry, deadline, latched,
                    suppressed, preempted, wifiPriority, slipped, stranded, abandoned} :
          flag \in BOOLEAN
    /\ events \in Seq(EventTypes) /\ Len(events) <= EventDepth
    /\ pc \in Blocks /\ request \in Requests
    /\ phone /\ advertising => slipped      \* one app at a time
    /\ terminating => phone
    /\ link => connected
    /\ client => clientOnce

Init ==
    /\ link = FALSE /\ phone = FALSE /\ advertising = FALSE /\ terminating = FALSE
    /\ events = <<>> /\ slipped = FALSE
    /\ connected = FALSE /\ cleanup = FALSE /\ subscribed = FALSE /\ followup = FALSE
    /\ pc = "deferred" /\ client = FALSE /\ clientOnce = FALSE
    /\ start = FALSE /\ window = FALSE /\ retry = FALSE
    /\ deadline = FALSE /\ latched = FALSE
    /\ request = "NONE" /\ suppressed = FALSE /\ preempted = FALSE
    /\ wifiPriority = FALSE
    /\ stranded = FALSE /\ abandoned = FALSE

At(block)  == pc = block
IsUp       == connected /\ link           \* isConnected()
Suppressing == request # "NONE"           \* suppressPassiveProxy

---------------------------------------------------------------------------
(* The host task *)

Enqueue_Newest(type) ==    \* slip: what does not fit is dropped
    events' = IF Len(events) < EventDepth THEN Append(events, type) ELSE events

\* enqueueProxyCallbackEvent(): the oldest makes room.
Enqueue(type) ==
    events' = Append(IF Len(events) < EventDepth THEN events ELSE Tail(events), type)

\* A V1 link comes up only after the loop has seen the last one end (in BleLink it
\* need not, when a second V1 is in range).
V1Connects ==
    /\ ~connected /\ ~cleanup
    /\ \A i \in 1 .. Len(events) : events[i] # "V1_DISCONNECTED"
    /\ link' = TRUE /\ connected' = TRUE
    /\ UNCHANGED <<phone, advertising, terminating, events, slipped, cleanup,
                   subscribed, followup>>
    /\ UNCHANGED <<pc, timers, timeout, appState, obd, wifiPriority, ghosts>>

\* ClientCallbacks::onDisconnect(): when the mutex is busy the loop cleans up.
V1Disconnects ==
    /\ link
    /\ link' = FALSE
    /\ Enqueue("V1_DISCONNECTED")
    /\ \/ connected' = FALSE /\ subscribed' = FALSE /\ followup' = FALSE /\ UNCHANGED cleanup
       \/ cleanup' = TRUE /\ UNCHANGED <<connected, subscribed, followup>>
    /\ UNCHANGED <<phone, advertising, terminating, slipped>>
    /\ UNCHANGED <<pc, timers, timeout, appState, obd, wifiPriority, ghosts>>

\* The stack stops advertising when an app connects.
AppConnects ==
    /\ advertising /\ ~phone
    /\ phone' = TRUE /\ advertising' = FALSE
    /\ slipped' = (pc \in {"advertise", "forced"})
    /\ Enqueue("APP_CONNECTED")
    /\ UNCHANGED <<link, terminating>>
    /\ UNCHANGED <<v1, pc, timers, timeout, appState, obd, wifiPriority, ghosts>>

\* It does not advertise again by itself when the app is gone.
AppDisconnects ==
    /\ phone
    /\ phone' = FALSE /\ terminating' = FALSE /\ slipped' = FALSE /\ stranded' = FALSE
    /\ Enqueue("APP_DISCONNECTED")
    /\ UNCHANGED <<link, advertising, abandoned>>
    /\ UNCHANGED <<v1, pc, timers, timeout, appState, obd, wifiPriority>>

---------------------------------------------------------------------------
(* Starting and stopping *)

ClearSchedule    == start' = FALSE
ClearWindowState == window' = FALSE /\ retry' = FALSE

\* stopProxyAdvertisingFromMainLoop()
StopAdvertising == ClearSchedule /\ ClearWindowState /\ advertising' = FALSE

\* From the block that schedules a start on.
Scheduled == start' = TRUE /\ abandoned' = FALSE

\* startProxyAdvertising() once it is past its first guards: an app that is
\* connected needs none.
LookForApp_Anyway(skip, go) ==    \* slip: the app that is connected is not looked at
    /\ deadline' = (deadline \/ ~clientOnce)
    /\ pc' = go
    /\ UNCHANGED <<window, retry>>

LookForApp(skip, go) ==
    /\ deadline' = (deadline \/ ~clientOnce)
    /\ \/ phone  /\ pc' = skip /\ ClearWindowState
       \/ ~phone /\ pc' = go /\ UNCHANGED <<window, retry>>

\* Then it starts, unless it advertises already; the stack may refuse.
StartsFrom(block, next) ==
    /\ At(block) /\ pc' = next
    /\ \/ advertising' = TRUE /\ window' = TRUE /\ abandoned' = FALSE
       \/ ~advertising /\ abandoned' = TRUE /\ UNCHANGED <<advertising, window>>

Advertise ==
    /\ StartsFrom("advertise", "throttle") \/ StartsFrom("forced", "deferred")
    /\ UNCHANGED <<link, phone, terminating, events, slipped, v1, start, retry, timeout,
                   appState, obd, wifiPriority, stranded>>

---------------------------------------------------------------------------
(* process(): what the callbacks deferred, then the events *)

\* The clean-up of a V1 link that ended while the mutex was busy; it may still
\* be busy now.
Deferred ==
    /\ At("deferred")
    /\ pc' = "drain"
    /\ \/ /\ cleanup
          /\ cleanup' = FALSE /\ connected' = FALSE
          /\ subscribed' = FALSE /\ followup' = FALSE
          /\ client' = FALSE /\ preempted' = FALSE
          /\ stranded' = phone
          /\ UNCHANGED <<clientOnce, request, suppressed, abandoned>>
       \/ UNCHANGED <<v1, appState, obd, ghosts>>
    /\ UNCHANGED <<host, timers, timeout, wifiPriority>>

HandleAppConnected ==
    /\ client' = TRUE /\ clientOnce' = TRUE /\ deadline' = FALSE
    /\ suppressed' = FALSE /\ preempted' = FALSE
    /\ ClearWindowState
    /\ stranded' = FALSE
    /\ UNCHANGED <<advertising, start, request, latched, abandoned>>

HandleAppDisconnected_Forgets ==    \* slip: nothing resumes advertising
    /\ client' = FALSE /\ preempted' = FALSE
    /\ ClearWindowState
    /\ UNCHANGED <<advertising, start, suppressed, clientOnce, request, timeout,
                   ghosts>>

\* The app's place is open again, once the OBD runtime allows it.
HandleAppDisconnected ==
    /\ client' = FALSE /\ preempted' = FALSE
    /\ ClearWindowState
    /\ \/ /\ connected /\ ~wifiPriority /\ Suppressing
          /\ suppressed' = TRUE /\ ClearSchedule
          /\ UNCHANGED abandoned
       \/ /\ connected /\ ~wifiPriority /\ ~Suppressing
          /\ Scheduled
          /\ UNCHANGED suppressed
       \/ /\ ~connected \/ wifiPriority
          /\ UNCHANGED <<start, suppressed, abandoned>>
    /\ UNCHANGED <<advertising, clientOnce, request, timeout, stranded>>

HandleV1Disconnected ==
    /\ client' = FALSE /\ suppressed' = FALSE /\ preempted' = FALSE
    /\ StopAdvertising
    /\ stranded' = phone
    /\ UNCHANGED <<clientOnce, request, timeout, abandoned>>

Handle(type) ==
    \/ type = "APP_CONNECTED"    /\ HandleAppConnected
    \/ type = "APP_DISCONNECTED" /\ HandleAppDisconnected
    \/ type = "V1_DISCONNECTED"  /\ HandleV1Disconnected

\* drainProxyCallbackEvents(): one event after the other, the newest included.
HandleEvent ==
    /\ At("drain") /\ events # <<>>
    /\ Handle(Head(events))
    /\ events' = Tail(events)
    /\ UNCHANGED <<link, phone, terminating, slipped, v1, pc, wifiPriority>>

Drained == At("drain") /\ events = <<>> /\ pc' = "arbitrate"

\* SCHEDULE_PROXY_ADVERTISING of the connect follow-up.
FollowupSchedules ==
    /\ Drained
    /\ followup /\ IsUp
    /\ followup' = FALSE
    /\ Scheduled
    /\ UNCHANGED <<host, connected, cleanup, subscribed, window, retry, timeout,
                   appState, obd, wifiPriority, stranded>>

FollowupIsElsewhere ==
    /\ Drained
    /\ UNCHANGED <<host, v1, timers, timeout, appState, obd, wifiPriority, ghosts>>

---------------------------------------------------------------------------
(* process(): whether to advertise *)

StopForObd_AppStays ==    \* slip: the app is not disconnected
    /\ StopAdvertising
    /\ suppressed' = TRUE
    /\ UNCHANGED <<preempted, terminating>>

\* The OBD runtime asks for the radio: advertising stops, and to preempt ends
\* the app's link too, which is asked once and may be refused.
StopForObd ==
    IF ~client /\ advertising
    THEN suppressed' = TRUE /\ StopAdvertising /\ UNCHANGED <<preempted, terminating>>
    ELSE /\ UNCHANGED <<timers, advertising>>
         /\ \/ /\ request = "PREEMPT" /\ client /\ ~preempted /\ phone
               /\ preempted' = TRUE /\ suppressed' = TRUE
               /\ terminating' \in BOOLEAN
            \/ /\ ~(request = "PREEMPT" /\ client /\ ~preempted /\ phone)
               /\ UNCHANGED <<preempted, suppressed, terminating>>

ResumeDue ==
    /\ ~Suppressing /\ suppressed /\ IsUp /\ ~wifiPriority /\ ~latched
    /\ ~client /\ ~advertising /\ ~start /\ ~retry

Resume_Lost == suppressed' = FALSE /\ UNCHANGED <<start, abandoned>>    \* slip: only forgets

Resume == suppressed' = FALSE /\ Scheduled

Arbitrate ==
    /\ At("arbitrate")
    /\ pc' = "start"
    /\ \/ /\ Suppressing /\ IsUp
          /\ StopForObd
          /\ UNCHANGED abandoned
       \/ /\ ResumeDue
          /\ Resume
          /\ UNCHANGED <<window, retry, advertising, preempted, terminating>>
       \/ /\ ~(Suppressing /\ IsUp) /\ ~ResumeDue
          /\ UNCHANGED <<timers, advertising, suppressed, preempted, terminating,
                         abandoned>>
    /\ UNCHANGED <<link, phone, events, slipped, v1, timeout, appState, request,
                   wifiPriority, stranded>>

\* No app came in time: no advertising until the next boot, nor a start that is
\* scheduled.
NoClientTimeout ==
    /\ At("start") /\ pc' = "throttle"
    /\ ~latched /\ ~clientOnce /\ deadline
    /\ latched' = TRUE
    /\ StopAdvertising
    /\ UNCHANGED <<link, phone, terminating, events, slipped, v1, deadline, appState,
                   obd, wifiPriority, ghosts>>

\* The start that was scheduled, when its time has come.
StartDue ==
    /\ At("start")
    /\ ~latched /\ start
    /\ \/ /\ Suppressing /\ ~client      \* kept for later
          /\ suppressed' = TRUE /\ pc' = "throttle"
          /\ UNCHANGED <<timers, deadline>>
       \/ /\ ~(Suppressing /\ ~client) /\ IsUp /\ ~wifiPriority
          /\ start' = FALSE
          /\ LookForApp("throttle", "advertise")
          /\ UNCHANGED suppressed
       \/ /\ ~(Suppressing /\ ~client) /\ (~IsUp \/ wifiPriority)
          /\ start' = FALSE /\ pc' = "throttle"
          /\ UNCHANGED <<window, retry, deadline, suppressed>>
    /\ UNCHANGED <<host, v1, latched, appState, request, preempted, wifiPriority,
                   ghosts>>

NoStart ==
    /\ At("start")
    /\ pc' = "throttle"
    /\ UNCHANGED <<host, v1, timers, timeout, appState, obd, wifiPriority, ghosts>>

\* While the station link is up, as any pass may find it or not, and there is no
\* app, the advertiser works in windows.
Throttles == At("throttle") /\ pc' = "deferred" /\ IsUp /\ ~wifiPriority /\ ~latched

ThrottleIsOff ==
    /\ Throttles
    /\ ClearWindowState
    /\ abandoned' = (abandoned \/ (~client /\ retry /\ ~start))
    /\ UNCHANGED <<advertising, start>>

Throttled == Throttles /\ ~client

WindowOpens ==
    /\ Throttled /\ advertising
    /\ window' = TRUE
    /\ UNCHANGED <<advertising, start, retry, abandoned>>

WindowElapses ==
    /\ Throttled /\ advertising /\ window
    /\ advertising' = FALSE /\ window' = FALSE /\ retry' = TRUE
    /\ UNCHANGED <<start, abandoned>>

RetryDue ==
    /\ Throttled /\ ~advertising /\ retry
    /\ retry' = FALSE
    /\ Scheduled
    /\ UNCHANGED <<advertising, window>>

NoThrottle ==
    /\ At("throttle") /\ pc' = "deferred"
    /\ (IsUp /\ ~wifiPriority /\ ~latched) => (~client /\ ~advertising)
    /\ UNCHANGED <<advertising, timers, abandoned>>

Throttle ==
    /\ ThrottleIsOff \/ WindowOpens \/ WindowElapses \/ RetryDue \/ NoThrottle
    /\ UNCHANGED <<link, phone, terminating, events, slipped, v1, timeout, appState,
                   obd, wifiPriority, stranded>>

---------------------------------------------------------------------------
(* process(): the state machine of the V1 connection, after the proxy's blocks *)

\* The last subscribe step: the link came up in its attempt, which has not failed.
\* One that came up too late, or whose attempt failed, may last without it.
LastSubscribeStep ==
    /\ At("deferred") /\ connected /\ ~subscribed
    /\ pc' = "commit"
    /\ UNCHANGED <<host, v1, timers, timeout, appState, obd, wifiPriority, ghosts>>

\* The follow-up is armed when the step has returned, whatever has become of the
\* link.
SubscribeCompletes ==
    /\ At("commit") /\ pc' = "deferred"
    /\ connected' = TRUE /\ subscribed' = TRUE /\ followup' = TRUE
    /\ UNCHANGED <<host, cleanup, timers, timeout, appState, obd, wifiPriority, ghosts>>

\* In CONNECTED only the link is looked at.
ConnectionLost ==
    /\ At("deferred") /\ subscribed /\ ~link
    /\ connected' = FALSE /\ subscribed' = FALSE
    /\ UNCHANGED <<host, cleanup, followup, pc, timers, timeout, appState, obd,
                   wifiPriority, ghosts>>

---------------------------------------------------------------------------
(* The rest of the loop *)

\* setObdBleArbitrationRequest(): what a request that ends held back resumes.
SetObdBleArbitrationRequest ==
    /\ At("deferred")
    /\ \E new \in Requests \ {request} :
        /\ request' = new
        /\ suppressed' = (suppressed \/ request = "HOLD" \/ (request = "PREEMPT" /\ new = "NONE"))
    /\ UNCHANGED <<host, v1, pc, timers, timeout, appState, preempted, wifiPriority,
                   ghosts>>

SetWifiPriority ==
    /\ At("deferred")
    /\ wifiPriority' = ~wifiPriority
    /\ \/ /\ ~wifiPriority
          /\ advertising' = FALSE /\ start' = FALSE /\ window' = FALSE
          /\ UNCHANGED abandoned
       \/ /\ wifiPriority /\ IsUp /\ ~latched
          /\ Scheduled /\ window' = FALSE
          /\ UNCHANGED advertising
       \/ /\ wifiPriority /\ (~IsUp \/ latched)
          /\ UNCHANGED <<advertising, start, window, abandoned>>
    /\ UNCHANGED <<link, phone, terminating, events, slipped, v1, pc, retry, timeout,
                   appState, obd, stranded>>

\* forceProxyAdvertising(), a service of the debug interface
ForceOn ==
    /\ connected
    /\ latched' = FALSE
    /\ LookForApp("deferred", "forced")
    /\ UNCHANGED <<start, advertising, abandoned>>

ForceOff ==
    /\ StopAdvertising
    /\ abandoned' = TRUE
    /\ UNCHANGED <<pc, timeout>>

ForceProxyAdvertising ==
    /\ At("deferred")
    /\ ForceOn \/ ForceOff
    /\ UNCHANGED <<link, phone, terminating, events, slipped, v1, appState, obd,
                   wifiPriority, stranded>>

HostStep == V1Connects \/ V1Disconnects \/ AppConnects \/ AppDisconnects
Process  == Deferred \/ HandleEvent \/ FollowupSchedules \/ FollowupIsElsewhere \/ Arbitrate
            \/ NoClientTimeout \/ StartDue \/ NoStart \/ Advertise \/ Throttle
            \/ LastSubscribeStep \/ SubscribeCompletes \/ ConnectionLost
LoopStep == SetObdBleArbitrationRequest \/ SetWifiPriority \/ ForceProxyAdvertising

Next == HostStep \/ Process \/ LoopStep

Spec == Init /\ [][Next]_vars

\* The loop keeps calling process(), the follow-up gets to the proxy's step,
\* timers elapse, and a link that is being terminated ends.
Fairness ==
    /\ WF_vars(Process)
    /\ SF_vars(FollowupSchedules)
    /\ SF_vars(StartDue)
    /\ SF_vars(Throttle /\ RetryDue)
    /\ SF_vars(Deferred /\ ~cleanup')
    /\ WF_vars(terminating /\ AppDisconnects)

FairSpec == Spec /\ Fairness

---------------------------------------------------------------------------
(* Properties *)

\* Once the events are handled the loop knows whether an app is connected:
\* proxyClientConnected_, which decides whether V1 data is forwarded
\* (forwardToProxy), voice alerts are muted and the OBD runtime may use the
\* radio.  The exception is the app that outlived the V1 link: the V1's
\* disconnect clears the flag and nothing sets it again.
FlagFollowsApp == events = <<>> => (client <=> phone /\ ~stranded)

\* With a V1 whose subscription has completed and nothing that asks for silence,
\* the proxy does not stay without an app and without advertising for one (the
\* follow-up, and the retry and resume rules of process()) -- unless the pause
\* between two windows was cut short by the loss of the station link, the stack
\* refused to start, or the debug interface stopped it.
Silent == /\ IsUp /\ subscribed /\ ~phone /\ ~advertising
          /\ ~wifiPriority /\ request = "NONE" /\ ~latched
AdvertisingReturns == Silent ~> (~Silent \/ abandoned)

\* A manual OBD scan gets the radio: while it preempts the proxy, advertising
\* and the app's connection, as the OBD runtime sees them, end
\* (process(), the arbitration block) -- unless the stack refused to end the link,
\* or the app slipped in while a start was under way.
Refused == phone /\ preempted /\ ~terminating
RadioIsYielded ==
    (request = "PREEMPT" /\ IsUp) ~>
        (request # "PREEMPT" \/ ~IsUp \/ Refused \/ slipped \/ (~advertising /\ ~client))
=============================================================================
