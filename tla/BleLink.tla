------------------------------ MODULE BleLink ------------------------------
(***************************************************************************)
(* The link to the V1 radar detector: the scan / connect / discover /      *)
(* subscribe state machine that V1BLEClient::process() advances once per   *)
(* main-loop pass, against the NimBLE host task whose callbacks move the   *)
(* same fields between any two steps of it.                                *)
(*                                                                         *)
(* The main loop is sliced by pc: "flags" (the deferred callback updates), *)
(* "follow" (the post-connect follow-up), "switch" (the switch on the      *)
(* state), and the points inside the switch where the loop has read or     *)
(* done something and has not yet acted on it: "wait2" between the reads   *)
(* of asyncConnectSuccess_ and asyncConnectPending_, "step", "store" and   *)
(* "again" within a subscribe step, before it follows a pointer, before it *)
(* stores one and before it reads one once more, and "commit" between the  *)
(* step and what processSubscribing() stores after it.  A host callback is *)
(* one action: all of them run on one task, and each does a few stores     *)
(* under a try-lock, which the main loop may make fail.  A subscribe step  *)
(* takes no lock.                                                          *)
(***************************************************************************)
EXTENDS Integers, FiniteSets

CONSTANTS
    MaxConnectAttempts,   \* MAX_CONNECT_ATTEMPTS: initiations in one attempt
    HardResetThreshold,   \* V1_BLE_MAX_BACKOFF_FAILURES
    EarlyUptime,          \* the run is within the first 11 s after boot
    Contended,            \* the callbacks whose try-lock the main loop may make fail
    NearbyV1,             \* a V1 advertises while ours holds a link: another car's
    HasLong,              \* the V1 offers the two long characteristics, which are optional
    MaxDiscTasks,         \* memory for this many discovery tasks at once
    MaxObdScans           \* bound: scans the OBD client starts in a run

ASSUME AttemptsAssumption == MaxConnectAttempts \in Nat \ {0}
ASSUME UptimeAssumption == EarlyUptime \in BOOLEAN
ASSUME NearbyAssumption == NearbyV1 \in BOOLEAN
ASSUME LongAssumption == HasLong \in BOOLEAN
ASSUME ThresholdAssumption == HardResetThreshold \in Nat \ {0}
ASSUME TasksAssumption == MaxDiscTasks \in Nat
ASSUME ObdScansAssumption == MaxObdScans \in Nat

VARIABLES
    link,          \* the controller's link to the V1: "down", "initiating", "up", "terminating"
    scanning,      \* NimBLEScan::isScanning()
    scanOwner,     \* whose callbacks the shared NimBLEScan calls: "v1" or "obd"
    pc,            \* where the main loop is
    bleState,
    connected,     \* connected_
    connectInProgress,
    age,           \* now - connectStartMs_ in timeout bands, or Unset (connectStartMs_ = 0)
    asyncConnectPending,
    asyncConnectSuccess,
    connectAttemptNumber,
    consecutiveConnectFailures,
    gate,          \* nextConnectAllowedMs_ is in the future
    shouldConnect,
    deferred,      \* updates a callback left for the main loop: a set of kinds
    connectedFollowupStep,
    handles,       \* the pointers to attributes of the V1 that are set
    subscribed,    \* the V1 accepted the subscription to B2CE on this link
    subscribeStep,
    discRunning, discDone, discResult,   \* discoveryTaskRunning_ / Done_ / Result_
    discTasks,     \* discovery tasks alive
    wifiPriority,
    bootReady,
    obdScans,      \* OBD scans so far (bounded)
    cut,           \* history: onDisconnect cleared the pointers within this subscribe step
    late           \* history: the pointers stored in such a step after they were cleared

radio    == <<link, scanning, scanOwner>>
attempt  == <<connectInProgress, age, asyncConnectPending, asyncConnectSuccess,
              connectAttemptNumber, consecutiveConnectFailures, gate>>
setup    == <<handles, subscribed, subscribeStep>>
disc     == <<discRunning, discDone, discResult, discTasks>>
history  == <<cut, late>>
context  == <<wifiPriority, bootReady, obdScans, history>>
vars     == <<radio, pc, bleState, connected, attempt, shouldConnect, deferred,
              connectedFollowupStep, setup, disc, context>>

---------------------------------------------------------------------------
(* Values *)

BleStates == {"DISCONNECTED", "SCANNING", "SCAN_STOPPING", "CONNECTING",
              "CONNECTING_WAIT", "DISCOVERING", "SUBSCRIBING",
              "SUBSCRIBE_YIELD", "CONNECTED", "BACKOFF"}

AttemptStates == {"CONNECTING", "CONNECTING_WAIT", "DISCOVERING",
                  "SUBSCRIBING", "SUBSCRIBE_YIELD"}

\* age counts the thresholds passed: over 3 s (connect), 5 s (stuck
\* initiation), 8 s (discovery), 11 s (subscribe).
ConnectTimeout   == 1
InitiateStuck    == 2
DiscoveryTimeout == 3
SubscribeTimeout == 4
Unset            == -1

\* connectStartMs_ = 0 makes elapsed the whole uptime: beyond every timeout
\* or, within the first 11 s, anywhere below the longest one.
Expired(t)    == IF age = Unset THEN ~EarlyUptime \/ t < SubscribeTimeout ELSE age >= t
NotExpired(t) == IF age = Unset THEN EarlyUptime ELSE age < t

FollowupSteps == {"NONE", "REQUEST_ALERT_DATA", "WAIT_CONNECT_BURST_SETTLE",
                  "REQUEST_VERSION", "NOTIFY_STABLE_CALLBACK",
                  "SCHEDULE_PROXY_ADVERTISING", "BACKUP_BONDS"}

DeferredKinds == {"connect", "disconnect", "scanEnd", "scanTarget"}

ASSUME ContendedAssumption == Contended \subseteq DeferredKinds

Handles == {"service", "display", "notify", "command", "commandLong", "notifyLong"}

\* Those a connection cannot do without.
Required == {"service", "display", "notify", "command"}

SubscribeSteps == {"GET_SERVICE", "GET_DISPLAY_CHAR", "GET_COMMAND_CHAR",
                   "GET_COMMAND_LONG", "SUBSCRIBE_DISPLAY", "GET_DISPLAY_LONG",
                   "SUBSCRIBE_LONG", "REQUEST_ALERT_DATA", "REQUEST_VERSION",
                   "COMPLETE"}

\* Where onDisconnect may find the loop inside a subscribe step.
InStep == {"step", "store", "again"}

\* The pointer a subscribe step follows to look its attribute up,
Needs == [s \in SubscribeSteps |->
            CASE s \in {"GET_DISPLAY_CHAR", "GET_COMMAND_CHAR", "GET_COMMAND_LONG",
                        "GET_DISPLAY_LONG", "SUBSCRIBE_LONG"} -> {"service"}
              [] s = "SUBSCRIBE_DISPLAY" -> {"display"}
              [] OTHER -> {}]

\* the pointer it then stores,
Finds == [s \in SubscribeSteps |->
            CASE s = "GET_SERVICE"      -> {"service"}
              [] s = "GET_DISPLAY_CHAR" -> {"display"}
              [] s = "GET_COMMAND_CHAR" -> {"command"}
              [] s = "GET_COMMAND_LONG" /\ HasLong -> {"commandLong"}
              [] s = "GET_DISPLAY_LONG" /\ HasLong -> {"notifyLong"}
              [] OTHER -> {}]

\* the one it follows after that,
NeedsAgain == [s \in SubscribeSteps |->
            CASE s = "GET_DISPLAY_CHAR" -> {"display"}
              [] s = "GET_COMMAND_CHAR" -> {"service"}
              [] OTHER -> {}]

\* and the last it stores: the copy for notifyCallback(), the other command
\* characteristic.
FindsAgain == [s \in SubscribeSteps |->
            CASE s = "GET_DISPLAY_CHAR" -> {"notify"}
              [] s = "GET_COMMAND_CHAR" -> {"command"}
              [] OTHER -> {}]

\* The steps that may follow.
Successors == [s \in SubscribeSteps |->
            CASE s = "GET_SERVICE"        -> {"GET_DISPLAY_CHAR"}
              [] s = "GET_DISPLAY_CHAR"   -> {"GET_COMMAND_CHAR"}
              [] s = "GET_COMMAND_CHAR"   -> {"GET_COMMAND_LONG"}
              [] s = "GET_COMMAND_LONG"   -> {"SUBSCRIBE_DISPLAY"}
              [] s = "SUBSCRIBE_DISPLAY"  -> {"GET_DISPLAY_LONG"}
              [] s = "GET_DISPLAY_LONG"   ->
                     {"REQUEST_ALERT_DATA"} \union (IF HasLong THEN {"SUBSCRIBE_LONG"} ELSE {})
              [] s = "SUBSCRIBE_LONG"     -> {"REQUEST_ALERT_DATA"}
              [] s = "REQUEST_ALERT_DATA" -> {"REQUEST_VERSION"}
              [] OTHER                    -> {"COMPLETE"}]

\* The steps that report failure by staying where they are.
Critical == {"GET_SERVICE", "GET_DISPLAY_CHAR", "GET_COMMAND_CHAR", "SUBSCRIBE_DISPLAY"}

LinkOpen == link \in {"up", "terminating"}     \* NimBLEClient::isConnected()
IsConnected == connected /\ LinkOpen           \* V1BLEClient::isConnected()

TypeFlags ==
    /\ scanning \in BOOLEAN /\ connected \in BOOLEAN /\ connectInProgress \in BOOLEAN
    /\ asyncConnectPending \in BOOLEAN /\ asyncConnectSuccess \in BOOLEAN
    /\ gate \in BOOLEAN /\ shouldConnect \in BOOLEAN /\ subscribed \in BOOLEAN
    /\ discRunning \in BOOLEAN /\ discDone \in BOOLEAN /\ discResult \in BOOLEAN
    /\ wifiPriority \in BOOLEAN /\ bootReady \in BOOLEAN /\ cut \in BOOLEAN

TypeValues ==
    /\ link \in {"down", "initiating", "up", "terminating"}
    /\ scanOwner \in {"v1", "obd"}
    /\ pc \in {"flags", "follow", "switch", "wait2", "commit"} \union InStep
    /\ bleState \in BleStates
    /\ deferred \subseteq DeferredKinds
    /\ connectedFollowupStep \in FollowupSteps
    /\ handles \subseteq Handles /\ late \subseteq Handles
    /\ subscribeStep \in SubscribeSteps

TypeCounters ==
    /\ age \in Unset..SubscribeTimeout
    /\ connectAttemptNumber \in 0..MaxConnectAttempts
    /\ consecutiveConnectFailures \in 0..(HardResetThreshold - 1)
    /\ discTasks \in 0..MaxDiscTasks
    /\ obdScans \in 0..MaxObdScans

TypeOK == TypeFlags /\ TypeValues /\ TypeCounters

---------------------------------------------------------------------------
(* begin(): the scan is started before the boot gate opens *)

Init ==
    /\ link = "down" /\ scanOwner = "v1"
    /\ scanning \in BOOLEAN
    /\ bleState = IF scanning THEN "SCANNING" ELSE "DISCONNECTED"
    /\ pc = "flags"
    /\ connected = FALSE /\ connectInProgress = FALSE
    /\ age = Unset
    /\ asyncConnectPending = FALSE /\ asyncConnectSuccess = FALSE
    /\ connectAttemptNumber = 0 /\ consecutiveConnectFailures = 0 /\ gate = FALSE
    /\ shouldConnect = FALSE /\ deferred = {}
    /\ connectedFollowupStep = "NONE"
    /\ handles = {} /\ subscribed = FALSE /\ subscribeStep = "GET_SERVICE"
    /\ discRunning = FALSE /\ discDone = FALSE /\ discResult = FALSE /\ discTasks = 0
    /\ wifiPriority = FALSE /\ bootReady = FALSE /\ obdScans = 0
    /\ cut = FALSE /\ late = {}

---------------------------------------------------------------------------
(* Library operations, as the code above uses them *)

\* NimBLEClient::disconnect(): terminates an open link, and reports success
\* without doing anything when there is none, a pending connect included.
Disconnect == link' = IF link = "up" THEN "terminating" ELSE link

\* NimBLEScan::start(): refused while a connection is being initiated.
ScanMayStart == ~scanning /\ link # "initiating"

---------------------------------------------------------------------------
(* The NimBLE host task.  Each action is one callback or one controller    *)
(* event with the callback it ends in.                                     *)

\* ScanCallbacks::onResult for a V1: stop the scan and ask for a connection,
\* or leave the target for the main loop when the mutex is taken.
HostResult ==
    /\ scanning /\ scanOwner = "v1"
    /\ link = "down" \/ NearbyV1
    /\ bleState \notin {"CONNECTING", "CONNECTED"}
    /\ scanning' = FALSE
    /\ \/ /\ shouldConnect' = TRUE
          /\ bleState' = "SCAN_STOPPING"
          /\ UNCHANGED deferred
       \/ /\ "scanTarget" \in Contended /\ deferred' = deferred \union {"scanTarget"}
          /\ UNCHANGED <<shouldConnect, bleState>>
    /\ UNCHANGED <<link, scanOwner, pc, connected, attempt,
                   connectedFollowupStep, setup, disc, context>>

\* The scan runs out.  Only the registered callbacks hear of it: after an OBD
\* scan that is ObdScanCallback, which knows nothing of the V1 states.
HostScanEnd ==
    /\ scanning
    /\ scanning' = FALSE
    /\ \/ /\ scanOwner = "v1"
          /\ bleState' = IF bleState = "SCANNING" THEN "DISCONNECTED" ELSE bleState
          /\ UNCHANGED deferred
       \/ /\ scanOwner = "v1"
          /\ "scanEnd" \in Contended /\ deferred' = deferred \union {"scanEnd"}
          /\ UNCHANGED bleState
       \/ scanOwner = "obd" /\ UNCHANGED <<bleState, deferred>>
    /\ UNCHANGED <<link, scanOwner, pc, connected, attempt, shouldConnect,
                   connectedFollowupStep, setup, disc, context>>

\* ClientCallbacks::onConnect
HostConnect ==
    /\ link = "initiating"
    /\ link' = "up"
    /\ asyncConnectSuccess' = TRUE /\ asyncConnectPending' = FALSE
    /\ \/ connected' = TRUE /\ UNCHANGED deferred
       \/ "connect" \in Contended /\ deferred' = deferred \union {"connect"} /\ UNCHANGED connected
    /\ UNCHANGED <<scanning, scanOwner, pc, bleState, connectInProgress, age,
                   connectAttemptNumber, consecutiveConnectFailures, gate,
                   shouldConnect, connectedFollowupStep, setup, disc, context>>

\* The controller gives up the connection attempt: onConnectFail, which the
\* firmware does not override.
HostConnectFails ==
    /\ link = "initiating"
    /\ link' = "down"
    /\ UNCHANGED <<scanning, scanOwner, pc, bleState, connected, attempt,
                   shouldConnect, deferred, connectedFollowupStep, setup, disc, context>>

\* Slip: the attempt's start time survives the link.
ResetAfterDisconnect_KeepsAge ==
    /\ connected' = FALSE /\ connectInProgress' = FALSE
    /\ connectedFollowupStep' = "NONE" /\ handles' = {}
    /\ bleState' = "DISCONNECTED"
    /\ UNCHANGED age

\* Slip: the pointers survive the link.
ResetAfterDisconnect_KeepsHandles ==
    /\ connected' = FALSE /\ connectInProgress' = FALSE /\ age' = Unset
    /\ connectedFollowupStep' = "NONE"
    /\ bleState' = "DISCONNECTED"
    /\ UNCHANGED handles

\* What onDisconnect and the deferred copy of it in process() both do.
ResetAfterDisconnect ==
    /\ connected' = FALSE
    /\ connectInProgress' = FALSE
    /\ age' = Unset
    /\ connectedFollowupStep' = "NONE"
    /\ handles' = {}
    /\ bleState' = "DISCONNECTED"

\* The link goes, by itself or after Disconnect: ClientCallbacks::onDisconnect
HostDisconnect ==
    /\ LinkOpen
    /\ link' = "down" /\ subscribed' = FALSE
    /\ \/ /\ ResetAfterDisconnect
          /\ cut' = (cut \/ pc \in InStep) /\ late' = {}
          /\ UNCHANGED deferred
       \/ /\ "disconnect" \in Contended
          /\ deferred' = deferred \union {"disconnect"}
          /\ UNCHANGED <<connected, connectInProgress, age, connectedFollowupStep,
                         handles, bleState, history>>
    /\ UNCHANGED <<scanning, scanOwner, pc, asyncConnectPending,
                   asyncConnectSuccess, connectAttemptNumber,
                   consecutiveConnectFailures, gate, shouldConnect,
                   subscribeStep, disc, wifiPriority, bootReady, obdScans>>

HostTask == \/ HostResult \/ HostScanEnd \/ HostConnect \/ HostConnectFails
            \/ HostDisconnect

\* discoveryTaskFunc: one of the live tasks stores its result and ends.  A
\* discovery that reads the V1's attributes needs the link, one that read
\* them before the link went still stores its success.
DiscoveryTaskDone ==
    /\ discTasks > 0
    /\ discTasks' = discTasks - 1
    /\ discResult' \in BOOLEAN
    /\ discDone' = TRUE
    /\ discRunning' = FALSE
    /\ UNCHANGED <<radio, pc, bleState, connected, attempt, shouldConnect, deferred,
                   connectedFollowupStep, setup, context>>

---------------------------------------------------------------------------
(* Time and the rest of the main loop *)

rest == <<radio, pc, bleState, connected, shouldConnect, deferred,
          connectedFollowupStep, setup, disc>>

\* The attempt grows older.
Tick ==
    /\ age \in 0..(SubscribeTimeout - 1)
    /\ age' = age + 1
    /\ UNCHANGED <<connectInProgress, asyncConnectPending, asyncConnectSuccess,
                   connectAttemptNumber, consecutiveConnectFailures, gate, rest, context>>

\* nextConnectAllowedMs_ is reached.
GateExpires ==
    /\ gate /\ gate' = FALSE
    /\ UNCHANGED <<connectInProgress, age, asyncConnectPending, asyncConnectSuccess,
                   connectAttemptNumber, consecutiveConnectFailures, rest, context>>

\* setup(), or the boot-ready deadline in loop(), opens the gate.
SetBootReady ==
    /\ ~bootReady /\ bootReady' = TRUE
    /\ UNCHANGED <<attempt, rest, wifiPriority, obdScans, history>>

\* ObdBleClient::startScan, called between two process() calls when no scan is
\* active: it takes the callbacks over whether or not the scan then starts.
ObdStartScan ==
    /\ pc = "flags" /\ bootReady
    /\ ~scanning
    /\ obdScans < MaxObdScans
    /\ obdScans' = obdScans + 1
    /\ scanOwner' = "obd"
    /\ scanning' \in {FALSE, ScanMayStart}
    /\ UNCHANGED <<link, pc, bleState, connected, attempt, shouldConnect, deferred,
                   connectedFollowupStep, setup, disc, wifiPriority, bootReady, history>>

\* setWifiPriority(true): the policy asks for it only while connected.
WifiPriorityOn ==
    /\ pc = "flags" /\ ~wifiPriority /\ IsConnected
    /\ wifiPriority' = TRUE
    /\ scanning' = FALSE
    /\ UNCHANGED <<link, scanOwner, pc, bleState, connected, attempt, shouldConnect,
                   deferred, connectedFollowupStep, setup, disc, bootReady, obdScans, history>>

\* setWifiPriority(false), and the startScanning() it ends with.
WifiPriorityOff ==
    /\ pc = "flags" /\ wifiPriority
    /\ wifiPriority' = FALSE
    /\ IF ~IsConnected /\ bleState = "DISCONNECTED" /\ ~scanning
       THEN \E started \in {FALSE, ScanMayStart} :
               /\ scanning' = started
               /\ bleState' = IF started THEN "SCANNING" ELSE bleState
       ELSE UNCHANGED <<scanning, bleState>>
    /\ UNCHANGED <<link, scanOwner, pc, connected, attempt, shouldConnect, deferred,
                   connectedFollowupStep, setup, disc, bootReady, obdScans, history>>

---------------------------------------------------------------------------
(* process(), up to its switch *)

\* The updates the callbacks deferred, in the order process() looks at them.
ApplyDeferred ==
    LET reset == "disconnect" \in deferred
        s1 == IF reset THEN "DISCONNECTED" ELSE bleState
        s2 == IF "scanEnd" \in deferred /\ s1 = "SCANNING" THEN "DISCONNECTED" ELSE s1
    IN  /\ pc = "flags"
        /\ deferred' = {}
        /\ connected' = (~reset /\ (connected \/ "connect" \in deferred))
        /\ connectInProgress' = (~reset /\ connectInProgress)
        /\ age' = IF reset THEN Unset ELSE age
        /\ connectedFollowupStep' = IF reset THEN "NONE" ELSE connectedFollowupStep
        /\ handles' = IF reset THEN {} ELSE handles
        /\ late' = IF reset THEN {} ELSE late
        /\ shouldConnect' = (shouldConnect \/ "scanTarget" \in deferred)
        /\ bleState' = IF "scanTarget" \in deferred THEN "SCAN_STOPPING" ELSE s2
        /\ pc' = IF connectedFollowupStep' = "NONE" THEN "switch" ELSE "follow"
        /\ UNCHANGED <<radio, asyncConnectPending, asyncConnectSuccess,
                       connectAttemptNumber, consecutiveConnectFailures, gate,
                       subscribed, subscribeStep, disc, wifiPriority, bootReady, obdScans,
                       cut>>

\* Slip: the last step does not end the follow-up.
AfterFollowup_NeverDone == [s \in FollowupSteps \ {"NONE"} |->
    CASE s = "REQUEST_ALERT_DATA"        -> "WAIT_CONNECT_BURST_SETTLE"
      [] s = "WAIT_CONNECT_BURST_SETTLE" -> "REQUEST_VERSION"
      [] s = "REQUEST_VERSION"           -> "NOTIFY_STABLE_CALLBACK"
      [] s = "NOTIFY_STABLE_CALLBACK"    -> "SCHEDULE_PROXY_ADVERTISING"
      [] OTHER                           -> "BACKUP_BONDS"]

AfterFollowup == [s \in FollowupSteps \ {"NONE"} |->
    CASE s = "REQUEST_ALERT_DATA"         -> "WAIT_CONNECT_BURST_SETTLE"
      [] s = "WAIT_CONNECT_BURST_SETTLE"  -> "REQUEST_VERSION"
      [] s = "REQUEST_VERSION"            -> "NOTIFY_STABLE_CALLBACK"
      [] s = "NOTIFY_STABLE_CALLBACK"     -> "SCHEDULE_PROXY_ADVERTISING"
      [] s = "SCHEDULE_PROXY_ADVERTISING" -> "BACKUP_BONDS"
      [] OTHER                            -> "NONE"]

toSwitch == /\ pc = "follow" /\ pc' = "switch"
            /\ UNCHANGED <<radio, bleState, connected, attempt, shouldConnect, deferred,
                           setup, disc, context>>

\* processConnectedFollowup() takes one step.
FollowupStep ==
    /\ toSwitch
    /\ connectedFollowupStep # "NONE" /\ IsConnected
    /\ connectedFollowupStep' = AfterFollowup[connectedFollowupStep]

\* No step: not connected, or the burst has not settled yet.
FollowupWaits ==
    /\ toSwitch
    /\ \/ connectedFollowupStep = "NONE" \/ ~IsConnected
       \/ connectedFollowupStep = "WAIT_CONNECT_BURST_SETTLE"
    /\ UNCHANGED connectedFollowupStep

---------------------------------------------------------------------------
(* process(), the switch.  In(s) starts a pass over state s. *)

In(s) == pc = "switch" /\ bootReady /\ bleState = s

NotReady == /\ pc = "switch" /\ ~bootReady
            /\ pc' = "flags"
            /\ UNCHANGED <<radio, bleState, connected, attempt, shouldConnect, deferred,
                           connectedFollowupStep, setup, disc, context>>

\* What no case of the switch touches.
switchLeaves == <<scanOwner, deferred, wifiPriority, bootReady, obdScans>>
switchKeeps == <<switchLeaves, history>>

\* DISCONNECTED: start a scan unless the Wi-Fi has priority or a backoff runs.
StartScan ==
    /\ In("DISCONNECTED") /\ pc' = "flags"
    /\ IF wifiPriority \/ (consecutiveConnectFailures > 0 /\ gate) \/ scanning
       THEN UNCHANGED <<scanning, bleState>>
       ELSE \E started \in {FALSE, ScanMayStart} :
               /\ scanning' = started
               /\ bleState' = IF started THEN "SCANNING" ELSE bleState
    /\ UNCHANGED <<switchKeeps, link, connected, attempt, shouldConnect,
                   connectedFollowupStep, setup, disc>>

\* SCANNING: nothing but the shouldConnect_ flag moves it on from here.
CheckScan ==
    /\ In("SCANNING") /\ pc' = "flags"
    /\ IF shouldConnect
       THEN scanning' = FALSE /\ bleState' = "SCAN_STOPPING"
       ELSE UNCHANGED <<scanning, bleState>>
    /\ UNCHANGED <<switchKeeps, link, connected, attempt, shouldConnect,
                   connectedFollowupStep, setup, disc>>

\* SCAN_STOPPING, before the radio has settled; a scan still active is
\* stopped by force once a second has passed.
AwaitScanStop ==
    /\ In("SCAN_STOPPING") /\ pc' = "flags"
    /\ scanning' \in {scanning, FALSE}
    /\ UNCHANGED <<switchKeeps, link, bleState, connected, attempt, shouldConnect,
                   connectedFollowupStep, setup, disc>>

\* SCAN_STOPPING, settled: connectToServer() behind its three guards.
ScanStopped ==
    /\ In("SCAN_STOPPING") /\ pc' = "flags"
    /\ ~scanning
    /\ shouldConnect' = FALSE
    /\ \/ /\ ~shouldConnect
          /\ bleState' = "DISCONNECTED"
          /\ UNCHANGED attempt
       \/ /\ shouldConnect /\ connectInProgress
          /\ UNCHANGED <<bleState, attempt>>
       \/ /\ shouldConnect /\ ~connectInProgress
          /\ consecutiveConnectFailures > 0 /\ gate
          /\ bleState' = "BACKOFF"
          /\ UNCHANGED attempt
       \/ /\ shouldConnect /\ ~connectInProgress
          /\ ~(consecutiveConnectFailures > 0 /\ gate)
          /\ connectInProgress' = TRUE
          /\ age' = 0
          /\ connectAttemptNumber' = 0
          /\ asyncConnectPending' = FALSE /\ asyncConnectSuccess' = FALSE
          /\ bleState' = "CONNECTING"
          /\ UNCHANGED <<consecutiveConnectFailures, gate>>
    /\ UNCHANGED <<switchKeeps, link, scanning, connected,
                   connectedFollowupStep, setup, disc>>

---------------------------------------------------------------------------
(* The ways an attempt ends *)

\* Slip: the in-progress flag is forgotten.
EndAttempt_KeepsFlag(s) == /\ age' = Unset
                           /\ bleState' = s
                           /\ UNCHANGED connectInProgress

\* connectInProgress_ = false; connectStartMs_ = 0; setBLEState(s).
EndAttempt(s) == /\ connectInProgress' = FALSE
                 /\ age' = Unset
                 /\ bleState' = s

\* hardResetBLEClient() is due with one more failure.
ResetDue == consecutiveConnectFailures + 1 >= HardResetThreshold

\* One more consecutive failure, after a disconnect() if closing: back off, or
\* at the threshold hardResetBLEClient(), whose cleanupConnection() drops the
\* link, the pointers and the follow-up, and which leaves connectStartMs_
\* alone.  A hard reset also stops a scan.
Failed(closing) ==
    /\ gate' = TRUE
    /\ IF closing \/ ResetDue THEN Disconnect ELSE UNCHANGED link
    /\ IF ResetDue
       THEN /\ consecutiveConnectFailures' = 0
            /\ handles' = {}
            /\ connected' = FALSE
            /\ shouldConnect' = FALSE
            /\ connectInProgress' = FALSE
            /\ connectedFollowupStep' = "NONE"
            /\ bleState' = "DISCONNECTED"
            /\ UNCHANGED age
       ELSE /\ consecutiveConnectFailures' = consecutiveConnectFailures + 1
            /\ EndAttempt("BACKOFF")
            /\ UNCHANGED <<handles, connected, shouldConnect, connectedFollowupStep>>

---------------------------------------------------------------------------
(* CONNECTING and CONNECTING_WAIT *)

\* startAsyncConnect() may run.
MayInitiate == /\ In("CONNECTING") /\ ~gate
               /\ ~asyncConnectPending /\ ~asyncConnectSuccess

connectKeeps == <<switchKeeps, subscribed, subscribeStep, disc>>

\* The client still has a link: drop it and come back through BACKOFF.
StaleLink ==
    /\ MayInitiate /\ pc' = "flags"
    /\ LinkOpen
    /\ connectAttemptNumber' = connectAttemptNumber + 1
    /\ scanning' = FALSE
    /\ Disconnect
    /\ gate' = TRUE
    /\ EndAttempt("BACKOFF")
    /\ UNCHANGED <<connectKeeps, handles, connected, shouldConnect,
                   asyncConnectPending, asyncConnectSuccess,
                   consecutiveConnectFailures, connectedFollowupStep>>

\* connect(), which deletes the attribute objects of the previous link.
Initiate ==
    /\ MayInitiate /\ pc' = "flags"
    /\ link = "down"
    /\ connectAttemptNumber' = connectAttemptNumber + 1
    /\ scanning' = FALSE
    /\ link' = "initiating"
    /\ asyncConnectPending' = TRUE /\ asyncConnectSuccess' = FALSE
    /\ bleState' = "CONNECTING_WAIT"
    /\ UNCHANGED <<connectKeeps, handles, connected, shouldConnect, connectInProgress, age,
                   consecutiveConnectFailures, gate, connectedFollowupStep>>

\* connect() is refused: again in the next pass, until the attempts are used
\* up or the initiation has been stuck for five seconds.
InitiateRefused ==
    /\ MayInitiate /\ pc' = "flags"
    /\ ~LinkOpen
    /\ connectAttemptNumber' = connectAttemptNumber + 1
    /\ asyncConnectPending' = FALSE /\ asyncConnectSuccess' = FALSE
    /\ scanning' = FALSE
    /\ IF connectAttemptNumber + 1 < MaxConnectAttempts
       THEN /\ IF age >= InitiateStuck
               THEN EndAttempt("DISCONNECTED")
               ELSE UNCHANGED <<connectInProgress, age, bleState>>
            /\ UNCHANGED <<link, consecutiveConnectFailures, gate, handles,
                           connected, shouldConnect, connectedFollowupStep>>
       ELSE Failed(FALSE)
    /\ UNCHANGED connectKeeps

\* CONNECTING with nothing to initiate: the gate, or a success that belongs
\* to no wait, which only the five-second check clears.
ConnectingIdles ==
    /\ In("CONNECTING") /\ pc' = "flags"
    /\ \/ gate /\ UNCHANGED <<connectInProgress, age, asyncConnectPending, bleState>>
       \/ /\ ~gate /\ (asyncConnectPending \/ asyncConnectSuccess)
          /\ IF age >= InitiateStuck
             THEN EndAttempt("DISCONNECTED") /\ asyncConnectPending' = FALSE
             ELSE UNCHANGED <<connectInProgress, age, asyncConnectPending, bleState>>
    /\ UNCHANGED <<connectKeeps, link, scanning, handles, connected, shouldConnect,
                   asyncConnectSuccess, connectAttemptNumber, consecutiveConnectFailures,
                   gate, connectedFollowupStep>>

waitKeeps == <<switchKeeps, subscribed, subscribeStep, discTasks>>

\* processConnectingWait() reads asyncConnectSuccess_; on success
\* finishConnection() clears the failures and the discovery flags.
WaitReadsSuccess ==
    /\ In("CONNECTING_WAIT")
    /\ IF asyncConnectSuccess
       THEN /\ pc' = "flags"
            /\ consecutiveConnectFailures' = 0 /\ gate' = FALSE
            /\ discRunning' = FALSE /\ discDone' = FALSE /\ discResult' = FALSE
            /\ bleState' = "DISCOVERING"
       ELSE /\ pc' = "wait2"
            /\ UNCHANGED <<consecutiveConnectFailures, gate, discRunning, discDone,
                           discResult, bleState>>
    /\ UNCHANGED <<waitKeeps, link, scanning, handles, connected, shouldConnect, connectInProgress,
                   age, asyncConnectPending, asyncConnectSuccess, connectAttemptNumber,
                   connectedFollowupStep>>

\* ... then asyncConnectPending_: still pending, within the timeout or past it.
WaitReadsPending ==
    /\ pc = "wait2" /\ pc' = "flags"
    /\ asyncConnectPending
    /\ \/ /\ NotExpired(ConnectTimeout)
          /\ UNCHANGED <<link, scanning, handles, connected, shouldConnect, attempt, bleState,
                         connectedFollowupStep>>
       \/ /\ Expired(ConnectTimeout)
          /\ asyncConnectPending' = FALSE
          /\ scanning' = (scanning /\ ~ResetDue)
          /\ Failed(TRUE)
          /\ UNCHANGED <<asyncConnectSuccess, connectAttemptNumber>>
    /\ UNCHANGED <<waitKeeps, discRunning, discDone, discResult>>

\* ... or no longer pending, which is taken for a failed attempt: EBUSY backs
\* off, any other error retries, the last attempt counts as a failure.
WaitTakesFailure ==
    /\ pc = "wait2" /\ pc' = "flags"
    /\ ~asyncConnectPending
    /\ IF connectAttemptNumber < MaxConnectAttempts
       THEN /\ gate' = TRUE
            /\ \/ EndAttempt("BACKOFF")
               \/ bleState' = "CONNECTING" /\ UNCHANGED <<connectInProgress, age>>
            /\ UNCHANGED <<link, scanning, handles, connected, shouldConnect,
                           consecutiveConnectFailures, connectedFollowupStep>>
       ELSE Failed(FALSE) /\ scanning' = (scanning /\ ~ResetDue)
    /\ UNCHANGED <<waitKeeps, discRunning, discDone, discResult,
                   asyncConnectPending, asyncConnectSuccess, connectAttemptNumber>>

---------------------------------------------------------------------------
(* DISCOVERING, SUBSCRIBING, SUBSCRIBE_YIELD *)

\* The phase ends without success: drop the link and start over.
Abandon == Disconnect /\ EndAttempt("DISCONNECTED")

attemptKeeps == <<asyncConnectPending, asyncConnectSuccess, connectAttemptNumber>>

\* processDiscovering(), past its timeout.
DiscoveryTimesOut ==
    /\ In("DISCOVERING") /\ pc' = "flags"
    /\ Expired(DiscoveryTimeout)
    /\ Abandon
    /\ UNCHANGED <<switchKeeps, scanning, connected, shouldConnect, attemptKeeps,
                   consecutiveConnectFailures, gate, connectedFollowupStep, setup, disc>>

\* Not started on this link: spawn the task, or fail to.
SpawnDiscovery ==
    /\ In("DISCOVERING") /\ pc' = "flags"
    /\ NotExpired(DiscoveryTimeout)
    /\ ~discRunning /\ ~discDone
    /\ \/ /\ discTasks < MaxDiscTasks
          /\ discTasks' = discTasks + 1
          /\ discRunning' = TRUE
          /\ UNCHANGED <<discDone, discResult, link, bleState, connected, shouldConnect,
                         connectInProgress, age, consecutiveConnectFailures, gate,
                         connectedFollowupStep, handles, scanning>>
       \/ /\ discResult' = FALSE /\ discDone' = TRUE /\ discRunning' = FALSE
          /\ scanning' = (scanning /\ ~ResetDue)
          /\ Failed(TRUE)
          /\ UNCHANGED discTasks
    /\ UNCHANGED <<switchKeeps, attemptKeeps, subscribed, subscribeStep>>

\* Slip: the step machine resumes where it was left.
StartSubscribing_Resumes == bleState' = "SUBSCRIBING" /\ UNCHANGED subscribeStep

StartSubscribing == bleState' = "SUBSCRIBING" /\ subscribeStep' = "GET_SERVICE"

\* A task runs, or one has stored its result.
PollDiscovery ==
    /\ In("DISCOVERING") /\ pc' = "flags"
    /\ NotExpired(DiscoveryTimeout)
    /\ discRunning \/ discDone
    /\ IF discRunning
       THEN UNCHANGED <<link, connectInProgress, age, bleState, subscribeStep>>
       ELSE IF discResult
            THEN StartSubscribing /\ UNCHANGED <<link, connectInProgress, age>>
            ELSE Abandon /\ UNCHANGED subscribeStep
    /\ UNCHANGED <<switchKeeps, scanning, connected, shouldConnect, attemptKeeps,
                   consecutiveConnectFailures, gate, connectedFollowupStep, handles,
                   subscribed, disc>>

\* processSubscribing(), past its timeout.
SubscribeTimesOut ==
    /\ In("SUBSCRIBING") /\ pc' = "flags"
    /\ Expired(SubscribeTimeout)
    /\ Abandon
    /\ shouldConnect' = FALSE
    /\ UNCHANGED <<switchKeeps, scanning, connected, attemptKeeps,
                   consecutiveConnectFailures, gate, connectedFollowupStep, setup, disc>>

\* Within the timeout: on to executeSubscribeStep().
SubscribeBegins ==
    /\ In("SUBSCRIBING") /\ pc' = "step"
    /\ NotExpired(SubscribeTimeout)
    /\ UNCHANGED <<switchKeeps, link, scanning, bleState, connected, attempt,
                   shouldConnect, connectedFollowupStep, setup, disc>>

stepKeeps == <<switchLeaves, cut, link, scanning, bleState, connected, attempt,
               shouldConnect, connectedFollowupStep, disc>>

\* The step follows its pointer.  It works on the attributes the client has
\* cached, except the subscription itself, which the V1 has to acknowledge.
\* A step that fails stays where it is, what it looked up stored as null.
FollowPointer ==
    /\ pc = "step"
    /\ Needs[subscribeStep] \subseteq handles
    /\ \/ /\ pc' = "commit" /\ subscribeStep \in Critical
          /\ handles' = handles \ Finds[subscribeStep]
          /\ UNCHANGED subscribed
       \/ /\ pc' = "store"
          /\ subscribeStep = "SUBSCRIBE_DISPLAY" => link = "up"
          /\ subscribed' = (subscribed \/ subscribeStep = "SUBSCRIBE_DISPLAY")
          /\ UNCHANGED handles
    /\ UNCHANGED <<stepKeeps, subscribeStep, late>>

\* What was found is stored, whatever has become of the link meanwhile.
StoreFound(found) ==
    /\ handles' = handles \union found
    /\ late' = IF cut THEN late \union found ELSE late \ found

\* The step stores what it looked up; it is done, or has more to read.
StorePointer ==
    /\ pc = "store"
    /\ \/ StoreFound(Finds[subscribeStep])
       \/ /\ subscribeStep = "GET_COMMAND_CHAR"
          /\ handles' = handles \ {"command"}
          /\ UNCHANGED late
    /\ IF FindsAgain[subscribeStep] = {}
       THEN pc' = "commit" /\ subscribeStep' \in Successors[subscribeStep]
       ELSE pc' = "again" /\ UNCHANGED subscribeStep
    /\ UNCHANGED <<stepKeeps, subscribed>>

\* It reads a pointer once more, which the build may have kept in a register,
\* and stores the last one, or finds no command characteristic to write to.
StoreAgain ==
    /\ pc = "again" /\ pc' = "commit"
    /\ FindsAgain[subscribeStep] # {}
    /\ \/ /\ StoreFound(FindsAgain[subscribeStep])
          /\ subscribeStep' \in Successors[subscribeStep]
       \/ /\ subscribeStep = "GET_COMMAND_CHAR"
          /\ handles' = handles \ {"command"}
          /\ UNCHANGED <<subscribeStep, late>>
    /\ UNCHANGED <<stepKeeps, subscribed>>

\* The pointers the step is about to follow.
Reads == CASE pc = "step"  -> Needs[subscribeStep]
           [] pc = "again" -> NeedsAgain[subscribeStep]
           [] OTHER        -> {}

\* Following a null pointer is a panic, and the device boots again (Init).
Panic ==
    /\ ~(Reads \subseteq handles)
    /\ link' = "down" /\ scanOwner' = "v1"
    /\ scanning' \in BOOLEAN
    /\ bleState' = IF scanning' THEN "SCANNING" ELSE "DISCONNECTED"
    /\ pc' = "flags"
    /\ connected' = FALSE /\ connectInProgress' = FALSE
    /\ age' = Unset
    /\ asyncConnectPending' = FALSE /\ asyncConnectSuccess' = FALSE
    /\ connectAttemptNumber' = 0 /\ consecutiveConnectFailures' = 0 /\ gate' = FALSE
    /\ shouldConnect' = FALSE /\ deferred' = {}
    /\ connectedFollowupStep' = "NONE"
    /\ handles' = {} /\ subscribed' = FALSE /\ subscribeStep' = "GET_SERVICE"
    /\ discRunning' = FALSE /\ discDone' = FALSE /\ discResult' = FALSE /\ discTasks' = 0
    /\ wifiPriority' = FALSE /\ bootReady' = FALSE /\ obdScans' = 0
    /\ cut' = FALSE /\ late' = {}

\* What processSubscribing() stores after the step: the connection is made
\* after the last one, whatever has become of the link meanwhile.
SubscribeCommit ==
    /\ pc = "commit" /\ pc' = "flags"
    /\ IF subscribeStep = "COMPLETE"
       THEN /\ connected' = TRUE
            /\ connectedFollowupStep' = "REQUEST_ALERT_DATA"
            /\ EndAttempt("CONNECTED")
       ELSE /\ bleState' = "SUBSCRIBE_YIELD"
            /\ UNCHANGED <<connected, connectedFollowupStep, connectInProgress, age>>
    /\ cut' = FALSE
    /\ UNCHANGED <<switchLeaves, late, link, scanning, shouldConnect, attemptKeeps,
                   consecutiveConnectFailures, gate, setup, disc>>

quiet == <<switchKeeps, link, scanning, shouldConnect, attemptKeeps, age,
           consecutiveConnectFailures, gate, connectedFollowupStep, setup, disc>>

\* processSubscribeYield(): five milliseconds, then the next step.
YieldWaits == /\ In("SUBSCRIBE_YIELD") /\ pc' = "flags"
              /\ UNCHANGED <<quiet, bleState, connected, connectInProgress>>

YieldEnds == /\ In("SUBSCRIBE_YIELD") /\ pc' = "flags"
             /\ bleState' = "SUBSCRIBING"
             /\ UNCHANGED <<quiet, connected, connectInProgress>>

---------------------------------------------------------------------------
(* CONNECTED, BACKOFF *)

\* The client lost the link and onDisconnect did not say so (or not yet).
CheckConnected ==
    /\ In("CONNECTED") /\ pc' = "flags"
    /\ IF LinkOpen
       THEN UNCHANGED <<connected, connectInProgress, bleState>>
       ELSE /\ connected' = FALSE /\ connectInProgress' = FALSE
            /\ bleState' = "DISCONNECTED"
    /\ UNCHANGED quiet

\* Slip: the comparison with nextConnectAllowedMs_ the wrong way round.
AfterBackoff_Swapped == IF gate THEN "DISCONNECTED" ELSE "BACKOFF"

AfterBackoff == IF gate THEN "BACKOFF" ELSE "DISCONNECTED"

CheckBackoff ==
    /\ In("BACKOFF") /\ pc' = "flags"
    /\ bleState' = AfterBackoff
    /\ UNCHANGED <<quiet, connected, connectInProgress>>

---------------------------------------------------------------------------

Switch == \/ NotReady \/ StartScan \/ CheckScan \/ AwaitScanStop \/ ScanStopped
          \/ StaleLink \/ Initiate \/ InitiateRefused \/ ConnectingIdles
          \/ WaitReadsSuccess \/ WaitReadsPending \/ WaitTakesFailure
          \/ DiscoveryTimesOut \/ SpawnDiscovery \/ PollDiscovery
          \/ SubscribeTimesOut \/ SubscribeBegins \/ FollowPointer \/ StorePointer
          \/ StoreAgain \/ Panic \/ SubscribeCommit
          \/ YieldWaits \/ YieldEnds \/ CheckConnected \/ CheckBackoff

Process == ApplyDeferred \/ FollowupStep \/ FollowupWaits \/ Switch

MainLoop == Process \/ ObdStartScan \/ WifiPriorityOn \/ WifiPriorityOff

Clock == Tick \/ GateExpires \/ SetBootReady

Next == HostTask \/ DiscoveryTaskDone \/ Clock \/ MainLoop

(***************************************************************************)
(* Fairness: the loop keeps running and the clock advances; the controller *)
(* reports the end of every scan, of every connection attempt and of every *)
(* link being terminated; a discovery ends.                                *)
(* Strong fairness is for the waits that end by the clock although the     *)
(* loop passes by them many times: the settle after a scan, the five       *)
(* milliseconds between subscribe steps, the connect burst.  Nothing makes *)
(* the V1 appear, a connection succeed, or a link fail.                    *)
(***************************************************************************)
Fairness ==
    /\ WF_vars(Process)
    /\ WF_vars(Tick) /\ WF_vars(GateExpires)
    /\ WF_vars(SetBootReady)
    /\ WF_vars(HostScanEnd)
    /\ WF_vars(HostConnectFails \/ HostConnect)
    /\ WF_vars(link = "terminating" /\ HostDisconnect)
    /\ WF_vars(DiscoveryTaskDone)
    /\ SF_vars(AwaitScanStop /\ scanning /\ ~scanning')
    /\ SF_vars(ScanStopped)
    /\ SF_vars(YieldEnds)
    /\ SF_vars(FollowupStep)
    /\ SF_vars(WifiPriorityOff /\ ~IsConnected)

Spec == Init /\ [][Next]_vars
FairSpec == Spec /\ Fairness

---------------------------------------------------------------------------
(* Safety *)

\* connectInProgress_ is only left set while the state machine is inside an
\* attempt.  Anywhere else it would make connectToServer() refuse every later
\* connection (its Guard 1, ble_connection.cpp:201-203), and nothing would
\* clear it: the V1 would be locked out until a reboot.
InProgressOwned == connectInProgress => bleState \in AttemptStates

\* CONNECTED over a live link means that the service, the display and the
\* command characteristic are there and the V1 accepted the subscription,
\* however the callbacks and the step machine interleave
\* (ble_connection.cpp:564-583).
ConnectedIsComplete ==
    bleState = "CONNECTED" /\ link = "up" => Required \subseteq handles /\ subscribed

\* Once the uptime is beyond the longest timeout, a subscribe step finds the
\* pointers it follows (ble_connection.cpp:599-730) unless onDisconnect clears
\* them within that very step: a link lost earlier, between two steps or with
\* its clean-up deferred, is noticed before the next step begins.
StepsHaveHandles == ~EarlyUptime /\ ~cut => Reads \subseteq handles

\* connect() deletes the attribute objects of the last link; by then no
\* pointer to them is left that a command or a notification could follow
\* (ble_connection.cpp:305), but for those that a step, interrupted by the
\* loss of that link, stored after onDisconnect had cleared them.
NoDanglingHandles ==
    [][link = "down" /\ link' = "initiating" => handles \subseteq late]_vars

---------------------------------------------------------------------------
(* Liveness *)

\* Whatever the V1, the controller and the callbacks do, every phase with a
\* timeout or a wait of its own ends: the machine comes back to a state from
\* which it scans again, starts an attempt, or is connected.
PhasesEnd ==
    bleState \in {"SCAN_STOPPING", "BACKOFF", "CONNECTING_WAIT", "DISCOVERING",
                  "SUBSCRIBING", "SUBSCRIBE_YIELD"}
        ~> bleState \in {"DISCONNECTED", "SCANNING", "CONNECTING", "CONNECTED"}

\* A connection that lasts is followed up to the end: the alert request, the
\* version, the stable callback, the proxy's advertising, the bond backup.
FollowupCompletes ==
    bleState = "CONNECTED" ~> connectedFollowupStep = "NONE" \/ bleState # "CONNECTED"
=============================================================================
