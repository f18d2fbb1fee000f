---------------------------- MODULE WifiLifecycle ----------------------------
(***************************************************************************)
(* The Wi-Fi service: an access point with the setup pages, and a station  *)
(* link to a saved network.  startSetupMode() brings both up at once;      *)
(* stopSetupMode() takes them down in phases, one per pass of process(), or *)
(* at once when memory is short or the device switches off.  A connect is  *)
(* staged over several passes, and the driver reports only what WiFi.      *)
(* status() says.  Everything but the driver runs in the loop: pc names the *)
(* next block of process(), and web requests are served by one of them.    *)
(*                                                                         *)
(* A network stands for an SSID and its password.  A timer that is running *)
(* may have elapsed whenever it is looked at; the heap may be short at any *)
(* pass, and every cadence may skip a block.                               *)
(***************************************************************************)
EXTENDS Integers

CONSTANTS
    Networks,
    MaxFailures,     \* WIFI_MAX_RECONNECT_FAILURES
    MaxRequests      \* bound: web requests that change something, starts by the button

None == "none"

ASSUME MaxFailuresAssumption == MaxFailures \in Nat \ {0}
ASSUME RequestsAssumption == MaxRequests \in Nat
ASSUME NetworksAssumption == None \notin Networks

VARIABLES
    \* the driver
    mode,                        \* WiFi.getMode()
    station,                     \* the network WiFi.status() is connected to
    target,                      \* the network it joins again by itself
    server,                      \* the web server listens
    \* the service
    setup, apEnabled,            \* setupModeState_, apInterfaceEnabled_
    stopPhase, hadSta, hadAp,    \* wifiStopPhase_, wifiStopHad{Sta,Ap}_
    autoStarted, autoDone,       \* wasAutoStarted_, wifiAutoStartDone
    lowSince, cooldown,          \* lowDmaSinceMs_ # 0, lowDmaCooldownRemainingMs() > 0
    apClients, ui,               \* cachedApStaCount_ > 0, lastUiActivityMs_ # 0
    \* the station client
    client, phase, started,      \* wifiClientState_, wifiConnectPhase_, ...StartMs_ # 0
    pending, persist,            \* pendingConnectSSID_, ...PersistCredentials_
    failures,                    \* wifiReconnectFailures_
    enabled, saved,              \* settings: wifiClientEnabled, wifiClientSSID
    \* the loop
    pc, requests,
    \* history and boot
    cancelled,                   \* the low-memory drop cancelled a staged connect
    mounts                       \* LittleFS can be mounted

driver   == <<mode, station, target>>
stopping == <<stopPhase, hadSta, hadAp>>
memory   == <<lowSince, cooldown>>
activity == <<apClients, ui>>
join     == <<client, phase, started, pending, persist>>
settings == <<enabled, saved>>
boot     == <<autoDone, mounts>>
vars == <<driver, server, setup, apEnabled, stopping, autoStarted, memory, activity, join,
          failures, settings, pc, requests, cancelled, boot>>

---------------------------------------------------------------------------

Blocks == {"between", "clients", "serve", "connect", "timeout", "status", "off"}
StopPhases == {"IDLE", "STOP_HTTP_SERVER", "DISCONNECT_STA", "DISABLE_AP", "MODE_OFF", "FINALIZE"}
ConnectPhases ==
    {"IDLE", "PREPARE_OFF", "WAIT_OFF", "ENABLE_AP_STA", "WAIT_AP_STA", "BEGIN_CONNECT"}
ClientStates == {"DISABLED", "DISCONNECTED", "CONNECTING", "CONNECTED", "FAILED"}

ApModes  == {"AP", "AP_STA"}
StaModes == {"STA", "AP_STA"}

TypeFlags ==
    /\ server \in BOOLEAN /\ apEnabled \in BOOLEAN
    /\ hadSta \in BOOLEAN /\ hadAp \in BOOLEAN
    /\ autoStarted \in BOOLEAN /\ autoDone \in BOOLEAN
    /\ lowSince \in BOOLEAN /\ cooldown \in BOOLEAN
    /\ apClients \in BOOLEAN /\ ui \in BOOLEAN
    /\ started \in BOOLEAN /\ persist \in BOOLEAN /\ enabled \in BOOLEAN
    /\ cancelled \in BOOLEAN /\ mounts \in BOOLEAN

TypeValues ==
    /\ mode \in ApModes \cup StaModes \cup {"OFF"}
    /\ station \in Networks \cup {None} /\ target \in Networks \cup {None}
    /\ setup \in {"OFF", "AP_ON", "STOPPING"} /\ stopPhase \in StopPhases
    /\ client \in ClientStates /\ phase \in ConnectPhases
    /\ pending \in Networks \cup {None} /\ saved \in Networks \cup {None}
    /\ failures \in 0 .. MaxFailures /\ requests \in 0 .. MaxRequests
    /\ pc \in Blocks

TypeOK ==
    /\ TypeFlags /\ TypeValues
    /\ setup = "STOPPING" <=> stopPhase # "IDLE"
    /\ phase # "IDLE" => ~started /\ pending # None

Init ==
    /\ mode = "OFF" /\ station = None /\ target = None /\ server = FALSE
    /\ setup = "OFF" /\ apEnabled = FALSE
    /\ stopPhase = "IDLE" /\ hadSta = FALSE /\ hadAp = FALSE
    /\ autoStarted = FALSE /\ autoDone \in BOOLEAN
    /\ lowSince = FALSE /\ cooldown = FALSE /\ apClients = FALSE /\ ui = FALSE
    /\ client = "DISABLED" /\ phase = "IDLE" /\ started = FALSE
    /\ pending = None /\ persist = TRUE /\ failures = 0
    /\ saved \in Networks \cup {None} /\ enabled \in {FALSE, saved # None}
    /\ pc = "between" /\ requests = 0 /\ cancelled = FALSE /\ mounts \in BOOLEAN

\* shouldUseApSta(), isSetupModeActive()
UseApSta == enabled /\ saved # None
ApActive == setup = "AP_ON" /\ apEnabled
IsJoined == station # None                           \* WiFi.status() == WL_CONNECTED
StaConnected == client = "CONNECTED" \/ IsJoined

At(block)   == pc = block
Goto(block) == pc' = block

---------------------------------------------------------------------------
(* The driver *)

SwitchMode(m) ==
    /\ mode' = m
    /\ station' = IF m \in StaModes THEN station ELSE None
    /\ target' = IF m \in StaModes THEN target ELSE None

\* WiFi.enableAP(false), or WiFi.softAPdisconnect(true) when that fails
WithoutAp == IF mode \in StaModes THEN "STA" ELSE "OFF"

\* WiFi.disconnect()
Leave == station' = None /\ target' = None /\ UNCHANGED mode

StationJoins ==
    /\ target # None /\ ~IsJoined
    /\ station' = target
    /\ UNCHANGED <<mode, target, server, setup, apEnabled, stopping, autoStarted, memory, activity,
                   join, failures, settings, pc, requests, cancelled, boot>>

StationDrops ==
    /\ IsJoined
    /\ station' = None
    /\ UNCHANGED <<mode, target, server, setup, apEnabled, stopping, autoStarted, memory, activity,
                   join, failures, settings, pc, requests, cancelled, boot>>

CooldownLapses ==
    /\ cooldown
    /\ cooldown' = FALSE
    /\ UNCHANGED <<driver, server, setup, apEnabled, stopping, autoStarted, lowSince, activity,
                   join, failures, settings, pc, requests, cancelled, boot>>

---------------------------------------------------------------------------
(* Joining and leaving a network *)

\* connectToNetwork()
ConnectTo(network, keep) ==
    /\ pending' = network /\ persist' = keep
    /\ started' = FALSE /\ client' = "CONNECTING" /\ phase' = "PREPARE_OFF"
    /\ cancelled' = FALSE

ForgetPending == pending' = None /\ persist' = TRUE

\* disconnectFromNetwork(), which the station client ends in state s after
LeaveNetwork(s) ==
    /\ phase' = "IDLE" /\ started' = FALSE /\ client' = s
    /\ ForgetPending /\ cancelled' = FALSE

---------------------------------------------------------------------------
(* Starting: a preflight that refuses changes nothing *)

\* The station part of a start: what a saved network is for.
StartStation ==
    IF UseApSta
    THEN ConnectTo(saved, FALSE)
    ELSE /\ client' = "DISABLED" /\ cancelled' = FALSE
         /\ UNCHANGED <<phase, started, pending, persist>>

\* From off, or from a stop that is not over: that is cancelled first.
StartService(automatic) ==
    /\ setup # "AP_ON" /\ ~cooldown /\ mounts
    /\ SwitchMode(IF UseApSta THEN "AP_STA" ELSE "AP")
    /\ server' = TRUE /\ setup' = "AP_ON" /\ apEnabled' = TRUE
    /\ stopPhase' = "IDLE" /\ hadSta' = FALSE /\ hadAp' = FALSE
    /\ autoStarted' = automatic
    /\ lowSince' = FALSE /\ apClients' = FALSE /\ failures' = 0
    /\ StartStation
    /\ UNCHANGED <<cooldown, ui, settings, pc, mounts>>

\* Without its pages the service is not worth a radio.
StartWithoutPages ==
    /\ setup # "AP_ON" /\ ~cooldown /\ ~mounts
    /\ SwitchMode("OFF")
    /\ client' = IF UseApSta THEN "DISCONNECTED" ELSE "DISABLED"
    /\ lowSince' = FALSE /\ apClients' = FALSE /\ failures' = 0
    /\ UNCHANGED <<server, setup, apEnabled, stopping, autoStarted, cooldown, ui, phase, started,
                   pending, persist, settings, pc, cancelled, boot>>

\* The AP of a running service comes back.
EnableAp(automatic) ==
    /\ setup = "AP_ON" /\ ~apEnabled
    /\ SwitchMode(IF UseApSta THEN "AP_STA" ELSE "AP")
    /\ client' = IF UseApSta \/ mode = "AP" THEN client ELSE "DISABLED"
    /\ apEnabled' = TRUE /\ autoStarted' = automatic
    /\ apClients' = FALSE /\ failures' = 0
    /\ UNCHANGED <<server, setup, stopping, memory, ui, phase, started, pending, persist, settings,
                   pc, requests, cancelled, mounts>>

\* The auto-start of the boot, tried until it succeeds once.
AutoStart ==
    /\ At("between") /\ ~autoDone /\ ~cooldown
    /\ \/ StartService(TRUE) /\ autoDone' = TRUE /\ UNCHANGED requests
       \/ StartWithoutPages /\ UNCHANGED requests
       \/ EnableAp(TRUE) /\ autoDone' = TRUE
       \/ /\ ApActive
          /\ autoDone' = TRUE
          /\ UNCHANGED <<driver, server, setup, apEnabled, stopping, autoStarted, memory, activity,
                         join, failures, settings, pc, requests, cancelled, mounts>>

\* The button starts what is not active.
UserStarts ==
    /\ At("between") /\ setup # "AP_ON"
    /\ requests < MaxRequests /\ requests' = requests + 1
    /\ \/ StartService(FALSE) /\ UNCHANGED autoDone
       \/ StartWithoutPages

---------------------------------------------------------------------------
(* Stopping *)

\* stopSetupMode(): a stop that is under way is not started again.
StopGracefully ==
    /\ setup' = "STOPPING" /\ stopPhase' = "STOP_HTTP_SERVER"
    /\ hadSta' = (mode \in StaModes) /\ hadAp' = (mode \in ApModes \/ apEnabled)
    /\ ui' = FALSE /\ started' = FALSE /\ phase' = "IDLE" /\ lowSince' = FALSE
    /\ ForgetPending

\* finalizeStopSetupMode()
Finalize ==
    /\ setup' = "OFF" /\ apEnabled' = FALSE
    /\ stopPhase' = "IDLE" /\ hadSta' = FALSE /\ hadAp' = FALSE
    /\ client' = "DISABLED" /\ phase' = "IDLE" /\ started' = FALSE
    /\ ForgetPending
    /\ apClients' = FALSE /\ ui' = FALSE /\ autoStarted' = FALSE /\ lowSince' = FALSE
    /\ cancelled' = FALSE

\* stopSetupModeImmediate()
StopNow == SwitchMode("OFF") /\ server' = FALSE /\ Finalize

UserStops ==
    /\ At("between") /\ setup = "AP_ON"
    /\ StopGracefully
    /\ UNCHANGED <<driver, server, apEnabled, autoStarted, cooldown, apClients, client,
                   failures, settings, pc, requests, cancelled, boot>>

\* prepareForShutdown(): the loop does not come back.  A stop that is under way
\* is left where it is.
PowerOff ==
    /\ At("between") /\ Goto("off")
    /\ \/ setup = "AP_ON" /\ StopNow
       \/ /\ setup # "AP_ON"
          /\ UNCHANGED <<driver, server, setup, apEnabled, stopping, autoStarted, lowSince,
                         activity, join, cancelled>>
    /\ UNCHANGED <<cooldown, failures, settings, requests, boot>>

\* The phases of a graceful stop: all but the last need the loop's admission.
StopPhase(from, to) == At("between") /\ stopPhase = from /\ stopPhase' = to

StopHttpServer ==
    /\ StopPhase("STOP_HTTP_SERVER", "DISCONNECT_STA")
    /\ server' = FALSE
    /\ UNCHANGED <<driver, apEnabled, apClients>>

DisconnectSta_WhenLinked ==    \* slip: the phase ends only with a link to drop
    /\ StopPhase("DISCONNECT_STA", "DISABLE_AP")
    /\ hadSta /\ (client = "CONNECTING" \/ StaConnected) /\ Leave
    /\ UNCHANGED <<server, apEnabled, apClients>>

DisconnectSta ==
    /\ StopPhase("DISCONNECT_STA", "DISABLE_AP")
    /\ IF hadSta /\ (client = "CONNECTING" \/ StaConnected) THEN Leave ELSE UNCHANGED driver
    /\ UNCHANGED <<server, apEnabled, apClients>>

DisableAp ==
    /\ StopPhase("DISABLE_AP", "MODE_OFF")
    /\ IF hadAp \/ apEnabled
       THEN SwitchMode(WithoutAp) /\ apEnabled' = FALSE /\ apClients' = FALSE
       ELSE UNCHANGED <<driver, apEnabled, apClients>>
    /\ UNCHANGED server

ModeOff_Forgotten ==    \* slip: the radio stays on
    /\ StopPhase("MODE_OFF", "FINALIZE")
    /\ UNCHANGED <<driver, server, apEnabled, apClients>>

ModeOff ==
    /\ StopPhase("MODE_OFF", "FINALIZE")
    /\ SwitchMode("OFF")
    /\ UNCHANGED <<server, apEnabled, apClients>>

StopFinishes ==
    /\ StopPhase("FINALIZE", "IDLE")
    /\ Finalize
    /\ UNCHANGED <<driver, server, cooldown, failures, settings, pc, requests, boot>>

\* processStopSetupModePhase()
StopStep ==
    \/ /\ StopHttpServer \/ DisconnectSta \/ DisableAp \/ ModeOff
       /\ UNCHANGED <<setup, hadSta, hadAp, autoStarted, memory, ui, join, failures, settings, pc,
                      requests, cancelled, boot>>
    \/ StopFinishes

---------------------------------------------------------------------------
(* process(): the memory guard *)

Running(block) == At(block) /\ setup = "AP_ON"
DualRadio == ApActive /\ mode \in StaModes

\* Memory is fine, or has not been short for long enough.
MemoryGuard ==
    /\ Running("between") /\ Goto("clients")
    /\ lowSince' \in BOOLEAN
    /\ UNCHANGED <<driver, server, setup, apEnabled, stopping, autoStarted, cooldown, activity,
                   join, failures, settings, requests, cancelled, boot>>

\* With both radios up the AP goes first, and a staged connect with it.
DropApForMemory ==
    /\ Running("between") /\ lowSince /\ DualRadio
    /\ SwitchMode(WithoutAp) /\ apEnabled' = FALSE
    /\ client' = CASE IsJoined -> "CONNECTED"
                   [] ~IsJoined /\ client = "CONNECTING" -> "CONNECTING"
                   [] OTHER -> "DISCONNECTED"
    /\ failures' = IF IsJoined THEN 0 ELSE failures
    /\ cancelled' = (cancelled \/ (client' = "CONNECTING" /\ phase # "IDLE"))
    /\ phase' = "IDLE" /\ cooldown' = TRUE /\ lowSince' = FALSE
    /\ UNCHANGED <<server, setup, stopping, autoStarted, activity, started, pending, persist,
                   settings, pc, requests, boot>>

EmergencyStop ==
    /\ Running("between") /\ lowSince /\ ~DualRadio
    /\ StopNow /\ cooldown' = TRUE
    /\ UNCHANGED <<failures, settings, pc, requests, boot>>

---------------------------------------------------------------------------
(* process(): who uses the service *)

\* The AP is retired when only the station is used; the switch can cost the
\* station its link.
RetireAp ==
    /\ Running("clients") /\ Goto("between")
    /\ ApActive /\ StaConnected
    /\ mode' = WithoutAp /\ apEnabled' = FALSE /\ apClients' = FALSE
    /\ \/ /\ station' = (IF WithoutAp \in StaModes THEN station ELSE None)
          /\ target' = (IF WithoutAp \in StaModes THEN target ELSE None)
          /\ UNCHANGED <<join, cancelled>>
       \/ /\ IsJoined /\ station' = None /\ target' = target
          /\ IF UseApSta
             THEN ConnectTo(saved, FALSE)
             ELSE /\ client' = "DISCONNECTED"
                  /\ UNCHANGED <<phase, started, pending, persist, cancelled>>
    /\ UNCHANGED <<server, setup, stopping, autoStarted, memory, ui, failures, settings, requests,
                   boot>>

StopWithoutClients ==
    /\ Running("clients") /\ Goto("between")
    /\ ~StaConnected
    /\ apClients' = FALSE
    /\ StopGracefully
    /\ UNCHANGED <<driver, server, apEnabled, autoStarted, cooldown, client, failures, settings,
                   requests, cancelled, boot>>

CountClients ==
    /\ Running("clients") /\ Goto("serve")
    /\ apClients' \in (IF ApActive THEN BOOLEAN ELSE {FALSE})
    /\ UNCHANGED <<driver, server, setup, apEnabled, stopping, autoStarted, memory, ui, join,
                   failures, settings, requests, cancelled, boot>>

---------------------------------------------------------------------------
(* process(): a web request *)

\* Someone can reach the pages, over the AP or over the station's network.
Reachable == server /\ (mode \in ApModes \/ IsJoined)

WebConnect ==
    /\ \E network \in Networks : ConnectTo(network, TRUE)
    /\ UNCHANGED <<driver, settings>>

WebDisconnect ==
    /\ LeaveNetwork("DISCONNECTED")
    /\ Leave
    /\ UNCHANGED settings

\* enableWifiClientFromSavedCredentials()
WebEnable ==
    /\ enabled' = TRUE /\ UNCHANGED saved
    /\ IF saved = None
       THEN client' = "DISCONNECTED" /\ UNCHANGED <<phase, started, pending, persist, cancelled>>
       ELSE ConnectTo(saved, TRUE)
    /\ UNCHANGED driver

\* disableWifiClient(), forgetWifiClient()
WebDisable ==
    /\ LeaveNetwork("DISABLED")
    /\ enabled' = FALSE /\ saved' \in {saved, None}
    /\ mode' = "AP" /\ station' = None /\ target' = None

WebRequest ==
    /\ Running("serve") /\ Goto("connect") /\ Reachable
    /\ requests < MaxRequests /\ requests' = requests + 1
    /\ ui' = TRUE
    /\ WebConnect \/ WebDisconnect \/ WebEnable \/ WebDisable
    /\ UNCHANGED <<server, setup, apEnabled, stopping, autoStarted, memory, apClients, failures,
                   boot>>

\* A page, or nothing.
WebIdle ==
    /\ Running("serve") /\ Goto("connect")
    /\ ui' \in {ui, Reachable \/ ui}
    /\ UNCHANGED <<driver, server, setup, apEnabled, stopping, autoStarted, memory, apClients, join,
                   failures, settings, requests, cancelled, boot>>

---------------------------------------------------------------------------
(* process(): a step of a staged connect *)

\* With the AP up the station is started beside it; without, from a radio that
\* is switched off first.
PrepareBesideAp ==
    /\ phase = "PREPARE_OFF" /\ ApActive
    /\ SwitchMode("AP_STA")
    /\ phase' = IF mode = "AP_STA" THEN "BEGIN_CONNECT" ELSE "WAIT_AP_STA"

PrepareOff ==
    /\ phase = "PREPARE_OFF" /\ ~ApActive
    /\ SwitchMode("OFF")
    /\ phase' = "WAIT_OFF"

OffSettles ==
    /\ phase = "WAIT_OFF" /\ phase' = "ENABLE_AP_STA"
    /\ UNCHANGED driver

EnableApSta ==
    /\ phase = "ENABLE_AP_STA" /\ phase' = "WAIT_AP_STA"
    /\ SwitchMode("AP_STA")

ApStaSettles ==
    /\ phase = "WAIT_AP_STA" /\ phase' = "BEGIN_CONNECT"
    /\ UNCHANGED driver

\* WiFi.begin() gives up the link to another network, and puts the radio back
\* into a station mode when a start of the AP in between has left it.
BeginConnect ==
    /\ phase = "BEGIN_CONNECT" /\ phase' = "IDLE"
    /\ mode' = IF mode \in ApModes THEN "AP_STA" ELSE "STA"
    /\ target' = pending /\ station' = (IF station = pending THEN station ELSE None)

ConnectMoves ==
    PrepareBesideAp \/ PrepareOff \/ OffSettles \/ EnableApSta \/ ApStaSettles \/ BeginConnect

ConnectStep_NotTimed ==    \* slip: the start of the attempt is not recorded
    /\ Running("connect") /\ Goto("timeout")
    /\ ConnectMoves
    /\ UNCHANGED started
    /\ UNCHANGED <<server, setup, apEnabled, stopping, autoStarted, memory, activity, client,
                   pending, persist, failures, settings, requests, cancelled, boot>>

\* processWifiClientConnectPhase()
ConnectStep ==
    /\ Running("connect") /\ Goto("timeout")
    /\ ConnectMoves
    /\ started' = (phase = "BEGIN_CONNECT")
    /\ UNCHANGED <<server, setup, apEnabled, stopping, autoStarted, memory, activity, client,
                   pending, persist, failures, settings, requests, cancelled, boot>>

ConnectWaits ==
    /\ Running("connect") /\ Goto("timeout")
    /\ UNCHANGED <<driver, server, setup, apEnabled, stopping, autoStarted, memory, activity, join,
                   failures, settings, requests, cancelled, boot>>

---------------------------------------------------------------------------
(* process(): the auto-timeout of the AP; the pass goes on after it *)

AutoTimeout ==
    /\ Running("timeout") /\ Goto("status")
    /\ ApActive /\ apClients' = FALSE
    /\ StopGracefully
    /\ UNCHANGED <<driver, server, apEnabled, autoStarted, cooldown, client, failures, settings,
                   requests, cancelled, boot>>

NoTimeout ==
    /\ Running("timeout") /\ Goto("status")
    /\ UNCHANGED <<driver, server, setup, apEnabled, stopping, autoStarted, memory, activity, join,
                   failures, settings, requests, cancelled, boot>>

---------------------------------------------------------------------------
(* process(): checkWifiClientStatus() *)

Settling_Ignored == FALSE    \* slip: an attempt counts as begun from the start

\* The mode switch of an attempt is in progress: the status is not about it yet.
Settling == phase # "IDLE" \/ ~started

Attempting == At("status") /\ client = "CONNECTING" /\ ~Settling

\* Credentials that changed are saved, once they have worked.
Connects ==
    /\ Attempting /\ IsJoined
    /\ client' = "CONNECTED" /\ started' = FALSE /\ failures' = 0
    /\ IF persist /\ pending \notin {None, saved}
       THEN saved' = pending /\ enabled' = TRUE
       ELSE UNCHANGED settings
    /\ ForgetPending
    /\ UNCHANGED <<driver, phase>>

\* The driver reports a failure, or the attempt takes too long and is called off.
ConnectFails ==
    /\ Attempting /\ ~IsJoined
    /\ client' = "FAILED" /\ started' = FALSE
    /\ ForgetPending
    /\ Leave \/ UNCHANGED driver
    /\ UNCHANGED <<phase, failures, settings>>

LosesLink ==
    /\ At("status") /\ client = "CONNECTED" /\ ~IsJoined
    /\ client' = "DISCONNECTED"
    /\ UNCHANGED <<driver, phase, started, pending, persist, failures, settings>>

\* An automatic start nobody uses is left to its no-client shutdown.
Unused == autoStarted /\ ~apClients /\ ~ui

MayReconnect ==
    /\ At("status") /\ client \in {"DISCONNECTED", "FAILED"}
    /\ ~cooldown /\ UseApSta /\ ~Unused /\ failures < MaxFailures

GivesUp ==
    /\ MayReconnect /\ failures = MaxFailures - 1
    /\ failures' = MaxFailures
    /\ UNCHANGED <<driver, join, settings>>

Reconnects ==
    /\ MayReconnect /\ failures < MaxFailures - 1
    /\ failures' = failures + 1
    /\ ConnectTo(saved, FALSE)
    /\ UNCHANGED <<driver, settings>>

StatusCheck ==
    /\ Goto("between")
    /\ \/ (Connects \/ ConnectFails \/ LosesLink \/ GivesUp) /\ UNCHANGED cancelled
       \/ Reconnects
    /\ UNCHANGED <<server, setup, apEnabled, stopping, autoStarted, memory, activity, requests,
                   boot>>

\* Not due, deferred, or nothing to do.
NoStatus ==
    /\ At("status") /\ Goto("between")
    /\ UNCHANGED <<driver, server, setup, apEnabled, stopping, autoStarted, memory, activity, join,
                   failures, settings, requests, cancelled, boot>>

---------------------------------------------------------------------------

Process ==
    \/ StopStep
    \/ MemoryGuard \/ DropApForMemory \/ EmergencyStop
    \/ RetireAp \/ StopWithoutClients \/ CountClients
    \/ WebRequest \/ WebIdle
    \/ ConnectStep \/ ConnectWaits
    \/ AutoTimeout \/ NoTimeout
    \/ StatusCheck \/ NoStatus

Next ==
    \/ StationJoins \/ StationDrops \/ CooldownLapses
    \/ AutoStart \/ UserStarts \/ UserStops \/ PowerOff
    \/ Process

Spec == Init /\ [][Next]_vars

\* The loop passes for ever; it is not overloaded for ever, so that a stop gets
\* its admission; a cadence that skips a block runs it in the end, and the
\* timeout of an attempt elapses.
FairSpec ==
    /\ Spec
    /\ WF_vars(Process) /\ WF_vars(StopStep)
    /\ SF_vars(ConnectStep) /\ SF_vars(StatusCheck)

---------------------------------------------------------------------------

\* What the service believes is what the radio does: off means that nothing is
\* on the air, listens or is about to start, and an AP that is offered is up,
\* whatever a connect, a disable or a stop does to the mode of the radio.
RadioMatches ==
    /\ setup = "OFF" =>
          mode = "OFF" /\ ~IsJoined /\ ~server /\ ~apEnabled /\ phase = "IDLE" /\ ~started
    /\ setup = "AP_ON" => server
    /\ apEnabled => mode \in ApModes

\* Saved credentials are replaced only by credentials the station has joined
\* with: a typo, a retry of the old network or a link to it that is still up
\* while a new one is being prepared never overwrites what works.
SavedWorked == [][saved' \in {saved, None, station}]_saved

\* A stop ends, by taking everything down or by a new start, also when the last
\* block of the pass that began it has started to connect again.
StopEnds == setup = "STOPPING" ~> (setup # "STOPPING" \/ pc = "off")

\* An attempt to connect ends, unless the low-memory drop cancelled its stages:
\* that one has no start time, and the status check waits for it for ever.
ConnectEnds ==
    (client = "CONNECTING" /\ ~cancelled) ~> (client # "CONNECTING" \/ cancelled \/ pc = "off")

=============================================================================
