----------------------------- MODULE ObdRuntime -----------------------------
(***************************************************************************)
(* The OBD adapter: the state machine the loop runs (update), the task     *)
(* that carries out its BLE calls one at a time (a queue of one request,   *)
(* a queue of one result), the callbacks of the BLE host, which reach the  *)
(* machine through a bounded queue of events, and the calls of the web     *)
(* interface and the touch screen.                                         *)
(*                                                                         *)
(* There is no clock: where the code waits, a step may stay, and the wait  *)
(* may be over.  What the loop tells update() about the V1, the proxy and  *)
(* the scanner is chosen anew in every pass.  A request number is unique,  *)
(* so all a slot has to know of it is whether it is still the pending one. *)
(* The speed itself is not here, nor security, which nothing enters.       *)
(***************************************************************************)
EXTENDS Integers, Sequences

CONSTANTS
    Adapters, None,       \* addresses, and no address (no request, no result)
    EventDepth,           \* BLE_EVENT_QUEUE_DEPTH
    MaxDirectConnectFailures, MaxConsecutiveErrors, ErrorsBeforeDisconnect,
    EcuIdleThreshold,     \* ECU_IDLE_BACKOFF_THRESHOLD
    WarmCommands, ColdCommands,
    Races                 \* what may overtake a call of the driver, see Exposed

\* A connection that comes up although it was cancelled; a connect request
\* that the task carries out although the driver has cancelled it.
RaceKinds == {"cancelLoses", "requestOutlivesCall"}

Ops       == {"CONNECT", "DISCOVER", "SUBSCRIBE", "WRITE", "RSSI_READ"}
Addresses == Adapters \union {None}
Request   == [op : Ops, to : Addresses, current : BOOLEAN]
Result    == [op : Ops, ok : BOOLEAN, current : BOOLEAN]

ASSUME NoneAssumption == None \notin Adapters \union Ops \union Request \union Result
ASSUME DepthAssumption == EventDepth \in Nat \ {0}
ASSUME LimitAssumption ==
    /\ MaxDirectConnectFailures \in Nat \ {0} /\ EcuIdleThreshold \in Nat \ {0}
    /\ MaxConsecutiveErrors \in Nat \ {0} /\ ErrorsBeforeDisconnect \in Nat
    /\ MaxConsecutiveErrors <= ErrorsBeforeDisconnect
    /\ WarmCommands \in Nat /\ ColdCommands \in Nat
ASSUME RaceAssumption == Races \subseteq RaceKinds

VARIABLES
    enabled, state, entered,      \* entered: stateEntryPending_
    saved, pair, scanRequested,   \* savedAddress_, manual pairing and its target
    lost,                         \* bleDisconnected_
    attempts, errors, cycles,
    dropping,                     \* lastFailure_ is one that ends the connection
    preferWarm, warm, index,      \* preferWarmReconnect_, warmInitPreferred_, initIndex_
    command, response,            \* activeCommand_, what bleBuf_ holds
    repaired,                     \* repairedBondAddress_
    op, ready,                    \* pendingTransportOp_, readyTransportResult_
    request, executing, result,   \* the two queues, and the task between them
    link, peer, owed,             \* the connection; a callback not yet made
    asked,                        \* the adapter has something to say
    scanning, events

machine   == <<enabled, state, entered>>
pairing   == <<saved, pair, scanRequested>>
counters  == <<attempts, errors, cycles, dropping>>
initState == <<preferWarm, warm, index>>
exchange  == <<command, response>>
asking    == <<op, ready>>
task      == <<request, executing>>
air       == <<link, peer, owed>>
vars == <<machine, pairing, lost, counters, initState, exchange, repaired,
          asking, task, result, air, asked, scanning, events>>

---------------------------------------------------------------------------

States == {"IDLE", "WAIT_BOOT", "SCANNING", "CONNECTING", "DISCOVERING", "AT_INIT",
           "POLLING", "ERROR_BACKOFF", "DISCONNECTED", "ECU_IDLE"}
\* A command that is not yet written, and one that is; each for the first
\* time or, with its only retry, once more.
Commands  == {"none", "unsent", "sent", "unsentAgain", "sentAgain"}
Responses == {"none", "good", "bad"}
Links     == {"down", "initiating", "cancelling", "up", "terminating"}
Event     == [type : {"found"}, from : Adapters] \union [type : {"lost", "good", "bad"}]
NoPairing == [manual |-> FALSE, preempt |-> FALSE, candidate |-> None, target |-> None]

Exposed(r) == r \in Races

Pairing == [manual : BOOLEAN, preempt : BOOLEAN, candidate : Addresses, target : Addresses]

TypeFlags ==
    /\ enabled \in BOOLEAN /\ entered \in BOOLEAN /\ scanRequested \in BOOLEAN
    /\ lost \in BOOLEAN /\ dropping \in BOOLEAN /\ preferWarm \in BOOLEAN /\ warm \in BOOLEAN
    /\ owed \in BOOLEAN /\ asked \in BOOLEAN /\ scanning \in BOOLEAN

TypeTask ==
    /\ op \in Ops \union {None} /\ ready \in Result \union {None}
    /\ request \in Request \union {None} /\ executing \in Request \union {None}
    /\ result \in Result \union {None}

TypeMachine ==
    /\ state \in States /\ command \in Commands /\ response \in Responses
    /\ attempts \in 0 .. MaxDirectConnectFailures - 1
    /\ errors \in 0 .. ErrorsBeforeDisconnect /\ cycles \in 0 .. EcuIdleThreshold
    /\ index \in Nat

TypeLink ==
    /\ pair \in Pairing /\ saved \in Addresses /\ repaired \in Addresses
    /\ link \in Links /\ peer \in Addresses

TypeEvents == events \in Seq(Event) /\ Len(events) <= EventDepth

TypeOK == TypeFlags /\ TypeTask /\ TypeMachine /\ TypeLink /\ TypeEvents

Init ==
    /\ enabled \in BOOLEAN /\ saved \in Addresses
    /\ state = IF enabled /\ saved # None THEN "WAIT_BOOT" ELSE "IDLE"
    /\ entered = FALSE /\ pair = NoPairing /\ scanRequested = FALSE /\ lost = FALSE
    /\ attempts = 0 /\ errors = 0 /\ cycles = 0 /\ dropping = FALSE
    /\ preferWarm = FALSE /\ warm = FALSE /\ index = 0
    /\ command = "none" /\ response = "none" /\ repaired = None
    /\ op = None /\ ready = None /\ request = None /\ executing = None /\ result = None
    /\ link = "down" /\ peer = None /\ owed = FALSE /\ asked = FALSE
    /\ scanning = FALSE /\ events = <<>>

---------------------------------------------------------------------------
(* The BLE client *)

IsConnected == link \in {"up", "terminating"}

\* ObdBleClient::disconnect(): cancels a connection that is coming up.
AfterDisconnect == CASE link = "initiating" -> "cancelling"
                     [] link = "up"         -> "terminating"
                     [] OTHER               -> link
DisconnectBle == link' = AfterDisconnect /\ UNCHANGED <<peer, owed>>

---------------------------------------------------------------------------
(* Requests to the task *)

Stale(slot) == IF slot = None THEN None ELSE [slot EXCEPT !.current = FALSE]

\* pumpTransportResults(): every pass empties the queue of results, and
\* keeps the one it waits for.
Awaited_Any == result # None     \* the numbers are not compared
Awaited  == result # None /\ result.current
ReadyNow == IF Awaited THEN result ELSE ready
OpNow    == IF Awaited THEN None ELSE op
Pump     == op' = OpNow /\ ready' = ReadyNow /\ UNCHANGED task

Has(o) == ReadyNow # None /\ ReadyNow.op = o
Take   == op' = OpNow /\ ready' = None /\ UNCHANGED task

\* The slip of leaving the request pending.
ClearRequest_Not == Pump

\* clearTransportRequest() and readyTransportResult_ = {}; what the task has
\* in hand it will finish.
ClearRequest ==
    /\ op' = None /\ ready' = None
    /\ request' = Stale(request) /\ executing' = Stale(executing)

\* beginTransportRequest(), after a result of this pass was taken or not.
CanBegin == OpNow = None /\ request = None
Address  == IF pair.target # None THEN pair.target ELSE saved
BeginRequest(o) ==
    /\ CanBegin
    /\ op' = o /\ ready' = None
    /\ request' = [op |-> o, to |-> Address, current |-> TRUE]
    /\ UNCHANGED executing
RequestRefused ==
    /\ ~CanBegin
    /\ op' = OpNow
    /\ ready' = IF OpNow = None THEN None ELSE ReadyNow
    /\ UNCHANGED task

---------------------------------------------------------------------------
(* The queue of events *)

IsData(e) == e.type \in {"good", "bad"}

\* The queue that keeps its oldest events instead.
Enqueue_Newest(e) ==
    events' = IF Len(events) < EventDepth THEN Append(events, e) ELSE events

\* enqueueBleEvent(): a full queue loses its oldest event; an answer that
\* pushes out a piece of an answer is marked as cut.
Enqueue(e) ==
    events' = IF Len(events) < EventDepth THEN Append(events, e)
              ELSE Append(Tail(events),
                          IF IsData(e) /\ IsData(Head(events)) THEN [type |-> "bad"] ELSE e)

Came(t) == \E i \in 1 .. Len(events) : events[i].type = t

\* The slip of an event that only the next pass looks at.
LostNow_OnlyNoted == lost

\* drainBleEventQueue(): what the switch of this pass sees.
LostNow == lost \/ Came("lost")
Listening == state \in {"AT_INIT", "POLLING"}
ResponseNow ==
    IF ~Listening THEN response
    ELSE IF Came("bad") THEN "bad"
    ELSE IF Came("good") /\ response = "none" THEN "good" ELSE response
FoundNow == {events[i].from : i \in {j \in 1 .. Len(events) : events[j].type = "found"}}

---------------------------------------------------------------------------
(* Steps of the machine *)

GoTo(s) == state' = s /\ entered' = TRUE
Stay    == UNCHANGED state /\ entered' = FALSE

\* What every pass does first.
Pass(s) ==
    /\ enabled /\ state = s
    /\ events' = <<>> /\ result' = None
    /\ UNCHANGED <<enabled, owed, asked>>

NoExchange == command' = "none" /\ response' = "none"
SetTarget(a) == pair' = [pair EXCEPT !.target = a]

\* handleConnectFailure()
ConnectFailure ==
    /\ lost' = FALSE /\ NoExchange
    /\ IF pair.manual
       THEN attempts' = 0 /\ pair' = NoPairing /\ GoTo("IDLE")
       ELSE /\ UNCHANGED pair
            /\ IF attempts + 1 >= MaxDirectConnectFailures
               THEN attempts' = 0 /\ GoTo("IDLE")
               ELSE attempts' = attempts + 1 /\ GoTo("DISCONNECTED")
    /\ UNCHANGED <<saved, scanRequested, errors, cycles, dropping, initState, repaired, scanning>>

\* A pass in which nothing of the machine moves.
Wait ==
    /\ Stay /\ Pump /\ lost' = LostNow
    /\ UNCHANGED <<pairing, counters, initState, exchange, repaired, link, peer, scanning>>

\* Nothing that disconnectBle() or the task began is still under way.  Each
\* of it is over in the five seconds of the waits that ask for it: the task
\* starts at once, and a link that is given up is closed within four.
Settled == link \in {"down", "up"} /\ ~owed /\ request = None /\ executing = None

\* A scan that was asked for begins, when the scanner is free and, for a
\* manual pairing, the proxy is silent.  (DISCONNECTED would begin one too,
\* but only startScan() could ask for it there, and nothing calls that.)
IdleScan ==
    /\ Pass("IDLE") /\ scanRequested
    /\ scanning' = TRUE /\ scanRequested' = FALSE /\ GoTo("SCANNING")
    /\ Pump /\ lost' = LostNow
    /\ UNCHANGED <<saved, pair, counters, initState, exchange, repaired, link, peer>>

Idle == Pass("IDLE") /\ Wait

\* No app is connected; the V1 is there and quiet, or did not come in ten seconds.
WaitBootEnds ==
    /\ Pass("WAIT_BOOT")
    /\ SetTarget(saved) /\ GoTo("CONNECTING") /\ Pump /\ lost' = LostNow
    /\ UNCHANGED <<saved, scanRequested, counters, initState, exchange, repaired, link, peer, scanning>>
WaitBoot == Pass("WAIT_BOOT") /\ Wait

ScanFinds ==
    /\ Pass("SCANNING") /\ FoundNow # {}
    /\ \E a \in FoundNow :
         IF pair.manual
         THEN /\ pair' = [pair EXCEPT !.candidate = a, !.target = a, !.preempt = FALSE]
              /\ UNCHANGED saved
         ELSE saved' = a /\ SetTarget(a)
    /\ attempts' = 0 /\ preferWarm' = FALSE
    /\ GoTo("CONNECTING") /\ Pump /\ lost' = LostNow
    /\ UNCHANGED <<scanRequested, errors, cycles, dropping, warm, index, exchange, repaired,
                   link, peer, scanning>>

ScanExpires ==
    /\ Pass("SCANNING") /\ FoundNow = {}
    /\ pair' = IF pair.manual THEN NoPairing ELSE pair
    /\ GoTo("IDLE") /\ Pump /\ lost' = LostNow
    /\ UNCHANGED <<saved, scanRequested, counters, initState, exchange, repaired, link, peer, scanning>>

Scanning == Pass("SCANNING") /\ FoundNow = {} /\ Wait

---------------------------------------------------------------------------
(* CONNECTING *)

ConnectRefused == Has("CONNECT") /\ ~ReadyNow.ok
\* The request was answered, but too late: five seconds are over.
ConnectLate    == Has("CONNECT") /\ ReadyNow.ok

ConnectFails ==
    /\ Pass("CONNECTING")
    /\ \/ LostNow /\ Pump
       \/ ~LostNow /\ (ConnectRefused \/ ConnectLate) /\ Take
       \/ ~LostNow /\ ~ConnectRefused /\ entered /\ RequestRefused
    /\ ConnectFailure
    /\ UNCHANGED <<link, peer>>

\* The entry action; an old connection may still be up.
ConnectBegins ==
    /\ Pass("CONNECTING") /\ entered /\ ~LostNow /\ ~ConnectRefused /\ CanBegin
    /\ IF IsConnected
       THEN /\ GoTo("DISCOVERING") /\ attempts' = 0
            /\ op' = None /\ ready' = None /\ UNCHANGED executing
            /\ request' = [op |-> "CONNECT", to |-> Address, current |-> FALSE]
       ELSE Stay /\ UNCHANGED attempts /\ BeginRequest("CONNECT")
    /\ lost' = FALSE
    /\ UNCHANGED <<pairing, errors, cycles, dropping, initState, exchange, repaired, link, peer, scanning>>

ConnectComesUp ==
    /\ Pass("CONNECTING") /\ ~entered /\ ~LostNow /\ ~ConnectRefused /\ IsConnected
    /\ GoTo("DISCOVERING") /\ attempts' = 0
    /\ ClearRequest      \* CONNECT, the only request there can be
    /\ lost' = FALSE
    /\ UNCHANGED <<pairing, errors, cycles, dropping, initState, exchange, repaired, link, peer, scanning>>

ConnectTimesOut ==
    /\ Pass("CONNECTING") /\ ~entered /\ ~LostNow /\ ~ConnectRefused /\ ~IsConnected
    /\ ClearRequest
    /\ link' = AfterDisconnect /\ UNCHANGED peer
    /\ ConnectFailure

Connecting ==
    /\ Pass("CONNECTING") /\ ~entered /\ ~LostNow /\ ~ConnectRefused /\ ~IsConnected
    /\ Stay /\ lost' = FALSE
    /\ IF ConnectLate THEN Take ELSE Pump
    /\ UNCHANGED <<pairing, counters, initState, exchange, repaired, link, peer, scanning>>

---------------------------------------------------------------------------
(* DISCOVERING *)

\* The link went while the adapter was being set up.
SetupLost(s) ==
    /\ Pass(s) /\ LostNow
    /\ lost' = FALSE /\ Pump /\ response' = ResponseNow
    /\ IF pair.manual THEN pair' = NoPairing /\ GoTo("IDLE")
       ELSE UNCHANGED pair /\ GoTo("DISCONNECTED")
    /\ UNCHANGED <<saved, scanRequested, counters, initState, command, repaired, link, peer, scanning>>

SetupFails == link' = AfterDisconnect /\ UNCHANGED peer /\ ConnectFailure

DiscoverAsks(o) ==
    \/ /\ BeginRequest(o) /\ Stay /\ lost' = FALSE
       /\ UNCHANGED <<pairing, counters, initState, exchange, repaired, link, peer, scanning>>
    \/ RequestRefused /\ SetupFails

DiscoverFails ==
    /\ Pass("DISCOVERING") /\ ~LostNow
    /\ Has("DISCOVER") \/ Has("SUBSCRIBE")
    /\ Take /\ SetupFails

Discovered ==
    /\ Pass("DISCOVERING") /\ ~LostNow /\ Has("DISCOVER") /\ ReadyNow.ok
    /\ DiscoverAsks("SUBSCRIBE")

Subscribed ==
    /\ Pass("DISCOVERING") /\ ~LostNow /\ Has("SUBSCRIBE") /\ ReadyNow.ok
    /\ Take /\ GoTo("AT_INIT") /\ lost' = FALSE
    /\ index' = 0 /\ warm' = preferWarm /\ preferWarm' = TRUE /\ NoExchange
    /\ UNCHANGED <<pairing, counters, repaired, link, peer, scanning>>

DiscoverBegins ==
    /\ Pass("DISCOVERING") /\ ~LostNow /\ OpNow = None /\ ReadyNow = None
    /\ DiscoverAsks("DISCOVER")

Discovering ==
    /\ Pass("DISCOVERING") /\ ~LostNow /\ Stay /\ Pump /\ lost' = FALSE
    /\ UNCHANGED <<pairing, counters, initState, exchange, repaired, link, peer, scanning>>

---------------------------------------------------------------------------
(* AT_INIT *)

Unsent == command \in {"unsent", "unsentAgain"}
Sent   == command \in {"sent", "sentAgain"}
Commanded == IF warm THEN WarmCommands ELSE ColdCommands

InitPass == Pass("AT_INIT") /\ ~LostNow /\ lost' = FALSE

\* autoHealBondIfAllowed(): once for an address, and only if there is a bond
\* to delete.
CanHeal == pair.candidate = None /\ saved # None /\ repaired # saved
HealBond ==
    /\ index = 0 /\ CanHeal
    /\ link' = AfterDisconnect /\ UNCHANGED peer
    /\ NoExchange /\ lost' = FALSE /\ preferWarm' = FALSE /\ warm' = FALSE
    /\ repaired' = saved /\ GoTo("DISCONNECTED")
    /\ UNCHANGED <<pairing, counters, index, scanning>>

InitWriteFailed == HealBond \/ SetupFails

InitWritten ==
    /\ InitPass /\ Unsent /\ Has("WRITE") /\ ReadyNow.ok
    /\ Take /\ Stay /\ response' = ResponseNow
    /\ command' = IF command = "unsent" THEN "sent" ELSE "sentAgain"
    /\ UNCHANGED <<pairing, counters, initState, repaired, link, peer, scanning>>

InitUnwritten ==
    /\ InitPass /\ Unsent /\ Has("WRITE") /\ ~ReadyNow.ok
    /\ Take /\ InitWriteFailed

InitAnswered ==
    /\ InitPass /\ Sent /\ ResponseNow = "good"
    /\ NoExchange /\ index' = index + 1 /\ Stay /\ Pump
    /\ UNCHANGED <<pairing, counters, preferWarm, warm, repaired, link, peer, scanning>>

\* retryActiveCommand(), in the same write mode or in the other.
Retry ==
    /\ command = "sent" /\ BeginRequest("WRITE")
    /\ command' = "unsentAgain" /\ response' = "none"
RetryRefused == command = "sent" /\ RequestRefused

\* The slip of a fallback that falls back to what failed.
ColdFallback_Warm ==
    /\ warm /\ warm' = TRUE /\ index' = 0 /\ NoExchange /\ Stay
    /\ UNCHANGED <<pairing, counters, preferWarm, repaired, link, peer, scanning>>

\* No retry is left: the short initialisation gives way to the full one.
ColdFallback ==
    /\ warm /\ warm' = FALSE /\ index' = 0 /\ NoExchange /\ Stay
    /\ UNCHANGED <<pairing, counters, preferWarm, repaired, link, peer, scanning>>

\* A bad answer, or none in two seconds.
InitUnanswered ==
    /\ InitPass /\ Sent /\ ResponseNow # "good"
    /\ \/ /\ Retry /\ Stay
          /\ UNCHANGED <<pairing, counters, initState, repaired, link, peer, scanning>>
       \/ /\ RetryRefused \/ (command = "sentAgain" /\ Pump)
          /\ ColdFallback \/ (~warm /\ SetupFails)

InitSends ==
    /\ InitPass /\ command = "none" /\ index < Commanded
    /\ \/ /\ BeginRequest("WRITE") /\ command' = "unsent" /\ response' = "none" /\ Stay
          /\ UNCHANGED <<pairing, counters, initState, repaired, link, peer, scanning>>
       \/ RequestRefused /\ InitWriteFailed

\* commitManualScanCandidate()
Commits == pair.manual /\ pair.candidate # None
Commit ==
    IF Commits
    THEN /\ saved' = pair.candidate /\ pair' = NoPairing
         /\ preferWarm' = (preferWarm /\ saved = pair.candidate)
    ELSE UNCHANGED <<saved, pair, preferWarm>>

InitDone ==
    /\ InitPass /\ command = "none" /\ index >= Commanded
    /\ errors' = 0 /\ response' = "none" /\ Commit /\ GoTo("POLLING") /\ Pump
    /\ UNCHANGED <<scanRequested, attempts, cycles, dropping, warm, index, command, repaired,
                   link, peer, scanning>>

AtInit ==
    /\ InitPass /\ Stay /\ Pump /\ response' = ResponseNow
    /\ \/ Unsent /\ ~Has("WRITE")
       \/ Sent /\ ResponseNow = "none"
       \/ command = "none"
    /\ UNCHANGED <<pairing, counters, initState, command, repaired, link, peer, scanning>>

---------------------------------------------------------------------------
(* POLLING *)

PollPass ==
    /\ Pass("POLLING") /\ ~LostNow /\ lost' = FALSE
    /\ UNCHANGED <<pairing, attempts, initState, repaired, link, peer, scanning>>

PollLost ==
    /\ Pass("POLLING") /\ LostNow /\ lost' = FALSE
    /\ NoExchange /\ GoTo("DISCONNECTED") /\ Pump
    /\ UNCHANGED <<pairing, counters, initState, repaired, link, peer, scanning>>

\* handlePollingError(), after e errors; ends: the reason is one that ends
\* the connection.
PollError(e, ends) ==
    /\ errors' = e + 1 /\ dropping' = ends /\ NoExchange
    /\ IF e + 1 >= ErrorsBeforeDisconnect /\ ends THEN GoTo("DISCONNECTED")
       ELSE IF e + 1 >= MaxConsecutiveErrors THEN GoTo("ERROR_BACKOFF")
       ELSE Stay

PollWritten ==
    /\ PollPass /\ Unsent /\ Has("WRITE") /\ ReadyNow.ok
    /\ Take /\ Stay /\ response' = ResponseNow
    /\ command' = IF command = "unsent" THEN "sent" ELSE "sentAgain"
    /\ UNCHANGED counters

PollUnwritten ==
    /\ PollPass /\ Unsent /\ Has("WRITE") /\ ~ReadyNow.ok
    /\ Take /\ PollError(errors, TRUE) /\ UNCHANGED cycles

\* The end of a pass with no command under way: the next poll, when it is
\* due, or the signal strength.
PollNext(e, d) ==
    \/ /\ errors' = e /\ dropping' = d /\ Stay /\ UNCHANGED cycles
       /\ \/ BeginRequest("WRITE") /\ command' = "unsent" /\ response' = "none"
          \/ NoExchange /\ IF Has("RSSI_READ") THEN Take ELSE Pump
          \/ ReadyNow = None /\ BeginRequest("RSSI_READ") /\ NoExchange
    \/ RequestRefused /\ PollError(e, TRUE) /\ UNCHANGED cycles

PollAnswered ==
    /\ PollPass /\ Sent /\ ResponseNow = "good"
    /\ NoExchange /\ errors' = 0 /\ cycles' = 0 /\ UNCHANGED dropping /\ Stay
    /\ \/ IF Has("RSSI_READ") THEN Take ELSE Pump
       \/ ReadyNow = None /\ BeginRequest("RSSI_READ")

PollBadAnswer ==
    /\ PollPass /\ Sent /\ ResponseNow = "bad"
    /\ \E ends \in BOOLEAN :
         IF errors + 1 >= MaxConsecutiveErrors
         THEN Pump /\ PollError(errors, ends) /\ UNCHANGED cycles
         ELSE PollNext(errors + 1, ends)

PollUnanswered ==
    /\ PollPass /\ Sent /\ ResponseNow = "none" /\ UNCHANGED cycles
    /\ \/ Retry /\ Stay /\ UNCHANGED <<errors, dropping>>
       \/ RetryRefused /\ PollError(errors, FALSE)
       \/ Pump /\ PollError(errors, FALSE)

PollSends == PollPass /\ command = "none" /\ PollNext(errors, dropping)

Polling ==
    /\ PollPass /\ Stay /\ response' = ResponseNow /\ UNCHANGED <<command, counters>>
    /\ \/ Unsent /\ ~Has("WRITE") /\ Pump
       \/ /\ Sent /\ ResponseNow = "none"
          /\ IF Has("RSSI_READ") THEN Take
             ELSE Pump \/ (ReadyNow = None /\ BeginRequest("RSSI_READ"))

---------------------------------------------------------------------------
(* ERROR_BACKOFF, DISCONNECTED, ECU_IDLE *)

Backoff ==
    /\ Pass("ERROR_BACKOFF") /\ Stay /\ Pump /\ lost' = LostNow
    /\ UNCHANGED <<pairing, counters, initState, exchange, repaired, link, peer, scanning>>

\* A probe from ECU_IDLE keeps the count: the next pause ends there again.
BackoffEnds ==
    /\ Pass("ERROR_BACKOFF") /\ Pump /\ lost' = LostNow
    /\ IF dropping /\ errors >= ErrorsBeforeDisconnect
       THEN GoTo("DISCONNECTED") /\ link' = AfterDisconnect /\ UNCHANGED <<errors, cycles>>
       ELSE /\ cycles' = IF cycles < EcuIdleThreshold THEN cycles + 1 ELSE cycles
            /\ errors' = IF dropping THEN errors ELSE 0
            /\ IF cycles + 1 >= EcuIdleThreshold
               THEN GoTo("ECU_IDLE") /\ link' = AfterDisconnect
               ELSE GoTo("POLLING") /\ UNCHANGED link
    /\ UNCHANGED <<pairing, attempts, dropping, initState, exchange, repaired, peer, scanning>>

\* The entry actions of the two states.
Rest(s) ==
    /\ Pass(s) /\ Pump /\ lost' = LostNow
    /\ IF entered THEN NoExchange ELSE UNCHANGED exchange
    /\ link' = IF entered /\ s = "DISCONNECTED" THEN AfterDisconnect ELSE link
    /\ UNCHANGED <<peer, repaired, scanning>>

Disconnected ==
    /\ Rest("DISCONNECTED") /\ Stay
    /\ UNCHANGED <<pairing, counters, initState>>

\* Five seconds, and no phone on the proxy.
Reconnects ==
    /\ Rest("DISCONNECTED") /\ ~entered /\ Settled
    /\ IF saved # None THEN SetTarget(saved) /\ GoTo("CONNECTING")
       ELSE UNCHANGED pair /\ GoTo("IDLE")
    /\ UNCHANGED <<saved, scanRequested, counters, initState>>

EcuIdle == Rest("ECU_IDLE") /\ Stay /\ UNCHANGED <<pairing, counters, initState>>

\* The V1 is back: the car runs again.
EcuIdleResumes ==
    /\ Rest("ECU_IDLE") /\ GoTo("WAIT_BOOT") /\ cycles' = 0
    /\ UNCHANGED <<pairing, attempts, errors, dropping, initState>>

\* Every thirty seconds.
EcuIdleProbes ==
    /\ Rest("ECU_IDLE") /\ ~entered /\ Settled /\ saved # None
    /\ SetTarget(saved) /\ preferWarm' = TRUE /\ GoTo("CONNECTING")
    /\ UNCHANGED <<saved, scanRequested, counters, warm, index>>

Update ==
    \/ Idle \/ IdleScan \/ WaitBoot \/ WaitBootEnds
    \/ Scanning \/ ScanFinds \/ ScanExpires
    \/ Connecting \/ ConnectBegins \/ ConnectComesUp \/ ConnectTimesOut \/ ConnectFails
    \/ SetupLost("DISCOVERING") \/ Discovering \/ DiscoverBegins \/ Discovered \/ Subscribed
    \/ DiscoverFails
    \/ SetupLost("AT_INIT") \/ AtInit \/ InitSends \/ InitWritten \/ InitUnwritten
    \/ InitAnswered \/ InitUnanswered \/ InitDone
    \/ PollLost \/ Polling \/ PollSends \/ PollWritten \/ PollUnwritten
    \/ PollAnswered \/ PollBadAnswer \/ PollUnanswered
    \/ Backoff \/ BackoffEnds \/ Disconnected \/ Reconnects
    \/ EcuIdle \/ EcuIdleResumes \/ EcuIdleProbes

---------------------------------------------------------------------------
(* The calls of the driver, in the loop's own task *)

\* disconnectBle() finds no connection to cancel while the request for it is
\* still with the task; that the task gets there first is the rule.
NothingToOutlive ==
    \A slot \in {request, executing} : slot # None => slot.op # "CONNECT"
Overtakable == NothingToOutlive \/ Exposed("requestOutlivesCall")

Interrupted ==
    /\ DisconnectBle /\ scanning' = FALSE
    /\ events' = <<>> /\ lost' = FALSE /\ NoExchange
    /\ entered' = FALSE /\ state' = "IDLE"
    /\ UNCHANGED <<errors, cycles, dropping, initState, repaired, asked>>

SetEnabledOff ==
    /\ enabled /\ Overtakable
    /\ enabled' = FALSE /\ Interrupted /\ ClearRequest /\ result' = Stale(result)
    /\ pair' = NoPairing /\ scanRequested' = FALSE
    /\ UNCHANGED <<saved, attempts>>

SetEnabledOn ==
    /\ ~enabled
    /\ enabled' = TRUE /\ attempts' = 0
    /\ events' = <<>> /\ lost' = FALSE /\ NoExchange /\ pair' = NoPairing
    /\ state' = IF saved # None THEN "WAIT_BOOT" ELSE "IDLE"
    /\ entered' = FALSE
    /\ UNCHANGED <<saved, scanRequested, errors, cycles, dropping, initState, repaired,
                   asking, task, result, air, asked, scanning>>

ManualPair ==
    /\ enabled /\ Overtakable
    /\ ~IsConnected /\ ~pair.manual /\ ~scanRequested /\ state # "SCANNING"
    /\ Interrupted /\ ClearRequest /\ result' = Stale(result) /\ attempts' = 0
    /\ pair' = [NoPairing EXCEPT !.manual = TRUE, !.preempt = TRUE]
    /\ scanRequested' = TRUE
    /\ UNCHANGED <<enabled, saved>>

\* forgetDevice() leaves the request to the task alone.
Forget ==
    /\ Overtakable
    /\ Interrupted /\ attempts' = 0
    /\ saved' = None /\ pair' = NoPairing /\ scanRequested' = FALSE
    /\ UNCHANGED <<enabled, asking, task, result>>

---------------------------------------------------------------------------
(* The transport task *)

Receive ==
    /\ executing = None /\ request # None
    /\ executing' = request /\ request' = None
    /\ UNCHANGED <<machine, pairing, lost, counters, initState, exchange, repaired, asking,
                   result, air, asked, scanning, events>>

Finish(ok) ==
    /\ result' = [op |-> executing.op, ok |-> ok, current |-> executing.current]
    /\ executing' = None
    /\ UNCHANGED <<machine, pairing, lost, counters, initState, exchange, repaired, asking,
                   request, owed, scanning, events>>

\* connect() returns at once; an old connection, to whom ever, is as good.
ExecuteConnect ==
    /\ executing # None /\ executing.op = "CONNECT"
    /\ UNCHANGED asked
    /\ IF IsConnected /\ executing.to # None
       THEN Finish(TRUE) /\ UNCHANGED <<link, peer>>
       ELSE \/ /\ link = "down" /\ ~owed /\ executing.to # None
               /\ link' = "initiating" /\ peer' = executing.to /\ Finish(TRUE)
            \/ Finish(FALSE) /\ UNCHANGED <<link, peer>>

ExecuteGatt ==
    /\ executing # None /\ executing.op \in {"DISCOVER", "SUBSCRIBE", "WRITE"}
    /\ UNCHANGED <<link, peer>>
    /\ \/ Finish(FALSE) /\ UNCHANGED asked
       \/ /\ link = "up" /\ Finish(TRUE)
          /\ asked' = (asked \/ executing.op = "WRITE")

ExecuteRssi ==
    /\ executing # None /\ executing.op = "RSSI_READ"
    /\ Finish(TRUE) /\ UNCHANGED <<link, peer, asked>>

---------------------------------------------------------------------------
(* The BLE host *)

Host == UNCHANGED <<machine, pairing, lost, counters, initState, exchange, repaired, asking,
                    task, result>>

LinkUp ==
    /\ link = "initiating" \/ (link = "cancelling" /\ Exposed("cancelLoses"))
    /\ link' = "up" /\ UNCHANGED <<peer, owed, asked, scanning, events>> /\ Host

\* The connection fails, is cancelled, or ends; the callback comes later.
LinkDown ==
    /\ link # "down"
    /\ link' = "down" /\ owed' = TRUE /\ asked' = FALSE
    /\ UNCHANGED <<peer, scanning, events>> /\ Host

\* onConnectFail(), onDisconnect()
OnBleDisconnect ==
    /\ owed /\ owed' = FALSE
    /\ Enqueue([type |-> "lost"])
    /\ UNCHANGED <<link, peer, asked, scanning>> /\ Host

\* An answer, of which the adapter may have more.
OnBleData ==
    /\ asked /\ link = "up"
    /\ \E t \in {"good", "bad"} : Enqueue([type |-> t])
    /\ asked' \in BOOLEAN
    /\ UNCHANGED <<air, scanning>> /\ Host

\* The first adapter heard ends the scan; so does its time.
OnDeviceFound ==
    /\ scanning /\ scanning' = FALSE
    /\ \E a \in Adapters : Enqueue([type |-> "found", from |-> a])
    /\ UNCHANGED <<air, asked>> /\ Host

OnScanEnd ==
    /\ scanning /\ scanning' = FALSE
    /\ UNCHANGED <<air, asked, events>> /\ Host

Execute   == ExecuteConnect \/ ExecuteGatt \/ ExecuteRssi
Driver    == SetEnabledOff \/ SetEnabledOn \/ ManualPair \/ Forget
Callbacks == LinkUp \/ LinkDown \/ OnBleDisconnect \/ OnBleData \/ OnDeviceFound \/ OnScanEnd

Next == Update \/ Driver \/ Receive \/ Execute \/ Callbacks

Spec == Init /\ [][Next]_vars

\* The loop runs, its waits end, and what they wait for comes: the V1 or the end
\* of its ten seconds with no app connected, a free scanner, a silent proxy.  The task takes its requests and finishes
\* them; a BLE call that never returned would stop it.
ConnectStep  == ConnectBegins \/ ConnectComesUp \/ ConnectTimesOut \/ ConnectFails
DiscoverStep == SetupLost("DISCOVERING") \/ DiscoverBegins \/ Discovered \/ Subscribed
                \/ DiscoverFails
InitStep     == SetupLost("AT_INIT") \/ InitSends \/ InitWritten \/ InitUnwritten
                \/ InitAnswered \/ InitUnanswered \/ InitDone
Fairness ==
    /\ WF_vars(IdleScan) /\ WF_vars(WaitBootEnds) /\ WF_vars(ScanFinds \/ ScanExpires)
    /\ WF_vars(ConnectStep) /\ WF_vars(DiscoverStep) /\ WF_vars(InitStep)
    /\ WF_vars(Receive) /\ WF_vars(Execute)

FairSpec == Spec /\ Fairness

\* getBleArbitrationRequest()
HoldsProxy ==
    \/ pair.preempt
    \/ /\ state \in {"WAIT_BOOT", "CONNECTING", "DISCOVERING", "AT_INIT"}
       /\ saved # None \/ pair.target # None

---------------------------------------------------------------------------
(* Properties *)

\* A machine that waits for an answer of the task has a request under way,
\* or its answer in hand, and only one: no request is lost between the two
\* queues, and no old answer is taken for it (obd_runtime_module.cpp:947).
InHand == {s \in {"request", "executing", "result"} :
             LET slot == CASE s = "request" -> request [] s = "executing" -> executing
                           [] OTHER -> result
             IN  slot # None /\ slot.current}
Carried == LET s == CHOOSE s \in InHand : TRUE
           IN  CASE s = "request" -> request [] s = "executing" -> executing [] OTHER -> result
RequestIsCarried ==
    /\ op # None => (\E s \in InHand : InHand = {s}) /\ Carried.op = op
    /\ op = None => InHand = {}

\* A command that is to be written has its write under way, or the result
\* of it in hand: nothing else would ever end its wait, which has no limit.
\* And the answer the machine waits for is one its state takes: one that no
\* branch takes would keep DISCOVERING, which has no limit either, from
\* asking again (obd_runtime_module.cpp:1799).
OpInHand == IF op # None THEN op ELSE IF ready # None THEN ready.op ELSE None
AnswerIsTaken ==
    enabled =>
    /\ Unsent /\ state \in {"AT_INIT", "POLLING"} => OpInHand = "WRITE"
    /\ state = "DISCOVERING" => OpInHand \in {None, "DISCOVER", "SUBSCRIBE"}
    /\ state = "AT_INIT"     => OpInHand \in {None, "WRITE"}
    /\ state = "POLLING"     => OpInHand \in {None, "WRITE", "RSSI_READ"}

\* A machine that believes in its connection and has lost it will be told:
\* the callback is still to come, is in the queue, or was noted.  The queue
\* may lose what is older (obd_runtime_module.cpp:412).
LossIsKnown ==
    enabled /\ state \in {"DISCOVERING", "AT_INIT", "POLLING", "ERROR_BACKOFF"} /\ link = "down"
        => owed \/ LostNow

\* The adapter that a manual pairing remembers is the one that answered: a
\* candidate replaces the saved adapter only over a connection to it whose
\* loss has not been reported (obd_runtime_module.cpp:662).
SavedAnswered ==
    [][saved' \notin {saved, None} => peer = saved' /\ (IsConnected \/ owed)]_vars

\* The phone gets its proxy back: whatever makes the adapter hold it ends,
\* in a connection that polls or in none (obd_runtime_module.cpp:392).
ProxyIsReleased == HoldsProxy ~> ~HoldsProxy
=============================================================================
