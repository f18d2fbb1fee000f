# A verification of V1G2 Simple

This directory holds TLA+ specifications of V1G2 Simple, the ESP32-S3 firmware
that connects to a Valentine One Gen2 radar detector over BLE, shows and speaks
its alerts, sets its profiles, modes and volume, and offers it on to a phone.
The modules are translated from the source, component by component; TLC checks
them on small instances, and TLAPS proves the theorems in the `*_proofs` modules
for every value of the constants.

Paths in this file are relative to the root of the repository.

    tlc -config BleLink.cfg MCBleLink.tla        one run
    tlapm BleLink_proofs.tla                     the proofs of a module

| Module | Stands for | Runs | Proofs |
|---|---|---|---|
| `BleLink` | the V1 link: scan, connect, discover, subscribe, follow-up, backoff | `link_safety`, `link_progress` | `BleLink_proofs` |
| `BleProxy` | the proxy's advertising and its app | `ble_proxy` | `BleProxy_proofs` |
| `ObdRuntime` | the OBD adapter: state machine, transport task, pairing | `obd_runtime` | `ObdRuntime_proofs` |
| `AlertTable` | from V1 notifications to a table of alerts | `alert_table` | `Alerts_proofs` |
| `VoiceAlerts` | what is announced, and how often | `voice_alerts` | `Alerts_proofs` |
| `QuietVolume` | the two features that lower and restore the V1's volume | `quiet_safety`, `quiet_progress` | `V1Commands_proofs` |
| `AutoPush` | the executor that pushes a slot to the V1 | `push_executor` | `V1Commands_proofs` |
| `SettingsNvs` | the settings in flash | `durable_stores` | `DurableStores_proofs` |
| `FileStores` | the files of bonds, devices and profiles | `durable_stores` | `DurableStores_proofs` |
| `DurableValue` | what both promise (abstract), with `StoredValues` for its values | | |
| `SettingsBackup` | the settings' way to the card and back | `settings_backup` | `SettingsBackup_proofs` |
| `WifiLifecycle` | access point, station link, graceful and immediate stop | `wifi_lifecycle` | `WifiLifecycle_proofs` |

`MC*.tla` hold the definitions a configuration needs (sets, a symmetry set, a
state constraint) and nothing of the model; `MCDurableStores` puts two modules
that share nothing side by side.

A definition whose name ends in `_Something` after the name of another is a slip
in that code (a dropped guard, a swapped order): put in the place of the other,
it makes the property named for it in `PROJECT.json` fail.

## 1. The system

The firmware is one Arduino main loop, the callbacks of the NimBLE host task,
and a few short-lived or helper tasks. `docs/RUNTIME_OWNERSHIP.md` gives the
phases of the loop (`src/main_loop_phases.cpp`) and their order: connection
state and power, ingest (BLE process, queue drain, settings preparation), OBD
and speed, display (parsed frames, speed volume, fade, auto-push), Wi-Fi,
finalisation. What runs in one phase is sequential; the hard behaviour is in
what the loop shares with something else:

- with the NimBLE host task: the fields of the link state machine, the
  characteristic pointers, the notification queue, the event queues of proxy
  and OBD;
- with tasks: discovery, the OBD transport, the SD backup writer, audio;
- with the V1: commands may be lost (5 ms pacing, a full stack), a display
  frame may have been sent before the command just issued, and an alert table
  arrives row by row while it changes;
- with the flash and the card: power may go between any two writes;
- with the driver and the web interface, whose requests arrive in the middle
  of operations that take several passes of the loop.

### Components

| Component | State | Operations | What is hard | Correct when |
|---|---|---|---|---|
| V1 link (`ble_client`, `ble_connection`, `ble_runtime`, `ble_connected_followup`) | `bleState_`, in-progress and asynchronous flags, characteristic pointers, failure counter, deferred callback updates | `process()` per pass; host callbacks | callbacks between any two statements; late results; a discovery task that outlives its attempt | no flag or pointer outlives its attempt; CONNECTED is complete; every wait ends |
| BLE proxy (`ble_proxy`, `ble_runtime`) | client flag, three timers, latch, event queue | blocks of `process()`, host callbacks, OBD arbitration, Wi-Fi priority | six parties stop and resume one advertiser; events late or dropped | the flag agrees with the app; advertising returns; a scan gets the radio |
| OBD runtime (`modules/obd`) | connection state, pending operation, two queues of one, bounded event queue, pairing | `update()` per pass, the transport task, host callbacks, calls of web and touch | late results, dropped events, links that come up after a cancel | no request is lost or answered by another's answer; a lost link is known; the proxy is released |
| Frame queue and alert parser (`modules/ble`, `packet_parser*`) | notification queue, receive buffer, rows under assembly | `onNotify`, `process`, `parse`, resets | rows lost, halves of frames joined, the count changing between two rows | a table is of one picture; the screen catches up |
| Voice (`modules/voice`) | last announcement, list of announced, histories | `process()` per drawn table, `clearAllState()` | four kinds of announcement share one cooldown | nothing is said twice; the priority is named |
| Volume (`modules/speed_mute`, `modules/quiet`, `modules/volume_fade`) | each feature's saved volume, its restore in flight, deadlines | run in turn for every frame | two writers of one value neither reads directly | the driver's volume is in force or remembered, and comes back |
| Auto-push (`modules/auto_push`) | step, prepared slot, retry counters | four sources of requests, `process()` | requests and edits during a push, a busy V1, a lost link | a push is not changed, in order, on its connection, and ends |
| Settings (`settings*`) | RAM copy, two namespaces, meta entry, backup and previous file, writer task | save, load, migrate, deferred and direct backup, restore, import | power cut between any two keys; overtaking writers | a boot finds the last complete generation; the card follows |
| Profile, device, bond stores (`v1_profiles`, `v1_devices`, `storage_manager`) | JSON files with a temporary and a previous one | save, load, delete | a cut or an error between two renames | a complete old or new file is found |
| Wi-Fi (`wifi_manager_lifecycle`, `wifi_client`, `modules/wifi`) | setup state, stop phase, connect phase, timers | start, stop, blocks of `process()`, web requests | a stop over several passes overtaken by anything else | off means off; only credentials that worked are saved; stops and connects end |
| V1 commands, user-byte verification | last command time, expected bytes | one-packet writes | pacing | a failed command is reported as failed |
| ELM327 parser | none (pure) | parse | spacing, echoes | equals a reference |
| Web API | none | requests at any time | | (its effects are actions of other modules) |
| Speed source selection | two samples and their ages | select | freshness | stateless; `QuietVolume` takes any result |
| Main loop and power | phase order, shutdown | | saving in time | (stop and flush are in `WifiLifecycle`, `SettingsBackup`) |
| Touch and gestures | tap count | | | (its profile change is in `AutoPush`) |
| Display; time, history, metrics, logs | rendering; counters | | | no feedback into the other parts |

How they meet: the host task reports to link, proxy and OBD; the link's
follow-up asks for alert rows (`AlertTable`), starts the proxy's advertising
(`BleProxy`), requests a push (`AutoPush`) and a bond backup (`FileStores`); OBD
asks the proxy for the radio (`ObdRuntime`'s `HoldsProxy` is `BleProxy`'s
request); Wi-Fi priority silences both; the alert table feeds display, voice and
volume; the web interface calls everything.

`PROJECT.json` lists, line by line, the hazards this code is exposed to, with
the properties that would catch them going wrong; those without one say why.

## 2. The modules and the code

### BleLink

One pass of the loop is sliced by `pc` where the code reads or has done
something and has not yet acted on it:

| `pc` | Code |
|---|---|
| `flags` | the head of `process()`: the deferred callback updates (`ApplyDeferred`) |
| `follow` | `processConnectedFollowup()` (`FollowupStep`, `FollowupWaits`) |
| `switch` | the switch on `bleState_`, one action per branch (`StartScan` .. `CheckBackoff`) |
| `wait2` | CONNECTING_WAIT, between reading `asyncConnectSuccess_` and `asyncConnectPending_` |
| `step`, `store`, `again` | within a step of SUBSCRIBING: the timeout is checked and a pointer about to be followed; what it led to is about to be stored; a pointer is about to be followed once more (`executeSubscribeStep()`) |
| `commit` | SUBSCRIBING, between a step and what `processSubscribing()` stores after it |

The host task's callbacks are one action each and may run at any `pc`. They try
the mutex with timeout 0; when that fails, the callback leaves its update in
`pendingXxx_` flags. `Contended` names the callbacks to which this may happen; an
update left is a member of `deferred`. The controller's link is `down`,
`initiating`, `up` or `terminating` and follows NimBLE as the code uses it:
`disconnect()` does not cancel a pending connect, `stop()` on a scan gives no
`onScanEnd`, and a connect that fails reports nothing. Times are the timeouts
they pass: `age` is `now - connectStartMs_` in the bands of 3, 5, 8 and 11
seconds, or `Unset` for `connectStartMs_ = 0`, which makes the elapsed time the
whole uptime.

A subscribe step that finds null where it follows a pointer panics, and the
device boots again (`Panic`); the second look may come from a register, so a
null is not always met. History: `cut`, that `onDisconnect` cleared the pointers
within the present step; `late`, what such a step stored after that.

Left out: commands, which follow `pCommandChar_` between the slices (item 4), the
bonds (deletion on authentication errors, the backup file, which
is written only when the *number* of bonds has changed), the phone's commands,
the fresh-flash policy, and the WRITE_*_CCCD steps, which nothing enters.

### BleProxy

The host's side is the V1 link, the app's link, the advertiser and a bounded
queue of events that drops its oldest. `pc` names the next block of `process()`:
deferred disconnect, drained events, OBD arbitration, no-client timeout or deferred
start, the start itself once it has looked for an app, station throttle, and after them
the V1 connection's last subscribe step and the store of CONNECTED; the host runs
between any two. A link that came up too late for its attempt may stay up without
those two. A timer is set or not, and a set timer may have elapsed whenever it is
looked at; the station link is up or not in each pass. History: `stranded`,
`abandoned` and `slipped` mark the ways out described in section 3.

Left out: the queue of packets to the phone, the queue of its commands, the debug
API except `forceProxyAdvertising`.

### ObdRuntime

Actions for each state of `update()` (`Idle` .. `EcuIdle`), one for the
transport task taking a request and one for finishing it, the host's callbacks,
and the driver's calls (enable, scan, pair, forget). `request`, `executing` and
`result` are the queue of one, the task and the queue back; of a request's
number only is kept whether it is the pending one. Waits of some milliseconds
may be over at any pass. `Settled` assumes that the five-second waits outlast a
cancel or a termination the host has begun. What the loop passes in (V1
connected, proxy connected, boot ready) is chosen anew in every pass.

Left out: the values read, the settings sync, `SECURING`/`SANITY`, which
nothing enters, and `startScan()`, which nothing in production calls.

### AlertTable

The V1 sends the rows of its table one by one and over again, all-clear rows and
display frames, while the picture changes between any two. `Notify` is the queue
that drops its oldest entry; `ParseFrame` the loop. `LoseFrame` and `JoinFrames` are
what missing bytes do to frames: one is skipped by the resynchronisation, or
half of one is joined with half of the next, since no checksum is checked.
`ParseRow` is `parseAlertData()` as a whole: the requested reset, stale rows, the
index check, store, completeness per scheme (0-based or 1-based), publish.
`RecoverGap` is the request for rows when the screen shows bands without alerts.
A joined frame may have any number, count and content, and may read as the
all-clear. History: `old` marks a row that is kept where the rows should have been
cleared, `cleared` says, without a link, that they were and that none came after;
`damaged`, that what a loss left behind may still be there.

Left out: the fields of a row, the choice of the priority alert, junk filters,
and the byte stream itself.

### VoiceAlerts

`Process` is `VoiceModule::process()` for one drawn table: new priority, turned,
other count, secondary, growth, in this order, at most one; `ClearVoice` is
`clearAllState()`. A table may have its rows in any order, any strength, and the
direction and count may differ from those last said at any time. What a pass over
the rows may make of the histories is the set `Refreshed`: each row in turn gets
its history (`WithHistory`, the oldest recycled when all places are taken; which of
several as old is left open) and its sample, then the stale ones go. Whether a
change of direction is throttled is left open (three in ten seconds cannot be
reached under a cooldown of five). History: `spoken`, `grown` and `repeated`,
which notes that a rule against repetition failed; `screen`, the table that
stays for good. Names that `AlertTable` has too say `Voice`, so that one module can
hold the proofs of both.

Left out: clips, playback, the format of what is said, the first five seconds of
uptime, in which no cooldown has passed.

### QuietVolume

`DisplayOrchestrationModule` runs the features one after the other for every
parsed frame; `pc` follows it. The V1 is its main volume `v1Volume`; the firmware
sees `mainVolume`, that of the last frame, which may have been sent before the
last command or before the driver turned the knob. Commands of the kinds in `Lossy`
may be lost. `Frame` may bring any alert. Times count ticks. History: `userVolume`, the
volume last asked for by knob or slot; `unshown`, that no frame has shown it yet;
`overtaken`, that a feature nevertheless took its baseline then; and `givenUp`, that a
restore was abandoned before a frame showed it.

Left out: the mute volume (it travels with the main one), the mute command of a
tap, switching the fade off during a fade (the V1 then stays at the fade volume,
`volume_fade_module.cpp:57`), a knob turned or a slot pushed while a feature holds
the volume (its restore then puts the old one back, `auto_push_module.cpp:285`), and
what display and voice are told.

### AutoPush

Every request (`OnV1Connected`, `CycleProfile`, `PushActiveSlot`, `PushNow`) and
every step of `AutoPushModule::process()` is an action. The settings a push
reads may be edited between any two steps. Any command may find the V1 busy. The
waits of 30 and 100 ms between steps are stutters. History: `link`, a number
(modulo 2) for the connection; `armedLink`, the connection a push was queued in;
`sent`; `failed`.

### DurableValue, SettingsNvs, FileStores

`DurableValue` is the promise of every store: what the next boot reads is the
value of before or the one of the call in progress, whole; after a call that was
answered with success, that one. A `leaky` store may keep what remains of that value
(`Incomplete`) instead, and be answered with success all the same.

`SettingsNvs` refines it (`StoresDurably`): the keys are one value or what remains of
one, a namespace has a stage (empty, partial, with a marker but short of keys that
count, with an older marker, full), `step` is where a save is, `Reboot` is power loss
and `load()` with recovery by the meta entry or by score and the migration from the
legacy namespace. A device is exposed to at most one kind of fault: the meta entry
cannot be written, a clear can be torn, or the puts of some keys fail (`putsFail`),
which no save looks at: the store is leaky then.

`FileStores` refines it (`FilesDurable`): three writers of a file through a
temporary one, which differ in what they check and in whether the replaced file
stays. Every operation may fail and power may go between any two.

### SettingsBackup

Settings are the set of edits they hold, the flash is one durable value (which
`SettingsNvs` justifies). A setter saves at once and writes the backup itself, or
asks for it later; `ServiceDeferredBackup` hands a copy to the writer task through
a queue of one; both write under the card's mutex in five steps (`WriteSteps`), each
of which may fail. After `PowerLoss` a boot goes through `Import`, `Restore` or `Heal`,
`Refresh` and `Validate` (`main` names where it is) before the loop runs. `Refresh`
compares with the backup as it was read before the healing (`found`). The boot's own
changes are edits of core fields; `unasked` has the one that `Validate` saves without
a backup.

### WifiLifecycle

`pc` names the next block of `WiFiManager::process()`; web requests are served by
one of them. The driver is `mode`, `station` and `target`: it reports only what
`WiFi.status()` says, and drops an association when a new one is begun;
`WiFi.begin()` turns the station side on and leaves the AP as it is. A network
stands for an SSID and its password. Memory may be short at any pass, a timer
that runs may have elapsed. History: `cancelled`, that a low-memory drop cancelled
a connect that had not begun.

Left out: the scan, the rate limiter, pages and time synchronisation.

## 3. The runs

| Run | Checks | Shows |
|---|---|---|
| `link_safety` | `InProgressOwned`, `ConnectedIsComplete`, `StepsHaveHandles`, `NoDanglingHandles` | under every interleaving of the callbacks, three of them possibly deferred, the in-progress flag is never orphaned, CONNECTED over a live link is complete, no step but one interrupted by the loss itself lacks its pointer, and no pointer but one such a step stored survives into the next link |
| `link_progress` | `PhasesEnd`, `FollowupCompletes` | every phase with a wait of its own ends, and a connection that lasts is followed up to the end |
| `ble_proxy` | `TypeOK`, `FlagFollowsApp`, `AdvertisingReturns`, `RadioIsYielded` | the loop knows whether an app is there, silence without a reason ends, a preempting scan gets the radio |
| `obd_runtime` | `RequestIsCarried`, `AnswerIsTaken`, `LossIsKnown`, `SavedAnswered`, `ProxyIsReleased` | no request is lost between loop and task, no answer blocks a state, a lost link is known, only an adapter that answered is remembered, what holds the phone's proxy ends |
| `alert_table` | `NoOldRows`, `WholeTable`, `TableFollows` | no row outlives a loss of the link that the loop notices with nothing queued, undamaged tables are of one picture, the table follows the V1 in the end |
| `voice_alerts` | `SaidOnce`, `PriorityIsNamed` | an alert is named once as a secondary one, growth is said once, and a priority alert that stays is named although everything else restarts its cooldown |
| `quiet_safety` | `VolumeTypeOK`, `BaselineKept`, `RestoreOnlyWhenDue` | the driver's volume is in force or remembered unless a restore was given up or the feature began before a frame showed that volume (25), and the fade raises the volume only for the reasons in the manual |
| `quiet_progress` | `VolumeReturns` | when alerts and speed mute are over for good, the V1 comes back to the driver's volume, with the same exceptions |
| `push_executor` | `SentInOrder`, `NotClobbered`, `StaysInConnection`, `PushNowComplete`, `PushEnds` | requests and edits do not change a push in flight, commands go out in order, at most once and on their own connection, a push-now is complete or counted as failed, every push ends |
| `durable_stores` | `SurvivesMetaLoss`, `StoresDurably`, `FilesDurable` | flash and files each implement `DurableValue`, the flash a leaky one where puts fail; on a flash without faults settings also survive the loss of the meta entry |
| `settings_backup` | `SomeBackupLoads`, `CardIsCurrent`, `RestoredWhenEmpty`, `RequestReachesCard` | some backup always loads, it is current when all is quiet but for references the boot cleared (32), an erased flash gets it back, a request reaches the card |
| `wifi_lifecycle` | `RadioMatches`, `SavedWorked`, `StopEnds`, `ConnectEnds` | the radio is what the service believes, only credentials that worked are saved, every stop and every attempt ends |

Every module has a type invariant. A theorem states it for all of them, so most runs
leave it out.

### Bounds, and why they suffice

*BleLink.* `link_safety` has two initiations in one attempt (`MAX_CONNECT_ATTEMPTS`
is 5) and a hard-reset threshold of 2 (`V1_BLE_MAX_BACKOFF_FAILURES` is 5): the
code only asks whether a counter is below its limit, so a limit of 2 has a first
failure, a repeated one and the one that reaches it. There is memory for two
discovery tasks (enough for the result of an old one to be taken for a new
one's) and one OBD scan. The two optional long characteristics are there in
`link_safety`, for all paths through the steps, and not in `link_progress`. The number of links in a run is unbounded. "connect",
"disconnect" and "scanEnd" are contended. `link_progress` keeps only the deferred
disconnect, the one that can take a running phase's state away, and adds a
second V1 in range.

*BleProxy.* One app (the stack would take more, item 11); a queue of two events (16
in the code), so that it overflows. Links, requests and Wi-Fi changes are unbounded.

*ObdRuntime.* One adapter, a queue of two events, two direct failures, one error
before each limit, one init command of each kind: counters are compared with a
limit only. With two adapters the safety properties hold as well (1.1 million
states under symmetry); the liveness run keeps to one.

*AlertTable.* Tables of up to two alerts, pictures numbered modulo 2, a queue of
one: a count that goes up and down, a row missing at either end, and an overflow
all occur. The larger instances with both index bases and two ticks of assembly
(1.0 million states) and with a queue of two (1.6 million) satisfy the safety
properties as well.

*VoiceAlerts.* Two radar alerts, room for one in the list of those announced and
two in the histories, a cooldown of two ticks and the others of one: the
code's order of the times (count 2 s, gaps 1 and 1.5 s, growth 0.5 s, cooldown and
staleness 5 s) as far as the properties tell them apart. With room for two in the list
the run passes as well. Two histories always hold both alerts; with room for one
(checked as well) they are recycled, and with both in one table nothing is claimed of
growth, so what recycling does beside alerts that stay is the theorem's. Lasers and filtered bands are in the module and
empty in the run: a laser has no history, a filtered alert only takes others away.

*QuietVolume.* Volumes 0, 1 and 3: zero (which reads as muted), the fade volume
and a volume above both. Two frequencies and room for one seen one: a list at
its limit, a new frequency and one that does not fit all occur. The windows are
one tick: an age is below, at or beyond its window. The runs stop where a
restore is given up or a turn of the knob overtaken (`NothingLost`), since what follows
has lost its baseline already; that the next turn mends an overtaken one is part of the
theorems. In `quiet_progress` the speed mute debounces nothing and the carried baselines
have no window.

*AutoPush.* Two slots, one profile besides "none", three slot configurations
(nothing set, half the volume set, everything set), one write and two command
retries. Connections are unbounded, numbered modulo 2, which tells one from the
one before and the one after.

*Stores.* Three values, so that old, present and new differ; all faults. The
number of calls and boots is unbounded. In `MCDurableStores` one store moves in a
behaviour: they share nothing.

*SettingsBackup.* Three edits and two losses of power: a backup, one that overtakes
it, and one after a boot, some of which the boot itself may use up in healing and
clearing; the proofs have no bound.

*WifiLifecycle.* Two networks (the old and the new), two reconnect failures (5 in
the code), three requests in a behaviour: one to start or stop, one to change the
credentials, one to cross them. Shortages, losses and automatic starts are unbounded.

### Fairness

*BleLink*: weak fairness of the loop and the clock, of the host reporting the
end of every scan, connect and termination, and of a discovery task ending.
Strong fairness for waits measured by the clock that the loop polls (settle,
yield, burst): the loop passes them any number of times but time does not stop.
Wi-Fi priority is eventually released while not connected. Nothing is assumed
that makes a V1 appear, a connection succeed or a link fail.

*BleProxy*: weak fairness of the blocks and of the end of a termination the stack
has accepted; strong fairness that timers elapse (deferred start, retry), that a
follow-up that is armed reaches the proxy's step, and that the deferred disconnect gets
the mutex. Nothing makes a subscription complete, which is what arms it.

*ObdRuntime*: weak fairness of every waiting state's step, of the task and of
receiving its result: the loop calls `update()` in every pass, and each blocking
BLE call has a timeout. Nothing makes an adapter answer. For two states passes of
the loop are not enough, and fairness assumes what they wait for. `WaitBootEnds`: the
boot gate opens, no app is connected to the proxy, and a V1 has arrived and settled or
ten seconds have gone (`obd_runtime_module.cpp:1628-1646`). `IdleScan`, of a wanted scan: the
scanner becomes free and takes the scan, and for a manual one the proxy has fallen
silent (1617-1624), which is `BleProxy`'s part. `ProxyIsReleased` says nothing of a
device where that never comes, such as one whose app stays connected in WAIT_BOOT.

*AlertTable*: weak fairness of the loop, which does not join every frame it takes
(it may lose or parse them); strong fairness of the request after a gap (its 50 ms
pass), and of the V1's rows and display frames, which it sends over and over. The
queue is drained faster than a link comes back.

*VoiceAlerts*: weak fairness of the clock, and of frames once the picture stays.

*QuietVolume*: weak fairness of the loop, the ticks and the frames; strong
fairness that a frame eventually shows the V1's present volume, that a preview
does not keep the fade from running for ever, and that the 75 ms between two
restores pass.

*AutoPush*: weak fairness of `process()`, which the loop calls in every pass.

*SettingsBackup*: weak fairness of the boot's steps and of the task receiving;
strong fairness of the service, of getting the card's mutex, and of each step of
a write succeeding: a card that never works again keeps no promise.

*WifiLifecycle*: weak fairness of the blocks and of the stop's phases (the loop is
not overloaded for ever); strong fairness of the staged connect and the status
check, which a cadence may skip.

### Where the code's promises end

The following are consequences of the code that no run claims. Each was met
as a trace of one of the models or in the code the models translate.

*V1 link.*

1. With "scanTarget" among `Contended`, `InProgressOwned` fails. A scan result
   that could not take the mutex is applied in a later pass, also during
   CONNECTING; the state goes to SCAN_STOPPING with `connectInProgress_` set,
   and Guard 1 of `connectToServer()` refuses (`src/ble_runtime.cpp:104-125`,
   `src/ble_connection.cpp:201`).
2. `PhasesEnd` does not claim CONNECTING. When connect and disconnect both come
   between the read of `asyncConnectSuccess_` and the store of CONNECTING, that
   flag stays set and `connectStartMs_` is 0; the five-second check
   (`src/ble_runtime.cpp:427`) wants a start time.
3. With a second V1 in range, a deferred disconnect of the last link is applied
   to the attempt that has begun since. The attempt is lost; the machine is not.
4. A subscribe step checks the timeout once and then follows pointers without a test
   (`ble_connection.cpp:536`, `:612-676`). When `onDisconnect` clears them on the host
   task after the check, the step follows null, at any uptime: `StepsHaveHandles`
   leaves that step out (`cut`). It may also store its pointer after the clearing;
   that one survives into the next `connect()`, which deletes what it points to
   (`late`), and a command sent before the next attempt's own step has replaced
   `pCommandChar_` would follow it (`ble_commands.cpp:33`, `:52`; that test and use
   are not atomic either). In the first 11 seconds `connectStartMs_ = 0` makes no
   timeout pass, and later steps may run on cleared pointers too: the property is
   stated for an uptime beyond that.
5. The OBD client replaces the callbacks of the scanner both share
   (`obd_ble_client.cpp:209`) and nobody restores them: the V1's next scan ends
   unheard. `PhasesEnd` does not claim SCANNING.
6. A link lost between the last subscribe step and the store of CONNECTED leaves
   its follow-up armed (`ble_connection.cpp:568`; in `BleProxy` too, where it may start
   the advertising of a later link); the stable callback then runs in a later attempt, although `ble_client.h:137` has it run once connected.
7. `finishConnection()` clears the flag that guards against a second discovery task
   while the first is alive (`ble_connection.cpp:357`, `:476`).
8. A connection that comes up after its attempt timed out is neither used nor
   closed (`ble_connection.cpp:384`). It is never subscribed, so no follow-up is armed
   and the proxy stays silent as long as it lasts: `AdvertisingReturns` is about links
   whose subscription has completed (`subscribed`).

*Proxy.*

9. An app that stays connected over a V1 drop is not served after it: the V1's
   disconnect clears the flag and nothing sets it again (`stranded`;
   `ble_proxy.cpp:170`, `:472`; `docs/MANUAL.md:655`).
10. The loss of the station link during a pause between two windows clears the
    retry (`ble_runtime.cpp:297-300`): advertising is given up (`abandoned`), as it
    is when the stack refuses to start (`ble_proxy.cpp:481`), which is not retried.
11. The app is asked to leave once, and the result is ignored
    (`ble_runtime.cpp:180-194`): `RadioIsYielded` leaves out the refusal. An app that
    connects after a start has counted the connections and before it looks at the
    advertiser (`ble_proxy.cpp:472`, `:480`) has the proxy advertise although it has an
    app (`slipped`); a second app could connect then. `RadioIsYielded` leaves that out too.
12. `setProxyClientConnected(false)` has no caller, so the branch at `main.cpp:965`
    does not run; a pending phone command survives a spontaneous disconnect; the
    queue to the phone keeps stale packets.

*OBD.*

13. The disconnect the machine itself asked for is reported to the next CONNECTING
    and counts as its failure. A connect given up to IDLE is not disconnected when
    it comes up late, after which pairing is refused.
14. If a cancelled connection comes up, or the task carries out a connect after
    its call was cancelled, `SavedAnswered` fails (`LateLink`, `LateRequest` in
    `MCObdRuntime`): the waits of five seconds are what keeps them out.
15. DISCOVERING and a command being written have no time limit of their own; they
    end because the task's calls do. ERROR_BACKOFF does not look at a lost link; the
    backoff counter is not reset by the probe of an idle ECU; the overflow count never is.

*Alert table.*

16. After one lost row the assembly may be out of phase for as long as the number
    of alerts stays: each change publishes a table mixed of two pictures, although
    `packet_parser_alerts.cpp:467` says "assembled from fresh rows". `WholeTable` is
    claimed for undamaged tables, `TableFollows` for pictures that stay.
17. The table is not cleared on a disconnect and the gap recovery wants an empty
    one: if the one request after a reconnect is lost, the old table stays
    (`LostOverTable` in `MCAlertTable` makes `TableFollows` fail).
18. Rows of two connections are kept apart by their age alone when the connection
    state is not looked at in between, and also when it is but rows of the lost link
    are still queued: they are parsed after the clearing. Row 2 of 2 is queued, the
    link goes and the loss is noticed, the row is parsed, the link returns, the new
    V1 sends row 1 of 2: if all that takes less than 1.5 s the table has a row of each
    link. `NoOldRows` excepts both cases.

*Voice.*

19. When the list of announced alerts is full (10), a further secondary alert is
    named in every frame, and each time the cooldown starts again that a new
    priority waits for: `PriorityIsNamed` excepts `ListFull`, and fails without it.
20. Two secondary alerts have no gap between them, although `docs/MANUAL.md` (Secondary
    Alert Announcements) has 1.5 seconds "since last voice alert"; what is asked for
    while another announcement plays is dropped and stays marked as said
    (`audio_voice.cpp:137`). The all-clear resets the cooldown, so an alert that
    flickers may be asked for during its own announcement.
21. Growth ignores the band filter. A priority alert that is filtered, or was heard
    before under "first alert only", ends the pass and with it all secondary
    announcements. "Sustained for 500 ms" counts time without samples. The "permanent"
    memory of a weak signal ends after five seconds without an update.
22. `audio_voice.cpp` clears its busy flag before the playback task is gone, so a new
    one may be created on the same static stack. Not modelled.

*Volume.*

23. With "restore" among `Lossy`, `BaselineKept` fails: the restore for a new
    frequency is sent once (`volume_fade_module.cpp:187`).
24. Volume 0 is parsed as muted (`packet_parser.cpp:266`): with fade volume 0 the
    fade takes its own drop for the driver's mute and restores in the middle of the
    alert, which is none of the manual's reasons (`docs/MANUAL.md:1031-1037`).
25. A drop that overtakes an unconfirmed restore saves the lowered volume as the
    original (`quiet_coordinator_templates.h:53-55`); the restore's memory then
    still has the right one, which `BaselineKept` counts. A drop or an alert session
    that begins before any frame shows a turned knob or a pushed slot saves the volume
    before it as the original (`quiet_coordinator_templates.h:55`,
    `volume_fade_module.cpp:233`) and later puts that back: the driver's choice is lost
    without a restore being given up. All three properties except this case
    (`overtaken`), until the driver sets a volume again.
26. Baselines carried from one session to the next (`volume_fade_module.cpp:219-231`)
    never took effect in the checked instances: a frame ends them first.

*Auto-push.*

27. A triple tap during a push changes the active slot, is refused, and is never
    pushed (`tap_gesture_module.cpp:91`; `docs/MANUAL.md:1556`).
28. The steps of a push are 30 ms apart where the manual says 100, and a slot with
    only one half of the volume configured counts as pushed though nothing is sent.

*Stores.*

29. An active namespace rewritten in place and interrupted while it is cleared is
    lost: that takes a meta entry that cannot be written and a torn clear together.
    When the meta entry is lost, A wins ties, and the legacy namespace wins them both.
    The results of about 150 puts are only added up (`settings_nvs.cpp:322-468`): a put
    that fails before a marker that is written leaves a namespace that lacks a key, is
    active and was answered with success, and a boot takes the default of the key.
    `StoresDurably` says that much of a flash that refuses puts and no more; on such a
    flash `SurvivesMetaLoss` says nothing, as a namespace that lacks the keys which
    count scores below a legacy one (`settings_nvs.cpp:226-242`). Two namespaces that
    both lack keys tie in the model. The result of `clear()` is not looked at either
    (`settings_nvs.cpp:321`); a clear that fails without losing power is not modelled:
    with a failed put it would leave keys of two saves.
30. `deleteProfile` removes the file before its older copy: interrupted, an older
    content comes back. The device list does not check how much was written
    (`v1_devices.cpp:189`); on a full card it promotes a truncated file, and the
    theorem excludes it (`ShortWritesAreSeen`).
31. The backup's previous file is removed before each write (`settings_backup.cpp:54`):
    two interrupted writes in a row lose both. `SomeBackupLoads` says so.
32. An older copy in the writer's queue may be written over a newer direct backup
    (exposure "overtaking"). A direct backup that fails is not retried. The boot's check
    compares the core fields only. After that check `validateProfileReferences()` clears
    the slots' names of profiles that do not load and saves, with no backup made or
    asked for (`main_setup_helpers.cpp:182`, `settings_restore.cpp:775`): flash and card
    differ until the next write or boot (`unasked`), and a restored name is cleared when
    its profile is missing. A restore may fail for lack of memory where the
    backup that follows succeeds with defaults (exposure "restoreFails"); an import
    file found by an empty flash goes before the backup (exposure "importAfterWipe",
    `main_setup_helpers.cpp:161`, `docs/MANUAL.md:1175`).

*Wi-Fi.*

33. The low-memory drop of the AP cancels a staged connect with no start time: it
    stays CONNECTING until the service shuts down (`cancelled`;
    `wifi_manager_lifecycle.cpp:746`, `wifi_client.cpp:246`).
34. After the AP has been dropped, a reconnect, a disable or a forget turns its radio
    back on while the service believes it off: `RadioMatches` claims the AP in one
    direction only. A power-off during a stop skips the rest of it
    (`main_setup_helpers.cpp:81`). Reconnects end after five failures until the next
    start or toggle.

## 4. The proofs

All theorems are of the form `Spec => []P`, `Spec => [][A]_vars`, or say that
`Spec` implements another specification; they hold for every value of the constants
under the assumptions the modules name. Where one needs more, the hypothesis is a
named definition, and section 3 has the behaviour that breaks the property without it.

`BleLink_proofs`

- `TypeCorrect`: `TypeOK`. Not inductive alone: the attempt counter is raised in
  CONNECTING without a test, so `TypeInv` adds `AttemptsLeft`, that CONNECTING is
  only entered with attempts left.
- `AttemptIsOwned`: `InProgressOwned`, assuming `NoLateTarget` (no deferred scan
  target, see 1 above). The inductive `OwnedInv` adds that only contended
  callbacks leave updates (`OnlyContended`) and that the scanner is off in an
  attempt (`ScanOffInAttempt`), without which a scan result could move the state
  out of an attempt with the flag set.
- `NothingIsMissing`: `ConnectedIsComplete`, with no hypothesis. `BuiltUp` says which
  handles discovery and each subscribe step have set, over a link that is up.
- `NoNullHandle`: `StepsHaveHandles`, at both looks of a step, unless it is the one
  `onDisconnect` interrupts. `Kept` says that the pointers are there, whatever the link
  does, as long as the attempt has its start time: what clears the pointers clears that
  too, and a step that has begun with it loses it only when it is cut. `StepBuilds` has
  what the parts of a step leave to the next.
- `NothingDangles`: `NoDanglingHandles`, assuming `Undisturbed`: the uptime is beyond the
  timeouts, and no second V1 advertises or `onDisconnect` always gets the mutex.
  `GoneIsKnown` says that the machine has, or has waiting, the loss of every link that
  is gone; `CleanTarget` that it holds no handle when an attempt begins, but those a
  step stored `late`, which the property leaves out.

`V1Commands_proofs`, for `AutoPush`

- `TypeCorrect`: `TypeOK`, the retry counters within their limits included.
- `RequestsDoNotClobber`: `NotClobbered`, from the guards of the requests.
- `PushesStayInConnection`: `StaysInConnection`. `LinkInv` says that an active
  push on a live link was queued on that link, and that none is active once the
  loop has seen the link down; the next connection only comes up after such a
  pass, because establishing it takes the loop itself, so no push survives into it.
- `CommandsInOrder`: `SentInOrder`. `OrderInv` adds `SentBefore`, that what has
  been sent lies before the present step, and the type of the history.
- `PushNowSendsAll`: `PushNowComplete`. `NowInv` says that for a push-now the
  commands due before the present step are all in `sent`.

and for `QuietVolume`, whose names say `Volume` so that one module can hold both

- `VolumeTypeCorrect`: `VolumeTypeOK`.
- `BaselineIsKept`: `BaselineKept`, assuming `RestoresArrive` (no lost restore, 23 above).
  Two features each take what they find for the driver's choice, so `MemoryInv` says
  what they can find: unless a restore is given up or a turn overtaken, a turn no frame
  has shown is in force and nothing is held (`Turned`), or the fade remembers the driver's
  volume or nothing (`FadeMemory`); the speed mute that too, or the fade volume if the
  fade has the driver's (`SpeedMemory`); a hint that is not the driver's volume is in a
  frame before the fade looks for a baseline (`HintMemory`); and without the speed mute
  the V1 is at the driver's volume, or at the fade volume while the fade holds it
  (`InForce`). `Sessions`, that the flags agree with the baselines, holds throughout and
  lets the next turn start afresh.
- `FadeRestoresWhenDue`: `RestoreOnlyWhenDue`, an action property, from the same
  invariant, assuming `FadeIsAudible` as well (a fade volume of 0 reads as muted, 24).

`BleProxy_proofs`

- `TypeCorrect`: `TypeOK`. `Linked` says what its flags have to do with one another:
  a start that is under way knows of no app but one that has slipped in, so only then
  the proxy advertises with an app connected; and an owed clean-up belongs to a V1
  link that is down, so what the loop takes for ended is ended.
- `LoopKnowsTheApp`: `FlagFollowsApp`, for a queue of any depth that drops its
  oldest entry. `Newest` says that the newest event about the app tells its link's
  present state, or, without one, the flag does: dropping the oldest cannot
  break it, dropping the newest would.

`ObdRuntime_proofs`, for any set of adapters, any limits, a queue of any depth and any
choice of the races

- `InvHolds`: the invariant `Inv`. `TypeOK` is not inductive alone: an error counter
  would leave its range but for `PollBound`, that POLLING has not reached the last.
- `NoRequestIsLost`: `RequestIsCarried`. `OneAtATime` says what is where, also while
  the slots still hold what the machine has turned away from (`Current` tells them
  apart): the task may finish such a request, but nothing new is awaited beside it.
- `NoAnswerIsStranded`: `AnswerIsTaken`. Not inductive: `AnswerFits` adds ERROR_BACKOFF,
  which takes no answer and passes what it has on to POLLING.
- `NoLossIsMissed`: `LossIsKnown`. The queue drops its oldest entry, and the loss must not
  be that one: notifications end with the link, and `ScanMatches` says that a scan, which
  could fill the queue too, runs only where nobody believes in a link.
- `OnlyAnsweringIsSaved`: `SavedAnswered`, assuming `Races = {}` (section 3 has what
  each race does). `PairInv` says that a pairing which seeks has no connection and that
  every connect under way, in a slot or in the task, goes to its candidate.

`Alerts_proofs`, for `AlertTable`

- `TypeCorrect`: `TypeOK`, for any table size, queue depth and ages.
- `NoOldRowIsShown`: `NoOldRows`, with its two exceptions (section 3, 18). `ClearInv`
  adds `NoneIsOld`: no kept row is old, and where the rows were cleared nothing is kept
  that a link coming up could make old.
- `TablesAreWhole`: `WholeTable`, an action property. Rows have no mark of their
  table, so `InOrder` says that until a frame is lost or damaged there is a last frame
  parsed from which what is kept follows (`Gathered`), that the queue goes on from it
  frame by frame (`Follows`) and ends where the V1 is (`Reached`). Hence the last row of
  a count meets exactly the rows of its own table.

and for `VoiceAlerts`, whose names say `Voice` where `AlertTable` has them

- `VoiceTypeCorrect`: `VoiceTypeOK`, with it that the list of announced alerts and
  the histories never outgrow their arrays, also where one history is recycled for
  another.
- `NothingIsSaidTwice`: `SaidOnce`, with no hypothesis. `NamesKept` says that the list
  has all that was named as long as that is no more than it has room for; `GrowthKept`
  that an alert whose growth was said, and that has stayed, has a history that says so.
  The second needs to know what a pass over any table makes of the histories:
  `RowsDone`, by induction over the rows. The library's induction theorems take an
  operator and cannot be used here, so `AllNumbers` gets the principle from the least
  element of a set of numbers, and `PassExists` that the recursion over the rows has a
  solution.

`DurableStores_proofs`, for `SettingsNvs`

- `TypeCorrect`: `TypeOK`.
- `SettingsAreDurable`: the namespaces implement `DurableValue` under each of the
  faults, a leaky one where puts fail. `NInv` has `MarkersHold` (what has a marker is
  settings), `OneIsThere`, `LegacyKept` and, for each step of a save, by what a boot
  would decide (`InCall`: by the meta entry, by score, or by neither) and what the
  puts have left (`KeysWritten`).
- `SettingsOutliveMeta`: `SurvivesMetaLoss`, for a device without faults. `CopiesKnown` says
  that every namespace with a marker holds what is loaded, or what the last save that
  was interrupted had or tried; and that a save which has written its copy has no third.

and for `FileStores`

- `FilesInvHolds`: the invariant `FInv`: live and previous file are whole (`Whole`), the
  temporary one has the value of the call from its check on (`Written`), and
  where a call stands says which files are there (`Renames`).
- `FilesAreDurable`: the files implement `DurableValue`, assuming
  `ShortWritesAreSeen` (30 above). The mapping: `durable` is what a load would
  return, `busy`, `pending` and `answer` those of the call.

`SettingsBackup_proofs`

- `TypeCorrect`: `TypeOK`.
- `ABackupIsThere`: `SomeBackupLoads`. `FilesInStep` gives the two files at each step
  of a write, `Covered` what unfinished writes have used up.
- `BackupIsRestored`: `RestoredWhenEmpty`, assuming `RestoreAllowed` (no failing
  restore, no import, see 32). `BootIsAlone` says that nobody writes during a boot's
  steps, `OwedIsThere` that the backup it will restore is still the one it found.
- `BackupIsCurrent`: `CardIsCurrent`, assuming `NoOvertaking` (no direct save while the
  task has an older copy, no import into an empty flash; 32 has both). `Current` has `Covers`, that what is in flash is in the newest
  copy there is, in the queue, with the task or on the card, or asked for anew;
  `FilesAreOnCard`, which file that copy is in at each step of a write; and
  `BootKnowsTheCard`, what the boot's comparison leaves on the card before references
  are cleared.

`WifiLifecycle_proofs`, for any networks and any number of requests

- `InvHolds`: the invariant `Inv`.
- `RadioFollowsService`: `RadioMatches`. A stop takes things down in phases over several
  passes, between which requests are served, so `StopProgress` says what each phase
  has taken down for good and `PassMatches` which block of a pass may run beside it;
  `LinkIsTarget` and `TimedIsPending` say that a link needs the station side and is to
  the network that was asked for.
- `OnlyJoinedIsSaved`: `SavedWorked`, an action property, from the same invariant.

Each invariant was first checked by TLC on the run's instance. The modules that are
proved about hold no recursive operators.

**Only model-checked.** Liveness under fairness (`PhasesEnd`, `FollowupCompletes`,
`VolumeReturns`, `PushEnds`, `AdvertisingReturns`, `RadioIsYielded`, `ProxyIsReleased`,
`TableFollows`, `PriorityIsNamed`, `RequestReachesCard`, `StopEnds`, `ConnectEnds`), which
the prover does not handle, as it does not `ENABLED`. Every safety invariant and every
action property of the runs is stated by a theorem; `SavedAnswered`, `NoDanglingHandles`,
`InProgressOwned`, `BaselineKept`, `RestoreOnlyWhenDue`, `RestoredWhenEmpty`,
`CardIsCurrent` and `FilesDurable` under the hypotheses named above, without which they
do not hold.

## 5. Plan

**Done**: the modules above, their runs and theorems.

Proofs: the hypotheses of section 4 made weaker where section 3 allows it: which of the
`Races` each part of `SavedAnswered` needs to be absent.

Models: `AutoPush` with `QuietVolume` (a slot's volume pushed while a feature holds it),
`ObdRuntime` with `BleProxy` (each is checked with the other's request at any moment,
which is more than the two do together), the phone's command queue.

### Not modelled

- *V1 commands, user-byte verification*: one-packet writes; that they may fail is in
  `QuietVolume` and `AutoPush`; the verification is only logged.
- *Phone commands and data queues of the proxy*: they change nothing the advertising
  depends on; the packets' order is a ring buffer's.
- *ELM327 parser*: a pure function of text.
- *Frame bytes*: `AlertTable` has frames lost and joined, not the scan for delimiters.
- *Web API, touch, speed source, power*: their effects are actions of the modules.
- *Display, audio playback, time, history, metrics, logs*: rendering, clips and
  counters that feed nothing back. The larger files of the tree are of this kind:
  audio tables, fonts, drawing code, metrics.
