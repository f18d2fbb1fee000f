--------------------------- MODULE BleLink_proofs ---------------------------
(***************************************************************************)
(* What holds of BleLink for every number of connection attempts, every    *)
(* reset threshold, any number of discovery tasks and OBD scans, within or *)
(* after the first seconds of uptime, and with or without other V1s about. *)
(*                                                                         *)
(* InProgressOwned is not inductive: nothing in it says that the V1 scan,  *)
(* whose result moves the machine to SCAN_STOPPING, is off during an       *)
(* attempt, nor that no target waits for the main loop to apply it in the  *)
(* middle of one.  TypeOK is not either: the attempt counter stays within  *)
(* its limit because CONNECTING is only entered below it.                  *)
(*                                                                         *)
(* That a connection is complete when it is announced needs what the       *)
(* sequence of discovery and subscription has built up at each of its      *)
(* steps (BuiltUp, Kept), over a link that may fail at any point of them.  *)
(* That a step finds its pointers holds but for one that onDisconnect      *)
(* clears them from (cut); that no pointer outlives its client, but for    *)
(* what such a step then stores (late).  The latter needs that the machine *)
(* knows of every link that is gone (GoneIsKnown) and that an attempt      *)
(* begins clean (CleanTarget); a wrong uptime, or another V1 that answers  *)
(* a scan while the clean-up of the last link waits, breaks both.          *)
(***************************************************************************)
EXTENDS BleLink, TLAPS

\* A callback is deferred only where it may find the mutex taken.
OnlyContended == deferred \subseteq Contended

\* The scan for the V1 is off during an attempt.
ScanOffInAttempt == connectInProgress => ~(scanning /\ scanOwner = "v1")

\* An attempt is entered only while one is left.
AttemptsLeft == bleState = "CONNECTING" => connectAttemptNumber < MaxConnectAttempts

\* onResult always finds the mutex free.
NoLateTarget == "scanTarget" \notin Contended

TypeInv == TypeOK /\ AttemptsLeft

OwnedInv == TypeFlags /\ OnlyContended /\ InProgressOwned /\ ScanOffInAttempt

---------------------------------------------------------------------------
(* The initial states *)

\* The type invariant holds at boot,
LEMMA InitTypeInv == Init => TypeInv
  <1> SUFFICES ASSUME Init PROVE TypeInv
    OBVIOUS
  <1>1. TypeFlags
    BY Zenon DEF Init, TypeFlags
  <1>2. TypeValues
    BY DEF Init, TypeValues, BleStates, FollowupSteps, SubscribeSteps
  <1>3. TypeCounters
    BY AttemptsAssumption, ThresholdAssumption, TasksAssumption, ObdScansAssumption
       DEF Init, TypeCounters, Unset, SubscribeTimeout
  <1>4. AttemptsLeft
    BY DEF Init, AttemptsLeft
  <1> QED
    BY <1>1, <1>2, <1>3, <1>4 DEF TypeInv, TypeOK

\* and so does the ownership of an attempt.
LEMMA InitOwnedInv == Init => OwnedInv
  BY InitTypeInv DEF Init, OwnedInv, TypeInv, TypeOK, OnlyContended, InProgressOwned,
                     ScanOffInAttempt

---------------------------------------------------------------------------
(* The steps, one part of the invariants at a time *)

\* The flags stay Boolean.
LEMMA FlagsStep == ASSUME TypeFlags, [Next]_vars PROVE TypeFlags'
  <1> USE DEF TypeFlags
  <1> USE DEF history, switchLeaves, stepKeeps, StoreFound, InStep
  <1>1. CASE HostResult
    BY <1>1, ZenonT(60) DEF HostResult, attempt, setup, disc, context
  <1>2. CASE HostScanEnd
    BY <1>2, ZenonT(60) DEF HostScanEnd, attempt, setup, disc, context
  <1>3. CASE HostConnect
    BY <1>3, ZenonT(60) DEF HostConnect, setup, disc, context
  <1>4. CASE HostConnectFails
    BY <1>4, ZenonT(60) DEF HostConnectFails, attempt, setup, disc, context
  <1>5. CASE HostDisconnect
    BY <1>5, ZenonT(60) DEF HostDisconnect, disc, context, ResetAfterDisconnect
  <1>6. CASE DiscoveryTaskDone
    BY <1>6, ZenonT(60) DEF DiscoveryTaskDone, radio, attempt, setup, context
  <1>7. CASE Tick
    BY <1>7, ZenonT(60) DEF Tick, context, rest, radio, setup, disc
  <1>8. CASE GateExpires
    BY <1>8, ZenonT(60) DEF GateExpires, context, rest, radio, setup, disc
  <1>9. CASE SetBootReady
    BY <1>9, ZenonT(60) DEF SetBootReady, attempt, rest, radio, setup, disc
  <1>10. CASE ObdStartScan
    BY <1>10, ZenonT(60) DEF ObdStartScan, attempt, setup, disc, ScanMayStart
  <1>11. CASE WifiPriorityOn
    BY <1>11, ZenonT(60) DEF WifiPriorityOn, attempt, setup, disc
  <1>12. CASE WifiPriorityOff
    BY <1>12, ZenonT(60) DEF WifiPriorityOff, attempt, setup, disc, ScanMayStart
  <1>13. CASE ApplyDeferred
    BY <1>13, ZenonT(60) DEF ApplyDeferred, radio, disc, context
  <1>14. CASE FollowupStep
    BY <1>14, ZenonT(60) DEF FollowupStep, toSwitch, radio, attempt, setup, disc, context
  <1>15. CASE FollowupWaits
    BY <1>15, ZenonT(60) DEF FollowupWaits, toSwitch, radio, attempt, setup, disc, context
  <1>16. CASE NotReady
    BY <1>16, ZenonT(60) DEF NotReady, radio, attempt, setup, disc, context
  <1>17. CASE StartScan
    BY <1>17, ZenonT(60) DEF StartScan, attempt, setup, disc, switchKeeps, ScanMayStart, context
  <1>18. CASE CheckScan
    BY <1>18, ZenonT(60) DEF CheckScan, attempt, setup, disc, switchKeeps, context
  <1>19. CASE AwaitScanStop
    BY <1>19, ZenonT(60) DEF AwaitScanStop, attempt, setup, disc, switchKeeps, context
  <1>20. CASE ScanStopped
    BY <1>20, ZenonT(60) DEF ScanStopped, attempt, setup, disc, switchKeeps, context
  <1>21. CASE StaleLink
    BY <1>21, ZenonT(60)
       DEF StaleLink, connectKeeps, MayInitiate, Disconnect, EndAttempt, disc, switchKeeps,
           context
  <1>22. CASE Initiate
    BY <1>22, ZenonT(60) DEF Initiate, connectKeeps, MayInitiate, disc, switchKeeps, context
  <1>23. CASE InitiateRefused
    BY <1>23, ZenonT(60)
       DEF InitiateRefused, connectKeeps, MayInitiate, EndAttempt, Failed, Disconnect, ResetDue,
           disc, switchKeeps, context
  <1>24. CASE ConnectingIdles
    BY <1>24, ZenonT(60) DEF ConnectingIdles, connectKeeps, EndAttempt, disc, switchKeeps, context
  <1>25. CASE WaitReadsSuccess
    BY <1>25, ZenonT(60) DEF WaitReadsSuccess, waitKeeps, switchKeeps, context
  <1>26. CASE WaitReadsPending
    BY <1>26, ZenonT(60)
       DEF WaitReadsPending, attempt, waitKeeps, Failed, ResetDue, Disconnect, EndAttempt,
           switchKeeps, context
  <1>27. CASE WaitTakesFailure
    BY <1>27, ZenonT(60)
       DEF WaitTakesFailure, waitKeeps, EndAttempt, Failed, ResetDue, Disconnect, switchKeeps,
           context
  <1>28. CASE DiscoveryTimesOut
    BY <1>28, ZenonT(60)
       DEF DiscoveryTimesOut, setup, disc, switchKeeps, attemptKeeps, Abandon, Disconnect,
           EndAttempt, context
  <1>29. CASE SpawnDiscovery
    BY <1>29, ZenonT(60)
       DEF SpawnDiscovery, switchKeeps, attemptKeeps, Failed, ResetDue, Disconnect, EndAttempt,
           context
  <1>30. CASE PollDiscovery
    BY <1>30, ZenonT(60)
       DEF PollDiscovery, disc, switchKeeps, attemptKeeps, Abandon, StartSubscribing,
           Disconnect, EndAttempt, context
  <1>31. CASE SubscribeTimesOut
    BY <1>31, ZenonT(60)
       DEF SubscribeTimesOut, setup, disc, switchKeeps, attemptKeeps, Abandon, Disconnect,
           EndAttempt, context
  <1>32. CASE SubscribeBegins
    BY <1>32, ZenonT(60) DEF SubscribeBegins, attempt, setup, disc, switchKeeps, context
  <1>39. CASE FollowPointer
    BY <1>39, ZenonT(60) DEF FollowPointer, attempt, disc, context
  <1>40. CASE StorePointer
    BY <1>40, ZenonT(60) DEF StorePointer, attempt, disc, context
  <1>41. CASE StoreAgain
    BY <1>41, ZenonT(60) DEF StoreAgain, attempt, disc, context
  <1>42. CASE Panic
    BY <1>42, ZenonT(60) DEF Panic, Unset
  <1>33. CASE SubscribeCommit
    BY <1>33, ZenonT(60)
       DEF SubscribeCommit, setup, disc, switchKeeps, attemptKeeps, EndAttempt, context
  <1>34. CASE YieldWaits
    BY <1>34, ZenonT(60) DEF YieldWaits, quiet, setup, disc, switchKeeps, attemptKeeps, context
  <1>35. CASE YieldEnds
    BY <1>35, ZenonT(60) DEF YieldEnds, quiet, setup, disc, switchKeeps, attemptKeeps, context
  <1>36. CASE CheckConnected
    BY <1>36, ZenonT(60) DEF CheckConnected, quiet, setup, disc, switchKeeps, attemptKeeps, context
  <1>37. CASE CheckBackoff
    BY <1>37, ZenonT(60)
       DEF CheckBackoff, quiet, AfterBackoff, setup, disc, switchKeeps, attemptKeeps, context
  <1>38. CASE UNCHANGED vars
    BY <1>38, ZenonT(60) DEF vars, radio, attempt, setup, disc, context
  <1> QED
    BY <1>1, <1>2, <1>3, <1>4, <1>5, <1>6, <1>7, <1>8, <1>9, <1>10, <1>11, <1>12, <1>13, <1>14,
       <1>15, <1>16, <1>17, <1>18, <1>19, <1>20, <1>21, <1>22, <1>23, <1>24, <1>25, <1>26,
       <1>27, <1>28, <1>29, <1>30, <1>31, <1>32, <1>33, <1>34, <1>35, <1>36, <1>37, <1>38,
       <1>39, <1>40, <1>41, <1>42
       DEF Next, HostTask, Clock, MainLoop, Process, Switch

\* The states, steps and sets of pointers stay among their values.
LEMMA ValuesStep == ASSUME TypeValues, [Next]_vars PROVE TypeValues'
  <1> USE DEF TypeValues, BleStates, FollowupSteps, SubscribeSteps, DeferredKinds, Handles
  <1> USE DEF history, switchLeaves, stepKeeps, StoreFound, InStep
  <1>1. CASE HostResult
    <2>1. deferred' \subseteq DeferredKinds
      BY <1>1 DEF HostResult
    <2>2. bleState' \in BleStates
      BY <1>1 DEF HostResult
    <2> QED
      BY <1>1, <2>1, <2>2, Zenon DEF HostResult, setup, context
  <1>2. CASE HostScanEnd
    <2>1. deferred' \subseteq DeferredKinds
      BY <1>2 DEF HostScanEnd
    <2>2. bleState' \in BleStates
      BY <1>2 DEF HostScanEnd
    <2> QED
      BY <1>2, <2>1, <2>2, ZenonT(60) DEF HostScanEnd, setup, context
  <1>3. CASE HostConnect
    <2>1. deferred' \subseteq DeferredKinds
      BY <1>3 DEF HostConnect
    <2> QED
      BY <1>3, <2>1 DEF HostConnect, setup, context
  <1>4. CASE HostConnectFails
    BY <1>4 DEF HostConnectFails, attempt, setup, disc, context
  <1>5. CASE HostDisconnect
    <2>1. deferred' \subseteq DeferredKinds
      BY <1>5 DEF HostDisconnect
    <2>2. /\ bleState' \in BleStates
          /\ connectedFollowupStep' \in FollowupSteps
          /\ handles' \subseteq Handles
      BY <1>5 DEF HostDisconnect, ResetAfterDisconnect
    <2> QED
      BY <1>5, <2>1, <2>2, Zenon DEF HostDisconnect
  <1>6. CASE DiscoveryTaskDone
    BY <1>6 DEF DiscoveryTaskDone, radio, attempt, setup, context
  <1>7. CASE Tick
    BY <1>7 DEF Tick, context, rest, radio, setup, disc
  <1>8. CASE GateExpires
    BY <1>8 DEF GateExpires, context, rest, radio, setup, disc
  <1>9. CASE SetBootReady
    BY <1>9 DEF SetBootReady, attempt, rest, radio, setup, disc
  <1>10. CASE ObdStartScan
    BY <1>10 DEF ObdStartScan, attempt, setup, disc, ScanMayStart
  <1>11. CASE WifiPriorityOn
    BY <1>11 DEF WifiPriorityOn, attempt, setup, disc
  <1>12. CASE WifiPriorityOff
    <2>1. bleState' \in BleStates
      BY <1>12 DEF WifiPriorityOff
    <2> QED
      BY <1>12, <2>1, Zenon DEF WifiPriorityOff, setup
  <1>13. CASE ApplyDeferred
    BY <1>13 DEF ApplyDeferred, radio, disc, context
  <1>14. CASE FollowupStep
    BY <1>14 DEF FollowupStep, toSwitch, AfterFollowup, radio, attempt, setup, disc, context
  <1>15. CASE FollowupWaits
    BY <1>15 DEF FollowupWaits, toSwitch, radio, attempt, setup, disc, context
  <1>16. CASE NotReady
    BY <1>16 DEF NotReady, radio, attempt, setup, disc, context
  <1>17. CASE StartScan
    BY <1>17 DEF StartScan, attempt, setup, disc, switchKeeps, ScanMayStart, In, context
  <1>18. CASE CheckScan
    BY <1>18 DEF CheckScan, attempt, setup, disc, switchKeeps, In, context
  <1>19. CASE AwaitScanStop
    BY <1>19 DEF AwaitScanStop, attempt, setup, disc, switchKeeps, In, context
  <1>20. CASE ScanStopped
    BY <1>20 DEF ScanStopped, attempt, setup, disc, switchKeeps, In, context
  <1>21. CASE StaleLink
    BY <1>21
       DEF StaleLink, connectKeeps, MayInitiate, Disconnect, EndAttempt, In, disc, switchKeeps,
           context
  <1>22. CASE Initiate
    BY <1>22 DEF Initiate, connectKeeps, MayInitiate, In, disc, switchKeeps, context
  <1>23. CASE InitiateRefused
    BY <1>23
       DEF InitiateRefused, connectKeeps, MayInitiate, EndAttempt, Failed, Disconnect, ResetDue,
           In, disc, switchKeeps, context
  <1>24. CASE ConnectingIdles
    BY <1>24 DEF ConnectingIdles, connectKeeps, EndAttempt, In, disc, switchKeeps, context
  <1>25. CASE WaitReadsSuccess
    BY <1>25 DEF WaitReadsSuccess, waitKeeps, In, switchKeeps, context
  <1>26. CASE WaitReadsPending
    <2>1. CASE /\ asyncConnectPending /\ NotExpired(ConnectTimeout)
               /\ UNCHANGED <<link, scanning, handles, connected, shouldConnect, attempt,
                              bleState, connectedFollowupStep>>
      <3>1. UNCHANGED <<link, handles, bleState, connectedFollowupStep>>
        BY <2>1
      <3>2. pc' = "flags" /\ UNCHANGED <<scanOwner, deferred, subscribeStep, late>>
        BY <1>26 DEF WaitReadsPending, waitKeeps, switchKeeps
      <3> QED
        BY <3>1, <3>2
    <2>2. CASE /\ Failed(TRUE) /\ scanning' = (scanning /\ ~ResetDue)
               /\ UNCHANGED <<asyncConnectSuccess, connectAttemptNumber>>
      BY <1>26, <2>2 DEF WaitReadsPending, waitKeeps, switchKeeps, Failed, Disconnect, EndAttempt
    <2> QED
      BY <1>26, <2>1, <2>2 DEF WaitReadsPending
  <1>27. CASE WaitTakesFailure
    BY <1>27
       DEF WaitTakesFailure, waitKeeps, EndAttempt, Failed, ResetDue, Disconnect, switchKeeps,
           context
  <1>28. CASE DiscoveryTimesOut
    BY <1>28
       DEF DiscoveryTimesOut, setup, disc, switchKeeps, attemptKeeps, Abandon, In, Disconnect,
           EndAttempt, context
  <1>29. CASE SpawnDiscovery
    BY <1>29
       DEF SpawnDiscovery, switchKeeps, attemptKeeps, Failed, ResetDue, In, Disconnect,
           EndAttempt, context
  <1>30. CASE PollDiscovery
    BY <1>30
       DEF PollDiscovery, disc, switchKeeps, attemptKeeps, Abandon, StartSubscribing, In,
           Disconnect, EndAttempt, context
  <1>31. CASE SubscribeTimesOut
    BY <1>31
       DEF SubscribeTimesOut, setup, disc, switchKeeps, attemptKeeps, Abandon, In, Disconnect,
           EndAttempt, context
  <1>32. CASE SubscribeBegins
    BY <1>32 DEF SubscribeBegins, attempt, setup, disc, switchKeeps, context, In
  <1>39. CASE FollowPointer
    BY <1>39 DEF FollowPointer, attempt, disc, context, In, Finds, FindsAgain, Successors, Critical
  <1>40. CASE StorePointer
    BY <1>40 DEF StorePointer, attempt, disc, context, In, Finds, FindsAgain, Successors, Critical
  <1>41. CASE StoreAgain
    BY <1>41 DEF StoreAgain, attempt, disc, context, In, Finds, FindsAgain, Successors, Critical
  <1>42. CASE Panic
    BY <1>42 DEF Panic, Unset
  <1>33. CASE SubscribeCommit
    BY <1>33 DEF SubscribeCommit, setup, disc, switchKeeps, attemptKeeps, EndAttempt, context
  <1>34. CASE YieldWaits
    BY <1>34 DEF YieldWaits, quiet, In, setup, disc, switchKeeps, attemptKeeps, context
  <1>35. CASE YieldEnds
    BY <1>35 DEF YieldEnds, quiet, In, setup, disc, switchKeeps, attemptKeeps, context
  <1>36. CASE CheckConnected
    BY <1>36 DEF CheckConnected, quiet, In, setup, disc, switchKeeps, attemptKeeps, context
  <1>37. CASE CheckBackoff
    BY <1>37
       DEF CheckBackoff, quiet, AfterBackoff, In, setup, disc, switchKeeps, attemptKeeps,
           context
  <1>38. CASE UNCHANGED vars
    BY <1>38 DEF vars, radio, attempt, setup, disc, context
  <1> QED
    BY <1>1, <1>2, <1>3, <1>4, <1>5, <1>6, <1>7, <1>8, <1>9, <1>10, <1>11, <1>12, <1>13, <1>14,
       <1>15, <1>16, <1>17, <1>18, <1>19, <1>20, <1>21, <1>22, <1>23, <1>24, <1>25, <1>26,
       <1>27, <1>28, <1>29, <1>30, <1>31, <1>32, <1>33, <1>34, <1>35, <1>36, <1>37, <1>38,
       <1>39, <1>40, <1>41, <1>42
       DEF Next, HostTask, Clock, MainLoop, Process, Switch

\* The counters stay within their limits.
LEMMA CountersStep == ASSUME TypeCounters, AttemptsLeft, [Next]_vars
                      PROVE TypeCounters' /\ AttemptsLeft'
  <1> USE AttemptsAssumption, ThresholdAssumption, TasksAssumption, ObdScansAssumption
  <1> USE DEF TypeCounters, AttemptsLeft, Unset, SubscribeTimeout
  <1> USE DEF history, switchLeaves, stepKeeps, StoreFound, InStep
  <1>1. CASE HostResult
    BY <1>1 DEF HostResult, attempt, setup, disc, context
  <1>2. CASE HostScanEnd
    BY <1>2 DEF HostScanEnd, attempt, setup, disc, context
  <1>3. CASE HostConnect
    BY <1>3 DEF HostConnect, setup, disc, context
  <1>4. CASE HostConnectFails
    BY <1>4 DEF HostConnectFails, attempt, setup, disc, context
  <1>5. CASE HostDisconnect
    BY <1>5 DEF HostDisconnect, disc, context, ResetAfterDisconnect
  <1>6. CASE DiscoveryTaskDone
    BY <1>6 DEF DiscoveryTaskDone, radio, attempt, setup, context
  <1>7. CASE Tick
    BY <1>7 DEF Tick, context, rest, radio, setup, disc
  <1>8. CASE GateExpires
    BY <1>8 DEF GateExpires, context, rest, radio, setup, disc
  <1>9. CASE SetBootReady
    BY <1>9 DEF SetBootReady, attempt, rest, radio, setup, disc
  <1>10. CASE ObdStartScan
    BY <1>10 DEF ObdStartScan, attempt, setup, disc, ScanMayStart
  <1>11. CASE WifiPriorityOn
    BY <1>11 DEF WifiPriorityOn, attempt, setup, disc
  <1>12. CASE WifiPriorityOff
    BY <1>12 DEF WifiPriorityOff, attempt, setup, disc, ScanMayStart
  <1>13. CASE ApplyDeferred
    BY <1>13 DEF ApplyDeferred, radio, disc, context
  <1>14. CASE FollowupStep
    BY <1>14 DEF FollowupStep, toSwitch, radio, attempt, setup, disc, context
  <1>15. CASE FollowupWaits
    BY <1>15 DEF FollowupWaits, toSwitch, radio, attempt, setup, disc, context
  <1>16. CASE NotReady
    BY <1>16 DEF NotReady, radio, attempt, setup, disc, context
  <1>17. CASE StartScan
    BY <1>17 DEF StartScan, attempt, setup, disc, switchKeeps, ScanMayStart, In, context
  <1>18. CASE CheckScan
    BY <1>18 DEF CheckScan, attempt, setup, disc, switchKeeps, In, context
  <1>19. CASE AwaitScanStop
    BY <1>19 DEF AwaitScanStop, attempt, setup, disc, switchKeeps, In, context
  <1>20. CASE ScanStopped
    BY <1>20 DEF ScanStopped, attempt, setup, disc, switchKeeps, In, context
  <1>21. CASE StaleLink
    BY <1>21
       DEF StaleLink, connectKeeps, MayInitiate, Disconnect, EndAttempt, In, disc, switchKeeps,
           context
  <1>22. CASE Initiate
    BY <1>22 DEF Initiate, connectKeeps, MayInitiate, In, disc, switchKeeps, context
  <1>23. CASE InitiateRefused
    BY <1>23
       DEF InitiateRefused, connectKeeps, MayInitiate, EndAttempt, Failed, Disconnect, ResetDue,
           In, disc, switchKeeps, context
  <1>24. CASE ConnectingIdles
    BY <1>24 DEF ConnectingIdles, connectKeeps, EndAttempt, In, disc, switchKeeps, context
  <1>25. CASE WaitReadsSuccess
    BY <1>25 DEF WaitReadsSuccess, waitKeeps, In, switchKeeps, context
  <1>26. CASE WaitReadsPending
    <2>1. CASE /\ asyncConnectPending /\ NotExpired(ConnectTimeout)
               /\ UNCHANGED <<link, scanning, handles, connected, shouldConnect, attempt,
                              bleState, connectedFollowupStep>>
      BY <1>26, <2>1 DEF WaitReadsPending, waitKeeps, switchKeeps, attempt, context
    <2>2. CASE /\ Failed(TRUE) /\ scanning' = (scanning /\ ~ResetDue)
               /\ UNCHANGED <<asyncConnectSuccess, connectAttemptNumber>>
      BY <1>26, <2>2
         DEF WaitReadsPending, waitKeeps, switchKeeps, context, Failed, ResetDue, EndAttempt
    <2> QED
      BY <1>26, <2>1, <2>2 DEF WaitReadsPending
  <1>27. CASE WaitTakesFailure
    BY <1>27
       DEF WaitTakesFailure, waitKeeps, EndAttempt, Failed, ResetDue, Disconnect, switchKeeps,
           context
  <1>28. CASE DiscoveryTimesOut
    BY <1>28
       DEF DiscoveryTimesOut, setup, disc, switchKeeps, attemptKeeps, Abandon, In, Disconnect,
           EndAttempt, context
  <1>29. CASE SpawnDiscovery
    BY <1>29
       DEF SpawnDiscovery, switchKeeps, attemptKeeps, Failed, ResetDue, In, Disconnect,
           EndAttempt, context
  <1>30. CASE PollDiscovery
    BY <1>30
       DEF PollDiscovery, disc, switchKeeps, attemptKeeps, Abandon, StartSubscribing, In,
           Disconnect, EndAttempt, context
  <1>31. CASE SubscribeTimesOut
    BY <1>31
       DEF SubscribeTimesOut, setup, disc, switchKeeps, attemptKeeps, Abandon, In, Disconnect,
           EndAttempt, context
  <1>32. CASE SubscribeBegins
    BY <1>32 DEF SubscribeBegins, attempt, setup, disc, switchKeeps, context, In
  <1>39. CASE FollowPointer
    BY <1>39 DEF FollowPointer, attempt, disc, context, In
  <1>40. CASE StorePointer
    BY <1>40 DEF StorePointer, attempt, disc, context, In
  <1>41. CASE StoreAgain
    BY <1>41 DEF StoreAgain, attempt, disc, context, In
  <1>42. CASE Panic
    BY <1>42 DEF Panic, Unset
  <1>33. CASE SubscribeCommit
    BY <1>33 DEF SubscribeCommit, setup, disc, switchKeeps, attemptKeeps, EndAttempt, context
  <1>34. CASE YieldWaits
    BY <1>34 DEF YieldWaits, quiet, In, setup, disc, switchKeeps, attemptKeeps, context
  <1>35. CASE YieldEnds
    BY <1>35 DEF YieldEnds, quiet, In, setup, disc, switchKeeps, attemptKeeps, context
  <1>36. CASE CheckConnected
    BY <1>36 DEF CheckConnected, quiet, In, setup, disc, switchKeeps, attemptKeeps, context
  <1>37. CASE CheckBackoff
    BY <1>37
       DEF CheckBackoff, quiet, AfterBackoff, In, setup, disc, switchKeeps, attemptKeeps,
           context
  <1>38. CASE UNCHANGED vars
    BY <1>38 DEF vars, radio, attempt, setup, disc, context
  <1> QED
    BY <1>1, <1>2, <1>3, <1>4, <1>5, <1>6, <1>7, <1>8, <1>9, <1>10, <1>11, <1>12, <1>13, <1>14,
       <1>15, <1>16, <1>17, <1>18, <1>19, <1>20, <1>21, <1>22, <1>23, <1>24, <1>25, <1>26,
       <1>27, <1>28, <1>29, <1>30, <1>31, <1>32, <1>33, <1>34, <1>35, <1>36, <1>37, <1>38,
       <1>39, <1>40, <1>41, <1>42
       DEF Next, HostTask, Clock, MainLoop, Process, Switch

\* Only a callback that may find the mutex taken leaves work behind.
LEMMA ContendedStep == ASSUME OnlyContended, [Next]_vars PROVE OnlyContended'
  <1> USE DEF OnlyContended
  <1> USE DEF history, switchLeaves, stepKeeps, StoreFound, InStep
  <1>1. CASE HostResult
    BY <1>1 DEF HostResult, attempt, setup, disc, context
  <1>2. CASE HostScanEnd
    BY <1>2 DEF HostScanEnd, attempt, setup, disc, context
  <1>3. CASE HostConnect
    BY <1>3 DEF HostConnect, setup, disc, context
  <1>4. CASE HostConnectFails
    BY <1>4 DEF HostConnectFails, attempt, setup, disc, context
  <1>5. CASE HostDisconnect
    BY <1>5 DEF HostDisconnect, disc, context, ResetAfterDisconnect
  <1>6. CASE DiscoveryTaskDone
    BY <1>6 DEF DiscoveryTaskDone, radio, attempt, setup, context
  <1>7. CASE Tick
    BY <1>7 DEF Tick, context, rest, radio, setup, disc
  <1>8. CASE GateExpires
    BY <1>8 DEF GateExpires, context, rest, radio, setup, disc
  <1>9. CASE SetBootReady
    BY <1>9 DEF SetBootReady, attempt, rest, radio, setup, disc
  <1>10. CASE ObdStartScan
    BY <1>10 DEF ObdStartScan, attempt, setup, disc, ScanMayStart
  <1>11. CASE WifiPriorityOn
    BY <1>11 DEF WifiPriorityOn, attempt, setup, disc
  <1>12. CASE WifiPriorityOff
    BY <1>12 DEF WifiPriorityOff, attempt, setup, disc, ScanMayStart
  <1>13. CASE ApplyDeferred
    BY <1>13 DEF ApplyDeferred, radio, disc, context
  <1>14. CASE FollowupStep
    BY <1>14 DEF FollowupStep, toSwitch, radio, attempt, setup, disc, context
  <1>15. CASE FollowupWaits
    BY <1>15 DEF FollowupWaits, toSwitch, radio, attempt, setup, disc, context
  <1>16. CASE NotReady
    BY <1>16 DEF NotReady, radio, attempt, setup, disc, context
  <1>17. CASE StartScan
    BY <1>17 DEF StartScan, attempt, setup, disc, switchKeeps, ScanMayStart, In, context
  <1>18. CASE CheckScan
    BY <1>18 DEF CheckScan, attempt, setup, disc, switchKeeps, In, context
  <1>19. CASE AwaitScanStop
    BY <1>19 DEF AwaitScanStop, attempt, setup, disc, switchKeeps, In, context
  <1>20. CASE ScanStopped
    BY <1>20 DEF ScanStopped, attempt, setup, disc, switchKeeps, In, context
  <1>21. CASE StaleLink
    BY <1>21
       DEF StaleLink, connectKeeps, MayInitiate, Disconnect, EndAttempt, In, disc, switchKeeps,
           context
  <1>22. CASE Initiate
    BY <1>22 DEF Initiate, connectKeeps, MayInitiate, In, disc, switchKeeps, context
  <1>23. CASE InitiateRefused
    BY <1>23
       DEF InitiateRefused, connectKeeps, MayInitiate, EndAttempt, Failed, Disconnect, ResetDue,
           In, disc, switchKeeps, context
  <1>24. CASE ConnectingIdles
    BY <1>24 DEF ConnectingIdles, connectKeeps, EndAttempt, In, disc, switchKeeps, context
  <1>25. CASE WaitReadsSuccess
    BY <1>25 DEF WaitReadsSuccess, waitKeeps, In, switchKeeps, context
  <1>26. CASE WaitReadsPending
    BY <1>26
       DEF WaitReadsPending, attempt, waitKeeps, Failed, ResetDue, Disconnect, EndAttempt,
           switchKeeps, context
  <1>27. CASE WaitTakesFailure
    BY <1>27
       DEF WaitTakesFailure, waitKeeps, EndAttempt, Failed, ResetDue, Disconnect, switchKeeps,
           context
  <1>28. CASE DiscoveryTimesOut
    BY <1>28
       DEF DiscoveryTimesOut, setup, disc, switchKeeps, attemptKeeps, Abandon, In, Disconnect,
           EndAttempt, context
  <1>29. CASE SpawnDiscovery
    BY <1>29
       DEF SpawnDiscovery, switchKeeps, attemptKeeps, Failed, ResetDue, In, Disconnect,
           EndAttempt, context
  <1>30. CASE PollDiscovery
    BY <1>30
       DEF PollDiscovery, disc, switchKeeps, attemptKeeps, Abandon, StartSubscribing, In,
           Disconnect, EndAttempt, context
  <1>31. CASE SubscribeTimesOut
    BY <1>31
       DEF SubscribeTimesOut, setup, disc, switchKeeps, attemptKeeps, Abandon, In, Disconnect,
           EndAttempt, context
  <1>32. CASE SubscribeBegins
    BY <1>32 DEF SubscribeBegins, attempt, setup, disc, switchKeeps, context, In
  <1>39. CASE FollowPointer
    BY <1>39 DEF FollowPointer, attempt, disc, context, In
  <1>40. CASE StorePointer
    BY <1>40 DEF StorePointer, attempt, disc, context, In
  <1>41. CASE StoreAgain
    BY <1>41 DEF StoreAgain, attempt, disc, context, In
  <1>42. CASE Panic
    BY <1>42 DEF Panic, Unset
  <1>33. CASE SubscribeCommit
    BY <1>33 DEF SubscribeCommit, setup, disc, switchKeeps, attemptKeeps, EndAttempt, context
  <1>34. CASE YieldWaits
    BY <1>34 DEF YieldWaits, quiet, In, setup, disc, switchKeeps, attemptKeeps, context
  <1>35. CASE YieldEnds
    BY <1>35 DEF YieldEnds, quiet, In, setup, disc, switchKeeps, attemptKeeps, context
  <1>36. CASE CheckConnected
    BY <1>36 DEF CheckConnected, quiet, In, setup, disc, switchKeeps, attemptKeeps, context
  <1>37. CASE CheckBackoff
    BY <1>37
       DEF CheckBackoff, quiet, AfterBackoff, In, setup, disc, switchKeeps, attemptKeeps,
           context
  <1>38. CASE UNCHANGED vars
    BY <1>38 DEF vars, radio, attempt, setup, disc, context
  <1> QED
    BY <1>1, <1>2, <1>3, <1>4, <1>5, <1>6, <1>7, <1>8, <1>9, <1>10, <1>11, <1>12, <1>13, <1>14,
       <1>15, <1>16, <1>17, <1>18, <1>19, <1>20, <1>21, <1>22, <1>23, <1>24, <1>25, <1>26,
       <1>27, <1>28, <1>29, <1>30, <1>31, <1>32, <1>33, <1>34, <1>35, <1>36, <1>37, <1>38,
       <1>39, <1>40, <1>41, <1>42
       DEF Next, HostTask, Clock, MainLoop, Process, Switch

\* Nothing leaves an attempt without clearing connectInProgress_.
LEMMA OwnedStep == ASSUME NoLateTarget, OwnedInv, [Next]_vars
                   PROVE InProgressOwned' /\ ScanOffInAttempt'
  <1> USE DEF OwnedInv, TypeFlags, InProgressOwned, ScanOffInAttempt, AttemptStates, NoLateTarget,
             OnlyContended
  <1> USE DEF history, switchLeaves, stepKeeps, StoreFound, InStep
  <1>1. CASE HostResult
    BY <1>1 DEF HostResult, attempt, setup, disc, context
  <1>2. CASE HostScanEnd
    BY <1>2 DEF HostScanEnd, attempt, setup, disc, context
  <1>3. CASE HostConnect
    BY <1>3 DEF HostConnect, setup, disc, context
  <1>4. CASE HostConnectFails
    BY <1>4 DEF HostConnectFails, attempt, setup, disc, context
  <1>5. CASE HostDisconnect
    BY <1>5 DEF HostDisconnect, disc, context, ResetAfterDisconnect
  <1>6. CASE DiscoveryTaskDone
    BY <1>6 DEF DiscoveryTaskDone, radio, attempt, setup, context
  <1>7. CASE Tick
    BY <1>7 DEF Tick, context, rest, radio, setup, disc
  <1>8. CASE GateExpires
    BY <1>8 DEF GateExpires, context, rest, radio, setup, disc
  <1>9. CASE SetBootReady
    BY <1>9 DEF SetBootReady, attempt, rest, radio, setup, disc
  <1>10. CASE ObdStartScan
    BY <1>10 DEF ObdStartScan, attempt, setup, disc, ScanMayStart
  <1>11. CASE WifiPriorityOn
    BY <1>11 DEF WifiPriorityOn, attempt, setup, disc
  <1>12. CASE WifiPriorityOff
    BY <1>12 DEF WifiPriorityOff, attempt, setup, disc, ScanMayStart
  <1>13. CASE ApplyDeferred
    BY <1>13 DEF ApplyDeferred, radio, disc, context
  <1>14. CASE FollowupStep
    BY <1>14 DEF FollowupStep, toSwitch, radio, attempt, setup, disc, context
  <1>15. CASE FollowupWaits
    BY <1>15 DEF FollowupWaits, toSwitch, radio, attempt, setup, disc, context
  <1>16. CASE NotReady
    BY <1>16 DEF NotReady, radio, attempt, setup, disc, context
  <1>17. CASE StartScan
    BY <1>17 DEF StartScan, attempt, setup, disc, switchKeeps, ScanMayStart, In, context
  <1>18. CASE CheckScan
    BY <1>18 DEF CheckScan, attempt, setup, disc, switchKeeps, In, context
  <1>19. CASE AwaitScanStop
    BY <1>19 DEF AwaitScanStop, attempt, setup, disc, switchKeeps, In, context
  <1>20. CASE ScanStopped
    BY <1>20 DEF ScanStopped, attempt, setup, disc, switchKeeps, In, context
  <1>21. CASE StaleLink
    BY <1>21
       DEF StaleLink, connectKeeps, MayInitiate, Disconnect, EndAttempt, In, disc, switchKeeps,
           context
  <1>22. CASE Initiate
    BY <1>22 DEF Initiate, connectKeeps, MayInitiate, In, disc, switchKeeps, context
  <1>23. CASE InitiateRefused
    BY <1>23
       DEF InitiateRefused, connectKeeps, MayInitiate, EndAttempt, Failed, Disconnect, ResetDue,
           In, disc, switchKeeps, context
  <1>24. CASE ConnectingIdles
    BY <1>24 DEF ConnectingIdles, connectKeeps, EndAttempt, In, disc, switchKeeps, context
  <1>25. CASE WaitReadsSuccess
    BY <1>25 DEF WaitReadsSuccess, waitKeeps, In, switchKeeps, context
  <1>26. CASE WaitReadsPending
    <2>1. CASE /\ asyncConnectPending /\ NotExpired(ConnectTimeout)
               /\ UNCHANGED <<link, scanning, handles, connected, shouldConnect, attempt,
                              bleState, connectedFollowupStep>>
      BY <1>26, <2>1 DEF WaitReadsPending, waitKeeps, switchKeeps, attempt
    <2>2. CASE /\ Failed(TRUE) /\ scanning' = (scanning /\ ~ResetDue)
               /\ UNCHANGED <<asyncConnectSuccess, connectAttemptNumber>>
      BY <1>26, <2>2 DEF WaitReadsPending, waitKeeps, switchKeeps, Failed, EndAttempt
    <2> QED
      BY <1>26, <2>1, <2>2 DEF WaitReadsPending
  <1>27. CASE WaitTakesFailure
    BY <1>27
       DEF WaitTakesFailure, waitKeeps, EndAttempt, Failed, ResetDue, Disconnect, switchKeeps,
           context
  <1>28. CASE DiscoveryTimesOut
    BY <1>28
       DEF DiscoveryTimesOut, setup, disc, switchKeeps, attemptKeeps, Abandon, In, Disconnect,
           EndAttempt, context
  <1>29. CASE SpawnDiscovery
    BY <1>29
       DEF SpawnDiscovery, switchKeeps, attemptKeeps, Failed, ResetDue, In, Disconnect,
           EndAttempt, context
  <1>30. CASE PollDiscovery
    BY <1>30
       DEF PollDiscovery, disc, switchKeeps, attemptKeeps, Abandon, StartSubscribing, In,
           Disconnect, EndAttempt, context
  <1>31. CASE SubscribeTimesOut
    BY <1>31
       DEF SubscribeTimesOut, setup, disc, switchKeeps, attemptKeeps, Abandon, In, Disconnect,
           EndAttempt, context
  <1>32. CASE SubscribeBegins
    BY <1>32 DEF SubscribeBegins, attempt, setup, disc, switchKeeps, context, In
  <1>39. CASE FollowPointer
    BY <1>39 DEF FollowPointer, attempt, disc, context, In
  <1>40. CASE StorePointer
    BY <1>40 DEF StorePointer, attempt, disc, context, In
  <1>41. CASE StoreAgain
    BY <1>41 DEF StoreAgain, attempt, disc, context, In
  <1>42. CASE Panic
    BY <1>42 DEF Panic, Unset
  <1>33. CASE SubscribeCommit
    BY <1>33 DEF SubscribeCommit, setup, disc, switchKeeps, attemptKeeps, EndAttempt, context
  <1>34. CASE YieldWaits
    BY <1>34 DEF YieldWaits, quiet, In, setup, disc, switchKeeps, attemptKeeps, context
  <1>35. CASE YieldEnds
    BY <1>35 DEF YieldEnds, quiet, In, setup, disc, switchKeeps, attemptKeeps, context
  <1>36. CASE CheckConnected
    BY <1>36 DEF CheckConnected, quiet, In, setup, disc, switchKeeps, attemptKeeps, context
  <1>37. CASE CheckBackoff
    BY <1>37
       DEF CheckBackoff, quiet, AfterBackoff, In, setup, disc, switchKeeps, attemptKeeps,
           context
  <1>38. CASE UNCHANGED vars
    BY <1>38 DEF vars, radio, attempt, setup, disc, context
  <1> QED
    BY <1>1, <1>2, <1>3, <1>4, <1>5, <1>6, <1>7, <1>8, <1>9, <1>10, <1>11, <1>12, <1>13, <1>14,
       <1>15, <1>16, <1>17, <1>18, <1>19, <1>20, <1>21, <1>22, <1>23, <1>24, <1>25, <1>26,
       <1>27, <1>28, <1>29, <1>30, <1>31, <1>32, <1>33, <1>34, <1>35, <1>36, <1>37, <1>38,
       <1>39, <1>40, <1>41, <1>42
       DEF Next, HostTask, Clock, MainLoop, Process, Switch

---------------------------------------------------------------------------
(* The pointers and the subscription *)

\* The machine is between the first subscribe step and the last.
Stepping == bleState \in {"SUBSCRIBING", "SUBSCRIBE_YIELD"} \/ pc \in InStep \union {"commit"}

\* The pointers that the steps before this one have set.
Sofar == [s \in SubscribeSteps |->
            CASE s = "GET_SERVICE"      -> {}
              [] s = "GET_DISPLAY_CHAR" -> {"service"}
              [] s = "GET_COMMAND_CHAR" -> {"service", "display", "notify"}
              [] OTHER                  -> Required]

\* With those that the present step has set before it reads them again.
SetByNow == Sofar[subscribeStep] \union (IF pc = "again" THEN NeedsAgain[subscribeStep] ELSE {})

\* The steps up to the subscription.
Unsubscribed == {"GET_SERVICE", "GET_DISPLAY_CHAR", "GET_COMMAND_CHAR", "GET_COMMAND_LONG",
                 "SUBSCRIBE_DISPLAY"}

\* The subscription is there once a step after it has begun, or its own has
\* still to store.
Subscribed ==
    subscribeStep \notin Unsubscribed \/ (pc = "store" /\ subscribeStep = "SUBSCRIBE_DISPLAY")
        => subscribed

\* A link that is still being initiated has not been found up: no state
\* beyond the wait for it is reached over it.  Nor is a connection announced
\* within a step.
NoSuccessYet ==
    /\ link = "initiating" =>
          /\ ~asyncConnectSuccess /\ pc \notin InStep \union {"commit"}
          /\ bleState \notin {"DISCOVERING", "SUBSCRIBING", "SUBSCRIBE_YIELD", "CONNECTED"}
    /\ pc \in InStep => bleState # "CONNECTED"

\* Over a live link the step machine loses nothing of what it has set.
BuiltUp ==
    Stepping /\ link = "up" =>
        /\ SetByNow \subseteq handles
        /\ Subscribed

\* Nor does it while the attempt has its start time, whatever the link does:
\* what clears the pointers clears connectStartMs_ too.  Beyond the timeouts a
\* step begins with that time, and only onDisconnect takes it from the step.
Kept == /\ Stepping /\ age # Unset => SetByNow \subseteq handles
        /\ pc \in InStep /\ ~EarlyUptime /\ ~cut => age # Unset

CompleteInv == TypeValues /\ NoSuccessYet /\ BuiltUp /\ ConnectedIsComplete

\* What the tables of the steps have to do with one another: a step that
\* fails takes nothing away that the steps before it have set, and what a step
\* stores is all that it reads again and its successors count on.
LEMMA StepTables ==
    ASSUME NEW s \in SubscribeSteps
    PROVE  /\ Finds[s] \cap Sofar[s] = {} \/ s \notin Critical
           /\ "command" \notin Sofar["GET_COMMAND_CHAR"] \union NeedsAgain["GET_COMMAND_CHAR"]
           /\ NeedsAgain[s] \subseteq Sofar[s] \union Finds[s]
           /\ NeedsAgain["GET_COMMAND_CHAR"] \subseteq Sofar["GET_COMMAND_CHAR"]
           /\ FindsAgain["GET_COMMAND_CHAR"] # {}
           /\ Needs[s] \subseteq Sofar[s]
  BY DEF SubscribeSteps, Finds, Sofar, Critical, NeedsAgain, FindsAgain, Needs, Required

LEMMA StepSuccessors ==
    ASSUME NEW s \in SubscribeSteps, NEW t \in Successors[s]
    PROVE  /\ t \in SubscribeSteps
           /\ FindsAgain[s] = {} => Sofar[t] \subseteq Sofar[s] \union Finds[s]
           /\ FindsAgain[s] # {}
                 => Sofar[t] \subseteq Sofar[s] \union NeedsAgain[s] \union FindsAgain[s]
           /\ t \notin Unsubscribed => s \notin Unsubscribed \/ s = "SUBSCRIBE_DISPLAY"
           /\ FindsAgain[s] # {} => t \in Unsubscribed
  BY DEF SubscribeSteps, Successors, Finds, Sofar, NeedsAgain, FindsAgain, Required, Unsubscribed

\* The three actions of a subscribe step build on what the steps before have set.
LEMMA StepBuilds ==
    ASSUME TypeValues, FollowPointer \/ StorePointer \/ StoreAgain
    PROVE  /\ SetByNow \subseteq handles => SetByNow' \subseteq handles'
           /\ Subscribed => Subscribed'
           /\ pc \in InStep /\ pc' \in {"store", "again", "commit"}
  <1> USE DEF SetByNow, Subscribed, StoreFound, InStep
  <1>0. subscribeStep \in SubscribeSteps
    BY DEF TypeValues
  <1>1. CASE FollowPointer
    <2>1. Finds[subscribeStep] \cap Sofar[subscribeStep] = {} \/ subscribeStep \notin Critical
      BY <1>0, StepTables
    <2>2. subscribeStep' = subscribeStep
      BY <1>1 DEF FollowPointer
    <2>3. CASE pc' = "commit"
      BY <1>1, <2>1, <2>2, <2>3 DEF FollowPointer
    <2>4. CASE pc' = "store"
      BY <1>1, <2>2, <2>4 DEF FollowPointer
    <2> QED
      BY <1>1, <2>3, <2>4 DEF FollowPointer
  <1>2. CASE StorePointer
    <2>1. CASE FindsAgain[subscribeStep] = {}
      <3>1. subscribeStep # "GET_COMMAND_CHAR"
        BY <1>0, <2>1, StepTables
      <3>2. PICK t \in Successors[subscribeStep] : subscribeStep' = t
        BY <1>2, <2>1 DEF StorePointer
      <3>3. /\ Sofar[t] \subseteq Sofar[subscribeStep] \union Finds[subscribeStep]
            /\ t \notin Unsubscribed
                  => subscribeStep \notin Unsubscribed \/ subscribeStep = "SUBSCRIBE_DISPLAY"
        BY <1>0, <2>1, StepSuccessors
      <3>4. handles' = handles \union Finds[subscribeStep] /\ pc = "store" /\ pc' = "commit"
            /\ subscribed' = subscribed
        BY <1>2, <2>1, <3>1 DEF StorePointer
      <3> QED
        BY <3>2, <3>3, <3>4
    <2>2. CASE FindsAgain[subscribeStep] # {}
      <3>1. /\ subscribeStep' = subscribeStep /\ subscribed' = subscribed
            /\ pc = "store" /\ pc' = "again"
        BY <1>2, <2>2 DEF StorePointer
      <3>2. CASE handles' = handles \union Finds[subscribeStep]
        BY <1>0, <3>1, <3>2, StepTables
      <3>3. CASE handles' = handles \ {"command"} /\ subscribeStep = "GET_COMMAND_CHAR"
        BY <1>0, <3>1, <3>3, StepTables
      <3> QED
        BY <1>2, <3>2, <3>3 DEF StorePointer
    <2> QED
      BY <2>1, <2>2
  <1>3. CASE StoreAgain
    <2>1. pc = "again" /\ pc' = "commit" /\ subscribed' = subscribed
      BY <1>3 DEF StoreAgain
    <2>2. CASE /\ handles' = handles \union FindsAgain[subscribeStep]
               /\ subscribeStep' \in Successors[subscribeStep]
      <3>1. PICK t \in Successors[subscribeStep] : subscribeStep' = t
        BY <2>2
      <3>2. /\ FindsAgain[subscribeStep] = {} =>
                  Sofar[t] \subseteq Sofar[subscribeStep] \union Finds[subscribeStep]
            /\ FindsAgain[subscribeStep] # {} =>
                  /\ Sofar[t] \subseteq Sofar[subscribeStep] \union NeedsAgain[subscribeStep]
                                            \union FindsAgain[subscribeStep]
                  /\ t \in Unsubscribed
        BY <1>0, StepSuccessors
      <3> QED
        BY <1>3, <2>1, <2>2, <3>1, <3>2 DEF StoreAgain
    <2>3. CASE /\ subscribeStep = "GET_COMMAND_CHAR" /\ subscribeStep' = subscribeStep
               /\ handles' = handles \ {"command"}
      BY <1>0, <2>1, <2>3, StepTables
    <2> QED
      BY <1>3, <2>2, <2>3 DEF StoreAgain
  <1> QED
    BY <1>1, <1>2, <1>3

\* Every step keeps what the connection sequence has built up so far.
LEMMA CompleteStep ==
    ASSUME CompleteInv, [Next]_vars
    PROVE  NoSuccessYet' /\ BuiltUp' /\ ConnectedIsComplete'
  <1> USE DEF SetByNow, Subscribed, CompleteInv, NoSuccessYet, BuiltUp, ConnectedIsComplete,
        Stepping, Unsubscribed,
        radio, attempt, setup, disc, context, rest, switchKeeps, connectKeeps, waitKeeps,
        attemptKeeps, quiet, toSwitch, In, Disconnect, EndAttempt, Abandon
  <1> USE DEF history, switchLeaves, stepKeeps, StoreFound, InStep
  <1>1. CASE HostResult
    BY <1>1 DEF HostResult
  <1>2. CASE HostScanEnd
    BY <1>2 DEF HostScanEnd
  <1>3. CASE HostConnect \/ HostConnectFails
    BY <1>3 DEF HostConnect, HostConnectFails
  <1>4. CASE HostDisconnect
    BY <1>4 DEF HostDisconnect, ResetAfterDisconnect
  <1>5. CASE DiscoveryTaskDone \/ Clock
    BY <1>5 DEF DiscoveryTaskDone, Clock, Tick, GateExpires, SetBootReady
  <1>6. CASE ObdStartScan \/ WifiPriorityOn \/ WifiPriorityOff
    <2>1. CASE ObdStartScan \/ WifiPriorityOn
      <3>1. UNCHANGED <<link, pc, bleState, connected, shouldConnect, attempt, deferred, setup,
                        disc, late>>
        BY <2>1, Zenon DEF ObdStartScan, WifiPriorityOn
      <3> QED
        BY <3>1
    <2>2. CASE WifiPriorityOff
      <3>1. /\ bleState' = bleState \/ (bleState = "DISCONNECTED" /\ bleState' = "SCANNING")
            /\ UNCHANGED <<link, pc, connected, shouldConnect, attempt, deferred, setup, disc,
                           late>>
        BY <2>2, Zenon DEF WifiPriorityOff
      <3> QED
        BY <3>1
    <2> QED
      BY <1>6, <2>1, <2>2
  <1>7. CASE ApplyDeferred
    BY <1>7 DEF ApplyDeferred
  <1>8. CASE FollowupStep \/ FollowupWaits \/ NotReady
    BY <1>8 DEF FollowupStep, FollowupWaits, NotReady
  <1>9. CASE StartScan \/ CheckScan \/ AwaitScanStop \/ ScanStopped
    <2>1. CASE StartScan
      <3>1. /\ bleState' = bleState \/ (bleState = "DISCONNECTED" /\ bleState' = "SCANNING")
            /\ pc' = "flags"
            /\ UNCHANGED <<link, connected, shouldConnect, attempt, deferred, setup, disc, late>>
        BY <2>1, Zenon DEF StartScan
      <3> QED
        BY <3>1
    <2>2. CASE CheckScan \/ ScanStopped
      BY <2>2 DEF CheckScan, ScanStopped
    <2>3. CASE AwaitScanStop
      <3>1. /\ pc' = "flags"
            /\ UNCHANGED <<link, bleState, connected, shouldConnect, attempt, deferred, setup,
                           disc, late>>
        BY <2>3, Zenon DEF AwaitScanStop
      <3> QED
        BY <3>1
    <2> QED
      BY <1>9, <2>1, <2>2, <2>3
  <1>10. CASE StaleLink \/ Initiate \/ ConnectingIdles
    BY <1>10 DEF StaleLink, Initiate, MayInitiate, ConnectingIdles
  <1>11. CASE InitiateRefused
    BY <1>11 DEF InitiateRefused, MayInitiate, Failed
  <1>12. CASE WaitReadsSuccess
    BY <1>12 DEF WaitReadsSuccess
  <1>13. CASE WaitReadsPending
    <2>1. CASE NotExpired(ConnectTimeout) /\ UNCHANGED <<link, handles, attempt, bleState>>
      BY <1>13, <2>1 DEF WaitReadsPending
    <2>2. CASE Failed(TRUE) /\ UNCHANGED <<asyncConnectSuccess, connectAttemptNumber>>
      BY <1>13, <2>2 DEF WaitReadsPending, Failed
    <2> QED
      BY <1>13, <2>1, <2>2, Zenon DEF WaitReadsPending
  <1>14. CASE WaitTakesFailure
    BY <1>14 DEF WaitTakesFailure, Failed
  <1>15. CASE DiscoveryTimesOut \/ PollDiscovery
    BY <1>15
    DEF DiscoveryTimesOut, PollDiscovery, StartSubscribing, TypeValues, Sofar, SubscribeSteps
  <1>16. CASE SpawnDiscovery
    BY <1>16 DEF SpawnDiscovery, Failed
  <1>17. CASE SubscribeTimesOut \/ SubscribeCommit
    BY <1>17 DEF SubscribeTimesOut, SubscribeCommit, TypeValues, Sofar, SubscribeSteps
  <1>18. CASE SubscribeBegins
    BY <1>18 DEF SubscribeBegins, NotExpired
  <1>21. CASE FollowPointer
    <2>1. /\ UNCHANGED <<link, bleState, age, cut, asyncConnectSuccess, deferred>>
          /\ pc \in InStep /\ pc' \in {"store", "again", "commit"}
      BY <1>21, StepBuilds DEF FollowPointer
    <2> QED
      BY <1>21, <2>1, StepBuilds
  <1>22. CASE StorePointer
    <2>1. /\ UNCHANGED <<link, bleState, age, cut, asyncConnectSuccess, deferred>>
          /\ pc \in InStep /\ pc' \in {"store", "again", "commit"}
      BY <1>22, StepBuilds DEF StorePointer
    <2> QED
      BY <1>22, <2>1, StepBuilds
  <1>23. CASE StoreAgain
    <2>1. /\ UNCHANGED <<link, bleState, age, cut, asyncConnectSuccess, deferred>>
          /\ pc \in InStep /\ pc' \in {"store", "again", "commit"}
      BY <1>23, StepBuilds DEF StoreAgain
    <2> QED
      BY <1>23, <2>1, StepBuilds
  <1>24. CASE Panic
    BY <1>24 DEF Panic
  <1>19. CASE YieldWaits \/ YieldEnds \/ CheckConnected \/ CheckBackoff
    BY <1>19 DEF YieldWaits, YieldEnds, CheckConnected, CheckBackoff, AfterBackoff
  <1>20. CASE UNCHANGED vars
    BY <1>20 DEF vars
  <1> QED
    BY <1>1, <1>2, <1>3, <1>4, <1>5, <1>6, <1>7, <1>8, <1>9, <1>10, <1>11, <1>12, <1>13,
       <1>14, <1>15, <1>16, <1>17, <1>18, <1>19, <1>20, <1>21, <1>22, <1>23, <1>24
       DEF Next, HostTask, MainLoop, Process, Switch

\* No step drops the handles of a connection that is still to use them.
LEMMA KeptStep == ASSUME TypeValues, Kept, [Next]_vars PROVE Kept'
  <1> USE DEF SetByNow, Kept, Stepping,
        radio, attempt, setup, disc, context, rest, switchKeeps, connectKeeps, waitKeeps,
        attemptKeeps, quiet, toSwitch, In, Disconnect, EndAttempt, Abandon
  <1> USE DEF history, switchLeaves, stepKeeps, StoreFound, InStep
  <1>1. CASE HostResult
    BY <1>1 DEF HostResult
  <1>2. CASE HostScanEnd
    BY <1>2 DEF HostScanEnd
  <1>3. CASE HostConnect \/ HostConnectFails
    BY <1>3 DEF HostConnect, HostConnectFails
  <1>4. CASE HostDisconnect
    <2>1. UNCHANGED <<pc, subscribeStep>>
      BY <1>4 DEF HostDisconnect
    <2>2. CASE ResetAfterDisconnect /\ cut' = (cut \/ pc \in InStep)
      <3>1. pc \in InStep => cut'
        BY <2>2
      <3>2. age' = Unset
        BY <2>2 DEF ResetAfterDisconnect
      <3> QED
        BY <2>1, <3>1, <3>2
    <2>3. CASE UNCHANGED <<age, handles, bleState, history>>
      BY <2>1, <2>3
    <2> QED
      BY <1>4, <2>2, <2>3 DEF HostDisconnect
  <1>5. CASE DiscoveryTaskDone \/ Clock
    BY <1>5
    DEF DiscoveryTaskDone, Clock, Tick, GateExpires, SetBootReady, Unset, SubscribeTimeout
  <1>6. CASE ObdStartScan \/ WifiPriorityOn \/ WifiPriorityOff
    BY <1>6 DEF ObdStartScan, WifiPriorityOn, WifiPriorityOff
  <1>7. CASE ApplyDeferred
    BY <1>7 DEF ApplyDeferred
  <1>8. CASE FollowupStep \/ FollowupWaits \/ NotReady
    BY <1>8 DEF FollowupStep, FollowupWaits, NotReady
  <1>9. CASE StartScan \/ CheckScan \/ AwaitScanStop \/ ScanStopped
    BY <1>9 DEF StartScan, CheckScan, AwaitScanStop, ScanStopped, Unset
  <1>10. CASE StaleLink \/ Initiate \/ ConnectingIdles
    BY <1>10 DEF StaleLink, Initiate, MayInitiate, ConnectingIdles
  <1>11. CASE InitiateRefused
    BY <1>11 DEF InitiateRefused, MayInitiate, Failed
  <1>12. CASE WaitReadsSuccess
    BY <1>12 DEF WaitReadsSuccess
  <1>13. CASE WaitReadsPending
    BY <1>13 DEF WaitReadsPending, Failed
  <1>14. CASE WaitTakesFailure
    BY <1>14 DEF WaitTakesFailure, Failed
  <1>15. CASE DiscoveryTimesOut \/ PollDiscovery
    BY <1>15
    DEF DiscoveryTimesOut, PollDiscovery, StartSubscribing, TypeValues, Sofar, SubscribeSteps
  <1>16. CASE SpawnDiscovery
    BY <1>16 DEF SpawnDiscovery, Failed
  <1>17. CASE SubscribeTimesOut \/ SubscribeCommit
    BY <1>17 DEF SubscribeTimesOut, SubscribeCommit
  <1>18. CASE SubscribeBegins
    BY <1>18 DEF SubscribeBegins, NotExpired
  <1>21. CASE FollowPointer
    <2>1. /\ UNCHANGED <<link, bleState, age, cut, asyncConnectSuccess, deferred>>
          /\ pc \in InStep /\ pc' \in {"store", "again", "commit"}
      BY <1>21, StepBuilds DEF FollowPointer
    <2> QED
      BY <1>21, <2>1, StepBuilds
  <1>22. CASE StorePointer
    <2>1. /\ UNCHANGED <<link, bleState, age, cut, asyncConnectSuccess, deferred>>
          /\ pc \in InStep /\ pc' \in {"store", "again", "commit"}
      BY <1>22, StepBuilds DEF StorePointer
    <2> QED
      BY <1>22, <2>1, StepBuilds
  <1>23. CASE StoreAgain
    <2>1. /\ UNCHANGED <<link, bleState, age, cut, asyncConnectSuccess, deferred>>
          /\ pc \in InStep /\ pc' \in {"store", "again", "commit"}
      BY <1>23, StepBuilds DEF StoreAgain
    <2> QED
      BY <1>23, <2>1, StepBuilds
  <1>24. CASE Panic
    BY <1>24 DEF Panic
  <1>19. CASE YieldWaits \/ YieldEnds \/ CheckConnected \/ CheckBackoff
    BY <1>19 DEF YieldWaits, YieldEnds, CheckConnected, CheckBackoff, AfterBackoff
  <1>20. CASE UNCHANGED vars
    BY <1>20 DEF vars
  <1> QED
    BY <1>1, <1>2, <1>3, <1>4, <1>5, <1>6, <1>7, <1>8, <1>9, <1>10, <1>11, <1>12, <1>13,
       <1>14, <1>15, <1>16, <1>17, <1>18, <1>19, <1>20, <1>21, <1>22, <1>23, <1>24
       DEF Next, HostTask, MainLoop, Process, Switch

---------------------------------------------------------------------------
(* No pointer outlives its link *)

\* Beyond the timeouts, a link that is gone has taken the pointers with it,
\* save those a step it interrupted stored late, and stopped the attempt, or
\* its callback has left that to the main loop.
GoneIsKnown ==
    ~LinkOpen /\ "disconnect" \notin deferred =>
        /\ bleState = "CONNECTING_WAIT" => ~asyncConnectSuccess
        /\ bleState # "DISCOVERING"
        /\ Stepping => age = Unset
        /\ pc \in InStep => cut
        /\ handles \subseteq late

\* From the decision to connect to the last step of the subscription.
Attempting == bleState \in AttemptStates \/ pc \in InStep \union {"wait2", "commit"}

\* Nothing asks for another connection during an attempt.
NoTargetInAttempt ==
    Attempting =>
        /\ ~(scanning /\ scanOwner = "v1") /\ ~shouldConnect
        /\ "scanTarget" \in deferred => bleState = "CONNECTING" /\ pc = "flags"
        /\ pc \in InStep => bleState \in {"SUBSCRIBING", "DISCONNECTED"}

\* An attempt begins with the pointers cleared, or with a disconnect that
\* the main loop applies before it initiates.
CleanTarget ==
    /\ shouldConnect \/ "scanTarget" \in deferred =>
          handles \subseteq late \/ "disconnect" \in deferred
    /\ bleState \in {"CONNECTING", "CONNECTING_WAIT"} \/ pc = "wait2" =>
          \/ handles \subseteq late
          \/ "disconnect" \in deferred /\ pc = "flags" /\ bleState = "CONNECTING"

\* What the code relies on: the uptime is beyond the timeouts, and no other
\* V1 advertises while ours holds a link, or onDisconnect finds the mutex free.
Undisturbed == ~EarlyUptime /\ (~NearbyV1 \/ "disconnect" \notin Contended)

\* No step leaves the machine believing in a connection that is gone unnoticed.
LEMMA GoneStep == ASSUME ~EarlyUptime, TypeFlags, GoneIsKnown, [Next]_vars PROVE GoneIsKnown'
  <1> USE DEF GoneIsKnown, Stepping, LinkOpen,
        radio, attempt, setup, disc, context, rest, switchKeeps, connectKeeps, waitKeeps,
        attemptKeeps, quiet, toSwitch, In, Disconnect, EndAttempt, Abandon
  <1> USE DEF history, switchLeaves, stepKeeps, StoreFound, InStep
  <1>1. CASE HostResult
    BY <1>1 DEF HostResult
  <1>2. CASE HostScanEnd
    BY <1>2 DEF HostScanEnd
  <1>3. CASE HostConnect \/ HostConnectFails
    BY <1>3 DEF HostConnect, HostConnectFails
  <1>4. CASE HostDisconnect
    BY <1>4 DEF HostDisconnect, ResetAfterDisconnect
  <1>5. CASE DiscoveryTaskDone \/ Clock
    BY <1>5
    DEF DiscoveryTaskDone, Clock, Tick, GateExpires, SetBootReady, Unset, SubscribeTimeout
  <1>6. CASE ObdStartScan \/ WifiPriorityOn \/ WifiPriorityOff
    BY <1>6 DEF ObdStartScan, WifiPriorityOn, WifiPriorityOff
  <1>7. CASE ApplyDeferred
    BY <1>7 DEF ApplyDeferred
  <1>8. CASE FollowupStep \/ FollowupWaits \/ NotReady
    BY <1>8 DEF FollowupStep, FollowupWaits, NotReady
  <1>9. CASE StartScan \/ CheckScan \/ AwaitScanStop \/ ScanStopped
    BY <1>9 DEF StartScan, CheckScan, AwaitScanStop, ScanStopped
  <1>10. CASE StaleLink \/ Initiate \/ ConnectingIdles
    BY <1>10 DEF StaleLink, Initiate, MayInitiate, ConnectingIdles
  <1>11. CASE InitiateRefused
    BY <1>11 DEF InitiateRefused, MayInitiate, Failed
  <1>12. CASE WaitReadsSuccess
    BY <1>12 DEF WaitReadsSuccess
  <1>13. CASE WaitReadsPending
    BY <1>13 DEF WaitReadsPending, Failed
  <1>14. CASE WaitTakesFailure
    BY <1>14 DEF WaitTakesFailure, Failed
  <1>15. CASE DiscoveryTimesOut \/ PollDiscovery
    BY <1>15 DEF DiscoveryTimesOut, PollDiscovery, StartSubscribing
  <1>16. CASE SpawnDiscovery
    BY <1>16 DEF SpawnDiscovery, Failed
  <1>17. CASE SubscribeTimesOut \/ SubscribeCommit
    BY <1>17 DEF SubscribeTimesOut, SubscribeCommit
  <1>18. CASE SubscribeBegins
    BY <1>18 DEF SubscribeBegins, NotExpired
  <1>21. CASE FollowPointer
    BY <1>21 DEF FollowPointer
  <1>22. CASE StorePointer
    BY <1>22 DEF StorePointer
  <1>23. CASE StoreAgain
    BY <1>23 DEF StoreAgain
  <1>24. CASE Panic
    BY <1>24 DEF Panic
  <1>19. CASE YieldWaits \/ YieldEnds \/ CheckConnected \/ CheckBackoff
    BY <1>19 DEF YieldWaits, YieldEnds, CheckConnected, CheckBackoff, AfterBackoff
  <1>20. CASE UNCHANGED vars
    BY <1>20 DEF vars
  <1> QED
    BY <1>1, <1>2, <1>3, <1>4, <1>5, <1>6, <1>7, <1>8, <1>9, <1>10, <1>11, <1>12, <1>13,
       <1>14, <1>15, <1>16, <1>17, <1>18, <1>19, <1>20, <1>21, <1>22, <1>23, <1>24
       DEF Next, HostTask, MainLoop, Process, Switch

\* No step leaves a target to be applied in the middle of an attempt.
LEMMA TargetStep == ASSUME TypeFlags, NoTargetInAttempt, [Next]_vars PROVE NoTargetInAttempt'
  <1> USE DEF NoTargetInAttempt, Attempting, AttemptStates,
        radio, attempt, setup, disc, context, rest, switchKeeps, connectKeeps, waitKeeps,
        attemptKeeps, quiet, toSwitch, In, Disconnect, EndAttempt, Abandon
  <1> USE DEF history, switchLeaves, stepKeeps, StoreFound, InStep
  <1>1. CASE HostResult
    BY <1>1 DEF HostResult
  <1>2. CASE HostScanEnd
    BY <1>2 DEF HostScanEnd
  <1>3. CASE HostConnect \/ HostConnectFails
    BY <1>3 DEF HostConnect, HostConnectFails
  <1>4. CASE HostDisconnect
    BY <1>4 DEF HostDisconnect, ResetAfterDisconnect
  <1>5. CASE DiscoveryTaskDone \/ Clock
    BY <1>5 DEF DiscoveryTaskDone, Clock, Tick, GateExpires, SetBootReady
  <1>6. CASE ObdStartScan \/ WifiPriorityOn \/ WifiPriorityOff
    BY <1>6 DEF ObdStartScan, WifiPriorityOn, WifiPriorityOff
  <1>7. CASE ApplyDeferred
    BY <1>7 DEF ApplyDeferred
  <1>8. CASE FollowupStep \/ FollowupWaits \/ NotReady
    BY <1>8 DEF FollowupStep, FollowupWaits, NotReady
  <1>9. CASE StartScan \/ CheckScan \/ AwaitScanStop \/ ScanStopped
    BY <1>9 DEF StartScan, CheckScan, AwaitScanStop, ScanStopped
  <1>10. CASE StaleLink \/ Initiate \/ ConnectingIdles
    BY <1>10 DEF StaleLink, Initiate, MayInitiate, ConnectingIdles
  <1>11. CASE InitiateRefused
    BY <1>11 DEF InitiateRefused, MayInitiate, Failed
  <1>12. CASE WaitReadsSuccess
    BY <1>12 DEF WaitReadsSuccess
  <1>13. CASE WaitReadsPending
    BY <1>13 DEF WaitReadsPending, Failed
  <1>14. CASE WaitTakesFailure
    BY <1>14 DEF WaitTakesFailure, Failed
  <1>15. CASE DiscoveryTimesOut \/ PollDiscovery
    BY <1>15 DEF DiscoveryTimesOut, PollDiscovery, StartSubscribing
  <1>16. CASE SpawnDiscovery
    BY <1>16 DEF SpawnDiscovery, Failed
  <1>17. CASE SubscribeTimesOut \/ SubscribeCommit
    BY <1>17 DEF SubscribeTimesOut, SubscribeCommit
  <1>18. CASE SubscribeBegins
    BY <1>18 DEF SubscribeBegins, NotExpired
  <1>21. CASE FollowPointer
    BY <1>21 DEF FollowPointer
  <1>22. CASE StorePointer
    BY <1>22 DEF StorePointer
  <1>23. CASE StoreAgain
    BY <1>23 DEF StoreAgain
  <1>24. CASE Panic
    BY <1>24 DEF Panic
  <1>19. CASE YieldWaits \/ YieldEnds \/ CheckConnected \/ CheckBackoff
    BY <1>19 DEF YieldWaits, YieldEnds, CheckConnected, CheckBackoff, AfterBackoff
  <1>20. CASE UNCHANGED vars
    BY <1>20 DEF vars
  <1> QED
    BY <1>1, <1>2, <1>3, <1>4, <1>5, <1>6, <1>7, <1>8, <1>9, <1>10, <1>11, <1>12, <1>13,
       <1>14, <1>15, <1>16, <1>17, <1>18, <1>19, <1>20, <1>21, <1>22, <1>23, <1>24
       DEF Next, HostTask, MainLoop, Process, Switch

\* No step leaves handles behind on a target that is still to be connected to.
LEMMA CleanStep ==
    ASSUME ~NearbyV1, TypeFlags, GoneIsKnown, NoTargetInAttempt, CleanTarget, [Next]_vars
    PROVE  CleanTarget'
  <1> USE DEF CleanTarget, GoneIsKnown, NoTargetInAttempt, Attempting, AttemptStates, LinkOpen,
        radio, attempt, setup, disc, context, rest, switchKeeps, connectKeeps, waitKeeps,
        attemptKeeps, quiet, toSwitch, In, Disconnect, EndAttempt, Abandon
  <1> USE DEF history, switchLeaves, stepKeeps, StoreFound, InStep
  <1>1. CASE HostResult
    BY <1>1 DEF HostResult
  <1>2. CASE HostScanEnd
    BY <1>2 DEF HostScanEnd
  <1>3. CASE HostConnect \/ HostConnectFails
    BY <1>3 DEF HostConnect, HostConnectFails
  <1>4. CASE HostDisconnect
    BY <1>4 DEF HostDisconnect, ResetAfterDisconnect
  <1>5. CASE DiscoveryTaskDone \/ Clock
    BY <1>5 DEF DiscoveryTaskDone, Clock, Tick, GateExpires, SetBootReady
  <1>6. CASE ObdStartScan \/ WifiPriorityOn \/ WifiPriorityOff
    <2>1. CASE ObdStartScan \/ WifiPriorityOn
      <3>1. UNCHANGED <<link, pc, bleState, connected, shouldConnect, attempt, deferred, setup,
                        disc, late>>
        BY <2>1, Zenon DEF ObdStartScan, WifiPriorityOn
      <3> QED
        BY <3>1
    <2>2. CASE WifiPriorityOff
      <3>1. /\ bleState' = bleState \/ (bleState = "DISCONNECTED" /\ bleState' = "SCANNING")
            /\ UNCHANGED <<link, pc, connected, shouldConnect, attempt, deferred, setup, disc,
                           late>>
        BY <2>2, Zenon DEF WifiPriorityOff
      <3> QED
        BY <3>1
    <2> QED
      BY <1>6, <2>1, <2>2
  <1>7. CASE ApplyDeferred
    BY <1>7 DEF ApplyDeferred
  <1>8. CASE FollowupStep \/ FollowupWaits \/ NotReady
    BY <1>8 DEF FollowupStep, FollowupWaits, NotReady
  <1>9. CASE StartScan \/ CheckScan \/ AwaitScanStop \/ ScanStopped
    <2>1. CASE StartScan
      <3>1. /\ bleState' = bleState \/ (bleState = "DISCONNECTED" /\ bleState' = "SCANNING")
            /\ pc' = "flags"
            /\ UNCHANGED <<link, connected, shouldConnect, attempt, deferred, setup, disc, late>>
        BY <2>1, Zenon DEF StartScan
      <3> QED
        BY <3>1
    <2>2. CASE CheckScan \/ ScanStopped
      BY <2>2 DEF CheckScan, ScanStopped
    <2>3. CASE AwaitScanStop
      <3>1. /\ pc' = "flags"
            /\ UNCHANGED <<link, bleState, connected, shouldConnect, attempt, deferred, setup,
                           disc, late>>
        BY <2>3, Zenon DEF AwaitScanStop
      <3> QED
        BY <3>1
    <2> QED
      BY <1>9, <2>1, <2>2, <2>3
  <1>10. CASE StaleLink \/ Initiate \/ ConnectingIdles
    BY <1>10 DEF StaleLink, Initiate, MayInitiate, ConnectingIdles
  <1>11. CASE InitiateRefused
    BY <1>11 DEF InitiateRefused, MayInitiate, Failed
  <1>12. CASE WaitReadsSuccess
    BY <1>12 DEF WaitReadsSuccess
  <1>13. CASE WaitReadsPending
    BY <1>13 DEF WaitReadsPending, Failed
  <1>14. CASE WaitTakesFailure
    BY <1>14 DEF WaitTakesFailure, Failed
  <1>15. CASE DiscoveryTimesOut \/ PollDiscovery
    BY <1>15 DEF DiscoveryTimesOut, PollDiscovery, StartSubscribing
  <1>16. CASE SpawnDiscovery
    BY <1>16 DEF SpawnDiscovery, Failed
  <1>17. CASE SubscribeTimesOut \/ SubscribeCommit
    BY <1>17 DEF SubscribeTimesOut, SubscribeCommit
  <1>18. CASE SubscribeBegins
    BY <1>18 DEF SubscribeBegins, NotExpired
  <1>21. CASE FollowPointer
    BY <1>21 DEF FollowPointer
  <1>22. CASE StorePointer
    BY <1>22 DEF StorePointer
  <1>23. CASE StoreAgain
    BY <1>23 DEF StoreAgain
  <1>24. CASE Panic
    BY <1>24 DEF Panic
  <1>19. CASE YieldWaits \/ YieldEnds \/ CheckConnected \/ CheckBackoff
    BY <1>19 DEF YieldWaits, YieldEnds, CheckConnected, CheckBackoff, AfterBackoff
  <1>20. CASE UNCHANGED vars
    BY <1>20 DEF vars
  <1> QED
    BY <1>1, <1>2, <1>3, <1>4, <1>5, <1>6, <1>7, <1>8, <1>9, <1>10, <1>11, <1>12, <1>13,
       <1>14, <1>15, <1>16, <1>17, <1>18, <1>19, <1>20, <1>21, <1>22, <1>23, <1>24
       DEF Next, HostTask, MainLoop, Process, Switch


\* Only startAsyncConnect() begins a connection.
LEMMA OnlyInitiates ==
    ASSUME [Next]_vars, link = "down", link' = "initiating"
    PROVE  pc = "switch" /\ bleState = "CONNECTING"
  <1> USE DEF LinkOpen,
        radio, attempt, setup, disc, context, rest, switchKeeps, connectKeeps, waitKeeps,
        attemptKeeps, quiet, toSwitch, In, Disconnect, EndAttempt, Abandon
  <1> USE DEF history, switchLeaves, stepKeeps, StoreFound, InStep
  <1>1. CASE HostResult
    BY <1>1 DEF HostResult
  <1>2. CASE HostScanEnd
    BY <1>2 DEF HostScanEnd
  <1>3. CASE HostConnect \/ HostConnectFails
    BY <1>3 DEF HostConnect, HostConnectFails
  <1>4. CASE HostDisconnect
    BY <1>4 DEF HostDisconnect, ResetAfterDisconnect
  <1>5. CASE DiscoveryTaskDone \/ Clock
    BY <1>5 DEF DiscoveryTaskDone, Clock, Tick, GateExpires, SetBootReady
  <1>6. CASE ObdStartScan \/ WifiPriorityOn \/ WifiPriorityOff
    BY <1>6 DEF ObdStartScan, WifiPriorityOn, WifiPriorityOff
  <1>7. CASE ApplyDeferred
    BY <1>7 DEF ApplyDeferred
  <1>8. CASE FollowupStep \/ FollowupWaits \/ NotReady
    BY <1>8 DEF FollowupStep, FollowupWaits, NotReady
  <1>9. CASE StartScan \/ CheckScan \/ AwaitScanStop \/ ScanStopped
    BY <1>9 DEF StartScan, CheckScan, AwaitScanStop, ScanStopped
  <1>10. CASE StaleLink \/ Initiate \/ ConnectingIdles
    BY <1>10 DEF StaleLink, Initiate, MayInitiate, ConnectingIdles
  <1>11. CASE InitiateRefused
    BY <1>11 DEF InitiateRefused, MayInitiate, Failed
  <1>12. CASE WaitReadsSuccess
    BY <1>12 DEF WaitReadsSuccess
  <1>13. CASE WaitReadsPending
    BY <1>13 DEF WaitReadsPending, Failed
  <1>14. CASE WaitTakesFailure
    BY <1>14 DEF WaitTakesFailure, Failed
  <1>15. CASE DiscoveryTimesOut \/ PollDiscovery
    BY <1>15 DEF DiscoveryTimesOut, PollDiscovery, StartSubscribing
  <1>16. CASE SpawnDiscovery
    BY <1>16 DEF SpawnDiscovery, Failed
  <1>17. CASE SubscribeTimesOut \/ SubscribeCommit
    BY <1>17 DEF SubscribeTimesOut, SubscribeCommit
  <1>18. CASE SubscribeBegins
    BY <1>18 DEF SubscribeBegins, NotExpired
  <1>21. CASE FollowPointer
    BY <1>21 DEF FollowPointer
  <1>22. CASE StorePointer
    BY <1>22 DEF StorePointer
  <1>23. CASE StoreAgain
    BY <1>23 DEF StoreAgain
  <1>24. CASE Panic
    BY <1>24 DEF Panic
  <1>19. CASE YieldWaits \/ YieldEnds \/ CheckConnected \/ CheckBackoff
    BY <1>19 DEF YieldWaits, YieldEnds, CheckConnected, CheckBackoff, AfterBackoff
  <1>20. CASE UNCHANGED vars
    BY <1>20 DEF vars
  <1> QED
    BY <1>1, <1>2, <1>3, <1>4, <1>5, <1>6, <1>7, <1>8, <1>9, <1>10, <1>11, <1>12, <1>13,
       <1>14, <1>15, <1>16, <1>17, <1>18, <1>19, <1>20, <1>21, <1>22, <1>23, <1>24
       DEF Next, HostTask, MainLoop, Process, Switch

---------------------------------------------------------------------------
(* The theorems *)

\* Every variable keeps to its values: among others, the consecutive failures
\* stay below the hard-reset threshold and the attempts of one connection
\* below their limit (ble_connection.cpp:320-325, 413).
THEOREM TypeCorrect == Spec => []TypeOK
  <1>1. TypeInv /\ [Next]_vars => TypeInv'
    BY FlagsStep, ValuesStep, CountersStep DEF TypeInv, TypeOK
  <1>2. TypeInv => TypeOK
    BY DEF TypeInv
  <1> QED
    BY InitTypeInv, <1>1, <1>2, PTL DEF Spec

\* As long as onResult finds the mutex free, connectInProgress_ is never left
\* set outside an attempt, so connectToServer() cannot be locked out by its
\* first guard (ble_connection.cpp:201-203).
THEOREM AttemptIsOwned == NoLateTarget => (Spec => []InProgressOwned)
  <1> SUFFICES ASSUME NoLateTarget PROVE Spec => []InProgressOwned
    OBVIOUS
  <1>1. OwnedInv /\ [Next]_vars => OwnedInv'
    BY FlagsStep, ContendedStep, OwnedStep DEF OwnedInv
  <1>2. OwnedInv => InProgressOwned
    BY DEF OwnedInv
  <1> QED
    BY InitOwnedInv, <1>1, <1>2, PTL DEF Spec

\* Whatever the callbacks do between two steps of the machine, a connection
\* over a live link has its service, its characteristics and its subscription
\* (ble_connection.cpp:564-583).
THEOREM NothingIsMissing == Spec => []ConnectedIsComplete
  <1>1. Init => CompleteInv
    BY InitTypeInv DEF Init, CompleteInv, TypeInv, TypeOK, NoSuccessYet, BuiltUp, Stepping,
                       InStep, ConnectedIsComplete
  <1>2. CompleteInv /\ [Next]_vars => CompleteInv'
    BY ValuesStep, CompleteStep DEF CompleteInv
  <1>3. CompleteInv => ConnectedIsComplete
    BY DEF CompleteInv
  <1> QED
    BY <1>1, <1>2, <1>3, PTL DEF Spec

\* Beyond the timeouts, a subscribe step finds every pointer it follows, at
\* its first and at its second look, unless onDisconnect clears them between
\* its start and that look (ble_connection.cpp:158, 599-730).
THEOREM NoNullHandle == Spec => []StepsHaveHandles
  <1>1. Init => TypeValues /\ Kept
    BY InitTypeInv DEF Init, TypeInv, TypeOK, Kept, Stepping, InStep
  <1>2. TypeValues /\ Kept /\ [Next]_vars => (TypeValues /\ Kept)'
    BY ValuesStep, KeptStep
  <1>3. TypeValues /\ Kept => StepsHaveHandles
    <2> SUFFICES ASSUME TypeValues, Kept, ~EarlyUptime, ~cut PROVE Reads \subseteq handles
      BY DEF StepsHaveHandles
    <2>1. pc \in InStep => SetByNow \subseteq handles
      BY DEF Kept, Stepping
    <2>2. CASE pc = "step"
      <3>1. Needs[subscribeStep] \subseteq Sofar[subscribeStep]
        BY StepTables DEF TypeValues
      <3> QED
        BY <2>1, <2>2, <3>1 DEF Reads, SetByNow, InStep
    <2>3. CASE pc = "again"
      BY <2>1, <2>3 DEF Reads, SetByNow, InStep
    <2>4. CASE pc \notin {"step", "again"}
      BY <2>4 DEF Reads
    <2> QED
      BY <2>2, <2>3, <2>4
  <1> QED
    BY <1>1, <1>2, <1>3, PTL DEF Spec

\* Beyond the timeouts, and while no other V1 is taken for ours, connect()
\* deletes nothing that a pointer still points to (ble_connection.cpp:305),
\* but what a step stored after onDisconnect had cleared it.
THEOREM NothingDangles == Undisturbed => (Spec => NoDanglingHandles)
  <1> SUFFICES ASSUME Undisturbed PROVE Spec => NoDanglingHandles
    OBVIOUS
  <1> DEFINE DanglingInv == /\ TypeFlags /\ OnlyContended /\ GoneIsKnown /\ NoTargetInAttempt
                            /\ ~NearbyV1 => CleanTarget
  <1>1. Init => DanglingInv
    BY InitTypeInv DEF Init, TypeInv, TypeOK, OnlyContended, GoneIsKnown, NoTargetInAttempt,
                       CleanTarget, Stepping, Attempting, AttemptStates, InStep
  <1>2. DanglingInv /\ [Next]_vars => DanglingInv'
    BY FlagsStep, ContendedStep, GoneStep, TargetStep, CleanStep DEF Undisturbed
  <1>3. DanglingInv /\ [Next]_vars
          => [link = "down" /\ link' = "initiating" => handles \subseteq late]_vars
    <2> SUFFICES ASSUME DanglingInv, [Next]_vars, link = "down", link' = "initiating"
                 PROVE  handles \subseteq late
      OBVIOUS
    <2>1. pc = "switch" /\ bleState = "CONNECTING"
      BY OnlyInitiates
    <2>2. CASE ~NearbyV1
      BY <2>1, <2>2 DEF CleanTarget
    <2>3. CASE "disconnect" \notin Contended
      BY <2>3 DEF OnlyContended, GoneIsKnown, LinkOpen
    <2> QED
      BY <2>2, <2>3 DEF Undisturbed
  <1> QED
    BY <1>1, <1>2, <1>3, PTL DEF Spec, NoDanglingHandles
=============================================================================
