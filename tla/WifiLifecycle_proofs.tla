------------------------ MODULE WifiLifecycle_proofs ------------------------
(***************************************************************************)
(* The radio does what the service believes, for any networks, any number  *)
(* of failures before the service gives up, and any number of requests.    *)
(*                                                                         *)
(* RadioMatches is not inductive.  A stop takes things down in phases and  *)
(* only says "off" at the end, so what each phase has taken down has to    *)
(* stay down (StopProgress), although the pass in which the stop began may *)
(* still run its last block (PassMatches).  That a radio which is off has  *)
(* no link is not a matter of the mode alone: a link and what the driver   *)
(* joins again belong together, and need the station side (LinkIsTarget).  *)
(***************************************************************************)
EXTENDS WifiLifecycle, TLAPS

\* The link is to the network the driver joins, and a target needs the station
\* side of the radio.
LinkIsTarget ==
    /\ station \in {None, target}
    /\ target # None => mode \in StaModes

\* The target of an attempt that is timed is the network it is for.
TimedIsPending == started => target \in {pending, None}

\* What the phases of a stop that are over have taken down stays down.
StopProgress ==
    /\ stopPhase \in {"DISCONNECT_STA", "DISABLE_AP", "MODE_OFF", "FINALIZE"} => ~server
    /\ stopPhase \in {"MODE_OFF", "FINALIZE"} => ~apEnabled
    /\ stopPhase = "FINALIZE" => mode = "OFF"

\* The pages are mounted wherever the service has run; of a pass, only the last
\* block is reached after a stop has begun.
PassMatches ==
    /\ setup # "OFF" => mounts
    /\ setup = "OFF" => pc \in {"between", "off"}
    /\ setup = "STOPPING" => pc \in {"between", "status", "off"}

Inv == TypeOK /\ LinkIsTarget /\ TimedIsPending /\ StopProgress /\ PassMatches /\ RadioMatches

USE DEF At, Goto, Running

\* The initial states.
LEMMA InitInv == Init => Inv
<1> SUFFICES ASSUME Init PROVE Inv
    OBVIOUS
<1>1. TypeFlags
      BY Zenon DEF Init, TypeFlags
<1>2. TypeOK
      BY <1>1, MaxFailuresAssumption, RequestsAssumption
      DEF Init, TypeOK, TypeValues, ApModes, StaModes, StopPhases, ConnectPhases, ClientStates,
          Blocks
<1>3. LinkIsTarget /\ TimedIsPending /\ StopProgress /\ PassMatches /\ RadioMatches
      BY DEF Init, LinkIsTarget, TimedIsPending, StopProgress, PassMatches, RadioMatches, ApModes,
             IsJoined
<1> QED
      BY <1>2, <1>3 DEF Inv

---------------------------------------------------------------------------
(* The steps *)

\* The flags stay Boolean: each is only ever set, cleared, kept, or given the
\* truth of a condition, by whatever action.
LEMMA FlagsStep == ASSUME TypeFlags, Next PROVE TypeFlags'
<1> USE DEF TypeFlags, Next, Process, driver, stopping, memory, activity, join, settings, boot
<1> USE DEF StationJoins, StationDrops, CooldownLapses, AutoStart, StartService, StartWithoutPages,
            EnableAp, StartStation, ConnectTo, UserStarts
<1> USE DEF UserStops, StopGracefully, ForgetPending, PowerOff, StopNow, Finalize, StopStep,
            StopHttpServer, DisconnectSta, DisableAp, ModeOff, StopFinishes
<1> USE DEF MemoryGuard, DropApForMemory, EmergencyStop, RetireAp, StopWithoutClients, CountClients
<1> USE DEF WebRequest, WebIdle, WebConnect, WebDisconnect, WebEnable, WebDisable, LeaveNetwork,
            Reachable, ConnectStep, ConnectWaits, AutoTimeout, NoTimeout
<1> USE DEF StatusCheck, NoStatus, Connects, ConnectFails, LosesLink, GivesUp, Reconnects
<1>1. server' \in BOOLEAN
      BY Zenon
<1>2. apEnabled' \in BOOLEAN
      BY Zenon
<1>3. hadSta' \in BOOLEAN
      <2>1. (mode \in StaModes) \in BOOLEAN
            OBVIOUS
      <2> QED
            BY <2>1, Zenon
<1>4. hadAp' \in BOOLEAN
      BY Zenon
<1>5. autoStarted' \in BOOLEAN
      BY Zenon
<1>6. autoDone' \in BOOLEAN
      BY Zenon
<1>7. lowSince' \in BOOLEAN
      BY Zenon
<1>8. cooldown' \in BOOLEAN
      BY Zenon
<1>9. apClients' \in BOOLEAN
      BY Zenon
<1>10. ui' \in BOOLEAN
      BY Zenon
<1>11. started' \in BOOLEAN
      BY Zenon
<1>12. persist' \in BOOLEAN
      BY Zenon
<1>13. enabled' \in BOOLEAN
      BY Zenon
<1>14. cancelled' \in BOOLEAN
      BY Zenon
<1>15. mounts' \in BOOLEAN
      BY Zenon
<1> QED
      BY <1>1, <1>2, <1>3, <1>4, <1>5, <1>6, <1>7, <1>8, <1>9, <1>10, <1>11, <1>12, <1>13,
         <1>14, <1>15, Zenon

\* Everything else of the invariant: each action keeps it.
LEMMA StepInv == ASSUME Inv, Next PROVE Inv'
<1> USE MaxFailuresAssumption, RequestsAssumption, NetworksAssumption
    DEF TypeOK, TypeValues, ApModes, StaModes, StopPhases, ConnectPhases, ClientStates, Blocks,
        LinkIsTarget, TimedIsPending, StopProgress, PassMatches, RadioMatches, Inv, IsJoined
<1>0. TypeFlags'
      BY FlagsStep
<1>1. CASE StationJoins
      BY <1>0, <1>1 DEF StationJoins, stopping, join, settings, boot
<1>2. CASE StationDrops
      BY <1>0, <1>2 DEF StationDrops, stopping, join, settings, boot
<1>3. CASE CooldownLapses
      BY <1>0, <1>3 DEF CooldownLapses, driver, stopping, join, settings, boot
<1>4. CASE AutoStart
      BY <1>0, <1>4
      DEF AutoStart, StartService, StartWithoutPages, EnableAp, StartStation, ConnectTo, SwitchMode,
          UseApSta, driver, stopping, join, settings, boot
<1>5. CASE UserStarts
      BY <1>0, <1>5
      DEF UserStarts, StartService, StartWithoutPages, StartStation, ConnectTo, SwitchMode,
          UseApSta, stopping, settings, boot
<1>6. CASE UserStops
      BY <1>0, <1>6 DEF UserStops, StopGracefully, ForgetPending, driver, settings, boot
<1>7. CASE PowerOff
      BY <1>0, <1>7
      DEF PowerOff, StopNow, Finalize, ForgetPending, SwitchMode, driver, stopping, join, settings,
          boot
<1>8. CASE StopStep
      <2> USE DEF StopPhase, SwitchMode, driver, join, settings, boot
      <2>1. CASE StopHttpServer
            BY <1>0, <1>8, <2>1 DEF StopStep, StopHttpServer, StopFinishes
      <2>2. CASE DisconnectSta
            BY <1>0, <1>8, <2>2 DEF StopStep, DisconnectSta, StopFinishes, Leave
      <2>3. CASE DisableAp
            BY <1>0, <1>8, <2>3 DEF StopStep, DisableAp, StopFinishes, WithoutAp
      <2>4. CASE ModeOff
            BY <1>0, <1>8, <2>4 DEF StopStep, ModeOff, StopFinishes
      <2>5. CASE StopFinishes
            BY <1>0, <2>5 DEF StopFinishes, Finalize, ForgetPending
      <2> QED
            BY <1>8, <2>1, <2>2, <2>3, <2>4, <2>5 DEF StopStep
<1>9. CASE MemoryGuard
      BY <1>0, <1>9 DEF MemoryGuard, driver, stopping, join, settings, boot
<1>10. CASE DropApForMemory
      BY <1>0, <1>10
      DEF DropApForMemory, DualRadio, ApActive, WithoutAp, SwitchMode, stopping, settings, boot
<1>11. CASE EmergencyStop
      BY <1>0, <1>11
      DEF EmergencyStop, StopNow, Finalize, ForgetPending, SwitchMode, settings, boot
<1>12. CASE RetireAp
      BY <1>0, <1>12
      DEF RetireAp, ApActive, WithoutAp, ConnectTo, UseApSta, stopping, join, settings, boot
<1>13. CASE StopWithoutClients
      BY <1>0, <1>13 DEF StopWithoutClients, StopGracefully, ForgetPending, driver, settings, boot
<1>14. CASE CountClients
      BY <1>0, <1>14 DEF CountClients, driver, stopping, join, settings, boot
<1>15. CASE WebRequest
      <2> USE DEF WebRequest, stopping, boot
      <2>1. CASE WebConnect
            BY <1>0, <1>15, <2>1 DEF WebConnect, ConnectTo, driver, settings
      <2>2. CASE WebDisconnect
            BY <1>0, <1>15, <2>2 DEF WebDisconnect, LeaveNetwork, ForgetPending, Leave, settings
      <2>3. CASE WebEnable
            BY <1>0, <1>15, <2>3 DEF WebEnable, ConnectTo, driver
      <2>4. CASE WebDisable
            BY <1>0, <1>15, <2>4 DEF WebDisable, LeaveNetwork, ForgetPending
      <2> QED
            BY <1>15, <2>1, <2>2, <2>3, <2>4
<1>16. CASE WebIdle
      BY <1>0, <1>16 DEF WebIdle, driver, stopping, join, settings, boot
<1>17. CASE ConnectStep
      <2> USE DEF ConnectStep, driver, stopping, settings, boot
      <2>1. CASE PrepareBesideAp \/ PrepareOff \/ EnableApSta
            BY <1>0, <1>17, <2>1
            DEF PrepareBesideAp, PrepareOff, EnableApSta, ApActive, SwitchMode
      <2>2. CASE OffSettles \/ ApStaSettles
            BY <1>0, <1>17, <2>2 DEF OffSettles, ApStaSettles
      <2>3. CASE BeginConnect
            BY <1>0, <1>17, <2>3 DEF BeginConnect
      <2> QED
            BY <1>17, <2>1, <2>2, <2>3 DEF ConnectMoves
<1>18. CASE ConnectWaits
      BY <1>0, <1>18 DEF ConnectWaits, driver, stopping, join, settings, boot
<1>19. CASE AutoTimeout
      BY <1>0, <1>19 DEF AutoTimeout, StopGracefully, ForgetPending, driver, settings, boot
<1>20. CASE NoTimeout
      BY <1>0, <1>20 DEF NoTimeout, driver, stopping, join, settings, boot
<1>21. CASE StatusCheck
      <2> USE DEF StatusCheck, Attempting, Settling, ForgetPending, driver, stopping, settings, boot
      <2>1. CASE Connects
            BY <1>0, <1>21, <2>1 DEF Connects
      <2>2. CASE ConnectFails
            BY <1>0, <1>21, <2>2 DEF ConnectFails, Leave
      <2>3. CASE LosesLink
            BY <1>0, <1>21, <2>3 DEF LosesLink
      <2>4. CASE GivesUp
            BY <1>0, <1>21, <2>4 DEF GivesUp, MayReconnect, join
      <2>5. CASE Reconnects
            BY <1>0, <1>21, <2>5 DEF Reconnects, MayReconnect, UseApSta, ConnectTo
      <2> QED
            BY <1>21, <2>1, <2>2, <2>3, <2>4, <2>5
<1>22. CASE NoStatus
      BY <1>0, <1>22 DEF NoStatus, driver, stopping, join, settings, boot
<1> QED
      BY <1>1, <1>2, <1>3, <1>4, <1>5, <1>6, <1>7, <1>8, <1>9, <1>10, <1>11, <1>12, <1>13, <1>14,
         <1>15, <1>16, <1>17, <1>18, <1>19, <1>20, <1>21, <1>22
      DEF Next, Process

\* A step that changes nothing.
LEMMA StutterInv == ASSUME Inv, UNCHANGED vars PROVE Inv'
BY DEF vars, driver, stopping, memory, activity, join, settings, boot, Inv, TypeOK, TypeFlags,
       TypeValues, LinkIsTarget, TimedIsPending, StopProgress, PassMatches, RadioMatches, IsJoined

\* startSetupMode(), stopSetupMode(), process(): in every order of starts,
\* stops, requests and shortages, every variable keeps its type and the
\* inductive invariant holds.
THEOREM InvHolds == Spec => []Inv
<1>1. Inv /\ [Next]_vars => Inv'
      BY StepInv, StutterInv
<1> QED
      BY <1>1, InitInv, PTL DEF Spec

\* A service that is off has a radio that is off, with no server and nothing
\* about to start; one that is on serves its pages, and an AP it offers is up.
THEOREM RadioFollowsService == Spec => []RadioMatches
<1>1. Inv => RadioMatches
      BY DEF Inv
<1> QED
      BY <1>1, InvHolds, PTL

---------------------------------------------------------------------------
(* What is written to the settings *)

\* Only two steps write the saved network: forgetting it, and a connection that
\* came up, which is to the network of the attempt.
LEMMA SavedStep == ASSUME Inv, Next PROVE saved' \in {saved, None, station}
<1>1. CASE WebDisable
      BY <1>1 DEF WebDisable
<1>2. CASE Connects
      <2>1. started /\ station # None
            BY <1>2 DEF Connects, Attempting, Settling, IsJoined
      <2>2. station = target /\ target \in {pending, None}
            BY <2>1 DEF Inv, LinkIsTarget, TimedIsPending
      <2>3. saved' \in {saved, pending}
            BY <1>2 DEF Connects, settings
      <2> QED
            BY <2>1, <2>2, <2>3
<1>3. CASE ~WebDisable /\ ~Connects
      <2> USE DEF settings
      <2>1. CASE StationJoins \/ StationDrops \/ CooldownLapses
            BY <2>1 DEF StationJoins, StationDrops, CooldownLapses
      <2>2. CASE AutoStart \/ UserStarts \/ UserStops \/ PowerOff
            BY <2>2
            DEF AutoStart, UserStarts, UserStops, PowerOff, StartService, StartWithoutPages,
                EnableAp
      <2>3. CASE StopStep
            BY <2>3 DEF StopStep, StopFinishes
      <2>4. CASE MemoryGuard \/ DropApForMemory \/ EmergencyStop
            BY <2>4 DEF MemoryGuard, DropApForMemory, EmergencyStop
      <2>5. CASE RetireAp \/ StopWithoutClients \/ CountClients
            BY <2>5 DEF RetireAp, StopWithoutClients, CountClients
      <2>6. CASE WebRequest \/ WebIdle
            BY <1>3, <2>6 DEF WebRequest, WebIdle, WebConnect, WebDisconnect, WebEnable
      <2>7. CASE ConnectStep \/ ConnectWaits \/ AutoTimeout \/ NoTimeout \/ NoStatus
            BY <2>7 DEF ConnectStep, ConnectWaits, AutoTimeout, NoTimeout, NoStatus
      <2>8. CASE StatusCheck
            BY <1>3, <2>8 DEF StatusCheck, ConnectFails, LosesLink, GivesUp, Reconnects
      <2> QED
            BY <2>1, <2>2, <2>3, <2>4, <2>5, <2>6, <2>7, <2>8 DEF Next, Process
<1> QED
      BY <1>1, <1>2, <1>3

\* checkWifiClientStatus(): credentials that did not work never replace the
\* saved ones, whatever was joined, retried or switched in between.
THEOREM OnlyJoinedIsSaved == Spec => SavedWorked
<1>1. Inv /\ [Next]_vars => [saved' \in {saved, None, station}]_saved
      BY SavedStep DEF vars, settings
<1> QED
      BY <1>1, InvHolds, PTL DEF Spec, SavedWorked
=============================================================================
