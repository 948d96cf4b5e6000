------------------------------- MODULE Device -------------------------------
(***************************************************************************)
(* One slot (cDevice, device_slot.cpp): the recorder asks what board is in *)
(* it, decides by timers and a counter whether it is online or offline for *)
(* good, and keeps the mode of the board as the menu wants it.  Boards are *)
(* plugged in, swapped and pulled out while requests are under way, and    *)
(* requests or answers get lost.                                           *)
(***************************************************************************)
EXTENDS Naturals, Sequences

CONSTANTS
  BoardType,  \* types of boards
  CountOff,   \* COUNT_STABLE_STATUS_OFF
  MaxLosses,  \* bound on the requests a board that is there does not answer
  MaxQueue    \* bound on the requests under way that allows a timer another

ASSUME DeviceAssumption ==
  CountOff \in Nat \ {0} /\ MaxLosses \in Nat /\ MaxQueue \in Nat \ {0}

NoBoard == "none"
Modes == {"regular", "metrological"}

VARIABLES
  board, boardMode,                      \* the board in the slot and its mode
  deviceType, deviceMode, online, stableOnline, counterStatus, countParams,
  pauseUpdateParam,                      \* the steel analysis has paused polling
  requests,                              \* requests and writes under way
  losses,     \* losses so far
  silent      \* ghost: resets in a row with no answer between them

slotVars == <<deviceType, deviceMode, online, stableOnline, counterStatus, countParams>>
envVars == <<board, boardMode, pauseUpdateParam, losses>>
deviceVars == <<slotVars, envVars, requests, silent>>

ReadParam(p) == [op |-> "read", param |-> p]
WriteMode(m) == [op |-> "write", param |-> m]
DeviceRequest ==
  {ReadParam(p) : p \in {"deviceType", "deviceMode", "other"}} \cup {WriteMode(m) : m \in Modes}

Send(r) == requests' = Append(requests, r)

(* The counter only matters up to CountOff. *)
Count(n) == IF n < CountOff THEN n + 1 ELSE n

(* The constructor, whose resetOnline counts once; the line is not yet     *)
(* connected, so that its requests go nowhere.                             *)
DeviceInit ==
  /\ board \in BoardType \cup {NoBoard} /\ boardMode = "regular"
  /\ deviceType = NoBoard /\ deviceMode = "regular"
  /\ online = FALSE /\ counterStatus = 1 /\ stableOnline = (CountOff = 1)
  /\ countParams = 1 /\ pauseUpdateParam = FALSE
  /\ requests = <<>> /\ losses = 0 /\ silent = 1

-----------------------------------------------------------------------------
(* Faulty: what was counted before the board was heard of goes on. *)
SilentCountKept == Count(counterStatus)

SilentCount == IF online THEN 0 ELSE Count(counterStatus)

(* Ten seconds without an answer that was parsed.                          *)
resetOnline ==
  /\ ~pauseUpdateParam
  /\ Len(requests) < MaxQueue
  /\ counterStatus' = SilentCount
  /\ stableOnline' = (SilentCount >= CountOff)
  /\ online' = FALSE
  /\ silent' = Count(silent)
  /\ Send(ReadParam("deviceType"))
  /\ UNCHANGED <<deviceType, deviceMode, countParams, envVars>>

Params == IF deviceType = NoBoard \/ ~online THEN <<"deviceType">> ELSE <<"other", "deviceMode">>

(* Every three seconds the next parameter of the list, which is shorter    *)
(* while the board is unknown.                                             *)
updateStatus ==
  /\ ~pauseUpdateParam
  /\ online \/ ~stableOnline
  /\ Len(requests) < MaxQueue
  /\ LET i == IF countParams >= Len(Params) THEN 0 ELSE countParams
     IN /\ Send(ReadParam(Params[i + 1]))
        /\ countParams' = i + 1
  /\ UNCHANGED <<deviceType, deviceMode, online, stableOnline, counterStatus, envVars, silent>>

(* Faulty: the constant parameters are read without the type. *)
updateConstParamUntyped ==
  /\ ~pauseUpdateParam /\ online /\ deviceType # NoBoard
  /\ Len(requests) < MaxQueue
  /\ Send(ReadParam("other"))
  /\ UNCHANGED <<slotVars, envVars, silent>>

(* Every hundred seconds what does not change, the type among it: this is  *)
(* how a swap of boards is noticed.                                        *)
updateConstParam ==
  /\ ~pauseUpdateParam /\ online /\ deviceType # NoBoard
  /\ Len(requests) < MaxQueue
  /\ Send(ReadParam("deviceType"))
  /\ UNCHANGED <<slotVars, envVars, silent>>

(* Faulty: a mode that differs is left to the next setMode. *)
RewriteModeLater(mode) == requests' = Tail(requests) /\ UNCHANGED deviceMode

RewriteMode(mode) ==
  /\ requests' = IF mode # deviceMode THEN Append(Tail(requests), WriteMode(deviceMode))
                                      ELSE Tail(requests)
  /\ UNCHANGED deviceMode

(* A board answers the first request, and parseWorkerReceive calls         *)
(* setOnline and parseDeviceParam, which then finds the board online.      *)
parseDeviceParam ==
  /\ requests # <<>> /\ Head(requests).op = "read" /\ board # NoBoard
  /\ online' = TRUE /\ silent' = 0
  /\ counterStatus' = Count(counterStatus)
  /\ stableOnline' = TRUE
  /\ deviceType' = IF Head(requests).param = "deviceType" THEN board ELSE deviceType
  /\ IF Head(requests).param = "deviceMode"
     THEN RewriteMode(boardMode)
     ELSE requests' = Tail(requests) /\ UNCHANGED deviceMode
  /\ UNCHANGED <<countParams, envVars>>

(* Writes are not acknowledged. *)
BoardTakesMode ==
  /\ requests # <<>> /\ Head(requests).op = "write" /\ board # NoBoard
  /\ boardMode' = Head(requests).param
  /\ requests' = Tail(requests)
  /\ UNCHANGED <<slotVars, board, pauseUpdateParam, losses, silent>>

NoAnswer ==
  /\ requests # <<>>
  /\ IF board = NoBoard THEN UNCHANGED losses
     ELSE losses < MaxLosses /\ losses' = losses + 1
  /\ requests' = Tail(requests)
  /\ UNCHANGED <<slotVars, board, boardMode, pauseUpdateParam, silent>>

(* What updateDevicesComplect takes the slot for. *)
Known == IF online \/ ~stableOnline THEN deviceType ELSE NoBoard

(* A channel, relay or steel input of the board is answered: setOnline     *)
(* only.  They are polled while updateDevicesComplect counts on the board. *)
setOnline ==
  /\ board # NoBoard /\ Known # NoBoard
  /\ online' = TRUE /\ silent' = 0
  /\ UNCHANGED <<deviceType, deviceMode, stableOnline, counterStatus, countParams,
                 envVars, requests>>

(* The diagnostics page or the way out of the menu: cDevice::setMode, for  *)
(* all devices.                                                            *)
setMode(m) ==
  /\ Len(requests) < MaxQueue
  /\ IF deviceMode # m /\ online
     THEN deviceMode' = m /\ Send(WriteMode(m))
     ELSE UNCHANGED <<deviceMode, requests>>
  /\ UNCHANGED <<deviceType, online, stableOnline, counterStatus, countParams, board,
                 boardMode, pauseUpdateParam, losses, silent>>

(* cDevice::pause, from the steel analysis of another slot. *)
pause ==
  /\ pauseUpdateParam' = ~pauseUpdateParam
  /\ UNCHANGED <<slotVars, board, boardMode, losses, requests, silent>>

Swap ==
  /\ \E b \in (BoardType \cup {NoBoard}) \ {board} : board' = b
  /\ boardMode' = "regular"
  /\ UNCHANGED <<slotVars, pauseUpdateParam, losses, requests, silent>>

DeviceNext ==
  \/ resetOnline \/ updateStatus \/ updateConstParam
  \/ parseDeviceParam \/ BoardTakesMode \/ NoAnswer \/ setOnline
  \/ (\E m \in Modes : setMode(m)) \/ pause \/ Swap

DeviceSpec == DeviceInit /\ [][DeviceNext]_deviceVars

(* The timers and the line run.  A timer that finds the line full comes    *)
(* again, so that it is not kept out for ever.  Answers restart the timer  *)
(* of resetOnline: it is only certain to run off without them.             *)
DeviceFairSpec ==
  /\ DeviceSpec
  /\ SF_deviceVars(resetOnline /\ (board = NoBoard \/ ~online))
  /\ SF_deviceVars(updateStatus) /\ SF_deviceVars(updateConstParam)
  /\ WF_deviceVars(parseDeviceParam) /\ WF_deviceVars(BoardTakesMode)
  /\ WF_deviceVars(NoAnswer)

-----------------------------------------------------------------------------

(* A slot is given up only after CountOff periods in a row without any     *)
(* answer, although one counter serves both directions and answers of      *)
(* channels bypass it (parseDeviceParam, resetOnline).                     *)
OfflineMeansSilent == stableOnline /\ ~online => silent = CountOff

(* When the boards are no longer moved and polling is not paused, the      *)
(* recorder ends up knowing what is in the slot, nothing included,         *)
(* whatever it took it for and whatever is still under way (resetOnline,   *)
(* updateStatus, updateConstParam, parseDeviceParam).                      *)
BoardRecognized ==
  \A b \in BoardType \cup {NoBoard} :
    <>[](board = b /\ ~pauseUpdateParam) => <>[](Known = b)

(* The board ends up in the mode the recorder keeps for it, also when it   *)
(* restarted or a write was lost (setMode, and parseDeviceParam, which     *)
(* writes the mode again when the board reports another).                  *)
ModeRestored ==
  \A m \in Modes :
    <>[](board # NoBoard /\ Known = board /\ online /\ ~pauseUpdateParam /\ deviceMode = m)
       => <>[](boardMode = m)
=============================================================================
