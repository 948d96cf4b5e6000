----------------------------- MODULE SoftUpdate -----------------------------
(***************************************************************************)
(* Updating the firmware of a board from the menu (menu.cpp): dMenu asks   *)
(* the worker to write updateSoftware, waits five seconds, opens the       *)
(* serial port the worker has given up, sends the file line by line and    *)
(* gives the line back.  Composes Worker with the menu and the board's     *)
(* boot loader.                                                            *)
(*                                                                         *)
(* Menu and parser share the GUI thread: a menu step happens only while    *)
(* that thread does nothing else (GuiIdle).                                *)
(***************************************************************************)
EXTENDS Worker

CONSTANTS
  Lines,   \* lines of the firmware file
  Reclick  \* the operator may reopen the page of the board during an update

ASSUME SoftUpdateAssumption == Lines \in Nat \ {0} /\ Reclick \in BOOLEAN

VARIABLES
  button,    \* bUpdateStart is enabled
  shots,     \* pending singleShot(5000) calls of startSoftUpdate
  timer,     \* timerSoftUpdate
  serial,    \* the QSerialPort m_serial points to
  orphan,    \* a port that is open though m_serial points elsewhere
  closing,   \* closeSerialPort is about to emit signalRestartLocalModbus
  line,      \* lines read from the file and sent
  boot,      \* the board runs its boot loader
  got,       \* lines of this session the board has accepted
  wire,      \* what travels between flasher and board
  mishap     \* ghost: a line was rejected or the port could not be reopened

menuVars == <<button, shots, timer, serial, orphan, closing, line>>
boardVars == <<boot, got, wire>>
suVars == <<vars, menuVars, boardVars, mishap>>

GuiIdle == ~parsing /\ rpc = "idle" /\ ~closing

SUInit ==
  /\ Init
  /\ button = TRUE /\ shots = 0 /\ timer = "none" /\ serial = "none"
  /\ orphan = FALSE /\ closing = FALSE /\ line = 0
  /\ boot = FALSE /\ got = 0 /\ wire = "none" /\ mishap = FALSE

-----------------------------------------------------------------------------
(* The menu.                                                               *)

(* on_bUpdateStart_clicked.  If the file does not open only the button     *)
(* changes.  A new timerSoftUpdate replaces the old one.                   *)
ClickStart ==
  /\ GuiIdle /\ button
  /\ button' = FALSE
  /\ \/ UNCHANGED <<vars, shots, timer, line>>
     \/ /\ getTransSlot("updateSoftware")
        /\ shots' = shots + 1
        /\ timer' = "stopped"
        /\ line' = 0
  /\ UNCHANGED <<serial, orphan, closing, boardVars, mishap>>

(* findUpdateFales enables the button whenever the page of a board opens. *)
OpenDevicePage ==
  /\ GuiIdle /\ ~button
  /\ Reclick \/ (shots = 0 /\ serial = "none")
  /\ button' = TRUE
  /\ UNCHANGED <<vars, shots, timer, serial, orphan, closing, line, boardVars, mishap>>

(* sendFile sends the next line, or closes everything after the last one. *)
SendFile ==
  IF line < Lines
  THEN /\ line' = line + 1 /\ wire' = "line"
       /\ UNCHANGED <<timer, serial, closing>>
  ELSE /\ serial' = "none" /\ timer' = "none" /\ closing' = TRUE
       /\ wire' = "none"
       /\ UNCHANGED line

(* Faulty: nothing ends a session the board does not answer in. *)
startSoftUpdateUntimed(opened) ==
  /\ GuiIdle /\ shots > 0 /\ Settled
  /\ opened => ~orphan /\ serial # "open"
  /\ shots' = shots - 1
  /\ orphan' = (orphan \/ serial = "open")
  /\ got' = 0
  /\ IF opened
     THEN /\ line' = 1 /\ wire' = "line" /\ serial' = "open"
     ELSE /\ serial' = "failed" /\ UNCHANGED <<line, wire>>
  /\ UNCHANGED <<vars, button, closing, timer, boot, mishap>>

(* Five seconds after the click, that is with the worker done (Settled).   *)
(* A port that is open already, under whatever pointer, cannot be opened   *)
(* again.  Starting a deleted timer is undefined and not followed.         *)
startSoftUpdate(opened) ==
  /\ GuiIdle /\ shots > 0 /\ Settled
  /\ timer # "none"
  /\ opened => ~orphan /\ serial # "open"
  /\ shots' = shots - 1
  /\ orphan' = (orphan \/ serial = "open")
  /\ got' = 0
  /\ timer' = "running"
  /\ serial' = IF opened THEN "open" ELSE "failed"
  /\ IF opened THEN line' = 1 /\ wire' = "line" ELSE UNCHANGED <<line, wire>>
  /\ UNCHANGED <<vars, button, closing, boot, mishap>>

(* Faulty: any answer brings the next line. *)
readDataAnyAnswer ==
  /\ GuiIdle /\ serial = "open" /\ wire \in {"ok", "bad"}
  /\ SendFile
  /\ UNCHANGED <<vars, button, shots, orphan, boot, got, mishap>>

(* readData: the next line after 'O', the last one again after anything    *)
(* else.  sendArray refers to a buffer of a call that has returned, so     *)
(* what is sent again is the line or not.                                  *)
readData ==
  /\ GuiIdle /\ serial = "open"
  /\ \/ /\ wire = "ok"
        /\ SendFile
        /\ UNCHANGED mishap
     \/ /\ wire = "bad"
        /\ wire' \in {"line", "junk"}
        /\ mishap' = TRUE
        /\ UNCHANGED <<timer, serial, closing, line>>
  /\ UNCHANGED <<vars, button, shots, orphan, boot, got>>

(* Faulty: the port is left open. *)
timeoutUnclosed ==
  /\ GuiIdle /\ timer = "running" /\ wire \notin {"ok", "bad"}
  /\ timer' = "none" /\ closing' = TRUE /\ wire' = "none"
  /\ UNCHANGED <<vars, button, shots, serial, orphan, line, boot, got, mishap>>

(* closeSerialPort on the timeout: ten seconds without an answer. *)
timeout ==
  /\ GuiIdle /\ timer = "running" /\ wire \notin {"ok", "bad"}
  /\ timer' = "none" /\ serial' = "none" /\ closing' = TRUE /\ wire' = "none"
  /\ UNCHANGED <<vars, button, shots, orphan, line, boot, got, mishap>>

(* slotRestartModbus, called directly at the end of closeSerialPort. *)
RestartLocalModbus ==
  \/ \E ok \in BOOLEAN :
       /\ closing /\ RestartConnect(ok)
       /\ closing' = FALSE
       /\ mishap' = (mishap \/ ~ok)
       /\ UNCHANGED <<button, shots, timer, serial, orphan, line, boardVars>>
  \/ RestartUnpause /\ UNCHANGED <<menuVars, boardVars, mishap>>

-----------------------------------------------------------------------------
(* The board: in its boot loader it accepts or rejects a line, and runs    *)
(* the new firmware after the last one; it may also stay silent.           *)
BoardAnswers ==
  /\ wire \in {"line", "junk"} /\ boot
  /\ \/ /\ wire = "line"
        /\ wire' = "ok" /\ got' = got + 1
        /\ boot' = (got' # Lines)
     \/ wire' \in {"bad", "none"} /\ UNCHANGED <<boot, got>>
  /\ UNCHANGED <<vars, menuVars, mishap>>

(* A successful write of updateSoftware puts the board in its boot loader. *)
WorkerRuns ==
  /\ WorkerStep
  /\ boot' = (boot \/ (wpc = "flash" /\ port' = "closed"))
  /\ UNCHANGED <<menuVars, got, wire, mishap>>

ParserRuns ==
  /\ Parse /\ ~closing
  /\ UNCHANGED <<menuVars, boardVars, mishap>>

Request ==
  /\ \E kind \in {"read", "write"} : getTransSlot(kind)
  /\ UNCHANGED <<menuVars, boardVars, mishap>>

Start == \E opened \in BOOLEAN : startSoftUpdate(opened)

SUNext ==
  \/ ClickStart \/ OpenDevicePage \/ Start \/ readData \/ timeout
  \/ RestartLocalModbus \/ BoardAnswers \/ WorkerRuns \/ ParserRuns \/ Request

(* Timers expire and the threads run; the board and the operator are free  *)
(* to do nothing.  Menu and parser take turns on the GUI thread, and the   *)
(* worker and the parser on mQTr, hence strong fairness.                   *)
SUFairness ==
  /\ SF_suVars(Start) /\ SF_suVars(readData) /\ SF_suVars(timeout)
  /\ WF_suVars(RestartLocalModbus)
  /\ SF_suVars(WorkerRuns)
  /\ WF_suVars(ParserRuns)

SUSpec == SUInit /\ [][SUNext]_suVars

SUFairSpec == SUSpec /\ SUFairness

-----------------------------------------------------------------------------

(* While the flasher holds the serial port the worker has no exchange on   *)
(* the line: the pause is on before flashing starts and until it ended.    *)
FlasherAlone == serial = "open" \/ orphan => wpc \notin {"bus", "flash"}

(* When the line is given back the worker has nothing in hand, so that     *)
(* reopening the port cannot pull it away under an exchange.               *)
SettledAtClose == closing \/ serial # "none" => Settled /\ pause

(* The board accepts the lines of the file one by one: the flasher never   *)
(* runs ahead of it, not even after a rejected line.                       *)
LinesInOrder ==
  /\ wire \in {"line", "junk", "bad"} => line = got + 1
  /\ wire = "ok" => line = got

(* A pause ends: the recorder reads its boards again after every update,   *)
(* completed, refused by the board or unanswered - unless a line was       *)
(* rejected (its repetition may never be acceptable) or the port could not *)
(* be reopened.                                                            *)
LineReturned == pause ~> ~pause \/ mishap
=============================================================================
