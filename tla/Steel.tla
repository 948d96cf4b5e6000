-------------------------------- MODULE Steel --------------------------------
(***************************************************************************)
(* Steel analysis (Steel/steel.cpp): each input of a steel board (cSteel)  *)
(* follows the status its board reports through one measurement of a melt, *)
(* reads and archives the result, and confirms it to the board, which      *)
(* keeps the result until then.  All inputs share the pause of the boards  *)
(* (MainWindow::devicesPause), which also decides whether a board that was *)
(* pulled out is noticed at all (Device).                                  *)
(*                                                                         *)
(* A request is answered and its answer parsed in one step: update only    *)
(* reads what was parsed and appends to the line, so that an update        *)
(* between the two might as well come first.  The arrays of the graph, the *)
(* parameters of the technology and the diagnostics page, which polls      *)
(* other registers for as long as it is open, are left out.                *)
(***************************************************************************)
EXTENDS Naturals, Sequences

CONSTANTS
  Input,      \* the inputs
  Oxygen,     \* those with an oxygen sensor: technology->COH # 0
  MaxMelts,   \* bound on the melts, of all inputs
  MaxLosses,  \* bound on the requests a board that is there does not answer
  Backlog     \* bound on the requests under way that allows a timer another

ASSUME SteelAssumption ==
  Oxygen \subseteq Input /\ MaxMelts \in Nat /\ MaxLosses \in Nat /\ Backlog \in Nat

(* "on" stands for ESCS_ON, ESCS_BREAK and the errors of the sensors,      *)
(* "found" for the four statuses that end a measurement, "error" for       *)
(* ESCS_CN_ERR, which update has no branch for.                            *)
Status == {"off", "on", "measure", "found", "error"}

VARIABLES
  present, board, melt,       \* the board: there or not, its status, the melt it is at
  melts,                      \* the melts so far
  enable, state, status,      \* of the objects cSteel
  allVectorsReceived, fConfirm,
  activity, carbon,           \* the result read, as the melt it is of; 0 is NAN
  paused,                     \* cDevice::pauseUpdateParam of all boards
  line,                       \* requests and writes of each input under way
  archive,                    \* records signalArchive has written, of each input
  losses, lost                \* losses so far; ghost: this result has lost a request

boardVars == <<present, board, melt, melts>>
resultVars == <<allVectorsReceived, fConfirm, activity, carbon, archive>>
vars == <<boardVars, enable, state, status, resultVars, paused, line, lost, losses>>

(* The boards are there or not; no object is enabled yet. *)
Init ==
  /\ present \in [Input -> BOOLEAN]
  /\ board = [c \in Input |-> "on"] /\ melt = [c \in Input |-> 0] /\ melts = 0
  /\ enable = [c \in Input |-> FALSE]
  /\ state = [c \in Input |-> "wait"] /\ status = [c \in Input |-> "off"]
  /\ allVectorsReceived = [c \in Input |-> FALSE]
  /\ fConfirm = [c \in Input |-> FALSE]   \* not initialised, but set before it is read
  /\ activity = [c \in Input |-> 0] /\ carbon = [c \in Input |-> 0]
  /\ paused = FALSE
  /\ line = [c \in Input |-> <<>>] /\ archive = [c \in Input |-> <<>>]
  /\ losses = 0 /\ lost = [c \in Input |-> FALSE]

-----------------------------------------------------------------------------
(* cSteel::update.                                                         *)

Poll == <<"status">>

(* VerificationRead: the status confirmed to the board, which only the one  *)
(* that ends a measurement makes drop something.                            *)
Verify(s) == IF s = "found" THEN <<"verify">> ELSE <<>>

(* Faulty: what stands for the whole result is asked for first. *)
ResultsCarbonFirst(c) == IF c \in Oxygen THEN <<"carbon", "activity">> ELSE <<"carbon">>

(* The result is asked for once, with the carbon content last. *)
Results(c) == IF c \in Oxygen THEN <<"activity", "carbon">> ELSE <<"carbon">>

Send(c, requests) == line' = [line EXCEPT ![c] = @ \o requests]

Enter(c, s) == state' = [state EXCEPT ![c] = s]

StartMeasure(c) ==
  /\ state[c] = "wait" /\ status[c] = "measure"
  /\ Enter(c, "measure")
  /\ paused' = TRUE
  /\ Send(c, Poll \o Verify(status[c]))
  /\ UNCHANGED <<resultVars, lost>>

(* Faulty: the pause is left to the end of READY. *)
FinishPaused(c) ==
  /\ state[c] = "measure" /\ status[c] = "found"
  /\ Enter(c, "ready")
  /\ allVectorsReceived' = [allVectorsReceived EXCEPT ![c] = FALSE]
  /\ fConfirm' = [fConfirm EXCEPT ![c] = FALSE]
  /\ activity' = [activity EXCEPT ![c] = 0]
  /\ carbon' = [carbon EXCEPT ![c] = 0]
  /\ lost' = [lost EXCEPT ![c] = FALSE]
  /\ Send(c, Poll \o Results(c) \o Verify("measure"))
  /\ UNCHANGED <<archive, paused>>

(* Found or not, the measurement is over: read the result and resume. *)
Finish(c) ==
  /\ state[c] = "measure" /\ status[c] = "found"
  /\ Enter(c, "ready")
  /\ allVectorsReceived' = [allVectorsReceived EXCEPT ![c] = FALSE]
  /\ fConfirm' = [fConfirm EXCEPT ![c] = FALSE]
  /\ activity' = [activity EXCEPT ![c] = 0]
  /\ carbon' = [carbon EXCEPT ![c] = 0]
  /\ lost' = [lost EXCEPT ![c] = FALSE]
  /\ paused' = FALSE
  /\ Send(c, Poll \o Results(c) \o Verify("measure"))
  /\ UNCHANGED archive

(* Faulty: a measurement that is broken off is waited for. *)
GiveUpReady(c) ==
  /\ state[c] = "ready" /\ status[c] = "on"
  /\ Enter(c, "wait")
  /\ paused' = FALSE
  /\ Send(c, Poll \o Verify(status[c]))
  /\ UNCHANGED <<resultVars, lost>>

(* The measurement was broken off, or its result was confirmed. *)
GiveUp(c) ==
  /\ state[c] = "measure" /\ status[c] = "on"
  /\ Enter(c, "wait")
  /\ paused' = FALSE
  /\ Send(c, Poll \o Verify(status[c]))
  /\ UNCHANGED <<resultVars, lost>>

(* What was received is archived once it is complete. *)
Record(c) == [activity |-> activity[c], carbon |-> carbon[c]]

(* Faulty: what was received is archived again in the next update. *)
ReadyAgain(c) ==
  LET confirmed == fConfirm[c] \/ allVectorsReceived[c]
  IN /\ state[c] = "ready"
     /\ archive' = IF allVectorsReceived[c] THEN [archive EXCEPT ![c] = Append(@, Record(c))]
                                            ELSE archive
     /\ fConfirm' = [fConfirm EXCEPT ![c] = confirmed]
     /\ Send(c, Poll \o Verify(IF confirmed THEN status[c] ELSE "measure"))
     /\ IF status[c] = "on" THEN Enter(c, "wait") /\ paused' = FALSE
                            ELSE UNCHANGED <<state, paused>>
     /\ UNCHANGED <<allVectorsReceived, activity, carbon, lost>>

(* Faulty: the result is archived and not noted as such. *)
ReadyUnconfirmed(c) ==
  /\ state[c] = "ready"
  /\ archive' = IF allVectorsReceived[c] THEN [archive EXCEPT ![c] = Append(@, Record(c))]
                                         ELSE archive
  /\ allVectorsReceived' = [allVectorsReceived EXCEPT ![c] = FALSE]
  /\ Send(c, Poll \o Verify(IF fConfirm[c] THEN status[c] ELSE "measure"))
  /\ IF status[c] = "on" THEN Enter(c, "wait") /\ paused' = FALSE
                         ELSE UNCHANGED <<state, paused>>
  /\ UNCHANGED <<fConfirm, activity, carbon, lost>>

(* READY: archive the result once it is there; until then the status of    *)
(* the board must not be confirmed, so that it keeps the result.           *)
Ready(c) ==
  LET confirmed == fConfirm[c] \/ allVectorsReceived[c]
  IN /\ state[c] = "ready"
     /\ archive' = IF allVectorsReceived[c] THEN [archive EXCEPT ![c] = Append(@, Record(c))]
                                            ELSE archive
     /\ allVectorsReceived' = [allVectorsReceived EXCEPT ![c] = FALSE]
     /\ fConfirm' = [fConfirm EXCEPT ![c] = confirmed]
     /\ Send(c, Poll \o Verify(IF confirmed THEN status[c] ELSE "measure"))
     /\ IF status[c] = "on" THEN Enter(c, "wait") /\ paused' = FALSE
                            ELSE UNCHANGED <<state, paused>>
     /\ UNCHANGED <<activity, carbon, lost>>

(* In any other state and status update only polls and confirms. *)
Idle(c) ==
  /\ \/ state[c] = "wait" /\ status[c] # "measure"
     \/ state[c] = "measure" /\ status[c] \notin {"found", "on"}
  /\ Send(c, Poll \o Verify(status[c]))
  /\ UNCHANGED <<state, resultVars, paused, lost>>

update(c) ==
  /\ enable[c] /\ Len(line[c]) <= Backlog
  /\ StartMeasure(c) \/ Finish(c) \/ GiveUp(c) \/ Ready(c) \/ Idle(c)
  /\ UNCHANGED <<boardVars, enable, status, losses>>

-----------------------------------------------------------------------------
(* The line and the boards.                                                *)

Done(c) == line' = [line EXCEPT ![c] = Tail(@)]

(* What a board has measured and not dropped yet; else its answer is NAN. *)
Held(c) == IF board[c] = "found" THEN melt[c] ELSE 0

(* cSteel::parserSteel, with what the board holds when it is asked. *)
parserSteel(c) ==
  /\ line[c] # <<>> /\ present[c]
  /\ \/ /\ Head(line[c]) = "status"
        /\ status' = [status EXCEPT ![c] = board[c]]
        /\ UNCHANGED <<allVectorsReceived, activity, carbon>>
     \/ /\ Head(line[c]) = "activity"
        /\ activity' = [activity EXCEPT ![c] = Held(c)]
        /\ UNCHANGED <<status, allVectorsReceived, carbon>>
     \/ /\ Head(line[c]) = "carbon"
        /\ carbon' = [carbon EXCEPT ![c] = Held(c)]
        /\ allVectorsReceived' = [allVectorsReceived EXCEPT ![c] = TRUE]
        /\ UNCHANGED <<status, activity>>
  /\ Done(c)
  /\ UNCHANGED <<boardVars, enable, state, fConfirm, paused, archive, lost, losses>>

(* A write of VerificationRead: a result that is confirmed may be dropped. *)
BoardVerified(c) ==
  /\ line[c] # <<>> /\ present[c]
  /\ Head(line[c]) = "verify"
  /\ board' = IF board[c] = "found" THEN [board EXCEPT ![c] = "on"] ELSE board
  /\ Done(c)
  /\ UNCHANGED <<present, melt, melts, enable, state, status, resultVars, paused, lost, losses>>

(* No board, a disturbance, or a line that is reserved for an update. *)
NoAnswer(c) ==
  /\ line[c] # <<>>
  /\ IF present[c] THEN losses < MaxLosses /\ losses' = losses + 1 ELSE UNCHANGED losses
  /\ lost' = IF Head(line[c]) \in {"activity", "carbon"}
             THEN [lost EXCEPT ![c] = TRUE] ELSE lost
  /\ Done(c)
  /\ UNCHANGED <<boardVars, enable, state, status, resultVars, paused>>

(* The operator dips a lance. *)
BoardMeasures(c) ==
  /\ present[c] /\ board[c] = "on" /\ melts < MaxMelts
  /\ board' = [board EXCEPT ![c] = "measure"]
  /\ melts' = melts + 1 /\ melt' = [melt EXCEPT ![c] = melts']
  /\ UNCHANGED <<present, enable, state, status, resultVars, paused, line, lost, losses>>

(* A measurement takes seconds: a request made before it is answered.  It  *)
(* ends found or not, is broken off, or the input fails for a while.       *)
BoardMoves(c) ==
  /\ present[c] /\ board[c] \in {"measure", "error"}
  /\ \A k \in 1 .. Len(line[c]) : line[c][k] # "carbon"
  /\ \E s \in IF board[c] = "measure" THEN {"found", "on", "error"} ELSE {"on"} :
       board' = [board EXCEPT ![c] = s]
  /\ UNCHANGED <<present, melt, melts, enable, state, status, resultVars, paused, line, lost, losses>>

(* A board is pulled out, or another one put in; what was asked of the old *)
(* one has run into its timeout by then.                                   *)
Swap(c) ==
  /\ present[c] \/ line[c] = <<>>
  /\ present' = [present EXCEPT ![c] = ~@]
  /\ board' = [board EXCEPT ![c] = "on"]
  /\ UNCHANGED <<melt, melts, enable, state, status, resultVars, paused, line, lost, losses>>

(* updateDevicesComplect, once cDevice has noticed: while its polling is   *)
(* paused a slot neither goes offline for good nor is recognised.          *)
updateDevicesComplect(c) ==
  /\ ~paused /\ enable[c] # present[c]
  /\ enable' = [enable EXCEPT ![c] = present[c]]
  /\ UNCHANGED <<boardVars, state, status, resultVars, paused, line, lost, losses>>

Line(c) == parserSteel(c) \/ BoardVerified(c) \/ NoAnswer(c)

Next ==
  \E c \in Input : \/ update(c) \/ Line(c) \/ BoardMeasures(c) \/ BoardMoves(c)
                   \/ Swap(c) \/ updateDevicesComplect(c)

Spec == Init /\ [][Next]_vars

(* The timers and the line run, measurements end, and boards that stay are *)
(* recognised while polling is not paused.                                 *)
FairSpec ==
  /\ Spec
  /\ \A c \in Input :
       /\ WF_vars(update(c)) /\ WF_vars(Line(c))
       /\ WF_vars(BoardMoves(c)) /\ WF_vars(updateDevicesComplect(c))

-----------------------------------------------------------------------------
Melts == 0 .. MaxMelts   \* 0 stands for none
Records == [activity : Melts, carbon : Melts]
Request == {"status", "activity", "carbon", "verify"}

(* Types of the variables. *)
TypeOK ==
  /\ present \in [Input -> BOOLEAN] /\ board \in [Input -> Status]
  /\ melt \in [Input -> Melts] /\ melts \in Melts
  /\ enable \in [Input -> BOOLEAN]
  /\ state \in [Input -> {"wait", "measure", "ready"}] /\ status \in [Input -> Status]
  /\ allVectorsReceived \in [Input -> BOOLEAN] /\ fConfirm \in [Input -> BOOLEAN]
  /\ activity \in [Input -> Melts] /\ carbon \in [Input -> Melts]
  /\ paused \in BOOLEAN
  /\ line \in [Input -> Seq(Request)]
  /\ archive \in [Input -> Seq(Records)]
  /\ losses \in 0 .. MaxLosses /\ lost \in [Input -> BOOLEAN]

(* Polling of the boards is paused only while some input is in the middle  *)
(* of a measurement, although every input sets and ends the one pause, and *)
(* inputs are disabled and boards pulled out at any time (signalDevicesPause). *)
PauseHasOwner == paused => \E c \in Input : state[c] = "measure"

(* The result of a melt is archived once, although the flags it is archived *)
(* by are reset only when the next one is asked for, and an answer that was *)
(* asked for earlier may still come (update, parserSteel).                  *)
ArchivedOnce ==
  \A c \in Input : \A i, j \in 1 .. Len(archive[c]) :
    i < j /\ archive[c][i].carbon # 0 => archive[c][i].carbon # archive[c][j].carbon

(* With an oxygen sensor the carbon content, asked for last, stands for the *)
(* whole result: nothing but a lost request leaves another part of it out   *)
(* or from an earlier melt.                                                 *)
ArchivedComplete ==
  \A c \in Oxygen :
    allVectorsReceived[c] /\ state[c] = "ready" /\ carbon[c] # 0 /\ ~lost[c]
      => activity[c] = carbon[c]

(* No board is pulled out any more. *)
Settled == \A c \in Input : present[c]

(* Then polling is resumed again and again: no measurement, found, broken   *)
(* off or failed, keeps the boards paused for ever.                         *)
PauseEnds == <>[]Settled => []<>~paused

(* And no result the board holds waits for ever: it is archived and then    *)
(* confirmed, or the board goes on by itself, unless a request for it was   *)
(* lost: it is asked for only once.                                         *)
MeltArchived ==
  \A c \in Input :
    <>[]Settled => []<>(state[c] # "ready" \/ fConfirm[c] \/ lost[c])
=============================================================================
