-------------------------------- MODULE Locks --------------------------------
(***************************************************************************)
(* The mutexes of the recorder and the threads that nest them: the GUI     *)
(* thread with its timers, dialogs and parser, the thread of the external  *)
(* Modbus server and the worker.  QMutex is not recursive: a thread that   *)
(* locks what it holds waits for itself.                                   *)
(*                                                                         *)
(* A handler is written as the sequence of stacks of mutexes its thread    *)
(* goes through, relative to the stack s it was called with.  Simplified:  *)
(* a loop passes its sections once, since another round takes the same     *)
(* mutexes from the same stack; a section that a condition may skip is     *)
(* taken; sections that share their mutexes with a listed handler of the   *)
(* same thread are not listed again.  updateLabelDiagnostic is followed    *)
(* label by label: which mutexes it returns with depends on the channels.  *)
(***************************************************************************)
EXTENDS Naturals, Sequences

CONSTANT MaxChannels  \* analog channels a composition of boards can enable

ASSUME LocksAssumption == MaxChannels \in Nat

Thread == {"gui", "server", "worker"}

(* The order the code keeps, though it states it nowhere. *)
Rank == [mSysOpt |-> 1, mQTr |-> 1, mListUstvok |-> 1, mListMath |-> 1,
         mExtModbus |-> 1, mutex |-> 1, mListChannel |-> 2, mListFreq |-> 2,
         mListRelay |-> 2, mListDev |-> 3, mQueue |-> 4]

Mutex == DOMAIN Rank

VARIABLES
  stack,    \* stack[t]: the mutexes thread t holds, in the order of locking
  todo,     \* todo[t]: the stacks its handler still goes through
  enabled,  \* the first so many analog channels are enabled
  labels,   \* listLabelDiagnostic.size(): labels of the page of measured values
  skipped   \* ghost: updateLabelDiagnostic has met a disabled channel

vars == <<stack, todo, enabled, labels, skipped>>

Init ==
  /\ stack = [t \in Thread |-> <<>>]
  /\ todo = [t \in Thread |-> <<>>]
  /\ enabled \in 0 .. MaxChannels
  /\ labels = 0
  /\ skipped = FALSE

-----------------------------------------------------------------------------
(* Sections.                                                               *)

(* lock m, run body with it, unlock m. *)
In(s, m, body) == <<Append(s, m)>> \o body \o <<s>>

Lock(s, m) == In(s, m, <<>>)

getTransSlot(s) == Lock(s, "mQueue")

(* It reads the type of the board before it passes the request on. *)
retransToWorker(s) == Lock(s, "mListDev") \o getTransSlot(s)

(* Setters that write through to the board, by what is locked around them. *)
Channels(s) == In(s, "mListChannel", retransToWorker(Append(s, "mListChannel")))
Freqs(s) == In(s, "mListFreq", retransToWorker(Append(s, "mListFreq")))
Devices(s) == In(s, "mListDev", getTransSlot(Append(s, "mListDev")))
Relays(s) == In(s, "mListRelay", getTransSlot(Append(s, "mListRelay")))

-----------------------------------------------------------------------------
(* Handlers of the GUI thread.                                             *)

(* Every setpoint reads its channel inside the lock of the setpoints.      *)
UpdUst(s) ==
  In(s, "mListUstvok", Lock(Append(s, "mListUstvok"), "mListChannel"))

(* What an answer leads to: a lookup and a parser that may rewrite the     *)
(* parameter, a request of the board, or the states of relays.             *)
Answer(s) ==
  { Lock(s, "mListDev") \o a : a \in
      { Lock(s, "mListChannel") \o Channels(s),
        Lock(s, "mListFreq") \o Freqs(s),
        Devices(s) \o Relays(s) } }

(* Faulty: the early return of a number of a board that is out of range    *)
(* is taken for every answer.                                              *)
parseWorkerReceiveReturn(s) ==
  { <<Append(s, "mQTr")>> \o a : a \in Answer(Append(s, "mQTr")) }

parseWorkerReceive(s) ==
  { In(s, "mQTr", a) : a \in Answer(Append(s, "mQTr")) }

(* The lists of each type of boards are updated one after the other. *)
updateDevicesComplect(s) ==
  Lock(s, "mListDev") \o Channels(s) \o Lock(s, "mListRelay")
  \o Lock(s, "mListFreq") \o Lock(s, "mListRelay")
  \o Lock(s, "mListFreq") \o Lock(s, "mListRelay")

writeChannelsSettings(s) ==
  Lock(s, "mListChannel") \o Lock(s, "mListFreq") \o Lock(s, "mListUstvok")

(* Faulty: the loop over listDevice is locked as everywhere else. *)
MenuSaveLocked(s) ==
  In(s, "mSysOpt",
     In(Append(s, "mSysOpt"), "mListDev",
        retransToWorker(s \o <<"mSysOpt", "mListDev">>)))
  \o Lock(s, "mListMath") \o writeChannelsSettings(s)

(* on_saveButton_clicked asks boards to change their type, without         *)
(* mListDev, and writes the two files.                                     *)
MenuSave(s) ==
  In(s, "mSysOpt", retransToWorker(Append(s, "mSysOpt")))
  \o Lock(s, "mListMath") \o writeChannelsSettings(s)

readChannelsSettings(s) == Channels(s) \o Freqs(s) \o Lock(s, "mListUstvok")

saveParam(s) == Channels(s) \o Lock(s, "mListUstvok")

updateBars(s) ==
  Lock(s, "mListChannel") \o Lock(s, "mListUstvok")
  \o Lock(s, "mListMath") \o Lock(s, "mListFreq")

updateObjectsOfMainThread(s) == Lock(s, "mListUstvok") \o Lock(s, "mListMath")

(* The others: a poll of a board or a channel, a mode, a frequency         *)
(* channel, and a switch of a relay by a setpoint, a button or a melt.     *)
GuiHandler(s) ==
  parseWorkerReceive(s)
  \cup { UpdUst(s), MenuSave(s), saveParam(s), updateBars(s),
         updateObjectsOfMainThread(s), retransToWorker(s), Devices(s),
         Freqs(s), Relays(s) }

(* Every handler of the external interface is one section. *)
ServerHandler(s) ==
  { Channels(s), Devices(s) }
  \cup { Lock(s, m) : m \in { "mListFreq", "mListRelay", "mListUstvok",
                              "mListMath", "mSysOpt", "mExtModbus", "mutex" } }

(* Looks at the queue or dequeues; delivers an answer. *)
WorkerHandler(s) == { Lock(s, "mQueue"), Lock(s, "mQTr") }

(* A label whose channel is disabled is skipped with mListChannel locked,  *)
(* and the index of the channel stays, so that all later labels skip too.  *)
updateLabelDiagnostic(s) ==
  LET shown == IF labels <= enabled THEN labels ELSE enabled
      kept(i) == s \o [j \in 1 .. i |-> "mListChannel"]
  IN [k \in 1 .. 2 * shown |-> IF k % 2 = 1 THEN Append(s, "mListChannel") ELSE s]
     \o [i \in 1 .. labels - shown |-> kept(i)]
     \o Lock(kept(labels - shown), "mListFreq")

-----------------------------------------------------------------------------
Handle(t, handler) ==
  /\ todo[t] = <<>>
  /\ todo' = [todo EXCEPT ![t] = handler]
  /\ UNCHANGED stack

(* The event loop of each thread.  What only the GUI thread reads and      *)
(* writes changes when the handler starts.                                 *)
Gui ==
  /\ \E h \in GuiHandler(stack["gui"]) : Handle("gui", h)
  /\ UNCHANGED <<enabled, labels, skipped>>

(* Boards come and go: as many channels as there are boards are enabled. *)
UpdateBoards ==
  /\ Handle("gui", updateDevicesComplect(stack["gui"]))
  /\ enabled' \in 0 .. MaxChannels
  /\ UNCHANGED <<labels, skipped>>

(* Channels that the file read does not have are disabled. *)
ReadSettings ==
  /\ Handle("gui", readChannelsSettings(stack["gui"]))
  /\ enabled' \in 0 .. enabled
  /\ UNCHANGED <<labels, skipped>>

(* on_bMeasuredValue_clicked opens the page of measured values: a label    *)
(* for every enabled channel.  The menu lives as long as the program, and  *)
(* its labels until the page is opened again.                              *)
OpenMeasures ==
  /\ Handle("gui", Lock(stack["gui"], "mListChannel") \o Lock(stack["gui"], "mListFreq"))
  /\ labels' = enabled
  /\ UNCHANGED <<enabled, skipped>>

(* tUpdateDiagnostic, every half second. *)
UpdateDiagnostic ==
  /\ Handle("gui", updateLabelDiagnostic(stack["gui"]))
  /\ skipped' = (skipped \/ labels > enabled)
  /\ UNCHANGED <<enabled, labels>>

Server ==
  /\ \E h \in ServerHandler(stack["server"]) : Handle("server", h)
  /\ UNCHANGED <<enabled, labels, skipped>>

Worker ==
  /\ \E h \in WorkerHandler(stack["worker"]) : Handle("worker", h)
  /\ UNCHANGED <<enabled, labels, skipped>>

-----------------------------------------------------------------------------
(* QMutex.                                                                 *)
NextStack(t) == Head(todo[t])

Locks(t) == todo[t] # <<>> /\ Len(NextStack(t)) > Len(stack[t])

Wanted(t) == NextStack(t)[Len(NextStack(t))]

Holds(t, m) == \E i \in 1 .. Len(stack[t]) : stack[t][i] = m

Advance(t) ==
  /\ stack' = [stack EXCEPT ![t] = NextStack(t)]
  /\ todo' = [todo EXCEPT ![t] = Tail(@)]
  /\ UNCHANGED <<enabled, labels, skipped>>

lock(t) ==
  /\ Locks(t)
  /\ \A u \in Thread : ~Holds(u, Wanted(t))
  /\ Advance(t)

unlock(t) ==
  /\ todo[t] # <<>> /\ ~Locks(t)
  /\ Advance(t)

Next ==
  \/ Gui \/ UpdateBoards \/ ReadSettings \/ OpenMeasures \/ UpdateDiagnostic
  \/ Server \/ Worker
  \/ \E t \in Thread : lock(t) \/ unlock(t)

Spec == Init /\ [][Next]_vars

(* A handler runs to its next lock.  A thread that waits for a mutex gets  *)
(* it in the end, since the others return to their event loops, or to      *)
(* their sleep, after every handler.                                       *)
Fairness == \A t \in Thread : SF_vars(lock(t)) /\ WF_vars(unlock(t))

FairSpec == Spec /\ Fairness

-----------------------------------------------------------------------------
(* Threads wait for each other in a circle, or one for itself. *)
WaitsFor(t, u) == Locks(t) /\ Holds(u, Wanted(t))

Deadlocked(S) == S # {} /\ \A t \in S : \E u \in S : WaitsFor(t, u)

(* However the handlers of the three threads interleave, no threads wait   *)
(* for each other's mutexes in a circle - until the page of measured       *)
(* values skips a channel that was disabled (NobodyHangs).                 *)
NoDeadlock == ~skipped => \A S \in SUBSET Thread : ~Deadlocked(S)

(* Every handler ends and has released what it locked, with the same       *)
(* exception: no path through it forgets an unlock or waits for ever.      *)
HandlersEnd ==
  \A t \in Thread : todo[t] # <<>> ~> skipped \/ (todo[t] = <<>> /\ stack[t] = <<>>)

(* "Пропустить отключенные каналы" (menu.cpp:2644): a label of a disabled  *)
(* channel is skipped.  The thread that skips it keeps mListChannel, and   *)
(* waits for itself at the next label or the next lock of the channels.    *)
NobodyHangs == \A S \in SUBSET Thread : ~Deadlocked(S)
=============================================================================
