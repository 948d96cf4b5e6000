------------------------------- MODULE Worker -------------------------------
(***************************************************************************)
(* The Modbus request line of the recorder: the queue every thread puts    *)
(* its requests in (worker::getTransSlot), the worker thread that takes    *)
(* them one by one to the serial port (worker::run), the queue its answers *)
(* come back in (MainWindow::getTransFromWorkerSlot) and the timer slot of *)
(* the GUI thread that parses them (MainWindow::parseWorkerReceive).       *)
(*                                                                         *)
(* A step is a critical section of mQueue or mQTr, or what a thread does   *)
(* between two of them.  worker::pause is written under mQueue by          *)
(* getTransSlot, but read by run and reset by slotRestartModbus without    *)
(* it, so those accesses are steps of their own.                           *)
(***************************************************************************)
EXTENDS Naturals, Sequences

CONSTANTS
  MaxSent,  \* bound on the requests ever made (the code has none)
  Batch     \* answers parsed in one tick of timerQueueTrans (4 in the code)

ASSUME WorkerAssumption == MaxSent \in Nat /\ Batch \in Nat \ {0}

VARIABLES
  trans,            \* worker::trans, the requests not yet taken
  pause,            \* worker::pause
  wpc,              \* where worker::run is
  tr,               \* its local transaction
  port,             \* m_modbus: open, closed for the flasher, or never connected
  queueTransaction, \* MainWindow::queueTransaction, the answers
  parsing,          \* mQTr is held by the GUI thread, which parses answers
  parsed,           \* answers taken in this tick of timerQueueTrans
  rpc,              \* "unpause" between the two statements of slotRestartModbus
  sent              \* requests made so far: the next identity

workerVars == <<trans, pause, wpc, tr, port>>
guiVars == <<queueTransaction, parsing, parsed, rpc>>
vars == <<trans, pause, wpc, tr, port, queueTransaction, parsing, parsed, rpc, sent>>

(* A request is a read, a write, or the write of the register              *)
(* updateSoftware that sends a board to its boot loader.  The identity     *)
(* stands for slave, register and value: it tells requests apart.          *)
Kind == {"read", "write", "updateSoftware"}
Transaction == [id : 0 .. MaxSent, kind : Kind]

IsUpdate(t) == t.kind = "updateSoftware"

Init ==
  /\ trans = <<>>
  /\ pause = FALSE
  /\ wpc = "poll"
  /\ tr = [id |-> 0, kind |-> "read"]
  /\ port \in {"open", "absent"}
  /\ queueTransaction = <<>>
  /\ parsing = FALSE
  /\ parsed = 0
  /\ rpc = "idle"
  /\ sent = 0

-----------------------------------------------------------------------------
(* Any thread makes a request: getTransSlot runs in the caller's thread.   *)

(* Faulty: the newest request goes first. *)
EnqueueFirst(t) ==
  /\ ~IsUpdate(t) /\ ~pause
  /\ trans' = <<t>> \o trans
  /\ UNCHANGED pause

Enqueue(t) ==
  /\ ~IsUpdate(t) /\ ~pause
  /\ trans' = Append(trans, t)
  /\ UNCHANGED pause

(* An update clears the queue and is the last request before the pause. *)
EnqueueUpdate(t) ==
  /\ IsUpdate(t) /\ ~pause
  /\ pause' = TRUE
  /\ trans' = <<t>>

Refuse == pause /\ UNCHANGED <<trans, pause>>

getTransSlot(kind) ==
  /\ sent < MaxSent
  /\ sent' = sent + 1
  /\ kind = "updateSoftware" => rpc = "idle" /\ ~parsing  \* only a click makes one
  /\ LET t == [id |-> sent + 1, kind |-> kind]
     IN Enqueue(t) \/ EnqueueUpdate(t) \/ Refuse
  /\ UNCHANGED <<wpc, tr, port, guiVars>>

-----------------------------------------------------------------------------
(* The worker thread.                                                      *)

(* Faulty: the last request waits for the next one. *)
PollForTwo ==
  /\ wpc = "poll" /\ Len(trans) > 1
  /\ wpc' = "take"
  /\ UNCHANGED <<trans, pause, tr, port, guiVars, sent>>

(* The first critical section of the loop reads isEmpty ... *)
Poll ==
  /\ wpc = "poll" /\ trans # <<>>
  /\ wpc' = "take"
  /\ UNCHANGED <<trans, pause, tr, port, guiVars, sent>>

(* ... and the second one dequeues. *)
Take ==
  /\ wpc = "take"
  /\ tr' = Head(trans)
  /\ trans' = Tail(trans)
  /\ wpc' = "decide"
  /\ UNCHANGED <<pause, port, guiVars, sent>>

(* Faulty: pause only selects how an update is written. *)
DecideLate ==
  /\ wpc = "decide"
  /\ wpc' = IF pause /\ IsUpdate(tr) THEN "flash" ELSE "bus"
  /\ UNCHANGED <<trans, pause, tr, port, guiVars, sent>>

(* Only now is pause looked at: what was taken before the pause is dropped. *)
Decide ==
  /\ wpc = "decide"
  /\ wpc' = IF ~pause THEN "bus" ELSE IF IsUpdate(tr) THEN "flash" ELSE "poll"
  /\ UNCHANGED <<trans, pause, tr, port, guiVars, sent>>

(* The exchange fails: no answer, a wrong one, or no open port. *)
BusFails ==
  /\ wpc = "bus"
  /\ wpc' = "poll"
  /\ UNCHANGED <<trans, pause, tr, port, guiVars, sent>>

(* Only a read that was answered is reported; nobody learns of a write. *)
BusAnswers ==
  /\ wpc = "bus" /\ port = "open"
  /\ wpc' = IF tr.kind = "read" THEN "deliver" ELSE "poll"
  /\ UNCHANGED <<trans, pause, tr, port, guiVars, sent>>

(* emit sendTrans: a direct call of getTransFromWorkerSlot, which needs mQTr. *)
Deliver ==
  /\ wpc = "deliver" /\ ~parsing
  /\ queueTransaction' = Append(queueTransaction, tr)
  /\ wpc' = "poll"
  /\ UNCHANGED <<trans, pause, tr, port, parsing, parsed, rpc, sent>>

(* The write of updateSoftware during the pause: modbus_close if it succeeds. *)
FlashWrite(ok) ==
  /\ wpc = "flash"
  /\ ok => port = "open"
  /\ port' = IF ok THEN "closed" ELSE port
  /\ wpc' = "poll"
  /\ UNCHANGED <<trans, pause, tr, guiVars, sent>>

WorkerStep ==
  \/ Poll \/ Take \/ Decide \/ BusFails \/ BusAnswers \/ Deliver
  \/ \E ok \in BOOLEAN : FlashWrite(ok)

-----------------------------------------------------------------------------
(* The GUI thread parses answers, Batch at a time, holding mQTr.           *)

ParseBegin ==
  /\ ~parsing /\ rpc = "idle"
  /\ parsing' = TRUE
  /\ UNCHANGED <<workerVars, queueTransaction, parsed, rpc, sent>>

(* The requests an answer leads to are those of getTransSlot. *)
ParseNext ==
  /\ parsing /\ parsed < Batch /\ queueTransaction # <<>>
  /\ queueTransaction' = Tail(queueTransaction)
  /\ parsed' = parsed + 1
  /\ UNCHANGED <<workerVars, parsing, rpc, sent>>

(* Faulty: a full batch returns without mQTr.unlock() and the timer. *)
ParseEndWhenEmpty ==
  /\ parsing /\ queueTransaction = <<>>
  /\ parsing' = FALSE /\ parsed' = 0
  /\ UNCHANGED <<workerVars, queueTransaction, rpc, sent>>

ParseEnd ==
  /\ parsing /\ (parsed = Batch \/ queueTransaction = <<>>)
  /\ parsing' = FALSE /\ parsed' = 0
  /\ UNCHANGED <<workerVars, queueTransaction, rpc, sent>>

Parse == ParseBegin \/ ParseNext \/ ParseEnd

(* The GUI thread gives the line back after a flash.  It does so five      *)
(* seconds or more after it asked for the update; in that time the worker  *)
(* has ended the exchange it was in and the write of updateSoftware, each  *)
(* bounded by the answer timeout of 0.2 s.                                 *)
Settled == trans = <<>> /\ wpc = "poll"

(* A failing modbus_connect leaves no usable port behind, and the pause on. *)
RestartConnect(ok) ==
  /\ pause /\ rpc = "idle" /\ ~parsing
  /\ Settled
  /\ port' = IF ok THEN "open" ELSE "closed"
  /\ rpc' = IF ok THEN "unpause" ELSE "idle"
  /\ UNCHANGED <<trans, pause, wpc, tr, queueTransaction, parsing, parsed, sent>>

(* pause = false, without mQueue. *)
RestartUnpause ==
  /\ rpc = "unpause"
  /\ pause' = FALSE
  /\ rpc' = "idle"
  /\ UNCHANGED <<trans, wpc, tr, port, queueTransaction, parsing, parsed, sent>>

Restart == RestartUnpause \/ \E ok \in BOOLEAN : RestartConnect(ok)

-----------------------------------------------------------------------------
Next ==
  \/ \E kind \in Kind : getTransSlot(kind)
  \/ WorkerStep
  \/ Parse
  \/ Restart

(* The loops of the two threads go on forever, and a Modbus exchange ends  *)
(* by its timeout.  The tick of timerQueueTrans starts again only some     *)
(* time after mQTr was released, so a waiting worker gets the mutex.       *)
Fairness ==
  /\ WF_vars(Poll) /\ WF_vars(Take) /\ WF_vars(Decide)
  /\ WF_vars(BusFails \/ BusAnswers)
  /\ WF_vars(\E ok \in BOOLEAN : FlashWrite(ok))
  /\ SF_vars(Deliver)
  /\ WF_vars(Parse)
  /\ WF_vars(RestartUnpause)

Spec == Init /\ [][Next]_vars

FairSpec == Spec /\ Fairness

-----------------------------------------------------------------------------
(* Types of the variables. *)
TypeOK ==
  /\ trans \in Seq(Transaction)
  /\ pause \in BOOLEAN
  /\ wpc \in {"poll", "take", "decide", "bus", "flash", "deliver"}
  /\ tr \in Transaction
  /\ port \in {"open", "absent", "closed"}
  /\ queueTransaction \in Seq(Transaction)
  /\ parsing \in BOOLEAN
  /\ parsed \in 0 .. Batch
  /\ rpc \in {"idle", "unpause"}
  /\ sent \in 0 .. MaxSent

(* The worker looks at the queue in one critical section and dequeues in   *)
(* the next one.  Another thread may clear the queue in between, but it    *)
(* leaves the update in it: dequeue never meets an empty queue.            *)
DequeueNonEmpty == wpc = "take" => trans # <<>>

(* During the pause the queue holds at most the update that caused it.     *)
QueueWhilePaused ==
  pause => trans = <<>> \/ (Len(trans) = 1 /\ IsUpdate(trans[1]))

(* Between modbus_close and a successful modbus_connect no exchange is     *)
(* started or under way, whatever was queued or taken before the pause.    *)
NoRequestOnClosedPort == port = "closed" => wpc \notin {"bus", "flash", "deliver"}

(* Answers reach the parser in the order their requests were made: the     *)
(* unparsed answers, the request in hand and the queue, read in this       *)
(* order, are in order of identity.                                        *)
InHand == IF wpc \in {"decide", "bus", "flash", "deliver"} THEN <<tr>> ELSE <<>>

Increasing(s) == \A i, j \in 1 .. Len(s) : i < j => s[i].id < s[j].id

RequestsInOrder == Increasing(queueTransaction \o InHand \o trans)

(* A request that was queued is eventually taken or cleared. *)
Queued(i) == \E k \in 1 .. Len(trans) : trans[k].id = i

EveryRequestTaken == \A i \in 1 .. MaxSent : Queued(i) ~> ~Queued(i)

(* An answer is eventually parsed, however many requests compete. *)
Unparsed(i) ==
  \/ \E k \in 1 .. Len(queueTransaction) : queueTransaction[k].id = i
  \/ wpc = "deliver" /\ tr.id = i

EveryAnswerParsed == \A i \in 1 .. MaxSent : Unparsed(i) ~> ~Unparsed(i)

(* The loop, the locks and the flag implement the promise of RequestLine.  *)
(* A request taken before a pause that will drop it has left the line.     *)
Line == INSTANCE RequestLine WITH
  IsRead <- LAMBDA t : t.kind = "read",
  pending <- IF wpc = "decide" /\ (pause => IsUpdate(tr)) THEN <<tr>> \o trans ELSE trans,
  busy <- IF wpc \in {"bus", "flash", "deliver"} THEN <<tr>> ELSE <<>>,
  reserved <- pause,
  lent <- port = "closed",
  answers <- queueTransaction

ImplementsLine == Line!Init /\ [][Line!Next]_Line!vars
=============================================================================
