-------------------------- MODULE SoftUpdateProofs --------------------------
(***************************************************************************)
(* Proofs about Worker, for every number of requests and every batch size, *)
(* and about SoftUpdate: the menu that flashes a board is one of the       *)
(* environments Worker allows, and as long as the operator does not reopen *)
(* the page of the board during an update, the flasher has the line to     *)
(* itself.                                                                 *)
(***************************************************************************)
EXTENDS SoftUpdate, SequenceTheorems, TLAPS

USE WorkerAssumption

(***************************************************************************)
(* The strengthening.  An update in the queue or in the worker's hands     *)
(* means that the pause is on and nothing is queued behind it; whatever    *)
(* the worker puts on the wire outside the pause branch is not an update;  *)
(* a closed port and the gap inside slotRestartModbus both find the worker *)
(* idle, paused and without requests.                                      *)
(***************************************************************************)
UpdatePauses ==
  /\ \A k \in 1 .. Len(trans) : IsUpdate(trans[k]) => pause
  /\ wpc \in {"decide", "flash"} /\ IsUpdate(tr) => pause /\ trans = <<>>
  /\ wpc = "flash" => IsUpdate(tr)
  /\ wpc = "bus" => ~IsUpdate(tr)
  /\ wpc = "deliver" => tr.kind = "read"

IdleLine == pause /\ trans = <<>> /\ wpc = "poll"

IInv ==
  /\ TypeOK
  /\ DequeueNonEmpty
  /\ QueueWhilePaused
  /\ UpdatePauses
  /\ port = "closed" => IdleLine
  /\ rpc = "unpause" => IdleLine /\ port = "open"

-----------------------------------------------------------------------------
(* What the sequence operators do to a queue of requests. *)
LEMMA TailFacts ==
  ASSUME NEW S, NEW s \in Seq(S), s # <<>>
  PROVE  /\ Head(s) \in S /\ Head(s) = s[1]
         /\ Tail(s) \in Seq(S)
         /\ Len(s) \in Nat \ {0}
         /\ Len(Tail(s)) = Len(s) - 1
         /\ \A k \in 1 .. Len(Tail(s)) : Tail(s)[k] = s[k + 1]
         /\ Len(s) = 1 => Tail(s) = <<>>
  <1>1. Len(s) \in Nat \ {0}
    BY EmptySeq
  <1>2. ASSUME Len(s) = 1 PROVE Tail(s) = <<>>
    <2>1. Tail(s) \in Seq(S) /\ Len(Tail(s)) = 0
      BY <1>2, HeadTailProperties
    <2>2. QED
      BY <2>1, EmptySeq
  <1>3. QED
    BY <1>1, <1>2, HeadTailProperties

(* Types are an invariant: TypeOK needs DequeueNonEmpty, because run takes *)
(* the head of a queue it has looked at in an earlier critical section.    *)
LEMMA InitIInv == Init => IInv
  <1> SUFFICES ASSUME Init PROVE IInv
    OBVIOUS
  <1>1. TypeOK
    <2>1. pause \in BOOLEAN /\ parsing \in BOOLEAN
      BY Zenon DEF Init
    <2>2. QED
      BY <2>1, EmptySeq DEF Init, TypeOK, Transaction, Kind
  <1>2. UpdatePauses
    BY DEF Init, UpdatePauses
  <1>3. QED
    BY <1>1, <1>2 DEF Init, IInv, DequeueNonEmpty, QueueWhilePaused, IdleLine

LEMMA SendIInv ==
  ASSUME IInv, NEW kind \in Kind, getTransSlot(kind)
  PROVE  IInv'
  <1> DEFINE t == [id |-> sent + 1, kind |-> kind]
  <1>1. t \in Transaction /\ sent' \in 0 .. MaxSent
    BY DEF getTransSlot, Transaction, IInv, TypeOK
  <1>2. CASE Enqueue(t)
    BY <1>1, <1>2, AppendProperties
    DEF getTransSlot, guiVars, Enqueue, IInv, TypeOK, DequeueNonEmpty,
        QueueWhilePaused, UpdatePauses, IdleLine, IsUpdate
  <1>3. CASE EnqueueUpdate(t)
    BY <1>1, <1>3
    DEF getTransSlot, guiVars, EnqueueUpdate, IInv, TypeOK, DequeueNonEmpty,
        QueueWhilePaused, UpdatePauses, IdleLine, IsUpdate
  <1>4. CASE Refuse
    BY <1>1, <1>4
    DEF getTransSlot, guiVars, Refuse, IInv, TypeOK, DequeueNonEmpty,
        QueueWhilePaused, UpdatePauses, IdleLine, IsUpdate
  <1>5. QED
    BY <1>2, <1>3, <1>4 DEF getTransSlot

LEMMA WorkerStepIInv ==
  ASSUME IInv, WorkerStep
  PROVE  IInv'
  <1> USE DEF IInv, TypeOK, DequeueNonEmpty, QueueWhilePaused, UpdatePauses,
              IdleLine, guiVars
  <1>1. CASE Poll
    BY <1>1 DEF Poll
  <1>2. CASE Take
    <2>1. trans # <<>> /\ trans \in Seq(Transaction)
      BY <1>2 DEF Take
    <2>2. tr' \in Transaction /\ trans' \in Seq(Transaction) /\ tr' = trans[1]
      BY <1>2, <2>1, TailFacts DEF Take
    <2>3. \A k \in 1 .. Len(trans') : IsUpdate(trans'[k]) => pause'
      <3> SUFFICES ASSUME NEW k \in 1 .. Len(trans'), IsUpdate(trans'[k])
                   PROVE  pause'
        OBVIOUS
      <3>1. k + 1 \in 1 .. Len(trans) /\ trans'[k] = trans[k + 1]
        BY <1>2, <2>1, TailFacts DEF Take
      <3>2. QED
        BY <1>2, <3>1 DEF Take
    <2>4. pause => trans' = <<>> /\ IsUpdate(tr')
      BY <1>2, <2>1, <2>2, TailFacts DEF Take
    <2>5. IsUpdate(tr') => pause
      BY <2>1, <2>2, TailFacts
    <2>6. port # "closed" /\ rpc = "idle"
      BY <1>2 DEF Take
    <2>7. QED
      BY <1>2, <2>2, <2>3, <2>4, <2>5, <2>6 DEF Take
  <1>3. CASE Decide
    BY <1>3 DEF Decide
  <1>4. CASE BusFails
    BY <1>4 DEF BusFails
  <1>5. CASE BusAnswers
    BY <1>5 DEF BusAnswers
  <1>6. CASE Deliver
    BY <1>6, AppendProperties DEF Deliver
  <1>7. CASE \E ok \in BOOLEAN : FlashWrite(ok)
    BY <1>7 DEF FlashWrite
  <1>8. QED
    BY <1>1, <1>2, <1>3, <1>4, <1>5, <1>6, <1>7 DEF WorkerStep

LEMMA ParseIInv ==
  ASSUME IInv, Parse
  PROVE  IInv'
  <1> USE DEF IInv, TypeOK, DequeueNonEmpty, QueueWhilePaused, UpdatePauses,
              IdleLine, workerVars
  <1>1. CASE ParseBegin
    BY <1>1 DEF ParseBegin
  <1>2. CASE ParseNext
    BY <1>2, TailFacts DEF ParseNext
  <1>3. CASE ParseEnd
    <2>1. parsing' \in BOOLEAN
      BY <1>3, Zenon DEF ParseEnd
    <2>2. QED
      BY <1>3, <2>1 DEF ParseEnd
  <1>4. QED
    BY <1>1, <1>2, <1>3 DEF Parse

LEMMA RestartIInv ==
  ASSUME IInv, Restart
  PROVE  IInv'
  <1> USE DEF IInv, TypeOK, DequeueNonEmpty, QueueWhilePaused, UpdatePauses,
              IdleLine
  <1>1. CASE RestartUnpause
    <2>1. pause' \in BOOLEAN /\ ~pause'
      BY <1>1, Zenon DEF RestartUnpause
    <2>2. QED
      BY <1>1, <2>1 DEF RestartUnpause
  <1>2. CASE \E ok \in BOOLEAN : RestartConnect(ok)
    BY <1>2 DEF RestartConnect, Settled
  <1>3. QED
    BY <1>1, <1>2 DEF Restart

(* The strengthening is an invariant of the specification. *)
THEOREM Inductive == Spec => []IInv
  <1>1. Init => IInv
    BY InitIInv
  <1>2. IInv /\ [Next]_vars => IInv'
    <2> SUFFICES ASSUME IInv, [Next]_vars PROVE IInv'
      OBVIOUS
    <2>1. CASE \E kind \in Kind : getTransSlot(kind)
      BY <2>1, SendIInv
    <2>2. CASE WorkerStep
      BY <2>2, WorkerStepIInv
    <2>3. CASE Parse
      BY <2>3, ParseIInv
    <2>4. CASE Restart
      BY <2>4, RestartIInv
    <2>5. CASE UNCHANGED vars
      BY <2>5 DEF vars, IInv, TypeOK, DequeueNonEmpty, QueueWhilePaused,
                  UpdatePauses, IdleLine
    <2>6. QED
      BY <2>1, <2>2, <2>3, <2>4, <2>5 DEF Next
  <1>3. QED
    BY <1>1, <1>2, PTL DEF Spec

(* Type correctness of the request line. *)
THEOREM TypeCorrect == Spec => []TypeOK
  <1>1. IInv => TypeOK
    BY DEF IInv
  <1>2. QED
    BY <1>1, Inductive, PTL

(* worker::run never dequeues from an empty queue, although it lets go of  *)
(* mQueue between isEmpty and dequeue and another thread may clear it.     *)
THEOREM NoEmptyDequeue == Spec => []DequeueNonEmpty
  <1>1. IInv => DequeueNonEmpty
    BY DEF IInv
  <1>2. QED
    BY <1>1, Inductive, PTL

(* While paused the queue holds nothing but the update. *)
THEOREM PausedQueue == Spec => []QueueWhilePaused
  <1>1. IInv => QueueWhilePaused
    BY DEF IInv
  <1>2. QED
    BY <1>1, Inductive, PTL

(* Once the port was closed for the flasher (or lost when reopening it),   *)
(* no exchange is started on it before it has been opened again.           *)
THEOREM ClosedPortQuiet == Spec => []NoRequestOnClosedPort
  <1>1. IInv => NoRequestOnClosedPort
    BY DEF IInv, IdleLine, NoRequestOnClosedPort
  <1>2. QED
    BY <1>1, Inductive, PTL

-----------------------------------------------------------------------------
(***************************************************************************)
(* The implementation of RequestLine: the refinement mapping is Line, in   *)
(* Worker.  What the mapping does to the queue of the abstract line is     *)
(* stated first.                                                           *)
(***************************************************************************)
LEMMA ConsFacts ==
  ASSUME NEW S, NEW s \in Seq(S), NEW a \in S, NEW b \in S
  PROVE  /\ <<a>> \o s # <<>>
         /\ Head(<<a>> \o s) = a
         /\ Tail(<<a>> \o s) = s
         /\ Append(<<a>> \o s, b) = <<a>> \o Append(s, b)
  <1>1. <<a>> \in Seq(S) /\ Len(<<a>>) = 1 /\ <<a>>[1] = a
    OBVIOUS
  <1>2. /\ <<a>> \o s \in Seq(S)
        /\ Len(<<a>> \o s) = 1 + Len(s)
        /\ \A i \in 1 .. 1 + Len(s) :
              (<<a>> \o s)[i] = IF i <= 1 THEN a ELSE s[i - 1]
    BY <1>1, ConcatProperties
  <1>3. Len(s) \in Nat
    BY LenProperties
  <1>4. <<a>> \o s # <<>> /\ Head(<<a>> \o s) = a
    BY <1>2, <1>3, EmptySeq
  <1>5. Tail(<<a>> \o s) = s
    <2>1. /\ Tail(<<a>> \o s) \in Seq(S)
          /\ Len(Tail(<<a>> \o s)) = Len(s)
          /\ \A i \in 1 .. Len(s) : Tail(<<a>> \o s)[i] = (<<a>> \o s)[i + 1]
      BY <1>2, <1>3, <1>4, HeadTailProperties
    <2>2. \A i \in 1 .. Len(s) : Tail(<<a>> \o s)[i] = s[i]
      BY <1>2, <1>3, <2>1
    <2>3. QED
      BY <2>1, <2>2, SeqEqual
  <1>6. Append(<<a>> \o s, b) = <<a>> \o Append(s, b)
    <2>1. Append(<<a>> \o s, b) = (<<a>> \o s) \o <<b>>
      BY <1>2, AppendIsConcat
    <2>2. Append(s, b) = s \o <<b>>
      BY AppendIsConcat
    <2>3. <<b>> \in Seq(S)
      OBVIOUS
    <2>4. QED
      BY <1>1, <2>1, <2>2, <2>3, ConcatAssociative
  <1>7. QED
    BY <1>4, <1>5, <1>6

LEMMA HeadConsTail ==
  ASSUME NEW S, NEW s \in Seq(S), s # <<>>
  PROVE  <<Head(s)>> \o Tail(s) = s
  <1>1. /\ Head(s) = s[1] /\ s[1] \in S
        /\ Tail(s) \in Seq(S)
        /\ Len(s) \in Nat \ {0}
        /\ Len(Tail(s)) = Len(s) - 1
        /\ \A k \in 1 .. Len(Tail(s)) : Tail(s)[k] = s[k + 1]
    BY TailFacts
  <1>2. <<s[1]>> \in Seq(S) /\ Len(<<s[1]>>) = 1 /\ <<s[1]>>[1] = s[1]
    BY <1>1
  <1>3. /\ <<s[1]>> \o Tail(s) \in Seq(S)
        /\ Len(<<s[1]>> \o Tail(s)) = Len(s)
        /\ \A i \in 1 .. Len(s) :
              (<<s[1]>> \o Tail(s))[i] = IF i <= 1 THEN s[1] ELSE Tail(s)[i - 1]
    BY <1>1, <1>2, ConcatProperties
  <1>4. \A i \in 1 .. Len(s) : (<<s[1]>> \o Tail(s))[i] = s[i]
    BY <1>1, <1>3
  <1>5. QED
    BY <1>1, <1>3, <1>4, SeqEqual

(* When the worker ends an exchange on a usable port, the line has succeeded. *)
LEMMA SucceedFacts ==
  ASSUME wpc \in {"bus", "flash", "deliver"}, wpc' = "poll",
         port # "closed", (port' = "closed") = IsUpdate(tr),
         queueTransaction' = IF tr.kind = "read" THEN Append(queueTransaction, tr)
                             ELSE queueTransaction,
         trans' = trans, pause' = pause
  PROVE  Line!Succeed
  <1> DEFINE busy == IF wpc \in {"bus", "flash", "deliver"} THEN <<tr>> ELSE <<>>
  <1>1. busy # <<>> /\ Head(busy) = tr
    OBVIOUS
  <1>2. wpc # "decide" /\ wpc' \notin {"decide", "bus", "flash", "deliver"}
    OBVIOUS
  <1> HIDE DEF busy
  <1>3. (port' = "closed") = IsUpdate(Head(busy))
    BY <1>1, Zenon
  <1>4. queueTransaction' = IF Head(busy).kind = "read"
                            THEN Append(queueTransaction, Head(busy))
                            ELSE queueTransaction
    BY <1>1
  <1>5. QED
    BY <1>1, <1>2, <1>3, <1>4 DEF Line!Succeed, busy

(* One step of the request line is one step of its promise, or none. *)
LEMMA SendImplements ==
  ASSUME IInv, NEW kind \in Kind, getTransSlot(kind)
  PROVE  Line!Next \/ UNCHANGED Line!vars
  <1> DEFINE t == [id |-> sent + 1, kind |-> kind]
  <1>1. t \in Transaction /\ trans \in Seq(Transaction) /\ tr \in Transaction
    BY DEF getTransSlot, Transaction, IInv, TypeOK
  <1>2. CASE Enqueue(t)
    <2>1. Line!Accept(t)
      BY <1>1, <1>2, ConsFacts
      DEF getTransSlot, guiVars, Enqueue, Line!Accept
    <2>2. QED
      BY <1>1, <2>1 DEF Line!Next
  <1>3. CASE EnqueueUpdate(t)
    <2>1. wpc = "decide" => ~IsUpdate(tr)
      BY <1>3 DEF EnqueueUpdate, IInv, UpdatePauses
    <2>2. Line!Reserve(t)
      BY <1>1, <1>3, <2>1
      DEF getTransSlot, guiVars, EnqueueUpdate, Line!Reserve
    <2>3. QED
      BY <1>1, <2>2 DEF Line!Next
  <1>4. CASE Refuse
    BY <1>4 DEF getTransSlot, guiVars, Refuse, Line!vars
  <1>5. QED
    BY <1>2, <1>3, <1>4 DEF getTransSlot

LEMMA WorkerStepImplements ==
  ASSUME IInv, WorkerStep
  PROVE  Line!Next \/ UNCHANGED Line!vars
  <1> USE DEF guiVars
  <1>0. trans \in Seq(Transaction) /\ tr \in Transaction
    BY DEF IInv, TypeOK
  <1>1. CASE Poll
    BY <1>1 DEF Poll, Line!vars
  <1>2. CASE Take
    <2>1. trans # <<>> /\ <<Head(trans)>> \o Tail(trans) = trans
      BY <1>0, <1>2, HeadConsTail DEF Take, IInv, DequeueNonEmpty
    <2>2. pause => IsUpdate(Head(trans))
      BY <1>0, <2>1, TailFacts DEF IInv, QueueWhilePaused
    <2>3. QED
      BY <1>2, <2>1, <2>2 DEF Take, Line!vars
  <1>3. CASE Decide
    <2>1. CASE pause => IsUpdate(tr)
      <3>1. pause <=> IsUpdate(tr)
        BY <1>3, <2>1 DEF Decide, IInv, UpdatePauses
      <3>2. port # "closed"
        BY <1>3 DEF Decide, IInv, IdleLine
      <3>3. /\ <<tr>> \o trans # <<>>
            /\ Head(<<tr>> \o trans) = tr
            /\ Tail(<<tr>> \o trans) = trans
        BY <1>0, ConsFacts
      <3>4. Line!Start
        BY <1>3, <2>1, <3>1, <3>2, <3>3 DEF Decide, Line!Start
      <3>5. QED
        BY <3>4 DEF Line!Next
    <2>2. CASE ~(pause => IsUpdate(tr))
      BY <1>3, <2>2 DEF Decide, Line!vars
    <2>3. QED
      BY <2>1, <2>2
  <1>4. CASE BusFails
    <2>1. Line!Fail
      BY <1>4 DEF BusFails, Line!Fail
    <2>2. QED
      BY <2>1 DEF Line!Next
  <1>5. CASE BusAnswers
    <2>1. CASE tr.kind = "read"
      BY <1>5, <2>1 DEF BusAnswers, Line!vars
    <2>2. CASE tr.kind # "read"
      <3>1. ~IsUpdate(tr) /\ port # "closed" /\ port' # "closed"
        BY <1>5 DEF BusAnswers, IInv, UpdatePauses
      <3>2. (port' = "closed") = IsUpdate(tr)
        BY <3>1, Zenon DEF IsUpdate
      <3>3. Line!Succeed
        BY <1>5, <2>2, <3>1, <3>2, SucceedFacts DEF BusAnswers
      <3>4. QED
        BY <3>3 DEF Line!Next
    <2>3. QED
      BY <2>1, <2>2
  <1>6. CASE Deliver
    <2>1. tr.kind = "read" /\ ~IsUpdate(tr) /\ port # "closed"
      BY <1>6 DEF Deliver, IInv, UpdatePauses, IdleLine, IsUpdate
    <2>2. (port' = "closed") = IsUpdate(tr)
      <3>1. port' # "closed"
        BY <1>6, <2>1 DEF Deliver
      <3>2. QED
        BY <2>1, <3>1, Zenon DEF IsUpdate
    <2>3. Line!Succeed
      BY <1>6, <2>1, <2>2, SucceedFacts DEF Deliver
    <2>4. QED
      BY <2>3 DEF Line!Next
  <1>7. CASE \E ok \in BOOLEAN : FlashWrite(ok)
    <2>1. PICK ok \in BOOLEAN : FlashWrite(ok)
      BY <1>7
    <2>2. IsUpdate(tr) /\ tr.kind # "read" /\ port # "closed"
      BY <2>1 DEF FlashWrite, IInv, UpdatePauses, IdleLine, IsUpdate
    <2>3. CASE ok
      <3>1. port' = "closed"
        BY <2>1, <2>3 DEF FlashWrite
      <3>2. (port' = "closed") = IsUpdate(tr)
        BY <2>2, <3>1, Zenon
      <3>3. Line!Succeed
        BY <2>1, <2>2, <3>2, SucceedFacts DEF FlashWrite
      <3>4. QED
        BY <3>3 DEF Line!Next
    <2>4. CASE ~ok
      <3>1. Line!Fail
        BY <2>1, <2>4 DEF FlashWrite, Line!Fail
      <3>2. QED
        BY <3>1 DEF Line!Next
    <2>5. QED
      BY <2>3, <2>4
  <1>8. QED
    BY <1>1, <1>2, <1>3, <1>4, <1>5, <1>6, <1>7 DEF WorkerStep

LEMMA ParseImplements ==
  ASSUME IInv, Parse
  PROVE  Line!Next \/ UNCHANGED Line!vars
  <1> USE DEF workerVars
  <1>1. CASE ParseBegin
    BY <1>1 DEF ParseBegin, Line!vars
  <1>2. CASE ParseNext
    <2>1. Line!Look
      BY <1>2 DEF ParseNext, Line!Look
    <2>2. QED
      BY <2>1 DEF Line!Next
  <1>3. CASE ParseEnd
    BY <1>3 DEF ParseEnd, Line!vars
  <1>4. QED
    BY <1>1, <1>2, <1>3 DEF Parse

LEMMA RestartImplements ==
  ASSUME IInv, Restart
  PROVE  Line!Next \/ UNCHANGED Line!vars
  <1>1. CASE RestartUnpause
    <2>1. pause /\ trans = <<>> /\ wpc = "poll" /\ port = "open"
      BY <1>1 DEF RestartUnpause, IInv, IdleLine
    <2>2. Line!Release
      BY <1>1, <2>1 DEF RestartUnpause, Line!Release
    <2>3. QED
      BY <2>2 DEF Line!Next
  <1>2. CASE \E ok \in BOOLEAN : RestartConnect(ok)
    <2>1. Line!Reopen
      BY <1>2 DEF RestartConnect, Settled, Line!Reopen
    <2>2. QED
      BY <2>1 DEF Line!Next
  <1>3. QED
    BY <1>1, <1>2 DEF Restart

(* Every behaviour of the queue, the worker loop, the pause flag and the   *)
(* answer queue is a behaviour of RequestLine.                             *)
THEOREM Implements == Spec => ImplementsLine
  <1>1. Init => Line!Init
    BY DEF Init, Line!Init
  <1>2. IInv /\ [Next]_vars => [Line!Next]_Line!vars
    <2> SUFFICES ASSUME IInv, [Next]_vars
                 PROVE  Line!Next \/ UNCHANGED Line!vars
      OBVIOUS
    <2>1. CASE \E kind \in Kind : getTransSlot(kind)
      BY <2>1, SendImplements
    <2>2. CASE WorkerStep
      BY <2>2, WorkerStepImplements
    <2>3. CASE Parse
      BY <2>3, ParseImplements
    <2>4. CASE Restart
      BY <2>4, RestartImplements
    <2>5. CASE UNCHANGED vars
      BY <2>5 DEF vars, Line!vars
    <2>6. QED
      BY <2>1, <2>2, <2>3, <2>4, <2>5 DEF Next
  <1>3. QED
    BY <1>1, <1>2, Inductive, PTL DEF Spec, ImplementsLine

-----------------------------------------------------------------------------
(***************************************************************************)
(* The order of the answers.  RequestsInOrder speaks of a concatenation;   *)
(* the invariant says the same piece by piece, and that the next identity  *)
(* is larger than all that are under way.                                  *)
(***************************************************************************)
Holding == wpc \in {"decide", "bus", "flash", "deliver"}

Below(s, x) == \A i \in 1 .. Len(s) : s[i].id < x
Above(s, x) == \A i \in 1 .. Len(s) : x < s[i].id

Ordered ==
  /\ Increasing(queueTransaction) /\ Increasing(trans)
  /\ Below(queueTransaction, sent + 1) /\ Below(trans, sent + 1)
  /\ \A i \in 1 .. Len(queueTransaction) : Above(trans, queueTransaction[i].id)
  /\ Holding => /\ tr.id < sent + 1
                /\ Below(queueTransaction, tr.id) /\ Above(trans, tr.id)

LEMMA Identities ==
  ASSUME NEW s \in Seq(Transaction), NEW i \in 1 .. Len(s)
  PROVE  s[i] \in Transaction /\ s[i].id \in Nat
  <1>1. s[i] \in Transaction
    BY ElementOfSeq
  <1>2. \A t \in Transaction : t.id \in Nat
    BY DEF Transaction
  <1>3. QED
    BY <1>1, <1>2

(* What a push at the end and a pop at the front do to an ordered queue. *)
LEMMA PushOrdered ==
  ASSUME NEW s \in Seq(Transaction), NEW t \in Transaction, Increasing(s), Below(s, t.id)
  PROVE  /\ Increasing(Append(s, t))
         /\ \A x \in Nat : Below(s, x) /\ t.id < x => Below(Append(s, t), x)
         /\ \A x \in Nat : Above(s, x) /\ x < t.id => Above(Append(s, t), x)
  <1>1. /\ Len(Append(s, t)) = Len(s) + 1 /\ Len(s) \in Nat
        /\ \A i \in 1 .. Len(s) + 1 :
              Append(s, t)[i] = IF i <= Len(s) THEN s[i] ELSE t
    BY AppendProperties
  <1>2. QED
    BY <1>1 DEF Increasing, Below, Above

LEMMA PopOrdered ==
  ASSUME NEW s \in Seq(Transaction), s # <<>>, Increasing(s)
  PROVE  /\ Increasing(Tail(s)) /\ Above(Tail(s), Head(s).id)
         /\ \A x \in Nat : Below(s, x) => Below(Tail(s), x) /\ Head(s).id < x
         /\ \A x \in Nat : Above(s, x) => Above(Tail(s), x) /\ x < Head(s).id
  <1>1. /\ Head(s) = s[1] /\ Len(s) \in Nat \ {0} /\ Len(Tail(s)) = Len(s) - 1
        /\ \A k \in 1 .. Len(Tail(s)) : Tail(s)[k] = s[k + 1]
    BY TailFacts
  <1>2. \A k \in 1 .. Len(Tail(s)) : k + 1 \in 1 .. Len(s) /\ Tail(s)[k] = s[k + 1]
    BY <1>1
  <1>3. QED
    BY <1>1, <1>2 DEF Increasing, Below, Above

LEMMA SendOrdered ==
  ASSUME IInv, Ordered, NEW kind \in Kind, getTransSlot(kind)
  PROVE  Ordered'
  <1> DEFINE t == [id |-> sent + 1, kind |-> kind]
  <1>1. /\ t \in Transaction /\ t.id = sent + 1 /\ sent \in Nat /\ sent' = sent + 1
        /\ trans \in Seq(Transaction) /\ queueTransaction \in Seq(Transaction)
        /\ tr \in Transaction
    BY DEF getTransSlot, Transaction, IInv, TypeOK
  <1>2. UNCHANGED <<queueTransaction, tr>> /\ Holding' = Holding
    BY DEF getTransSlot, guiVars, Holding
  <1>3. \A x \in Nat : x < sent + 1 => x < sent' + 1
    BY <1>1
  <1>n. /\ \A i \in 1 .. Len(trans) : trans[i].id \in Nat
        /\ \A i \in 1 .. Len(queueTransaction) : queueTransaction[i].id \in Nat
    BY <1>1, Identities
  <1> HIDE DEF t
  <1>4. /\ Below(queueTransaction, sent' + 1)
        /\ \A i \in 1 .. Len(queueTransaction) :
              queueTransaction[i].id \in Nat /\ queueTransaction[i].id < sent + 1
    BY <1>1, <1>n DEF Ordered, Below
  <1>5. Below(trans, sent' + 1)
    BY <1>1, <1>n DEF Ordered, Below
  <1>6. tr.id \in Nat
    BY <1>1 DEF Transaction
  <1>7. CASE trans' = Append(trans, t)
    <2>1. /\ Increasing(trans') /\ Below(trans', sent' + 1)
          /\ \A x \in Nat : Above(trans, x) /\ x < t.id => Above(trans', x)
      BY <1>1, <1>5, <1>7, PushOrdered DEF Ordered
    <2>2. QED
      BY <1>1, <1>2, <1>3, <1>4, <1>6, <2>1 DEF Ordered
  <1>8. CASE trans' = <<t>>
    <2>1. Len(trans') = 1 /\ \A i \in 1 .. Len(trans') : trans'[i].id = sent + 1
      BY <1>1, <1>8
    <2>2. Increasing(trans') /\ Below(trans', sent' + 1)
      BY <1>1, <2>1 DEF Increasing, Below
    <2>3. \A x \in Nat : x < sent + 1 => Above(trans', x)
      BY <2>1 DEF Above
    <2>4. QED
      BY <1>1, <1>2, <1>3, <1>4, <1>6, <2>2, <2>3 DEF Ordered
  <1>9. CASE trans' = trans
    BY <1>1, <1>2, <1>3, <1>4, <1>5, <1>6, <1>9 DEF Ordered
  <1>10. QED
    BY <1>7, <1>8, <1>9 DEF getTransSlot, Enqueue, EnqueueUpdate, Refuse, t

LEMMA WorkerStepOrdered ==
  ASSUME IInv, Ordered, WorkerStep
  PROVE  Ordered'
  <1>1. /\ sent \in Nat /\ tr \in Transaction
        /\ trans \in Seq(Transaction) /\ queueTransaction \in Seq(Transaction)
        /\ tr.id \in Nat /\ sent + 1 \in Nat
    BY DEF IInv, TypeOK, Transaction
  <1>2. \A i \in 1 .. Len(queueTransaction) : queueTransaction[i].id \in Nat
    BY <1>1, Identities
  <1>3. CASE Take
    <2>1. trans # <<>> /\ tr' = Head(trans) /\ trans' = Tail(trans)
          /\ UNCHANGED <<queueTransaction, sent>>
      BY <1>3 DEF Take, guiVars, IInv, DequeueNonEmpty
    <2>2. /\ Increasing(trans') /\ Above(trans', tr'.id)
          /\ \A x \in Nat : Below(trans, x) => Below(trans', x) /\ tr'.id < x
          /\ \A x \in Nat : Above(trans, x) => Above(trans', x) /\ x < tr'.id
      BY <1>1, <2>1, PopOrdered DEF Ordered
    <2>3. Below(queueTransaction, tr'.id)
      BY <1>2, <2>2 DEF Ordered, Below
    <2>4. QED
      BY <1>1, <1>2, <2>1, <2>2, <2>3 DEF Ordered
  <1>4. CASE Deliver
    <2>1. Holding /\ ~Holding' /\ queueTransaction' = Append(queueTransaction, tr)
          /\ UNCHANGED <<trans, sent>>
      BY <1>4 DEF Deliver, Holding
    <2>2. /\ Increasing(queueTransaction') /\ Below(queueTransaction', sent + 1)
      BY <1>1, <2>1, PushOrdered DEF Ordered
    <2>3. \A i \in 1 .. Len(queueTransaction') : Above(trans, queueTransaction'[i].id)
      <3>1. \A i \in 1 .. Len(queueTransaction') :
               \/ queueTransaction'[i] = tr
               \/ /\ i \in 1 .. Len(queueTransaction)
                  /\ queueTransaction'[i] = queueTransaction[i]
        BY <1>1, <2>1, AppendProperties
      <3>2. QED
        BY <2>1, <3>1 DEF Ordered
    <2>4. QED
      BY <2>1, <2>2, <2>3 DEF Ordered
  <1>5. CASE UNCHANGED <<trans, tr, queueTransaction, sent>> /\ (Holding' => Holding)
    BY <1>5 DEF Ordered
  <1>6. CASE Poll \/ Decide \/ BusFails \/ BusAnswers \/ \E ok \in BOOLEAN : FlashWrite(ok)
    <2>1. UNCHANGED <<trans, tr, queueTransaction, sent>> /\ (Holding' => Holding)
      BY <1>6 DEF Poll, Decide, BusFails, BusAnswers, FlashWrite, guiVars, Holding
    <2>2. QED
      BY <1>5, <2>1
  <1>7. QED
    BY <1>3, <1>4, <1>6 DEF WorkerStep

LEMMA ParseOrdered ==
  ASSUME IInv, Ordered, Parse
  PROVE  Ordered'
  <1>1. UNCHANGED <<trans, tr, sent>> /\ Holding' = Holding
    BY DEF Parse, ParseBegin, ParseNext, ParseEnd, workerVars, Holding
  <1>2. CASE queueTransaction' = queueTransaction
    BY <1>1, <1>2 DEF Ordered
  <1>3. CASE ParseNext
    <2>1. /\ queueTransaction \in Seq(Transaction) /\ queueTransaction # <<>>
          /\ queueTransaction' = Tail(queueTransaction)
          /\ tr.id \in Nat /\ sent + 1 \in Nat
      BY <1>3 DEF ParseNext, IInv, TypeOK, Transaction
    <2>2. /\ Increasing(queueTransaction')
          /\ \A x \in Nat : Below(queueTransaction, x) => Below(queueTransaction', x)
      BY <2>1, PopOrdered DEF Ordered
    <2>3. \A i \in 1 .. Len(queueTransaction') :
             i + 1 \in 1 .. Len(queueTransaction)
             /\ queueTransaction'[i] = queueTransaction[i + 1]
      BY <2>1, TailFacts
    <2>4. QED
      BY <1>1, <2>1, <2>2, <2>3 DEF Ordered
  <1>4. QED
    BY <1>2, <1>3 DEF Parse, ParseBegin, ParseEnd

(* Pieces in order make the whole in order. *)
LEMMA OrderedWhole == IInv /\ Ordered => RequestsInOrder
  <1> SUFFICES ASSUME IInv, Ordered PROVE RequestsInOrder
    OBVIOUS
  <1> DEFINE q == queueTransaction
             h == InHand
             m == q \o h
             w == m \o trans
  <1>1. q \in Seq(Transaction) /\ trans \in Seq(Transaction) /\ tr \in Transaction
    BY DEF IInv, TypeOK
  <1>2. /\ h \in Seq(Transaction) /\ Len(h) \in {0, 1}
        /\ \A i \in 1 .. Len(h) : i = 1 /\ h[i] = tr /\ Holding
    BY <1>1 DEF InHand, Holding
  <1>n. Len(q) \in Nat /\ Len(trans) \in Nat
    BY <1>1
  <1> HIDE DEF h
  <1>3. /\ m \in Seq(Transaction) /\ Len(m) = Len(q) + Len(h)
        /\ \A i \in 1 .. Len(q) + Len(h) : m[i] = IF i <= Len(q) THEN q[i] ELSE h[i - Len(q)]
    BY <1>1, <1>2, ConcatProperties
  <1> HIDE DEF m
  <1>4. /\ Len(w) = Len(m) + Len(trans)
        /\ \A i \in 1 .. Len(m) + Len(trans) :
              w[i] = IF i <= Len(m) THEN m[i] ELSE trans[i - Len(m)]
    BY <1>1, <1>3, ConcatProperties
  <1>5. /\ Increasing(m)
        /\ \A i \in 1 .. Len(m) : Above(trans, m[i].id)
    <2>1. \A i \in 1 .. Len(m) : \/ i \in 1 .. Len(q) /\ m[i] = q[i]
                                 \/ i = Len(q) + 1 /\ m[i] = tr /\ Holding
      BY <1>2, <1>3, <1>n
    <2>2. \A i \in 1 .. Len(m) : Above(trans, m[i].id)
      BY <2>1 DEF Ordered
    <2>3. Increasing(m)
      <3> SUFFICES ASSUME NEW i \in 1 .. Len(m), NEW j \in 1 .. Len(m), i < j
                   PROVE  m[i].id < m[j].id
        BY DEF Increasing
      <3>1. i \in 1 .. Len(q) /\ m[i] = q[i]
        BY <2>1, <1>n, <1>2, <1>3
      <3>2. CASE j \in 1 .. Len(q) /\ m[j] = q[j]
        BY <3>1, <3>2 DEF Ordered, Increasing
      <3>3. CASE m[j] = tr /\ Holding
        BY <3>1, <3>3 DEF Ordered, Below
      <3>4. QED
        BY <3>2, <3>3, <2>1
    <2>4. QED
      BY <2>2, <2>3
  <1>6. \A i \in 1 .. Len(w) : \/ i \in 1 .. Len(m) /\ w[i] = m[i]
                               \/ i - Len(m) \in 1 .. Len(trans) /\ i > Len(m)
                                  /\ w[i] = trans[i - Len(m)]
    BY <1>3, <1>4, <1>n, <1>2
  <1>7. Increasing(w)
    <2> SUFFICES ASSUME NEW i \in 1 .. Len(w), NEW j \in 1 .. Len(w), i < j
                 PROVE  w[i].id < w[j].id
      BY DEF Increasing
    <2> HIDE DEF w
    <2>1. CASE j \in 1 .. Len(m) /\ w[j] = m[j]
      BY <2>1, <1>6, <1>5, <1>3, <1>2, <1>n DEF Increasing
    <2>2. CASE j - Len(m) \in 1 .. Len(trans) /\ w[j] = trans[j - Len(m)]
      <3>1. CASE i \in 1 .. Len(m) /\ w[i] = m[i]
        BY <2>2, <3>1, <1>5 DEF Above
      <3>2. CASE i - Len(m) \in 1 .. Len(trans) /\ w[i] = trans[i - Len(m)]
        <4>1. i - Len(m) < j - Len(m)
          BY <1>3, <1>2, <1>n
        <4>2. QED
          BY <2>2, <3>2, <4>1 DEF Ordered, Increasing
      <3>3. QED
        BY <3>1, <3>2, <1>6
    <2>3. QED
      BY <2>1, <2>2, <1>6
  <1>8. QED
    BY <1>7 DEF RequestsInOrder, m, h

(* Answers reach parseWorkerReceive in the order in which the requests     *)
(* were made, for any number of requests, although the queue is cleared by *)
(* an update, requests fail and answers wait for the mutex mQTr.           *)
THEOREM InOrder == Spec => []RequestsInOrder
  <1>1. Init => Ordered
    BY DEF Init, Ordered, Holding, Increasing, Below, Above
  <1>2. IInv /\ Ordered /\ [Next]_vars => Ordered'
    <2> SUFFICES ASSUME IInv, Ordered, [Next]_vars PROVE Ordered'
      OBVIOUS
    <2>1. CASE \E kind \in Kind : getTransSlot(kind)
      BY <2>1, SendOrdered
    <2>2. CASE WorkerStep
      BY <2>2, WorkerStepOrdered
    <2>3. CASE Parse
      BY <2>3, ParseOrdered
    <2>4. CASE Restart
      BY <2>4 DEF Restart, RestartUnpause, RestartConnect, Ordered, Holding
    <2>5. CASE UNCHANGED vars
      BY <2>5 DEF vars, Ordered, Holding
    <2>6. QED
      BY <2>1, <2>2, <2>3, <2>4, <2>5 DEF Next
  <1>3. IInv /\ Ordered => RequestsInOrder
    BY OrderedWhole
  <1>4. QED
    BY <1>1, <1>2, <1>3, Inductive, PTL DEF Spec

-----------------------------------------------------------------------------
(* Every step of the composition is one of Worker, or leaves it alone. *)
LEMMA StepRefines == [SUNext]_suVars => [Next]_vars
<1> SUFFICES ASSUME [SUNext]_suVars PROVE [Next]_vars
  OBVIOUS
<1>1. CASE ClickStart
  BY <1>1 DEF ClickStart, Next, Kind
<1>2. CASE OpenDevicePage
  BY <1>2 DEF OpenDevicePage
<1>3. CASE Start
  BY <1>3 DEF Start, startSoftUpdate
<1>4. CASE readData
  BY <1>4 DEF readData
<1>5. CASE timeout
  BY <1>5 DEF timeout
<1>6. CASE RestartLocalModbus
  BY <1>6 DEF RestartLocalModbus, Next, Restart
<1>7. CASE BoardAnswers
  BY <1>7 DEF BoardAnswers
<1>8. CASE WorkerRuns
  BY <1>8 DEF WorkerRuns, Next
<1>9. CASE ParserRuns
  BY <1>9 DEF ParserRuns, Next
<1>10. CASE Request
  BY <1>10 DEF Request, Next, Kind
<1>11. CASE UNCHANGED suVars
  BY <1>11 DEF suVars
<1> QED BY <1>1, <1>2, <1>3, <1>4, <1>5, <1>6, <1>7, <1>8, <1>9, <1>10, <1>11 DEF SUNext

(* What is proved of Worker holds of the composition with the menu: no     *)
(* click, timeout or answer of a board takes it where Worker cannot go.    *)
THEOREM WorkerKept == SUSpec => Spec
<1>1. SUInit => Init
  BY DEF SUInit
<1> QED BY <1>1, StepRefines, PTL DEF SUSpec, Spec

(* The order of requests and the abstract request line hold through every  *)
(* firmware update, however many are made, refused or left unanswered.     *)
THEOREM UpdateKeepsRequests == SUSpec => []RequestsInOrder /\ ImplementsLine
BY WorkerKept, InOrder, Implements, PTL

-----------------------------------------------------------------------------
(* The flasher *)

(* One click at a time: a call of startSoftUpdate that is due, a session   *)
(* with the board and the giving back of the line exclude each other, and  *)
(* each of them has the line paused; the latter two find it idle.          *)
OneSession ==
  /\ ~orphan
  /\ shots \in {0, 1}
  /\ shots = 1 => ~button /\ serial = "none" /\ ~closing /\ rpc = "idle" /\ pause
  /\ timer = "running" => serial # "none"
  /\ serial # "none" => ~button /\ ~closing /\ rpc = "idle" /\ IdleLine
  /\ closing => rpc = "idle" /\ IdleLine
  /\ rpc \in {"idle", "unpause"}

LEMMA OneSessionInit == SUInit => OneSession
  BY DEF SUInit, Init, OneSession

(* A request made during the pause is refused; a click for an update has   *)
(* the pause on in either case.                                            *)
LEMMA Requested ==
  ASSUME NEW kind, getTransSlot(kind)
  PROVE  /\ pause => pause' /\ trans' = trans
         /\ kind = "updateSoftware" => pause'
         /\ wpc' = wpc /\ rpc' = rpc
<1>1. ~pause /\ kind = "updateSoftware" => pause'
  BY DEF getTransSlot, Enqueue, EnqueueUpdate, Refuse, IsUpdate
<1>2. pause => pause' /\ trans' = trans
  BY DEF getTransSlot, Enqueue, EnqueueUpdate, Refuse
<1>3. wpc' = wpc /\ rpc' = rpc
  BY DEF getTransSlot, guiVars
<1> QED BY <1>1, <1>2, <1>3

(* The worker ends no pause, and has nothing to do on an idle line. *)
LEMMA Worked ==
  ASSUME WorkerStep
  PROVE  pause' = pause /\ rpc' = rpc /\ ~Settled
<1>1. pause' = pause /\ rpc' = rpc
  BY DEF WorkerStep, Poll, Take, Decide, BusFails, BusAnswers, Deliver, FlashWrite, guiVars
<1>2. ~Settled
  BY DEF Settled, WorkerStep, Poll, Take, Decide, BusFails, BusAnswers, Deliver, FlashWrite
<1> QED BY <1>1, <1>2

LEMMA OneSessionStep == ~Reclick /\ OneSession /\ [SUNext]_suVars => OneSession'
<1> SUFFICES ASSUME ~Reclick, OneSession, [SUNext]_suVars PROVE OneSession'
  OBVIOUS
<1> USE DEF OneSession, IdleLine, menuVars, boardVars
<1>1. CASE ClickStart
  <2>1. CASE UNCHANGED <<vars, shots, timer, line>>
    BY <1>1, <2>1 DEF ClickStart, GuiIdle, vars, Settled
  <2>2. CASE getTransSlot("updateSoftware") /\ shots' = shots + 1 /\ timer' = "stopped"
    <3>1. shots = 0 /\ serial = "none" /\ ~closing /\ rpc = "idle"
      BY <1>1 DEF ClickStart, GuiIdle
    <3>2. pause' /\ rpc' = "idle"
      BY <2>2, <3>1, Requested
    <3> QED BY <3>1, <3>2, <2>2, <1>1 DEF ClickStart
  <2> QED BY <1>1, <2>1, <2>2 DEF ClickStart
<1>2. CASE OpenDevicePage
  BY <1>2 DEF OpenDevicePage, vars, Settled
<1>3. CASE Start
  <2>1. PICK opened \in BOOLEAN : startSoftUpdate(opened)
    BY <1>3 DEF Start
  <2>2. shots = 1 /\ shots' = 0
    BY <2>1 DEF startSoftUpdate
  <2>3. pause /\ Settled /\ rpc = "idle" /\ ~closing /\ ~button /\ serial = "none"
    BY <2>1, <2>2 DEF startSoftUpdate
  <2>4. ~orphan' /\ serial' # "none" /\ UNCHANGED <<button, closing, vars>>
    BY <2>1, <2>3 DEF startSoftUpdate
  <2> QED BY <2>2, <2>3, <2>4 DEF vars, Settled
<1>4. CASE readData
  BY <1>4 DEF readData, SendFile, vars, Settled
<1>5. CASE timeout
  BY <1>5 DEF timeout, vars, Settled
<1>6. CASE RestartLocalModbus
  BY <1>6 DEF RestartLocalModbus, RestartConnect, RestartUnpause, Settled
<1>7. CASE BoardAnswers
  BY <1>7 DEF BoardAnswers, vars, Settled
<1>8. CASE WorkerRuns
  <2>1. pause' = pause /\ rpc' = rpc /\ ~Settled
    BY <1>8, Worked DEF WorkerRuns
  <2> QED BY <2>1, <1>8 DEF WorkerRuns, Settled
<1>9. CASE ParserRuns
  BY <1>9 DEF ParserRuns, Parse, ParseBegin, ParseNext, ParseEnd, workerVars, Settled
<1>10. CASE Request
  <2>1. PICK kind \in {"read", "write"} : getTransSlot(kind)
    BY <1>10 DEF Request
  <2>2. (pause => pause' /\ trans' = trans) /\ wpc' = wpc /\ rpc' = rpc
    BY <2>1, Requested
  <2> QED BY <2>2, <1>10 DEF Request, Settled
<1>11. CASE UNCHANGED suVars
  BY <1>11 DEF suVars, vars, Settled
<1> QED BY <1>1, <1>2, <1>3, <1>4, <1>5, <1>6, <1>7, <1>8, <1>9, <1>10, <1>11 DEF SUNext

(* The worker has no exchange on the line while the flasher holds the      *)
(* port, however the click fell among the requests, the answers and the    *)
(* polls: startSoftUpdate finds the pause on and the worker idle.          *)
THEOREM FlasherHasTheLine == ASSUME ~Reclick PROVE SUSpec => []FlasherAlone
<1>1. OneSession => FlasherAlone
  BY DEF OneSession, FlasherAlone, IdleLine, Settled
<1>2. OneSession /\ [SUNext]_suVars => OneSession'
  BY OneSessionStep
<1> QED BY <1>1, <1>2, OneSessionInit, PTL DEF SUSpec

(* The line is given back, and kept through a session, with the pause on,  *)
(* the queue empty and the worker in no exchange: modbus_connect takes the *)
(* port from nobody.                                                       *)
THEOREM GivenBackIdle == ASSUME ~Reclick PROVE SUSpec => []SettledAtClose
<1>1. OneSession => SettledAtClose
  BY DEF OneSession, SettledAtClose, IdleLine, Settled
<1>2. OneSession /\ [SUNext]_suVars => OneSession'
  BY OneSessionStep
<1> QED BY <1>1, <1>2, OneSessionInit, PTL DEF SUSpec

(* What travels belongs to the session that holds the port. *)
Lined == LinesInOrder /\ (wire # "none" => serial = "open")

LEMMA LinedStep == OneSession /\ Lined /\ [SUNext]_suVars => Lined'
<1> SUFFICES ASSUME OneSession, Lined, [SUNext]_suVars PROVE Lined'
  OBVIOUS
<1> USE DEF Lined, LinesInOrder, menuVars, boardVars
<1>1. CASE ClickStart
  BY <1>1 DEF ClickStart, OneSession
<1>2. CASE OpenDevicePage
  BY <1>2 DEF OpenDevicePage
<1>3. CASE Start
  <2>1. PICK opened \in BOOLEAN : startSoftUpdate(opened)
    BY <1>3 DEF Start
  <2>2. serial = "none"
    BY <2>1 DEF startSoftUpdate, OneSession
  <2>3. CASE opened
    BY <2>1, <2>3 DEF startSoftUpdate
  <2>4. CASE ~opened
    BY <2>1, <2>2, <2>4 DEF startSoftUpdate
  <2> QED BY <2>3, <2>4
<1>4. CASE readData
  BY <1>4 DEF readData, SendFile
<1>5. CASE timeout
  BY <1>5 DEF timeout
<1>6. CASE RestartLocalModbus
  BY <1>6 DEF RestartLocalModbus
<1>7. CASE BoardAnswers
  BY <1>7 DEF BoardAnswers
<1>8. CASE WorkerRuns
  BY <1>8 DEF WorkerRuns
<1>9. CASE ParserRuns
  BY <1>9 DEF ParserRuns
<1>10. CASE Request
  BY <1>10 DEF Request
<1>11. CASE UNCHANGED suVars
  BY <1>11 DEF suVars
<1> QED BY <1>1, <1>2, <1>3, <1>4, <1>5, <1>6, <1>7, <1>8, <1>9, <1>10, <1>11 DEF SUNext

(* The board accepts the lines of a file of any length one by one: no      *)
(* rejected line, late timer or session before it lets the flasher run     *)
(* ahead (readData, sendFile).                                             *)
THEOREM LinesAcceptedInOrder == ASSUME ~Reclick PROVE SUSpec => []LinesInOrder
<1>1. SUInit => Lined
  BY DEF SUInit, Lined, LinesInOrder
<1>2. Lined => LinesInOrder
  BY DEF Lined
<1>3. OneSession /\ [SUNext]_suVars => OneSession'
  BY OneSessionStep
<1> QED BY <1>1, <1>2, <1>3, LinedStep, OneSessionInit, PTL DEF SUSpec
=============================================================================
