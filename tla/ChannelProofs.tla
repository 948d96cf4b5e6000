---------------------------- MODULE ChannelProofs ----------------------------
(***************************************************************************)
(* Proofs about Channel: the types of its variables, and that what was set *)
(* last, by whichever thread, is what the board gets last.                 *)
(***************************************************************************)
EXTENDS Channel, Integers, TLAPS

(* The values of parameters are numbers, and their whole parts are values. *)
LEMMA Numbers ==
  /\ \A p \in Param : Value(p) \subseteq Number
  /\ \A p \in Param : \A v \in Value(p) : Whole(p, v) \in Value(p)
  /\ \A f \in Values, p \in Param : f[p] \in Value(p) /\ f[p] \in Number
<1>1. \A p \in Param : Value(p) \subseteq Number
  BY DEF Value, Number, Plain, Special
<1>2. \A p \in Param : \A v \in Value(p) : Whole(p, v) \in Value(p)
  <2>1. 2 - (2 % 2) = 2 /\ 3 - (3 % 2) = 2
    OBVIOUS
  <2> QED BY <2>1 DEF Whole, Value
<1>3. \A f \in Values, p \in Param : f[p] \in Value(p) /\ f[p] \in Number
  BY <1>1 DEF Values
<1> QED BY <1>1, <1>2, <1>3

(* What is polled is a sequence of requests, none of them a write. *)
LEMMA ReadsType ==
  ASSUME TypeOK
  PROVE  /\ ReadsOf(listStr) \in Seq(Request) /\ ReadsOf(NextPolled) \in Seq(Request)
         /\ \A i \in DOMAIN ReadsOf(listStr) : ReadsOf(listStr)[i].op = "R"
         /\ \A i \in DOMAIN ReadsOf(NextPolled) : ReadsOf(NextPolled)[i].op = "R"
<1>1. ASSUME NEW q \in Seq(Param)
      PROVE  /\ ReadsOf(q) \in Seq(Request)
             /\ \A i \in DOMAIN ReadsOf(q) : ReadsOf(q)[i].op = "R"
  <2>1. \A p \in Param : Read(p) \in Request
    BY DEF Read, Request, Number
  <2>2. ReadsOf(q) \in [1..Len(q) -> Request]
    BY <2>1 DEF ReadsOf
  <2> QED BY <2>2 DEF ReadsOf, Read
<1>2. listStr \in Seq(Param) /\ <<"type">> \in Seq(Param) /\ <<>> \in Seq(Param)
  BY DEF listStr, Param
<1>3. Len(listStr) = 2 /\ next \in 1..2 /\ listStr[next] \in Param
  BY DEF TypeOK, listStr, Param
<1>4. <<listStr[next]>> \in Seq(Param)
  BY <1>3
<1>5. NextPolled \in Seq(Param)
  BY <1>2, <1>4 DEF TypeOK, Kind, NextPolled
<1> QED BY <1>1, <1>2, <1>5

(* What the threads have to do is a sequence of jobs. *)
LEMMA JobsType ==
  ASSUME TypeOK
  PROVE  /\ \A f \in Values : SaveSteps(f) \in Seq(Job)
         /\ \A p \in Param : \A v \in Value(p) : <<Set(p, v)>> \in Seq(Job)
         /\ \A a \in Answer : Corrections(a) \in Seq(Job)
<1>1. \A p \in Param : \A v \in Value(p) : Set(p, v) \in Job /\ Write(p, v) \in Job
  BY Numbers DEF Set, Write, Job
<1>2. "type" \in Param /\ "extra" \in Param
  BY DEF Param
<1>3. \A f \in Values : SaveSteps(f) \in Seq(Job)
  <2>1. \A f \in Values : Set("type", f["type"]) \in Job /\ Set("extra", f["extra"]) \in Job
    BY <1>1, <1>2, Numbers
  <2> QED BY <2>1 DEF SaveSteps
<1>4. \A p \in Param : \A v \in Value(p) : <<Set(p, v)>> \in Seq(Job)
  BY <1>1
<1>5. \A a \in Answer : Corrections(a) \in Seq(Job)
  <2>1. ASSUME NEW a \in Answer
        PROVE  Write(a.p, Whole(a.p, want[a.p])) \in Job
    <3>1. a.p \in Param /\ want[a.p] \in Value(a.p)
      BY Numbers DEF Answer, TypeOK
    <3> QED BY <3>1, <1>1, Numbers
  <2> QED BY <2>1 DEF Corrections
<1> QED BY <1>3, <1>4, <1>5

LEMMA TypeInit == Init => TypeOK
<1> SUFFICES ASSUME Init PROVE TypeOK
  OBVIOUS
<1>1. todo \in [Thread -> Seq(Job)] /\ requests \in Seq(Request) /\ answers \in Seq(Answer)
  BY DEF Init
<1>2. next \in 1..Len(listStr) /\ sets \in 0..MaxSets /\ faults \in 0..MaxFaults
  BY ChannelAssumption DEF Init, listStr
<1>3. missed \in [Param -> BOOLEAN]
  BY DEF Init
<1> QED BY <1>1, <1>2, <1>3 DEF Init, TypeOK

LEMMA TypeStep == TypeOK /\ [Next]_vars => TypeOK'
<1> SUFFICES ASSUME TypeOK, [Next]_vars PROVE TypeOK'
  OBVIOUS
<1> USE ChannelAssumption DEF boardVars, lineVars
<1>1. CASE Save
  <2>1. todo' \in [Thread -> Seq(Job)]
    BY <1>1, JobsType DEF Save, TypeOK
  <2> QED BY <2>1, <1>1 DEF Save, TypeOK
<1>2. CASE ExtSet
  <2>1. todo' \in [Thread -> Seq(Job)]
    BY <1>2, JobsType DEF ExtSet, ExtSetOne, TypeOK
  <2> QED BY <2>1, <1>2 DEF ExtSet, ExtSetOne, TypeOK
<1>3. ASSUME NEW t \in Thread, Assign(t) PROVE TypeOK'
  <2> DEFINE s == Head(todo[t])
  <2>1. todo[t] \in Seq(Job) /\ todo[t] # <<>> /\ s \in Job
    BY <1>3 DEF Assign, Idle, TypeOK
  <2>2. s.p \in Param /\ s.v \in Value(s.p) /\ s.v \in Number
    BY <2>1 DEF Job
  <2>3. todo' \in [Thread -> Seq(Job)]
    <3>1. Write(s.p, s.v) \in Job
      BY <2>2 DEF Write, Job
    <3>2. Tail(todo[t]) \in Seq(Job) /\ [todo[t] EXCEPT ![1] = Write(s.p, s.v)] \in Seq(Job)
      BY <3>1, <2>1
    <3> QED BY <3>2, <1>3 DEF Assign, TypeOK
  <2>4. want' \in Values
    BY <2>2, <1>3 DEF Assign, TypeOK, Values
  <2>5. missed' \in [Param -> BOOLEAN]
    BY <1>3 DEF Assign, TypeOK
  <2> QED BY <2>3, <2>4, <2>5, <1>3 DEF Assign, TypeOK
<1>4. ASSUME NEW t \in Thread, Emit(t) PROVE TypeOK'
  <2> DEFINE w == Head(todo[t])
  <2>1. todo[t] \in Seq(Job) /\ todo[t] # <<>> /\ w \in Job /\ w.op = "W"
    BY <1>4 DEF Emit, Idle, TypeOK
  <2>2. w \in Request
    BY <2>1 DEF Job, Request
  <2>3. requests' \in Seq(Request)
    BY <2>2, <1>4 DEF Emit, TypeOK
  <2>4. todo' \in [Thread -> Seq(Job)]
    BY <2>1, <1>4 DEF Emit, TypeOK
  <2>5. missed' \in [Param -> BOOLEAN]
    BY <1>4 DEF Emit, TypeOK, Connected
  <2> QED BY <2>3, <2>4, <2>5, <1>4 DEF Emit, TypeOK
<1>5. CASE updateParam
  <2>1. requests' \in Seq(Request)
    BY <1>5, ReadsType DEF updateParam, TypeOK
  <2>2. next' \in 1..Len(listStr)
    BY <1>5 DEF updateParam, TypeOK, listStr
  <2> QED BY <2>1, <2>2, <1>5 DEF updateParam, TypeOK
<1>6. CASE Enable
  <2>1. requests' \in Seq(Request)
    BY <1>6, ReadsType DEF Enable, TypeOK
  <2> QED BY <2>1, <1>6 DEF Enable, TypeOK
<1>7. CASE parserChannel
  <2>1. Tail(answers) \in Seq(Answer) /\ Head(answers) \in Answer
    BY <1>7 DEF parserChannel, TypeOK
  <2>2. todo' \in [Thread -> Seq(Job)]
    BY <2>1, <1>7, JobsType DEF parserChannel, TypeOK
  <2> QED BY <2>1, <2>2, <1>7 DEF parserChannel, TypeOK
<1>8. CASE BoardReads
  <2>1. Tail(requests) \in Seq(Request) /\ Head(requests) \in Request
    BY <1>8 DEF BoardReads, TypeOK
  <2>2. [Head(requests) EXCEPT !.v = have[Head(requests).p]] \in Answer
    <3>1. Head(requests).p \in Param /\ have[Head(requests).p] \in Value(Head(requests).p)
      BY <2>1, Numbers DEF Request, TypeOK
    <3> QED BY <3>1, <2>1, <1>8, Numbers DEF BoardReads, Request, Answer
  <2> QED BY <2>1, <2>2, <1>8 DEF BoardReads, TypeOK
<1>9. CASE BoardWrites
  <2>1. Tail(requests) \in Seq(Request) /\ Head(requests) \in Request
    BY <1>9 DEF BoardWrites, TypeOK
  <2>2. have' \in Values
    BY <2>1, <1>9 DEF BoardWrites, Request, TypeOK, Values
  <2> QED BY <2>1, <2>2, <1>9 DEF BoardWrites, TypeOK
<1>10. CASE NoAnswer
  <2>1. Tail(requests) \in Seq(Request)
    BY <1>10 DEF NoAnswer, TypeOK
  <2>2. missed' \in [Param -> BOOLEAN]
    BY <1>10 DEF NoAnswer, TypeOK
  <2>3. faults' \in 0..MaxFaults
    BY <1>10 DEF NoAnswer, TypeOK
  <2> QED BY <2>1, <2>2, <2>3, <1>10 DEF NoAnswer, TypeOK
<1>11. CASE Disable
  BY <1>11 DEF Disable, TypeOK
<1>12. CASE Unplug
  <2>1. faults' = faults + 1 /\ faults < MaxFaults /\ faults \in 0..MaxFaults
    BY <1>12 DEF Unplug, TypeOK
  <2>2. faults' \in 0..MaxFaults
    BY <2>1
  <2> QED BY <2>2, <1>12 DEF Unplug, TypeOK
<1>13. CASE Plug
  BY <1>13 DEF Plug, TypeOK
<1>14. CASE UNCHANGED vars
  BY <1>14 DEF vars, TypeOK
<1> QED BY <1>1, <1>2, <1>3, <1>4, <1>5, <1>6, <1>7, <1>8, <1>9, <1>10, <1>11, <1>12, <1>13, <1>14 DEF Next, Run, Board

(* Every setting, job, request and answer is of the parameter it is for:   *)
(* the parser, the setters and the board keep their types.                 *)
THEOREM TypeCorrect == Spec => []TypeOK
  BY TypeInit, TypeStep, PTL DEF Spec

-----------------------------------------------------------------------------
(* What was set last *)

(* The mutex of the channels: one thread at a time. *)
Exclusive == \A t, u \in Thread : t # u => Idle(t) \/ Idle(u)

(* Only the first thing a thread has to do is a write, and that is of the  *)
(* setting as it is now.                                                   *)
WritesCurrent ==
  \A t \in Thread : \A i \in DOMAIN todo[t] :
    todo[t][i].op = "W" =>
      i = 1 /\ todo[t][i].v \in {want[todo[t][i].p], Whole(todo[t][i].p, want[todo[t][i].p])}

IInv == TypeOK /\ Exclusive /\ WritesCurrent /\ LastWriteWins

(* A request added that is no write of p leaves what the board gets; a     *)
(* write is what it gets.                                                  *)
LEMMA Added ==
  ASSUME NEW p \in Param, want'[p] = want[p], requests \in Seq(Request), NEW q \in Seq(Request),
         requests' = requests \o q, have'[p] = have[p]
  PROVE  (\A i \in DOMAIN q : q[i].op = "R" \/ q[i].p # p) /\ BoardGets(p, want[p]) => BoardGets(p, want[p])'
<1> SUFFICES ASSUME \A i \in DOMAIN q : q[i].op = "R" \/ q[i].p # p, BoardGets(p, want[p])
             PROVE  BoardGets(p, want[p])'
  OBVIOUS
<1>1. /\ DOMAIN requests = 1..Len(requests) /\ Len(requests) \in Nat /\ Len(q) \in Nat
      /\ DOMAIN requests' = 1..(Len(requests) + Len(q))
      /\ \A i \in 1..Len(requests) : requests'[i] = requests[i]
      /\ \A i \in (Len(requests) + 1)..(Len(requests) + Len(q)) : requests'[i] = q[i - Len(requests)]
  OBVIOUS
<1>2. \A i \in (Len(requests) + 1)..(Len(requests) + Len(q)) : i - Len(requests) \in DOMAIN q
  BY <1>1
<1>3. WritesOf(p)' = WritesOf(p)
  BY <1>1, <1>2 DEF WritesOf
<1>4. \A i \in WritesOf(p) : requests'[i] = requests[i]
  BY <1>1 DEF WritesOf
<1> QED BY <1>3, <1>4 DEF BoardGets

LEMMA Written ==
  ASSUME NEW p \in Param, NEW w \in Request, w.op = "W", w.p = p, w.v = want'[p],
         requests \in Seq(Request), requests' = Append(requests, w)
  PROVE  BoardGets(p, want[p])'
<1> DEFINE n == Len(requests) + 1
<1>1. n \in Nat /\ DOMAIN requests' = 1..n /\ requests'[n] = w
  OBVIOUS
<1>2. n \in WritesOf(p)' /\ \A j \in WritesOf(p)' : j <= n
  BY <1>1 DEF WritesOf
<1> QED BY <1>1, <1>2 DEF BoardGets

(* The first request done: the board gets the same, if it is not a write   *)
(* of p, if it is one and is done, or if it is one and not the last.       *)
LEMMA Taken ==
  ASSUME NEW p \in Param, want'[p] = want[p], requests \in Seq(Request), requests # <<>>,
         requests' = Tail(requests), BoardGets(p, want[p]),
         \/ ~(requests[1].op = "W" /\ requests[1].p = p) /\ have'[p] = have[p]
         \/ requests[1].op = "W" /\ requests[1].p = p /\ have'[p] = requests[1].v
         \/ requests[1].op = "W" /\ requests[1].p = p /\ WritesOf(p) # {1}
  PROVE  BoardGets(p, want[p])'
<1>1. /\ Len(requests) \in Nat \ {0} /\ DOMAIN requests = 1..Len(requests)
      /\ DOMAIN requests' = 1..(Len(requests) - 1)
      /\ \A i \in 1..(Len(requests) - 1) : requests'[i] = requests[i + 1]
  OBVIOUS
<1>2. \A i \in Int : i \in WritesOf(p)' <=> i >= 1 /\ i + 1 \in WritesOf(p)
  <2> SUFFICES ASSUME NEW i \in Int
               PROVE  i \in WritesOf(p)' <=> i >= 1 /\ i + 1 \in WritesOf(p)
    OBVIOUS
  <2>1. i \in DOMAIN requests' <=> i >= 1 /\ i + 1 \in DOMAIN requests
    BY <1>1
  <2>2. i \in DOMAIN requests' => requests'[i] = requests[i + 1]
    BY <1>1
  <2> QED BY <2>1, <2>2, Zenon DEF WritesOf
<1>3. WritesOf(p) \subseteq Nat \ {0} /\ WritesOf(p)' \subseteq Nat \ {0}
  BY <1>1 DEF WritesOf
<1>4. \A i \in WritesOf(p)' : requests'[i] = requests[i + 1]
  BY <1>1 DEF WritesOf
<1>5. CASE WritesOf(p) = {}
  <2>1. have[p] = want[p]
    BY <1>5 DEF BoardGets
  <2>2. WritesOf(p)' = {}
    BY <1>5, <1>2, <1>3
  <2>3. ~(requests[1].op = "W" /\ requests[1].p = p)
    BY <1>5, <1>1 DEF WritesOf
  <2> QED BY <2>1, <2>2, <2>3 DEF BoardGets
<1>6. CASE WritesOf(p) # {}
  <2>1. PICK i \in WritesOf(p) : requests[i].v = want[p] /\ \A j \in WritesOf(p) : j <= i
    BY <1>6 DEF BoardGets
  <2>2. CASE i = 1
    <3>1. WritesOf(p) = {1} /\ requests[1].op = "W" /\ requests[1].p = p
      BY <2>1, <2>2, <1>3 DEF WritesOf
    <3>2. WritesOf(p)' = {}
      BY <3>1, <1>2, <1>3
    <3> QED BY <2>1, <2>2, <3>1, <3>2 DEF BoardGets
  <2>3. CASE i # 1
    <3>0. i \in Nat \ {0, 1} /\ (i - 1) + 1 = i /\ i - 1 \in Int /\ i - 1 >= 1
      BY <2>1, <2>3, <1>3
    <3>1. i - 1 \in WritesOf(p)' /\ requests'[i - 1].v = want[p]
      BY <3>0, <2>1, <1>2, <1>4
    <3>2. \A j \in WritesOf(p)' : j <= i - 1
      BY <2>1, <1>2, <1>3
    <3> QED BY <3>1, <3>2 DEF BoardGets
  <2> QED BY <2>2, <2>3
<1> QED BY <1>5, <1>6

LEMMA InitHolds == Init => IInv
  BY TypeInit DEF Init, IInv, Exclusive, Idle, WritesCurrent, LastWriteWins

(* A step that changes neither what is set nor what is to be done nor what *)
(* the board gets.                                                         *)
LEMMA Same ==
  ASSUME IInv, TypeOK', UNCHANGED <<kind, want, todo>>,
         \A p \in Param : ~missed'[p] => ~missed[p] /\ (BoardGets(p, want[p]) => BoardGets(p, want[p])')
  PROVE  IInv'
<1>1. Exclusive' /\ WritesCurrent'
  BY DEF IInv, Exclusive, Idle, WritesCurrent, Whole
<1>2. LastWriteWins'
  <2> SUFFICES ASSUME NEW p \in Param, ~missed'[p], ~Underway(p)', Kept(p)'
               PROVE  BoardGets(p, want[p])'
    BY DEF LastWriteWins
  <2>1. ~missed[p] /\ ~Underway(p) /\ Kept(p)
    BY DEF Underway, Kept, Whole
  <2> QED BY <2>1 DEF IInv, LastWriteWins
<1> QED BY <1>1, <1>2 DEF IInv

LEMMA StepHolds == IInv /\ [Next]_vars => IInv'
<1> SUFFICES ASSUME IInv, [Next]_vars PROVE IInv'
  OBVIOUS
<1>t. TypeOK /\ TypeOK'
  BY TypeStep DEF IInv
<1>r. requests \in Seq(Request) /\ answers \in Seq(Answer) /\ todo \in [Thread -> Seq(Job)]
  BY <1>t DEF TypeOK
<1> USE DEF boardVars, lineVars
(* A thread locks the mutex and plans what it is to do. *)
<1>p. ASSUME NEW t \in Thread, NEW q \in Seq(Job), Unlocked, todo' = [todo EXCEPT ![t] = q],
             UNCHANGED <<kind, want, have, requests, missed>>,
             \A i \in DOMAIN q : q[i].op = "W" =>
               i = 1 /\ q[i].v \in {want[q[i].p], Whole(q[i].p, want[q[i].p])}
      PROVE  IInv'
  <2>1. \A u \in Thread : todo[u] = <<>> /\ (u # t => todo'[u] = <<>>)
    BY <1>p, <1>r DEF Unlocked, Idle
  <2>2. todo'[t] = q
    BY <1>p, <1>r
  <2>3. Exclusive'
    BY <2>1 DEF Exclusive, Idle
  <2>4. WritesCurrent'
    BY <1>p, <2>1, <2>2 DEF WritesCurrent, Whole
  <2>5. LastWriteWins'
    <3> SUFFICES ASSUME NEW p \in Param, ~missed'[p], ~Underway(p)', Kept(p)'
                 PROVE  BoardGets(p, want[p])'
      BY DEF LastWriteWins
    <3>1. ~missed[p] /\ ~Underway(p) /\ Kept(p)
      BY <1>p, <2>1 DEF Underway, Kept, Whole
    <3>2. BoardGets(p, want[p])
      BY <3>1 DEF IInv, LastWriteWins
    <3> QED BY <3>2, <1>p DEF BoardGets, WritesOf
  <2> QED BY <2>3, <2>4, <2>5, <1>t DEF IInv
<1>1. CASE Save
  <2>1. PICK f \in Values : todo' = [todo EXCEPT !["gui"] = SaveSteps(f)]
    BY <1>1 DEF Save
  <2>2. SaveSteps(f) \in Seq(Job) /\ \A i \in DOMAIN SaveSteps(f) : SaveSteps(f)[i].op = "set"
    BY <1>t, JobsType DEF SaveSteps, Set
  <2> QED BY <1>1, <2>1, <2>2, <1>p DEF Save, Thread
<1>2. CASE ExtSet
  <2>1. PICK p \in Param : \E v \in Value(p) : todo' = [todo EXCEPT !["server"] = <<Set(p, v)>>]
    BY <1>2 DEF ExtSet, ExtSetOne
  <2>2. PICK v \in Value(p) : todo' = [todo EXCEPT !["server"] = <<Set(p, v)>>]
    BY <2>1
  <2>3. <<Set(p, v)>> \in Seq(Job) /\ \A i \in DOMAIN <<Set(p, v)>> : <<Set(p, v)>>[i].op = "set"
    BY <1>t, JobsType DEF Set
  <2> QED BY <1>2, <2>2, <2>3, <1>p DEF ExtSet, ExtSetOne, Thread
<1>3. CASE parserChannel
  <2>1. Head(answers) \in Answer
    BY <1>3, <1>r DEF parserChannel
  <2>2. Corrections(Head(answers)) \in Seq(Job)
    BY <2>1, <1>t, JobsType
  <2>3. \A i \in DOMAIN Corrections(Head(answers)) :
          LET c == Corrections(Head(answers))[i] IN i = 1 /\ c.v = Whole(c.p, want[c.p])
    BY DEF Corrections, Write
  <2> QED BY <1>3, <2>2, <2>3, <1>p DEF parserChannel, Thread
<1>4. ASSUME NEW t \in Thread, Assign(t) PROVE IInv'
  <2> DEFINE s == Head(todo[t])
  <2>1. todo[t] \in Seq(Job) /\ todo[t] # <<>> /\ s = todo[t][1] /\ s \in Job /\ s.op = "set"
        /\ s.p \in Param
    BY <1>4, <1>r DEF Assign, Idle, Job
  <2>2. /\ want' = [want EXCEPT ![s.p] = s.v] /\ UNCHANGED <<kind, have, requests>>
        /\ missed' = [missed EXCEPT ![s.p] = @ \/ ~Sends(s.p)]
        /\ \A u \in Thread : u # t => todo'[u] = todo[u]
        /\ todo'[t] = IF Sends(s.p) THEN [todo[t] EXCEPT ![1] = Write(s.p, s.v)] ELSE Tail(todo[t])
    BY <1>4, <1>r DEF Assign
  <2>3. \A u \in Thread : u # t => todo[u] = <<>> /\ todo'[u] = <<>>
    BY <2>1, <2>2 DEF IInv, Exclusive, Idle
  <2>4. Exclusive'
    BY <2>3 DEF Exclusive, Idle
  <2>5. \A i \in DOMAIN todo[t] : todo[t][i].op = "set"
    BY <2>1 DEF IInv, WritesCurrent, Job
  <2>6. want'[s.p] = s.v
    BY <2>1, <2>2, <1>t DEF TypeOK, Values
  <2>7. CASE Sends(s.p)
    <3>1. /\ DOMAIN todo'[t] = DOMAIN todo[t] /\ 1 \in DOMAIN todo'[t]
          /\ todo'[t][1] = Write(s.p, s.v)
          /\ \A i \in DOMAIN todo[t] : i # 1 => todo'[t][i] = todo[t][i]
      BY <2>1, <2>2, <2>7
    <3>2. \A i \in DOMAIN todo'[t] : todo'[t][i].op = "W" =>
            i = 1 /\ todo'[t][i].v = want'[todo'[t][i].p]
      BY <3>1, <2>5, <2>6 DEF Write
    <3>3. WritesCurrent'
      BY <3>2, <2>3 DEF WritesCurrent
    <3>4. LastWriteWins'
      <4> SUFFICES ASSUME NEW p \in Param, ~missed'[p], ~Underway(p)', Kept(p)'
                   PROVE  BoardGets(p, want[p])'
        BY DEF LastWriteWins
      <4>1. p # s.p
        BY <3>1 DEF Underway, Write
      <4>2. ~missed[p] /\ want'[p] = want[p] /\ Kept(p)
        BY <4>1, <2>1, <2>2, <1>t DEF TypeOK, Values, Kept, Whole
      <4>3. ~Underway(p)
        BY <2>1, <2>3, <3>1, <4>1 DEF Underway
      <4>4. BoardGets(p, want[p])
        BY <4>2, <4>3 DEF IInv, LastWriteWins
      <4> QED BY <4>2, <4>4, <2>2 DEF BoardGets, WritesOf
    <3> QED BY <3>3, <3>4, <2>4, <1>t DEF IInv
  <2>8. CASE ~Sends(s.p)
    <3>1. todo'[t] = Tail(todo[t])
      BY <2>2, <2>8
    <3>2. /\ \A i \in DOMAIN todo'[t] : i + 1 \in DOMAIN todo[t] /\ todo'[t][i] = todo[t][i + 1]
          /\ \A i \in DOMAIN todo[t] : i = 1 \/ (i - 1 \in DOMAIN todo'[t] /\ todo[t][i] = todo'[t][i - 1])
      BY <2>1, <3>1
    <3>3. WritesCurrent'
      BY <3>2, <2>3, <2>5 DEF WritesCurrent
    <3>4. LastWriteWins'
      <4> SUFFICES ASSUME NEW p \in Param, ~missed'[p], ~Underway(p)', Kept(p)'
                   PROVE  BoardGets(p, want[p])'
        BY DEF LastWriteWins
      <4>1. p # s.p
        BY <2>1, <2>2, <2>8, <1>t DEF TypeOK
      <4>2. ~missed[p] /\ want'[p] = want[p] /\ Kept(p)
        BY <4>1, <2>1, <2>2, <1>t DEF TypeOK, Values, Kept, Whole
      <4>3. ~Underway(p)
        BY <2>1, <2>3, <3>2, <4>1 DEF Underway
      <4>4. BoardGets(p, want[p])
        BY <4>2, <4>3 DEF IInv, LastWriteWins
      <4> QED BY <4>2, <4>4, <2>2 DEF BoardGets, WritesOf
    <3> QED BY <3>3, <3>4, <2>4, <1>t DEF IInv
  <2> QED BY <2>7, <2>8
<1>5. ASSUME NEW t \in Thread, Emit(t) PROVE IInv'
  <2> DEFINE w == Head(todo[t])
  <2>1. todo[t] \in Seq(Job) /\ todo[t] # <<>> /\ w = todo[t][1] /\ w \in Job /\ w.op = "W"
        /\ w.p \in Param /\ w \in Request
    <3>1. todo[t] \in Seq(Job) /\ todo[t] # <<>> /\ w.op = "W"
      BY <1>5, <1>r DEF Emit, Idle
    <3>2. w = todo[t][1] /\ w \in Job
      BY <3>1
    <3>3. w.p \in Param /\ w \in Request
      <4> HIDE DEF w
      <4> QED BY <3>1, <3>2 DEF Job, Request
    <3> QED BY <3>1, <3>2, <3>3
  <2>2. /\ UNCHANGED <<kind, want, have>>
        /\ requests' = IF Connected(t) THEN Append(requests, w) ELSE requests
        /\ missed' = [missed EXCEPT ![w.p] = ~Connected(t)]
        /\ \A u \in Thread : u # t => todo'[u] = todo[u]
        /\ todo'[t] = Tail(todo[t])
    BY <1>5, <1>r DEF Emit
  <2>3. \A u \in Thread : u # t => todo[u] = <<>> /\ todo'[u] = <<>>
    BY <2>1, <2>2 DEF IInv, Exclusive, Idle
  <2>4. Exclusive'
    BY <2>3 DEF Exclusive, Idle
  <2>5. /\ \A i \in DOMAIN todo'[t] : i + 1 \in DOMAIN todo[t] /\ todo'[t][i] = todo[t][i + 1]
        /\ \A i \in DOMAIN todo[t] : i = 1 \/ (i - 1 \in DOMAIN todo'[t] /\ todo[t][i] = todo'[t][i - 1])
        /\ \A i \in DOMAIN todo'[t] : i >= 1
    BY <2>1, <2>2
  <2>6. WritesCurrent'
    <3>1. \A i \in DOMAIN todo'[t] : todo'[t][i].op # "W"
      <4> SUFFICES ASSUME NEW i \in DOMAIN todo'[t], todo'[t][i].op = "W" PROVE FALSE
        OBVIOUS
      <4>1. i >= 1 /\ i + 1 \in DOMAIN todo[t] /\ todo[t][i + 1].op = "W" /\ i \in Int
        BY <2>5, <2>1, <2>2
      <4>2. i + 1 = 1
        BY <4>1, Zenon DEF IInv, WritesCurrent
      <4> QED BY <4>1, <4>2
    <3> QED BY <3>1, <2>3 DEF WritesCurrent
  <2>7. w.v \in {want[w.p], Whole(w.p, want[w.p])}
    BY <2>1 DEF IInv, WritesCurrent
  <2>8. LastWriteWins'
    <3> SUFFICES ASSUME NEW p \in Param, ~missed'[p], ~Underway(p)', Kept(p)'
                 PROVE  BoardGets(p, want[p])'
      BY DEF LastWriteWins
    <3>1. Kept(p)
      BY <2>2 DEF Kept, Whole
    <3>2. CASE p = w.p
      <4>1. Connected(t)
        BY <3>2, <2>1, <2>2, <1>t DEF TypeOK
      <4>2. requests' = Append(requests, w) /\ w.v = want'[p]
        BY <4>1, <2>2, <2>7, <3>1, <3>2 DEF Kept
      <4> QED BY <4>2, <3>2, <2>1, <1>r, Written
    <3>3. CASE p # w.p
      <4>1. ~missed[p]
        BY <3>3, <2>1, <2>2, <1>t DEF TypeOK
      <4>2. ~Underway(p)
        BY <2>1, <2>3, <2>5, <3>3 DEF Underway
      <4>3. BoardGets(p, want[p])
        BY <3>1, <4>1, <4>2 DEF IInv, LastWriteWins
      <4>4. CASE Connected(t)
        <5>1. requests' = requests \o <<w>> /\ <<w>> \in Seq(Request)
          BY <4>4, <2>1, <2>2, <1>r
        <5>2. \A i \in DOMAIN <<w>> : <<w>>[i].p # p
          BY <3>3
        <5>3. have'[p] = have[p] /\ want'[p] = want[p]
          BY <2>2
        <5> QED BY <5>1, <5>2, <5>3, <4>3, <1>r, Added
      <4>5. CASE ~Connected(t)
        BY <4>5, <4>3, <2>2 DEF BoardGets, WritesOf
      <4> QED BY <4>4, <4>5
    <3> QED BY <3>2, <3>3
  <2> QED BY <2>4, <2>6, <2>8, <1>t DEF IInv
<1>6. CASE updateParam
  <2>1. requests' = requests \o ReadsOf(NextPolled) /\ UNCHANGED <<kind, want, have, todo, missed>>
    BY <1>6 DEF updateParam
  <2>2. \A p \in Param : BoardGets(p, want[p]) => BoardGets(p, want[p])'
    BY <2>1, <1>r, <1>t, ReadsType, Added
  <2> QED BY <2>1, <2>2, <1>t, Same
<1>7. CASE Enable
  <2>1. UNCHANGED <<kind, want, have, todo, missed>>
    BY <1>7 DEF Enable
  <2>2. CASE kind = "analog"
    <3>1. requests' = requests \o ReadsOf(listStr)
      BY <1>7, <2>2 DEF Enable
    <3>2. \A p \in Param : BoardGets(p, want[p]) => BoardGets(p, want[p])'
      BY <2>1, <3>1, <1>r, <1>t, ReadsType, Added
    <3> QED BY <2>1, <3>2, <1>t, Same
  <2>3. CASE kind # "analog"
    <3>1. requests' = requests
      BY <1>7, <2>3 DEF Enable
    <3>2. \A p \in Param : BoardGets(p, want[p]) => BoardGets(p, want[p])'
      BY <2>1, <3>1 DEF BoardGets, WritesOf
    <3> QED BY <2>1, <3>2, <1>t, Same
  <2> QED BY <2>2, <2>3
<1>8. CASE Disable \/ Unplug \/ UNCHANGED vars
  <2>1. UNCHANGED <<kind, want, have, todo, requests, missed>>
    BY <1>8 DEF Disable, Unplug, vars
  <2>2. \A p \in Param : BoardGets(p, want[p]) => BoardGets(p, want[p])'
    BY <2>1 DEF BoardGets, WritesOf
  <2> QED BY <2>1, <2>2, <1>t, Same
<1>9. CASE Plug
  <2>1. UNCHANGED <<kind, want, todo>> /\ \A p \in Param : missed'[p]
    BY <1>9 DEF Plug
  <2> QED BY <2>1, <1>t, Same
<1>10. CASE BoardReads
  <2>1. /\ requests # <<>> /\ requests' = Tail(requests) /\ requests[1].op = "R"
        /\ UNCHANGED <<kind, want, have, todo, missed>>
    BY <1>10, <1>r DEF BoardReads
  <2>2. \A p \in Param : BoardGets(p, want[p]) => BoardGets(p, want[p])'
    BY <2>1, <1>r, Taken
  <2> QED BY <2>1, <2>2, <1>t, Same
<1>11. CASE BoardWrites
  <2>0. requests # <<>> => Head(requests) = requests[1] /\ requests[1] \in Request
    BY <1>r
  <2>1. /\ requests # <<>> /\ requests' = Tail(requests)
        /\ requests[1].op = "W" /\ requests[1].p \in Param
        /\ have' = [have EXCEPT ![requests[1].p] = requests[1].v]
        /\ UNCHANGED <<kind, want, todo, missed>>
    BY <1>11, <2>0 DEF BoardWrites, Request
  <2>2. \A p \in Param : BoardGets(p, want[p]) => BoardGets(p, want[p])'
    <3> TAKE p \in Param
    <3>1. have'[p] = IF requests[1].p = p THEN requests[1].v ELSE have[p]
      BY <2>1, <1>t DEF TypeOK, Values
    <3> QED BY <2>1, <3>1, <1>r, Taken
  <2> QED BY <2>1, <2>2, <1>t, Same
<1>12. CASE NoAnswer
  <2>0. requests # <<>> => Head(requests) = requests[1] /\ requests[1] \in Request
    BY <1>r
  <2>1. /\ requests # <<>> /\ requests' = Tail(requests) /\ requests[1].p \in Param
        /\ missed' = [missed EXCEPT ![requests[1].p] =
             @ \/ (requests[1].op = "W" /\ WritesOf(requests[1].p) = {1})]
        /\ UNCHANGED <<kind, want, have, todo>>
    BY <1>12, <2>0 DEF NoAnswer, Request
  <2>2. ASSUME NEW p \in Param, ~missed'[p]
        PROVE  ~missed[p] /\ (BoardGets(p, want[p]) => BoardGets(p, want[p])')
    <3>1. ~missed[p] /\ ~(requests[1].op = "W" /\ requests[1].p = p /\ WritesOf(p) = {1})
      BY <2>1, <2>2, <1>t DEF TypeOK
    <3> QED BY <2>1, <3>1, <1>r, Taken
  <2> QED BY <2>1, <2>2, <1>t, Same
<1> QED BY <1>1, <1>2, <1>3, <1>4, <1>5, <1>6, <1>7, <1>8, <1>9, <1>10, <1>11, <1>12
        DEF Next, Run, Board

(* The setting that was made last is the one the board gets last, however  *)
(* the thread of the GUI, the handlers of the server and the parser of     *)
(* late answers follow each other, unless its write was not made or lost.  *)
THEOREM LastSettingWins == Spec => []LastWriteWins
<1>1. IInv => LastWriteWins
  BY DEF IInv
<1> QED BY <1>1, InitHolds, StepHolds, PTL DEF Spec
=============================================================================
