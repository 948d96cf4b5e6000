---------------------------- MODULE RelayProofs ----------------------------
(***************************************************************************)
(* Proofs about Relay, for a board with any number of relays, none of them *)
(* normally closed; about Complect, for any number of slots and any widths *)
(* of boards and lengths of lists; and about Device, for any CountOff.     *)
(***************************************************************************)
EXTENDS Relay, Complect, Device, SequenceTheorems, FiniteSetTheorems, TLAPS

USE RelayAssumption

(***************************************************************************)
(* The strengthening of ConfirmedIsTrue has one part for each of its two   *)
(* excuses.  While no command has crossed a request, every write under way *)
(* carries the wanted states, and an answer that agrees with them was read *)
(* from a board that still does.                                           *)
(***************************************************************************)
Uncrossed ==
  /\ \A i \in 1 .. Len(pending) : pending[i].op = "write" => pending[i].val = newState
  /\ \A i \in 1 .. Len(busy) : busy[i].op = "write" => busy[i].val = newState
  /\ \A r \in confirmed : r \in coil <=> r \in newState
  /\ \A i \in 1 .. Len(registers) : \A r \in Relays :
       (r \in registers[i] <=> r \in newState) => (r \in coil <=> r \in newState)

(* While no write was lost the last one carries the wanted states - or     *)
(* none was ever made, and every answer shows the board as it was found.   *)
Untouched ==
  /\ newState = {} /\ ~HasWrite(pending) /\ ~HasWrite(busy)
  /\ \A i \in 1 .. Len(registers) : registers[i] = coil
  /\ \A r \in confirmed : r \notin coil

LastWriteRight == \A S \in SUBSET Relays : Final(S) => S = newState

IInv ==
  /\ TypeOK
  /\ crossed \/ restarted \/ Uncrossed
  /\ lost \/ restarted \/ LastWriteRight \/ Untouched

-----------------------------------------------------------------------------
(* What the sequence operators do to a queue. *)
LEMMA TailFacts ==
  ASSUME NEW S, NEW s \in Seq(S), s # <<>>
  PROVE  /\ Head(s) \in S /\ Head(s) = s[1]
         /\ Tail(s) \in Seq(S)
         /\ Len(s) \in Nat \ {0}
         /\ Len(Tail(s)) = Len(s) - 1
         /\ \A k \in 1 .. Len(Tail(s)) : Tail(s)[k] = s[k + 1]
  <1>1. Len(s) \in Nat \ {0}
    BY EmptySeq
  <1>2. QED
    BY <1>1, HeadTailProperties

(* A request put in the line, if the line is not reserved. *)
LEMMA RequestFacts ==
  ASSUME pending \in Seq(Transaction), NEW t \in Transaction, Request(t)
  PROVE  /\ UNCHANGED <<busy, reserved, lent, answers>>
         /\ pending' \in Seq(Transaction)
         /\ reserved => pending' = pending
         /\ ~reserved => pending' = Append(pending, t)
  BY AppendProperties DEF Request, Line!Accept, lineVars

LEMMA Types ==
  ASSUME TypeOK
  PROVE  Read \in Transaction /\ Update \in Transaction
         /\ \A S \in SUBSET Relays : Write(S) \in Transaction
  BY DEF Transaction

LEMMA InitTypeOK == Init => TypeOK
  <1> SUFFICES ASSUME Init PROVE TypeOK
    OBVIOUS
  <1>1. /\ reserved \in BOOLEAN /\ lent \in BOOLEAN
        /\ lost \in BOOLEAN /\ crossed \in BOOLEAN /\ restarted \in BOOLEAN
    BY Zenon DEF Init, Line!Init
  <1>2. QED
    BY <1>1, EmptySeq DEF Init, Line!Init, TypeOK

(* The relay and GUI side of a step. *)
LEMMA CommandTypeOK ==
  ASSUME TypeOK, NEW r \in Relays, NEW f \in BOOLEAN,
         setState(r, f) \/ extSetRelay(r, f)
  PROVE  TypeOK'
  <1>1. Wanted(r, f) \subseteq Relays
    BY DEF Wanted, TypeOK
  <1>2. Command(r, f) /\ UNCHANGED <<registers, parsed, coil, restarted>>
        /\ confirmed' = confirmed \ {r}
    BY DEF setState, extSetRelay
  <1>3. /\ UNCHANGED <<busy, reserved, lent, answers>>
        /\ pending' \in Seq(Transaction)
    <2>1. CASE setState(r, f)
      BY <1>1, <2>1, Types, RequestFacts DEF setState, slotRelay, TypeOK
    <2>2. CASE extSetRelay(r, f)
      BY <2>2 DEF extSetRelay, lineVars, TypeOK
    <2>3. QED
      BY <2>1, <2>2
  <1>4. lost' \in BOOLEAN /\ crossed' \in BOOLEAN
    BY Zenon DEF setState, extSetRelay, Command, TypeOK
  <1>5. commands' \in 0 .. MaxCommands /\ newState' \subseteq Relays
    BY <1>1, <1>2 DEF Command, TypeOK
  <1>6. reserved' \in BOOLEAN /\ lent' \in BOOLEAN /\ restarted' \in BOOLEAN
    BY <1>2, <1>3 DEF TypeOK
  <1>7. QED
    BY <1>2, <1>3, <1>4, <1>5, <1>6 DEF TypeOK

LEMMA UpdateTypeOK ==
  ASSUME TypeOK, NEW r \in Relays, update(r)
  PROVE  TypeOK'
  <1>1. /\ UNCHANGED <<busy, reserved, lent, answers>>
        /\ pending' \in Seq(Transaction)
    BY Types, RequestFacts DEF update, TypeOK
  <1>2. QED
    BY <1>1 DEF update, ghosts, TypeOK

LEMMA ParseTypeOK ==
  ASSUME TypeOK, ParseRelay \/ ParseDone
  PROVE  TypeOK'
  <1>1. CASE ParseRelay
    <2>1. parsed + 1 \in Relays
      BY <1>1 DEF ParseRelay, TypeOK, Relays
    <2>2. /\ UNCHANGED <<busy, reserved, lent, answers>>
          /\ pending' \in Seq(Transaction)
          /\ confirmed' \subseteq Relays
      <3>1. CASE UNCHANGED lineVars
        BY <1>1, <2>1, <3>1 DEF ParseRelay, setCurState, lineVars, TypeOK
      <3>2. CASE slotRelay(newState)
        BY <1>1, <2>1, <3>2, Types, RequestFacts
        DEF ParseRelay, setCurState, slotRelay, TypeOK
      <3>3. QED
        BY <1>1, <3>1, <3>2 DEF ParseRelay, setCurState
    <2>3. lost' \in BOOLEAN
      BY <1>1, Zenon DEF ParseRelay, setCurState, TypeOK
    <2>4. parsed' \in 0 .. NumRelay
      BY <1>1 DEF ParseRelay, TypeOK
    <2>5. QED
      BY <1>1, <2>2, <2>3, <2>4 DEF ParseRelay, TypeOK
  <1>2. CASE ParseDone
    <2>1. answers # <<>> /\ answers' = Tail(answers)
          /\ UNCHANGED <<pending, busy, reserved, lent>>
      BY <1>2 DEF ParseDone, Line!Look
    <2>2. answers' \in Seq({Read}) /\ Len(answers') = Len(answers) - 1
          /\ Len(answers) \in Nat \ {0}
      BY <2>1, TailFacts DEF TypeOK
    <2>3. registers # <<>>
      BY <2>2, EmptySeq DEF TypeOK
    <2>4. registers' \in Seq(SUBSET Relays) /\ Len(registers') = Len(registers) - 1
      BY <1>2, <2>3, TailFacts DEF ParseDone, TypeOK
    <2>5. QED
      BY <1>2, <2>1, <2>2, <2>4 DEF ParseDone, ghosts, TypeOK
  <1>3. QED
    BY <1>1, <1>2

(* The line and the board: what each step does to the requests. *)
LEMMA StartFacts ==
  ASSUME TypeOK, Line!Start
  PROVE  /\ busy = <<>> /\ pending # <<>> /\ Len(pending) \in Nat \ {0}
         /\ busy' = <<pending[1]>> /\ pending[1] \in Transaction
         /\ pending' \in Seq(Transaction) /\ Len(pending') = Len(pending) - 1
         /\ \A k \in 1 .. Len(pending') : pending'[k] = pending[k + 1]
         /\ UNCHANGED <<reserved, lent, answers>>
  BY TailFacts DEF TypeOK, Line!Start

LEMMA SucceedFacts ==
  ASSUME TypeOK, NEW op \in {"read", "write", "update"}, Succeed(op)
  PROVE  /\ busy[1] \in Transaction /\ busy = <<busy[1]>> /\ busy' = <<>>
         /\ busy[1].op = op
         /\ UNCHANGED <<pending, reserved>>
         /\ op = "read" => answers' = Append(answers, Read)
         /\ op # "read" => answers' = answers
         /\ lent' = (op = "update")
  <1>1. busy # <<>> /\ busy[1] \in Transaction /\ busy = <<busy[1]>> /\ Head(busy) = busy[1]
    BY DEF Succeed, Line!Succeed, TypeOK
  <1>2. op = "read" => busy[1] = Read
    BY <1>1 DEF Succeed, Transaction, Update, Write
  <1>3. lent' = (op = "update")
    BY <1>1, Zenon DEF Succeed, Line!Succeed
  <1>4. QED
    BY <1>1, <1>2, <1>3 DEF Succeed, Line!Succeed

LEMMA ExchangeTypeOK ==
  ASSUME TypeOK, Exchange
  PROVE  TypeOK'
  <1>1. CASE Start
    BY <1>1, StartFacts DEF Start, Idle, TypeOK
  <1>2. CASE Fail
    <2>1. busy # <<>> /\ busy[1] \in Transaction /\ busy' = <<>>
          /\ UNCHANGED <<pending, reserved, lent, answers>>
      BY <1>2 DEF Fail, Line!Fail, TypeOK
    <2>2. busy[1].op = "write" => busy[1].val \subseteq Relays
      BY <2>1 DEF Transaction, Read, Update, Write
    <2>3. coil' \subseteq Relays
      BY <1>2, <2>2 DEF Fail, TypeOK
    <2>4. lost' \in BOOLEAN
      BY <1>2, Zenon DEF Fail, TypeOK
    <2>5. QED
      BY <1>2, <2>1, <2>3, <2>4 DEF Fail, Idle, TypeOK
  <1>3. ASSUME NEW op \in {"read", "write", "update"}, Succeed(op) PROVE TypeOK'
    <2>1. op = "write" => busy[1].val \subseteq Relays
      BY <1>3, SucceedFacts DEF Transaction, Read, Update, Write
    <2>2. coil' \subseteq Relays
      BY <1>3, <2>1 DEF Succeed, TypeOK
    <2>3. /\ answers' \in Seq({Read}) /\ registers' \in Seq(SUBSET Relays)
          /\ Len(registers') = Len(answers')
          /\ parsed > 0 => answers' # <<>>
      <3>1. CASE op = "read"
        <4>1. answers' = Append(answers, Read) /\ registers' = Append(registers, coil)
          BY <1>3, <3>1, SucceedFacts DEF Succeed
        <4>2. /\ answers' \in Seq({Read}) /\ Len(answers') = Len(answers) + 1
              /\ Len(answers) \in Nat
          BY <4>1, AppendProperties DEF TypeOK
        <4>3. /\ registers' \in Seq(SUBSET Relays)
              /\ Len(registers') = Len(registers) + 1
          BY <4>1, AppendProperties DEF TypeOK
        <4>4. answers' # <<>>
          BY <4>2, EmptySeq
        <4>5. QED
          BY <4>2, <4>3, <4>4 DEF TypeOK
      <3>2. CASE op # "read"
        BY <1>3, <3>2, SucceedFacts DEF Succeed, TypeOK
      <3>3. QED
        BY <3>1, <3>2
    <2>4. lent' \in BOOLEAN
      BY <1>3, SucceedFacts
    <2>5. QED
      BY <1>3, <2>2, <2>3, <2>4, SucceedFacts DEF Succeed, Idle, TypeOK
  <1>4. QED
    BY <1>1, <1>2, <1>3 DEF Exchange

LEMMA LineTypeOK ==
  ASSUME TypeOK, Reserve \/ GiveBack \/ BoardRestart
  PROVE  TypeOK'
  <1>1. CASE Reserve
    <2>1. pending' = <<Update>> /\ UNCHANGED <<busy, lent, answers>>
      BY <1>1 DEF Reserve, Line!Reserve
    <2>2. reserved' \in BOOLEAN /\ lost' \in BOOLEAN
      BY <1>1, Zenon DEF Reserve, Line!Reserve, TypeOK
    <2>3. QED
      BY <1>1, <2>1, <2>2, Types DEF Reserve, TypeOK
  <1>2. CASE GiveBack
    <2>1. UNCHANGED <<pending, busy, answers>>
      BY <1>2 DEF GiveBack, Line!Reopen, Line!Release
    <2>2. reserved' \in BOOLEAN /\ lent' \in BOOLEAN
      BY <1>2, Zenon DEF GiveBack, Line!Reopen, Line!Release, TypeOK
    <2>3. QED
      BY <1>2, <2>1, <2>2 DEF GiveBack, Idle, TypeOK
  <1>3. CASE BoardRestart
    <2>1. restarted' \in BOOLEAN
      BY <1>3, Zenon DEF BoardRestart
    <2>2. QED
      BY <1>3, <2>1 DEF BoardRestart, lineVars, TypeOK
  <1>4. QED
    BY <1>1, <1>2, <1>3

LEMMA NextTypeOK == TypeOK /\ [Next]_vars => TypeOK'
  <1> SUFFICES ASSUME TypeOK, [Next]_vars PROVE TypeOK'
    OBVIOUS
  <1>1. CASE UNCHANGED vars
    BY <1>1 DEF vars, lineVars, ghosts, TypeOK
  <1>2. CASE Next
    BY <1>2, CommandTypeOK, UpdateTypeOK, ParseTypeOK, ExchangeTypeOK, LineTypeOK
    DEF Next
  <1>3. QED
    BY <1>1, <1>2

(* Every variable keeps its type; in particular each answer in the line    *)
(* keeps the register it came with, and no relay beyond the last is told.  *)
THEOREM TypeCorrect == Spec => []TypeOK
  BY InitTypeOK, NextTypeOK, PTL DEF Spec

-----------------------------------------------------------------------------
(* The two excuses never go away. *)
LEMMA GhostsStay ==
  ASSUME Next
  PROVE  (crossed => crossed') /\ (lost => lost') /\ (restarted => restarted')
  <1>1. ASSUME NEW r \in Relays, NEW f \in BOOLEAN, setState(r, f) \/ extSetRelay(r, f)
        PROVE  (crossed => crossed') /\ (lost => lost') /\ (restarted => restarted')
    <2>1. restarted' = restarted
      BY <1>1 DEF setState, extSetRelay
    <2>2. crossed => crossed'
      BY <1>1, Zenon DEF setState, extSetRelay, Command
    <2>3. lost => lost'
      BY <1>1, Zenon DEF setState, extSetRelay
    <2>4. QED
      BY <2>1, <2>2, <2>3
  <1>2. ASSUME NEW r \in Relays, update(r)
        PROVE  (crossed => crossed') /\ (lost => lost') /\ (restarted => restarted')
    BY <1>2 DEF update, ghosts
  <1>3. CASE ParseRelay
    BY <1>3, Zenon DEF ParseRelay, setCurState
  <1>4. CASE ParseDone
    BY <1>4 DEF ParseDone, ghosts
  <1>5. CASE Exchange
    <2>1. UNCHANGED <<crossed, restarted>>
      BY <1>5 DEF Exchange, Start, Fail, Succeed, Idle
    <2>2. lost => lost'
      <3>1. CASE Fail
        BY <3>1, Zenon DEF Fail
      <3>2. CASE Start \/ \E op \in {"read", "write", "update"} : Succeed(op)
        BY <3>2 DEF Start, Succeed
      <3>3. QED
        BY <1>5, <3>1, <3>2 DEF Exchange
    <2>3. QED
      BY <2>1, <2>2
  <1>6. CASE Reserve
    BY <1>6, Zenon DEF Reserve
  <1>7. CASE GiveBack
    BY <1>7 DEF GiveBack, Idle
  <1>8. CASE BoardRestart
    BY <1>8, Zenon DEF BoardRestart
  <1>9. QED
    BY <1>1, <1>2, <1>3, <1>4, <1>5, <1>6, <1>7, <1>8 DEF Next

(* Commands given on a quiet line keep the writes under way right. *)
LEMMA CommandUncrossed ==
  ASSUME TypeOK, Uncrossed, NEW r \in Relays, NEW f \in BOOLEAN,
         setState(r, f) \/ extSetRelay(r, f), ~crossed'
  PROVE  Uncrossed'
  <1>1. Quiet
    BY Zenon DEF setState, extSetRelay, Command
  <1>2. /\ newState' = Wanted(r, f) /\ confirmed' = confirmed \ {r}
        /\ UNCHANGED <<registers, coil>>
    BY DEF setState, extSetRelay, Command
  <1>3. Len(registers) = 0
    BY <1>1 DEF Quiet, TypeOK
  <1>4. Wanted(r, f) \subseteq Relays
    BY DEF Wanted, TypeOK
  <1>5. busy' = <<>> /\ pending' \in {<<>>, <<Write(newState')>>}
    <2>1. CASE setState(r, f)
      <3>1. Write(Wanted(r, f)) \in Transaction
        BY <1>4, Types
      <3>2. QED
        BY <1>1, <1>2, <2>1, <3>1, RequestFacts DEF setState, slotRelay, Quiet, TypeOK
    <2>2. CASE extSetRelay(r, f)
      BY <1>1, <2>2 DEF extSetRelay, lineVars, Quiet
    <2>3. QED
      BY <2>1, <2>2
  <1>6. \A x \in confirmed' : x \in coil' <=> x \in newState'
    BY <1>2 DEF Wanted, Uncrossed
  <1>7. QED
    BY <1>2, <1>3, <1>5, <1>6 DEF Uncrossed, Write

LEMMA ParseUncrossed ==
  ASSUME TypeOK, Uncrossed, NormallyClosed = {}, ParseRelay
  PROVE  Uncrossed'
  <1>1. parsed + 1 \in Relays
    BY DEF ParseRelay, TypeOK, Relays
  <1>2. Len(registers) \in Nat \ {0} /\ Head(registers) = registers[1]
    <2>1. answers # <<>>
      BY DEF ParseRelay
    <2>2. Len(answers) \in Nat \ {0}
      BY <2>1, TailFacts DEF TypeOK
    <2>3. registers # <<>>
      BY <2>2, EmptySeq DEF TypeOK
    <2>4. QED
      BY <2>3, TailFacts DEF TypeOK
  <1>3. UNCHANGED <<newState, registers, coil>>
    BY DEF ParseRelay
  <1>4. CASE (parsed + 1 \in registers[1]) = (parsed + 1 \in newState)
    <2>1. confirmed' = confirmed \cup {parsed + 1} /\ UNCHANGED <<pending, busy>>
      BY <1>2, <1>4 DEF ParseRelay, setCurState, lineVars
    <2>2. parsed + 1 \in coil <=> parsed + 1 \in newState
      BY <1>1, <1>2, <1>4 DEF Uncrossed
    <2>3. QED
      BY <1>3, <2>1, <2>2 DEF Uncrossed
  <1>5. CASE (parsed + 1 \in registers[1]) # (parsed + 1 \in newState)
    <2>1. confirmed' = confirmed \ {parsed + 1} /\ slotRelay(newState)
      BY <1>2, <1>5 DEF ParseRelay, setCurState
    <2>2. Write(newState) \in Transaction
      BY Types DEF TypeOK
    <2>3. busy' = busy /\ (pending' = pending \/ pending' = Append(pending, Write(newState)))
      BY <2>1, <2>2, RequestFacts DEF slotRelay, TypeOK
    <2>4. \A i \in 1 .. Len(pending') :
            pending'[i].op = "write" => pending'[i].val = newState'
      <3>1. CASE pending' = pending
        BY <1>3, <3>1 DEF Uncrossed
      <3>2. CASE pending' = Append(pending, Write(newState))
        BY <1>3, <2>2, <3>2, AppendProperties DEF Uncrossed, TypeOK, Write
      <3>3. QED
        BY <2>3, <3>1, <3>2
    <2>5. QED
      BY <1>3, <2>1, <2>3, <2>4 DEF Uncrossed
  <1>6. QED
    BY <1>4, <1>5

LEMMA ExchangeUncrossed ==
  ASSUME TypeOK, Uncrossed, Exchange
  PROVE  Uncrossed'
  <1>1. CASE Start
    BY <1>1, StartFacts DEF Start, Idle, Uncrossed, TypeOK
  <1>2. CASE Fail
    <2>1. busy # <<>> /\ busy' = <<>> /\ pending' = pending /\ Len(busy) = 1
      BY <1>2 DEF Fail, Line!Fail, TypeOK
    <2>2. coil' = coil \/ coil' = newState
      BY <1>2, <2>1 DEF Fail, Uncrossed
    <2>3. UNCHANGED <<newState, confirmed, registers>>
      BY <1>2 DEF Fail, Idle
    <2>4. /\ \A i \in 1 .. Len(pending') : pending'[i].op = "write" => pending'[i].val = newState'
          /\ \A i \in 1 .. Len(busy') : busy'[i].op = "write" => busy'[i].val = newState'
      BY <2>1, <2>3 DEF Uncrossed
    <2>5. \A r \in confirmed' : r \in coil' <=> r \in newState'
      BY <2>2, <2>3 DEF Uncrossed
    <2>6. \A i \in 1 .. Len(registers') : \A r \in Relays :
            (r \in registers'[i] <=> r \in newState') => (r \in coil' <=> r \in newState')
      BY <2>2, <2>3 DEF Uncrossed
    <2>7. QED
      BY <2>4, <2>5, <2>6 DEF Uncrossed
  <1>3. ASSUME NEW op \in {"read", "write", "update"}, Succeed(op) PROVE Uncrossed'
    <2>1. busy' = <<>> /\ pending' = pending /\ Len(busy) = 1 /\ busy[1].op = op
      BY <1>3, SucceedFacts
    <2>2. coil' = coil \/ coil' = newState
      BY <1>3, <2>1 DEF Succeed, Uncrossed
    <2>3. CASE op = "read"
      <3>1. registers' = Append(registers, coil) /\ coil' = coil
        BY <1>3, <2>3 DEF Succeed
      <3>2. \A i \in 1 .. Len(registers') : \A r \in Relays :
              (r \in registers'[i] <=> r \in newState) => (r \in coil <=> r \in newState)
        BY <3>1, AppendProperties DEF Uncrossed, TypeOK
      <3>3. QED
        BY <1>3, <2>1, <3>1, <3>2 DEF Succeed, Idle, Uncrossed
    <2>4. CASE op # "read"
      BY <1>3, <2>1, <2>2, <2>4 DEF Succeed, Idle, Uncrossed, TypeOK
    <2>5. QED
      BY <2>3, <2>4
  <1>4. QED
    BY <1>1, <1>2, <1>3 DEF Exchange

LEMMA NextUncrossed ==
  ASSUME TypeOK, NormallyClosed = {}, Next, Uncrossed, ~crossed', ~restarted'
  PROVE  Uncrossed'
  <1>1. ASSUME NEW r \in Relays, NEW f \in BOOLEAN, setState(r, f) \/ extSetRelay(r, f)
        PROVE  Uncrossed'
    BY <1>1, CommandUncrossed
  <1>2. ASSUME NEW r \in Relays, update(r) PROVE Uncrossed'
    <2>1. UNCHANGED <<newState, confirmed, registers, coil>> /\ Request(Read)
      BY <1>2 DEF update
    <2>2. Read \in Transaction
      BY Types
    <2>3. busy' = busy /\ (pending' = pending \/ pending' = Append(pending, Read))
      BY <2>1, <2>2, RequestFacts DEF TypeOK
    <2>4. \A i \in 1 .. Len(pending') :
            pending'[i].op = "write" => pending'[i].val = newState
      <3>1. CASE pending' = pending
        BY <3>1 DEF Uncrossed
      <3>2. CASE pending' = Append(pending, Read)
        BY <2>2, <3>2, AppendProperties DEF Uncrossed, TypeOK, Read
      <3>3. QED
        BY <2>3, <3>1, <3>2
    <2>5. QED
      BY <2>1, <2>3, <2>4 DEF Uncrossed
  <1>3. CASE ParseRelay
    BY <1>3, ParseUncrossed
  <1>4. CASE ParseDone
    <2>1. answers # <<>> /\ UNCHANGED <<pending, busy, newState, confirmed, coil>>
      BY <1>4 DEF ParseDone, Line!Look
    <2>2. Len(registers) \in Nat \ {0}
      BY <2>1, TailFacts DEF TypeOK
    <2>3. registers # <<>>
      BY <2>2, EmptySeq DEF TypeOK
    <2>4. /\ Len(registers') = Len(registers) - 1
          /\ \A k \in 1 .. Len(registers') : registers'[k] = registers[k + 1]
      BY <1>4, <2>3, TailFacts DEF ParseDone, TypeOK
    <2>5. QED
      BY <2>1, <2>2, <2>4 DEF Uncrossed
  <1>5. CASE Exchange
    BY <1>5, ExchangeUncrossed
  <1>6. CASE Reserve
    <2>1. pending' = <<Update>> /\ UNCHANGED <<busy, newState, confirmed, registers, coil>>
      BY <1>6 DEF Reserve, Line!Reserve
    <2>2. QED
      BY <2>1 DEF Uncrossed, Update
  <1>7. CASE GiveBack
    BY <1>7 DEF GiveBack, Line!Reopen, Line!Release, Idle, Uncrossed
  <1>8. CASE BoardRestart
    BY <1>8, Zenon DEF BoardRestart
  <1>9. QED
    BY <1>1, <1>2, <1>3, <1>4, <1>5, <1>6, <1>7, <1>8 DEF Next

-----------------------------------------------------------------------------
(* How the requests in the line decide what the board will show.           *)

(* A write behind everything else decides. *)
LEMMA AppendWrite ==
  ASSUME TypeOK, NEW v \in SUBSET Relays, pending' = Append(pending, Write(v))
  PROVE  \A S \in SUBSET Relays : Final(S)' => S = v
  <1> SUFFICES ASSUME NEW S \in SUBSET Relays, Final(S)' PROVE S = v
    OBVIOUS
  <1>1. /\ Len(pending') = Len(pending) + 1 /\ Len(pending) \in Nat
        /\ pending'[Len(pending) + 1] = Write(v)
    BY Types, AppendProperties DEF TypeOK
  <1>2. HasWrite(pending')
    BY <1>1 DEF HasWrite, Write
  <1>3. PICK i \in 1 .. Len(pending') :
          pending'[i] = Write(S) /\ \A j \in i + 1 .. Len(pending') : pending'[j].op # "write"
    BY <1>2 DEF Final
  <1>4. i = Len(pending) + 1
    BY <1>1, <1>3 DEF Write
  <1>5. QED
    BY <1>1, <1>3, <1>4 DEF Write

(* A read behind everything else does not matter. *)
LEMMA AppendRead ==
  ASSUME TypeOK, pending' = Append(pending, Read), UNCHANGED <<busy, coil>>
  PROVE  /\ \A S \in SUBSET Relays : Final(S)' => Final(S)
         /\ HasWrite(pending') => HasWrite(pending)
  <1>1. /\ Len(pending') = Len(pending) + 1 /\ Len(pending) \in Nat
        /\ pending'[Len(pending) + 1] = Read
        /\ \A k \in 1 .. Len(pending) : pending'[k] = pending[k]
    BY Types, AppendProperties DEF TypeOK
  <1>2. HasWrite(pending') <=> HasWrite(pending)
    BY <1>1 DEF HasWrite, Read
  <1>3. ASSUME NEW S \in SUBSET Relays,
               \E i \in 1 .. Len(pending') : pending'[i] = Write(S) /\
                 \A j \in i + 1 .. Len(pending') : pending'[j].op # "write"
        PROVE  Final(S)
    <2>1. PICK i \in 1 .. Len(pending') : pending'[i] = Write(S) /\
            \A j \in i + 1 .. Len(pending') : pending'[j].op # "write"
      BY <1>3
    <2>2. i # Len(pending) + 1
      BY <1>1, <2>1 DEF Read, Write
    <2>3. i \in 1 .. Len(pending) /\ pending[i] = Write(S)
          /\ \A j \in i + 1 .. Len(pending) : pending[j].op # "write"
      BY <1>1, <2>1, <2>2
    <2>4. QED
      BY <2>3 DEF Final
  <1>4. QED
    BY <1>2, <1>3 DEF Final

(* The first request goes on the wire. *)
LEMMA StartFinal ==
  ASSUME TypeOK, Start
  PROVE  /\ \A S \in SUBSET Relays : Final(S)' => Final(S)
         /\ HasWrite(pending') \/ HasWrite(busy') => HasWrite(pending)
  <1>1. /\ busy = <<>> /\ busy' = <<pending[1]>> /\ Len(pending) \in Nat \ {0}
        /\ Len(pending') = Len(pending) - 1 /\ coil' = coil
        /\ \A k \in 1 .. Len(pending') : pending'[k] = pending[k + 1]
    BY StartFacts DEF Start
  <1>2. HasWrite(pending') \/ HasWrite(busy') => HasWrite(pending)
    BY <1>1 DEF HasWrite
  <1>3. ~HasWrite(pending') => \A j \in 2 .. Len(pending) : pending[j].op # "write"
    <2> SUFFICES ASSUME ~HasWrite(pending'), NEW j \in 2 .. Len(pending)
                 PROVE  pending[j].op # "write"
      OBVIOUS
    <2>1. j - 1 \in 1 .. Len(pending') /\ pending'[j - 1] = pending[j]
      BY <1>1
    <2>2. QED
      BY <2>1 DEF HasWrite
  <1> SUFFICES ASSUME NEW S \in SUBSET Relays, Final(S)' PROVE Final(S)
    BY <1>2
  <1>4. CASE \E i \in 1 .. Len(pending') : pending'[i] = Write(S) /\
               \A j \in i + 1 .. Len(pending') : pending'[j].op # "write"
    <2>1. PICK i \in 1 .. Len(pending') : pending'[i] = Write(S) /\
            \A j \in i + 1 .. Len(pending') : pending'[j].op # "write"
      BY <1>4
    <2>2. i + 1 \in 1 .. Len(pending) /\ pending[i + 1] = Write(S)
      BY <1>1, <2>1
    <2>3. ASSUME NEW j \in i + 2 .. Len(pending) PROVE pending[j].op # "write"
      <3>1. j - 1 \in i + 1 .. Len(pending') /\ j - 1 \in 1 .. Len(pending')
        BY <1>1, <2>1
      <3>2. pending'[j - 1] = pending[j]
        BY <1>1, <3>1
      <3>3. QED
        BY <2>1, <3>1, <3>2
    <2>4. QED
      BY <2>2, <2>3 DEF Final
  <1>5. CASE ~HasWrite(pending') /\ busy' = <<Write(S)>>
    <2>1. pending[1] = Write(S)
      BY <1>1, <1>5
    <2>2. QED
      BY <1>1, <1>3, <1>5, <2>1 DEF Final
  <1>6. CASE ~HasWrite(pending') /\ ~HasWrite(busy') /\ S = coil'
    <2>1. ~HasWrite(pending)
      <3>1. pending[1].op # "write"
        BY <1>1, <1>6 DEF HasWrite
      <3>2. QED
        BY <1>1, <1>3, <1>6, <3>1 DEF HasWrite
    <2>2. ~HasWrite(busy)
      BY <1>1 DEF HasWrite
    <2>3. QED
      BY <1>1, <1>6, <2>1, <2>2 DEF Final
  <1>7. QED
    BY <1>4, <1>5, <1>6 DEF Final

(* The request on the wire is done with: a write with effect, or no write. *)
LEMMA EndFinal ==
  ASSUME TypeOK, busy # <<>>, busy' = <<>>, pending' = pending,
         IF busy[1].op = "write" THEN coil' = busy[1].val ELSE coil' = coil
  PROVE  \A S \in SUBSET Relays : Final(S)' => Final(S)
  <1> SUFFICES ASSUME NEW S \in SUBSET Relays, Final(S)' PROVE Final(S)
    OBVIOUS
  <1>1. Len(busy) = 1 /\ busy = <<busy[1]>> /\ busy[1] \in Transaction
    BY DEF TypeOK
  <1>2. CASE HasWrite(pending)
    BY <1>2 DEF Final
  <1>3. CASE ~HasWrite(pending)
    <2>1. S = coil'
      BY <1>3 DEF Final, HasWrite, Write
    <2>2. CASE busy[1].op = "write"
      <3>1. busy[1] = Write(busy[1].val)
        BY <1>1, <2>2 DEF Transaction, Read, Update, Write
      <3>2. QED
        BY <1>1, <1>3, <2>1, <2>2, <3>1 DEF Final
    <2>3. CASE busy[1].op # "write"
      BY <1>1, <1>3, <2>1, <2>3 DEF Final, HasWrite
    <2>4. QED
      BY <2>2, <2>3
  <1>4. QED
    BY <1>2, <1>3

LEMMA NextRight ==
  ASSUME TypeOK, NormallyClosed = {}, Next, LastWriteRight \/ Untouched,
         ~lost', ~restarted'
  PROVE  LastWriteRight' \/ Untouched'
  <1>1. ASSUME NEW r \in Relays, NEW f \in BOOLEAN, setState(r, f) PROVE LastWriteRight'
    <2>1. ~reserved
      BY <1>1, Zenon DEF setState
    <2>2. newState' = Wanted(r, f) /\ Wanted(r, f) \in SUBSET Relays
      BY <1>1 DEF setState, Command, Wanted, TypeOK
    <2>3. pending' = Append(pending, Write(newState'))
      BY <1>1, <2>1, <2>2 DEF setState, slotRelay, Request, Line!Accept
    <2>4. QED
      BY <2>2, <2>3, AppendWrite DEF LastWriteRight
  <1>2. ASSUME NEW r \in Relays, NEW f \in BOOLEAN, extSetRelay(r, f) PROVE FALSE
    BY <1>2, Zenon DEF extSetRelay
  <1>3. ASSUME NEW r \in Relays, update(r) PROVE LastWriteRight' \/ Untouched'
    <2>1. UNCHANGED <<newState, confirmed, registers, coil>> /\ Request(Read)
      BY <1>3 DEF update
    <2>2. UNCHANGED busy /\ (pending' = pending \/ pending' = Append(pending, Read))
      BY <2>1, Types, RequestFacts DEF TypeOK
    <2>3. CASE pending' = pending
      BY <2>1, <2>2, <2>3 DEF LastWriteRight, Untouched, Final
    <2>4. CASE pending' = Append(pending, Read)
      BY <2>1, <2>2, <2>4, AppendRead DEF LastWriteRight, Untouched
    <2>5. QED
      BY <2>2, <2>3, <2>4
  <1>4. CASE ParseRelay
    <2>1. UNCHANGED <<newState, registers, coil>>
      BY <1>4 DEF ParseRelay
    <2>2. CASE slotRelay(newState) /\ lost' = (lost \/ reserved)
      <3>1. ~reserved
        BY <2>2, Zenon
      <3>2. pending' = Append(pending, Write(newState)) /\ newState \in SUBSET Relays
        BY <2>2, <3>1 DEF slotRelay, Request, Line!Accept, TypeOK
      <3>3. QED
        BY <2>1, <3>2, AppendWrite DEF LastWriteRight
    <2>3. CASE ~(slotRelay(newState) /\ lost' = (lost \/ reserved))
      <3>1. /\ (parsed + 1 \in Head(registers)) = (parsed + 1 \in newState)
            /\ confirmed' = confirmed \cup {parsed + 1}
            /\ UNCHANGED <<pending, busy>>
        BY <1>4, <2>3 DEF ParseRelay, setCurState, lineVars
      <3>2. CASE LastWriteRight
        BY <2>1, <3>1, <3>2 DEF LastWriteRight, Final
      <3>3. CASE Untouched
        <4>1. answers # <<>>
          BY <1>4 DEF ParseRelay
        <4>2. Len(registers) \in Nat \ {0}
          BY <4>1, TailFacts DEF TypeOK
        <4>3. registers # <<>>
          BY <4>2, EmptySeq DEF TypeOK
        <4>4. Head(registers) = coil
          BY <3>3, <4>2, <4>3, TailFacts DEF Untouched, TypeOK
        <4>5. parsed + 1 \notin coil
          BY <3>1, <3>3, <4>4 DEF Untouched
        <4>6. QED
          BY <2>1, <3>1, <3>3, <4>5 DEF Untouched
      <3>4. QED
        BY <3>2, <3>3
    <2>4. QED
      BY <2>2, <2>3
  <1>5. CASE ParseDone
    <2>1. answers # <<>> /\ UNCHANGED <<pending, busy, newState, confirmed, coil>>
      BY <1>5 DEF ParseDone, Line!Look
    <2>2. Len(registers) \in Nat \ {0}
      BY <2>1, TailFacts DEF TypeOK
    <2>3. registers # <<>>
      BY <2>2, EmptySeq DEF TypeOK
    <2>4. /\ Len(registers') = Len(registers) - 1
          /\ \A k \in 1 .. Len(registers') : registers'[k] = registers[k + 1]
      BY <1>5, <2>3, TailFacts DEF ParseDone, TypeOK
    <2>5. CASE LastWriteRight
      BY <2>1, <2>5 DEF LastWriteRight, Final
    <2>6. CASE Untouched
      BY <2>1, <2>2, <2>4, <2>6 DEF Untouched
    <2>7. QED
      BY <2>5, <2>6
  <1>6. CASE Start
    <2>1. UNCHANGED <<newState, confirmed, registers, coil>>
      BY <1>6 DEF Start, Idle
    <2>2. CASE LastWriteRight
      BY <1>6, <2>1, <2>2, StartFinal DEF LastWriteRight
    <2>3. CASE Untouched
      BY <1>6, <2>1, <2>3, StartFinal DEF Untouched
    <2>4. QED
      BY <2>2, <2>3
  <1>7. ASSUME busy # <<>>, busy' = <<>>, UNCHANGED <<pending, newState, confirmed>>,
               busy[1].op = "write" =>
                 coil' = busy[1].val /\ UNCHANGED registers,
               busy[1].op # "write" =>
                 coil' = coil /\ registers' \in {registers, Append(registers, coil)}
        PROVE  LastWriteRight' \/ Untouched'
    <2>1. CASE LastWriteRight
      <3>1. IF busy[1].op = "write" THEN coil' = busy[1].val ELSE coil' = coil
        BY <1>7
      <3>2. \A S \in SUBSET Relays : Final(S)' => Final(S)
        BY <1>7, <3>1, EndFinal
      <3>3. QED
        BY <1>7, <2>1, <3>2 DEF LastWriteRight
    <2>2. CASE Untouched
      <3>1. busy[1].op # "write" /\ Len(busy) = 1
        BY <1>7, <2>2 DEF Untouched, HasWrite, TypeOK
      <3>2. ~HasWrite(pending') /\ ~HasWrite(busy')
        BY <1>7, <2>2 DEF Untouched, HasWrite
      <3>3. coil' = coil /\ registers' \in {registers, Append(registers, coil)}
        BY <1>7, <3>1
      <3>4. \A i \in 1 .. Len(registers') : registers'[i] = coil
        <4>1. CASE registers' = registers
          BY <2>2, <4>1 DEF Untouched
        <4>2. CASE registers' = Append(registers, coil)
          BY <2>2, <4>2, AppendProperties DEF Untouched, TypeOK
        <4>3. QED
          BY <3>3, <4>1, <4>2
      <3>5. QED
        BY <1>7, <2>2, <3>2, <3>3, <3>4 DEF Untouched
    <2>3. QED
      BY <2>1, <2>2
  <1>8. CASE Fail
    <2>1. busy # <<>> /\ busy' = <<>> /\ UNCHANGED <<pending, newState, confirmed, registers>>
      BY <1>8 DEF Fail, Line!Fail, Idle
    <2>2. busy[1].op = "write" => coil' = busy[1].val
      BY <1>8, Zenon DEF Fail
    <2>3. busy[1].op # "write" => coil' = coil
      BY <1>8 DEF Fail
    <2>4. QED
      BY <1>7, <2>1, <2>2, <2>3
  <1>9. ASSUME NEW op \in {"read", "write", "update"}, Succeed(op)
        PROVE  LastWriteRight' \/ Untouched'
    <2>1. /\ busy # <<>> /\ busy' = <<>> /\ UNCHANGED <<pending, newState, confirmed>>
          /\ busy[1].op = op
      BY <1>9, SucceedFacts DEF Succeed, Line!Succeed, Idle
    <2>2. op = "write" => coil' = busy[1].val /\ UNCHANGED registers
      BY <1>9 DEF Succeed
    <2>3. op # "write" => coil' = coil /\ registers' \in {registers, Append(registers, coil)}
      BY <1>9 DEF Succeed
    <2>4. QED
      BY <1>7, <2>1, <2>2, <2>3
  <1>10. CASE Reserve
    <2>1. pending' = <<Update>> /\ UNCHANGED <<busy, newState, confirmed, registers, coil>>
      BY <1>10 DEF Reserve, Line!Reserve
    <2>2. ~HasWrite(pending)
      BY <1>10, Zenon DEF Reserve
    <2>3. ~HasWrite(pending')
      BY <2>1 DEF HasWrite, Update
    <2>4. \A S \in SUBSET Relays : Final(S)' => Final(S)
      BY <2>1, <2>2, <2>3 DEF Final, HasWrite, Write
    <2>5. QED
      BY <2>1, <2>3, <2>4 DEF LastWriteRight, Untouched
  <1>11. CASE GiveBack
    <2>1. UNCHANGED <<pending, busy, newState, confirmed, registers, coil>>
      BY <1>11 DEF GiveBack, Line!Reopen, Line!Release, Idle
    <2>2. QED
      BY <2>1 DEF LastWriteRight, Untouched, Final
  <1>12. CASE BoardRestart
    BY <1>12, Zenon DEF BoardRestart
  <1>13. QED
    BY <1>1, <1>2, <1>3, <1>4, <1>5, <1>6, <1>8, <1>9, <1>10, <1>11, <1>12
    DEF Next, Exchange

-----------------------------------------------------------------------------
LEMMA InitIInv == Init => IInv
  <1> SUFFICES ASSUME Init PROVE IInv
    OBVIOUS
  <1>1. TypeOK
    BY InitTypeOK
  <1>2. Uncrossed /\ Untouched
    BY DEF Init, Line!Init, Uncrossed, Untouched, HasWrite
  <1>3. QED
    BY <1>1, <1>2 DEF IInv

LEMMA NextIInv == NormallyClosed = {} /\ IInv /\ [Next]_vars => IInv'
  <1> SUFFICES ASSUME NormallyClosed = {}, IInv, [Next]_vars PROVE IInv'
    OBVIOUS
  <1>1. TypeOK'
    BY NextTypeOK DEF IInv
  <1>2. CASE UNCHANGED vars
    BY <1>1, <1>2
    DEF vars, lineVars, ghosts, IInv, Uncrossed, Untouched, LastWriteRight, Final
  <1>3. CASE Next
    <2>1. crossed' \/ restarted' \/ Uncrossed'
      BY <1>3, GhostsStay, NextUncrossed DEF IInv
    <2>2. lost' \/ restarted' \/ LastWriteRight' \/ Untouched'
      BY <1>3, GhostsStay, NextRight DEF IInv
    <2>3. QED
      BY <1>1, <2>1, <2>2 DEF IInv
  <1>4. QED
    BY <1>2, <1>3

LEMMA IInvConfirmed == IInv => ConfirmedIsTrue
  <1> SUFFICES ASSUME IInv, ~(lost /\ crossed), ~restarted,
                      NEW S \in SUBSET Relays, Final(S)
               PROVE  S \cap confirmed = newState \cap confirmed
    BY DEF ConfirmedIsTrue
  <1>1. CASE Uncrossed
    <2>1. S = newState \/ S = coil
      BY <1>1 DEF Uncrossed, Final, Write
    <2>2. QED
      BY <1>1, <2>1 DEF Uncrossed
  <1>2. CASE LastWriteRight
    BY <1>2 DEF LastWriteRight
  <1>3. CASE Untouched
    BY <1>3 DEF Untouched, Final, HasWrite, Write
  <1>4. QED
    BY <1>1, <1>2, <1>3 DEF IInv

(* On a board without normally closed relays, a relay that was confirmed   *)
(* and is not polled any more is as wanted, or will be with the last write *)
(* under way, unless a write was lost and a command crossed a request or   *)
(* the board restarted.                                                    *)
THEOREM Confirmed == ASSUME NormallyClosed = {} PROVE Spec => []ConfirmedIsTrue
  <1>1. Spec => []IInv
    BY InitIInv, NextIInv, PTL DEF Spec
  <1>2. QED
    BY <1>1, IInvConfirmed, PTL

-----------------------------------------------------------------------------
(***************************************************************************)
(* The composition of boards.                                              *)
(***************************************************************************)

(***************************************************************************)
(* Nth(S, n) is an element of S with n elements before it: counting those  *)
(* before is an injection of S into as many numbers, hence onto them.      *)
(***************************************************************************)
LEMMA SlotSetFacts ==
  ASSUME NEW S \in SUBSET Slot
  PROVE  IsFiniteSet(S) /\ Cardinality(S) \in Nat
<1>1. IsFiniteSet(Slot)
  BY ComplectAssumption, FS_Interval DEF Slot
<1>2. IsFiniteSet(S)
  BY <1>1, FS_Subset
<1> QED BY <1>2, FS_CardinalityType

LEMMA NthFacts ==
  ASSUME NEW S \in SUBSET Slot, NEW n \in Nat, n < Cardinality(S)
  PROVE  Nth(S, n) \in S /\ Cardinality({t \in S : t < Nth(S, n)}) = n
<1> DEFINE Before(s) == {t \in S : t < s}
           T == 0 .. Cardinality(S) - 1
           f == [s \in S |-> Cardinality(Before(s))]
<1>1. /\ S \subseteq Int /\ IsFiniteSet(S) /\ Cardinality(S) \in Nat
      /\ \A s \in S : Before(s) \in SUBSET Slot /\ Before(s) \in SUBSET S
  <2>1. S \subseteq Int
    BY DEF Slot
  <2>2. IsFiniteSet(S) /\ Cardinality(S) \in Nat
    BY SlotSetFacts
  <2>3. \A s \in S : Before(s) \in SUBSET Slot /\ Before(s) \in SUBSET S
    OBVIOUS
  <2> QED BY <2>1, <2>2, <2>3
<1>2. \A s \in S : Before(s) # S /\ IsFiniteSet(Before(s)) /\ Cardinality(Before(s)) \in Nat
  BY <1>1, SlotSetFacts
<1>3. \A s \in S : Cardinality(Before(s)) \in T
  <2> SUFFICES ASSUME NEW s \in S PROVE Cardinality(Before(s)) \in T
    OBVIOUS
  <2> HIDE DEF Before
  <2>1. Cardinality(Before(s)) <= Cardinality(S) /\ Cardinality(S) # Cardinality(Before(s))
    BY <1>1, <1>2, FS_Subset
  <2> QED BY <1>1, <1>2, <2>1
<1>4. ASSUME NEW u \in S, NEW v \in S, u < v
      PROVE  Cardinality(Before(u)) # Cardinality(Before(v))
  <2>1. u \in Int /\ v \in Int /\ S \subseteq Int
    BY <1>1
  <2>2. \A x \in S : x < u => x < v
    BY <1>4, <2>1
  <2>3. Before(u) \in SUBSET Before(v)
    BY <2>2
  <2>4. u \in Before(v) /\ u \notin Before(u)
    BY <1>4, <2>1
  <2> HIDE DEF Before
  <2> QED BY <1>2, <2>3, <2>4, FS_Subset
<1>5. f \in Injection(S, T)
  <2>1. f \in [S -> T]
    BY <1>3
  <2>2. ASSUME NEW u \in S, NEW v \in S, f[u] = f[v] PROVE u = v
    <3>1. Cardinality(Before(u)) = Cardinality(Before(v))
      BY <2>2
    <3>2. ~(u < v) /\ ~(v < u)
      BY <1>4, <3>1
    <3> QED BY <1>1, <3>2
  <2> HIDE DEF f, T
  <2> QED BY <2>1, <2>2 DEF Injection, IsInjective
<1>6. IsFiniteSet(T) /\ Cardinality(T) = Cardinality(S)
  <2>1. /\ IsFiniteSet(T)
        /\ Cardinality(T) = IF 0 > Cardinality(S) - 1 THEN 0 ELSE Cardinality(S) - 1 - 0 + 1
    <3> DEFINE c == Cardinality(S) - 1
    <3>1. 0 \in Int /\ c \in Int
      BY <1>1
    <3> HIDE DEF c
    <3>2. IsFiniteSet(0 .. c) /\ Cardinality(0 .. c) = IF 0 > c THEN 0 ELSE c - 0 + 1
      BY <3>1, FS_Interval
    <3> QED BY <3>2 DEF c
  <2> QED BY <1>1, <2>1
<1>7. f \in Surjection(S, T)
  <2> HIDE DEF f, T
  <2> QED BY <1>5, <1>6, FS_Injection
<1>8. n \in T
  BY <1>1
<1>9. PICK r \in S : f[r] = n
  <2> HIDE DEF f, T
  <2> QED BY <1>7, <1>8 DEF Surjection
<1>10. \E s \in S : Cardinality({t \in S : t < s}) = n
  BY <1>9
<1> QED BY <1>10 DEF Nth

(***************************************************************************)
(* The places of the boards of a type: each is one, of a board of that     *)
(* type, and no two are the same.                                          *)
(***************************************************************************)
BoardTypes == {"8RP", "6DI6RO", "4AI", "STEEL"}

LEMMA Divided ==
  ASSUME NEW i \in Nat, NEW w \in Nat \ {0}
  PROVE  i \div w \in Nat /\ i % w \in Nat /\ i = w * (i \div w) + (i % w)
OBVIOUS

LEMMA DividedBelow ==
  ASSUME NEW i \in Nat, NEW w \in Nat \ {0}, NEW c \in Nat, i < w * c
  PROVE  i \div w < c
<1>1. i \div w \in Nat /\ i % w \in Nat /\ i = w * (i \div w) + (i % w)
  BY Divided
<1> QED BY <1>1

LEMMA SizeFacts ==
  ASSUME NEW p \in Status, NEW t \in BoardTypes
  PROVE  /\ Width[t] \in Nat \ {0} /\ Of(p, t) \in SUBSET Slot
         /\ Cardinality(Of(p, t)) \in Nat /\ Size(p, t) \in Nat
<1>1. Width[t] \in Nat \ {0}
  BY ComplectAssumption DEF BoardTypes
<1>2. Of(p, t) \in SUBSET Slot /\ Cardinality(Of(p, t)) \in Nat
  BY SlotSetFacts DEF Of
<1>3. \A w \in Nat \ {0}, c \in Nat : w * c \in Nat
  OBVIOUS
<1> QED BY <1>1, <1>2, <1>3 DEF Size

LEMMA PlaceFacts ==
  ASSUME NEW p \in Status, NEW t \in BoardTypes, NEW i \in Nat, i < Size(p, t)
  PROVE  /\ Place(p, t, i) \in Places
         /\ Place(p, t, i)[1] \in Slot /\ p[Place(p, t, i)[1]] = t
<1> DEFINE n == i \div Width[t]
<1>1. n \in Nat /\ i % Width[t] \in Nat /\ n < Cardinality(Of(p, t))
  BY SizeFacts, Divided, DividedBelow DEF Size
<1>2. Nth(Of(p, t), n) \in Of(p, t)
  BY <1>1, SizeFacts, NthFacts
<1>3. Nth(Of(p, t), n) \in Slot /\ p[Nth(Of(p, t), n)] = t
  BY <1>2 DEF Of
<1>4. Place(p, t, i) = <<Nth(Of(p, t), n), i % Width[t]>>
  BY DEF Place
<1> HIDE DEF n
<1>5. Slot \subseteq 0 .. NumSlot
  BY ComplectAssumption DEF Slot
<1>6. Place(p, t, i) \in Places
  <2>1. \A a \in 0 .. NumSlot, b \in Nat : <<a, b>> \in Places
    BY DEF Places
  <2>2. Nth(Of(p, t), n) \in 0 .. NumSlot
    BY <1>3, <1>5
  <2> QED BY <1>1, <1>4, <2>1, <2>2
<1>7. Place(p, t, i)[1] = Nth(Of(p, t), n)
  BY <1>4
<1> QED BY <1>3, <1>6, <1>7

LEMMA PlaceDistinct ==
  ASSUME NEW p \in Status, NEW t \in BoardTypes, NEW i \in Nat, NEW j \in Nat,
         i < Size(p, t), j < Size(p, t), Place(p, t, i) = Place(p, t, j)
  PROVE  i = j
<1> DEFINE w == Width[t]
           S == Of(p, t)
<1>1. w \in Nat \ {0} /\ S \in SUBSET Slot /\ Cardinality(S) \in Nat
  BY SizeFacts
<1>2. Nth(S, i \div w) = Nth(S, j \div w) /\ i % w = j % w
  BY DEF Place
<1>3. i < w * Cardinality(S) /\ j < w * Cardinality(S)
  BY DEF Size
<1> HIDE DEF w, S
<1>4. /\ i \div w \in Nat /\ i \div w < Cardinality(S)
      /\ j \div w \in Nat /\ j \div w < Cardinality(S)
  BY <1>1, <1>3, Divided, DividedBelow
<1>5. i \div w = j \div w
  <2>1. \A n \in Nat : n < Cardinality(S) => Cardinality({u \in S : u < Nth(S, n)}) = n
    BY <1>1, NthFacts
  <2> DEFINE Rank(s) == Cardinality({u \in S : u < s})
  <2>2. \A n \in Nat : n < Cardinality(S) => Rank(Nth(S, n)) = n
    BY <2>1
  <2> HIDE DEF Rank
  <2> QED BY <1>2, <1>4, <2>2
<1>6. i = w * (i \div w) + (i % w) /\ j = w * (j \div w) + (j % w)
  BY <1>1, Divided
<1> QED BY <1>2, <1>5, <1>6

LEMMA RelayPlaceFacts ==
  ASSUME NEW p \in Status, NEW i \in Nat, i < RelaySize(p)
  PROVE  RelayPlace(p, i) \in Places
<1>1. Size(p, "8RP") \in Nat /\ Size(p, "6DI6RO") \in Nat
  BY SizeFacts DEF BoardTypes
<1>2. CASE i < Size(p, "8RP")
  BY <1>2, PlaceFacts DEF RelayPlace, BoardTypes
<1>3. CASE ~(i < Size(p, "8RP"))
  <2>1. i - Size(p, "8RP") \in Nat /\ i - Size(p, "8RP") < Size(p, "6DI6RO")
    BY <1>1, <1>3 DEF RelaySize
  <2> QED BY <1>3, <2>1, PlaceFacts DEF RelayPlace, BoardTypes
<1> QED BY <1>2, <1>3

(* The relays of both types of boards, too: a slot holds one board only.   *)
LEMMA RelayPlaceDistinct ==
  ASSUME NEW p \in Status, NEW i \in Nat, NEW j \in Nat,
         i < RelaySize(p), j < RelaySize(p), RelayPlace(p, i) = RelayPlace(p, j)
  PROVE  i = j
<1> DEFINE m == Size(p, "8RP")
           n == Size(p, "6DI6RO")
<1>1. m \in Nat /\ n \in Nat /\ "8RP" \in BoardTypes /\ "6DI6RO" \in BoardTypes
  BY SizeFacts DEF BoardTypes
<1>2. \A k \in Nat : k < RelaySize(p) /\ ~(k < m) => k - m \in Nat /\ k - m < n
  BY <1>1 DEF RelaySize
<1>3. \A k \in Nat : k < m => RelayPlace(p, k) = Place(p, "8RP", k)
  BY DEF RelayPlace
<1>4. \A k \in Nat : ~(k < m) => RelayPlace(p, k) = Place(p, "6DI6RO", k - m)
  BY DEF RelayPlace
<1>5. \A k \in Nat : k < m => p[RelayPlace(p, k)[1]] = "8RP"
  <2> SUFFICES ASSUME NEW k \in Nat, k < m PROVE p[RelayPlace(p, k)[1]] = "8RP"
    OBVIOUS
  <2> QED BY <1>1, <1>3, PlaceFacts
<1>6. \A k \in Nat : k < RelaySize(p) /\ ~(k < m) => p[RelayPlace(p, k)[1]] = "6DI6RO"
  <2> SUFFICES ASSUME NEW k \in Nat, k < RelaySize(p), ~(k < m)
               PROVE  p[RelayPlace(p, k)[1]] = "6DI6RO"
    OBVIOUS
  <2>1. k - m \in Nat /\ k - m < n
    BY <1>2
  <2> QED BY <1>1, <1>4, <2>1, PlaceFacts
<1>7. CASE i < m /\ j < m
  BY <1>1, <1>3, <1>7, PlaceDistinct
<1>8. CASE ~(i < m) /\ ~(j < m)
  <2>1. i - m = j - m
    <3>1. /\ i - m \in Nat /\ i - m < n /\ j - m \in Nat /\ j - m < n
          /\ Place(p, "6DI6RO", i - m) = Place(p, "6DI6RO", j - m)
      BY <1>2, <1>4, <1>8
    <3> QED BY <1>1, <3>1, PlaceDistinct
  <2> QED BY <1>1, <2>1
<1>9. CASE (i < m) # (j < m)
  BY <1>5, <1>6, <1>9
<1> QED BY <1>7, <1>8, <1>9

(***************************************************************************)
(* The invariant of the composition.  LookupExact follows from its two     *)
(* parts: the enabled objects come first, so that a disabled one with an   *)
(* old place is found after them, and no two enabled ones share a place.   *)
(* The frequency channels are mapped one by one over what was enabled      *)
(* before, so that they may share places until the update is over; how far *)
(* it has come is the third part.                                          *)
(***************************************************************************)
Distinct(k) == \A i, j \in enable[k] : place[k][i] = place[k][j] => i = j

OneEach == \A k \in List : k # "freq" \/ pc = "idle" => Distinct(k)

MappedSoFar ==
  pc = "6DI6RO" =>
    /\ next <= Size(plan, "6DI6RO")
    /\ \A i \in Indices("freq") :
         i < next => i \in enable["freq"] /\ place["freq"][i] = Place(plan, "6DI6RO", i)
    /\ enable["relay"] = Below("relay", Size(plan, "8RP") + next)
    /\ \A i \in enable["relay"] : place["relay"][i] = RelayPlace(plan, i)

ComplectIInv == ComplectTypeOK /\ EnabledFirst /\ OneEach /\ MappedSoFar

LEMMA IndexFacts ==
  ASSUME NEW k \in List
  PROVE  Indices(k) \subseteq Nat
BY ComplectAssumption DEF Indices

LEMMA BelowFacts ==
  ASSUME NEW k \in List, NEW n \in Nat
  PROVE  /\ Below(k, n) \subseteq Indices(k)
         /\ \A i \in Indices(k) : i \in Below(k, n) <=> i < n
         /\ \A i \in Below(k, n) : \A j \in Indices(k) : j < i => j \in Below(k, n)
<1>1. Indices(k) \subseteq Nat
  BY IndexFacts
<1> QED BY <1>1 DEF Below

LEMMA AssignedFacts ==
  ASSUME ComplectTypeOK, NEW k \in List, NEW p \in Status, NEW t \in BoardTypes
  PROVE  /\ Assigned(k, p, t, 0) \in [Indices(k) -> Places]
         /\ \A i \in Indices(k) : i < Size(p, t) => Assigned(k, p, t, 0)[i] = Place(p, t, i)
<1>1. Indices(k) \subseteq Nat /\ place[k] \in [Indices(k) -> Places] /\ Size(p, t) \in Nat
  BY IndexFacts, SizeFacts DEF ComplectTypeOK
<1>2. \A i \in Indices(k) : i \in Nat /\ i >= 0 /\ i - 0 = i
  BY <1>1
<1>3. \A i \in Indices(k) : i < Size(p, t) => Place(p, t, i) \in Places
  BY <1>1, PlaceFacts
<1>4. Assigned(k, p, t, 0)
        = [i \in Indices(k) |-> IF i < Size(p, t) THEN Place(p, t, i) ELSE place[k][i]]
  BY <1>2 DEF Assigned
<1> QED BY <1>1, <1>3, <1>4

LEMMA AssignedDistinct ==
  ASSUME ComplectTypeOK, NEW k \in List, NEW p \in Status, NEW t \in BoardTypes
  PROVE  \A i, j \in Below(k, Size(p, t)) :
           Assigned(k, p, t, 0)[i] = Assigned(k, p, t, 0)[j] => i = j
<1>1. Indices(k) \subseteq Nat /\ Size(p, t) \in Nat
  BY IndexFacts, SizeFacts
<1>2. \A i \in Below(k, Size(p, t)) :
        i \in Nat /\ i < Size(p, t) /\ Assigned(k, p, t, 0)[i] = Place(p, t, i)
  BY <1>1, AssignedFacts DEF Below
<1> QED BY <1>2, PlaceDistinct

LEMMA Lookup == ComplectIInv => LookupExact
<1> SUFFICES ASSUME ComplectIInv, NEW k \in List, k = "relay" \/ pc = "idle",
                    NEW i \in enable[k]
             PROVE  IndexBySlotAndCh(k, place[k][i]) = i
  BY DEF LookupExact
<1>1. Indices(k) \subseteq Nat /\ enable[k] \subseteq Indices(k) /\ i \in Indices(k)
  BY IndexFacts DEF ComplectIInv, ComplectTypeOK
<1>2. \A j \in Indices(k) : j < i => j \in enable[k]
  BY DEF ComplectIInv, EnabledFirst
<1>3. \A j \in enable[k] : place[k][j] = place[k][i] => j = i
  BY DEF ComplectIInv, OneEach, Distinct
<1>4. \A j \in Indices(k) : place[k][j] = place[k][i] => i <= j
  BY <1>1, <1>2, <1>3
<1>5. \A j \in Indices(k) :
        /\ place[k][j] = place[k][i]
        /\ \A l \in Indices(k) : place[k][l] = place[k][i] => j <= l
        => j = i
  BY <1>1, <1>4
<1> QED BY <1>1, <1>4, <1>5 DEF IndexBySlotAndCh

LEMMA ComplectInitOK == ComplectInit => ComplectIInv
<1> SUFFICES ASSUME ComplectInit PROVE ComplectIInv
  OBVIOUS
<1>1. \A k \in List : Indices(k) \subseteq Nat /\ enable[k] = {}
  BY IndexFacts DEF ComplectInit
<1>2. \A k \in List : place[k] \in [Indices(k) -> Places]
  <2>1. 0 \in 0 .. NumSlot
    BY ComplectAssumption
  <2> QED BY <1>1, <2>1 DEF ComplectInit, Places
<1>3. known \in Status /\ plan \in Status
  BY DEF ComplectInit, Status
<1>4. ComplectTypeOK
  BY <1>1, <1>2, <1>3 DEF ComplectInit, ComplectTypeOK
<1> QED BY <1>1, <1>4 DEF ComplectIInv, ComplectInit, EnabledFirst, OneEach, Distinct, MappedSoFar

LEMMA StatusOK ==
  ASSUME ComplectIInv, NEW s \in Slot, StatusChanges(s)
  PROVE  ComplectIInv'
<1>1. UNCHANGED <<place, enable, pc, plan, next>> /\ pc = "idle"
  BY DEF StatusChanges
<1>2. known' \in Status
  BY DEF StatusChanges, ComplectIInv, ComplectTypeOK, Status
<1> QED BY <1>1, <1>2
     DEF ComplectIInv, ComplectTypeOK, EnabledFirst, OneEach, Distinct, MappedSoFar

LEMMA ChannelsOK ==
  ASSUME ComplectIInv, UpdateChannels
  PROVE  ComplectIInv'
<1> DEFINE A == Assigned("channel", known, "4AI", 0)
           B == Below("channel", Size(known, "4AI"))
<1>1. /\ ComplectTypeOK /\ known \in Status /\ "4AI" \in BoardTypes /\ "channel" \in List
      /\ Size(known, "4AI") \in Nat
  BY SizeFacts DEF ComplectIInv, ComplectTypeOK, BoardTypes, List
<1>2. A \in [Indices("channel") -> Places] /\ \A i, j \in B : A[i] = A[j] => i = j
  BY <1>1, AssignedFacts, AssignedDistinct
<1>3. B \subseteq Indices("channel") /\ \A i \in B : \A j \in Indices("channel") : j < i => j \in B
  BY <1>1, BelowFacts
<1>4. /\ place' = [place EXCEPT !["channel"] = A] /\ enable' = [enable EXCEPT !["channel"] = B]
      /\ pc = "idle" /\ pc' = "8RP" /\ plan' = known /\ known' = known /\ next' = next
  BY DEF UpdateChannels
<1> HIDE DEF A, B
<1>5. /\ place'["channel"] = A /\ enable'["channel"] = B
      /\ \A k \in List \ {"channel"} : place'[k] = place[k] /\ enable'[k] = enable[k]
      /\ DOMAIN place' = List /\ DOMAIN enable' = List
  BY <1>1, <1>4 DEF ComplectTypeOK
<1>6. ComplectTypeOK'
  BY <1>1, <1>2, <1>3, <1>4, <1>5 DEF ComplectTypeOK
<1>7. EnabledFirst'
  BY <1>3, <1>5 DEF ComplectIInv, EnabledFirst
<1>8. OneEach'
  BY <1>2, <1>4, <1>5 DEF ComplectIInv, OneEach, Distinct
<1> QED BY <1>4, <1>6, <1>7, <1>8 DEF ComplectIInv, MappedSoFar

LEMMA RelaysOK ==
  ASSUME ComplectIInv, Update8RP
  PROVE  ComplectIInv'
<1> DEFINE A == Assigned("relay", plan, "8RP", 0)
           B == Below("relay", Size(plan, "8RP"))
<1>1. /\ ComplectTypeOK /\ plan \in Status /\ "8RP" \in BoardTypes /\ "6DI6RO" \in BoardTypes
      /\ "relay" \in List /\ Size(plan, "8RP") \in Nat /\ Size(plan, "6DI6RO") \in Nat
  BY SizeFacts DEF ComplectIInv, ComplectTypeOK, BoardTypes, List
<1>2. /\ A \in [Indices("relay") -> Places] /\ \A i, j \in B : A[i] = A[j] => i = j
      /\ \A i \in Indices("relay") : i < Size(plan, "8RP") => A[i] = Place(plan, "8RP", i)
  BY <1>1, AssignedFacts, AssignedDistinct
<1>3. /\ B \subseteq Indices("relay") /\ \A i \in B : \A j \in Indices("relay") : j < i => j \in B
      /\ \A i \in B : i < Size(plan, "8RP")
  BY <1>1, BelowFacts
<1>4. /\ place' = [place EXCEPT !["relay"] = A] /\ enable' = [enable EXCEPT !["relay"] = B]
      /\ pc' = "6DI6RO" /\ plan' = plan /\ known' = known /\ next' = 0
  BY DEF Update8RP
<1>5. B = Below("relay", Size(plan, "8RP") + 0)
  BY <1>1
<1> HIDE DEF A, B
<1>6. /\ place'["relay"] = A /\ enable'["relay"] = B
      /\ \A k \in List \ {"relay"} : place'[k] = place[k] /\ enable'[k] = enable[k]
      /\ DOMAIN place' = List /\ DOMAIN enable' = List
  BY <1>1, <1>4 DEF ComplectTypeOK
<1>7. ComplectTypeOK'
  BY <1>1, <1>2, <1>3, <1>4, <1>6 DEF ComplectTypeOK
<1>8. EnabledFirst'
  BY <1>3, <1>6 DEF ComplectIInv, EnabledFirst
<1>9. OneEach'
  BY <1>2, <1>4, <1>6 DEF ComplectIInv, OneEach, Distinct, Update8RP
<1>10. MappedSoFar'
  <2>1. \A i \in B : A[i] = RelayPlace(plan, i)
    BY <1>2, <1>3 DEF RelayPlace
  <2>2. \A i \in Indices("freq") : ~(i < 0)
    BY IndexFacts DEF List
  <2> QED BY <1>1, <1>4, <1>5, <1>6, <2>1, <2>2 DEF MappedSoFar
<1> QED BY <1>7, <1>8, <1>9, <1>10 DEF ComplectIInv

LEMMA OnePlaceOK ==
  ASSUME ComplectIInv, Update6DI6RO
  PROVE  ComplectIInv'
<1> DEFINE m == Size(plan, "8RP")
           n == Size(plan, "6DI6RO")
           r == m + next
           pl == Place(plan, "6DI6RO", next)
<1>1. /\ ComplectTypeOK /\ EnabledFirst /\ OneEach /\ MappedSoFar /\ plan \in Status
      /\ "8RP" \in BoardTypes /\ "6DI6RO" \in BoardTypes
      /\ "relay" \in List /\ "freq" \in List /\ m \in Nat /\ n \in Nat /\ next \in Nat
  BY SizeFacts DEF ComplectIInv, ComplectTypeOK, BoardTypes, List
<1>2. /\ pc = "6DI6RO" /\ next < n /\ next' = next + 1 /\ UNCHANGED <<known, pc, plan>>
      /\ place' = [place EXCEPT
           !["freq"] = [i \in Indices("freq") |-> IF i = next THEN pl ELSE place["freq"][i]],
           !["relay"] = [i \in Indices("relay") |-> IF i = r THEN pl ELSE place["relay"][i]]]
      /\ enable' = [enable EXCEPT
           !["freq"] = enable["freq"] \cup ({next} \cap Indices("freq")),
           !["relay"] = enable["relay"] \cup ({r} \cap Indices("relay"))]
  BY <1>1 DEF Update6DI6RO, FirstRelay6, ComplectTypeOK
<1>3. pl \in Places
  BY <1>1, <1>2, PlaceFacts
<1>4. r \in Nat /\ r + 1 = m + (next + 1) /\ m + next = r /\ RelayPlace(plan, r) = pl /\ r < RelaySize(plan)
  <2>1. r \in Nat /\ ~(r < m) /\ r - m = next /\ r < m + n
    BY <1>1, <1>2
  <2> QED BY <1>1, <2>1 DEF RelayPlace, RelaySize
<1>5. /\ enable["relay"] = Below("relay", r)
      /\ \A i \in enable["relay"] : place["relay"][i] = RelayPlace(plan, i)
      /\ \A i \in Indices("freq") :
           i < next => i \in enable["freq"] /\ place["freq"][i] = Place(plan, "6DI6RO", i)
  BY <1>1, <1>2 DEF MappedSoFar
<1> HIDE DEF m, n, r, pl
<1>6. /\ place'["freq"] = [i \in Indices("freq") |-> IF i = next THEN pl ELSE place["freq"][i]]
      /\ place'["relay"] = [i \in Indices("relay") |-> IF i = r THEN pl ELSE place["relay"][i]]
      /\ enable'["freq"] = enable["freq"] \cup ({next} \cap Indices("freq"))
      /\ enable'["relay"] = enable["relay"] \cup ({r} \cap Indices("relay"))
      /\ \A k \in List \ {"freq", "relay"} : place'[k] = place[k] /\ enable'[k] = enable[k]
      /\ DOMAIN place' = List /\ DOMAIN enable' = List
  BY <1>1, <1>2 DEF ComplectTypeOK
<1>7. Indices("freq") \subseteq Nat /\ Indices("relay") \subseteq Nat
  BY <1>1, IndexFacts
<1>8. ComplectTypeOK'
  <2>1. place'["freq"] \in [Indices("freq") -> Places] /\ place'["relay"] \in [Indices("relay") -> Places]
    BY <1>1, <1>3, <1>6 DEF ComplectTypeOK
  <2>2. enable'["freq"] \subseteq Indices("freq") /\ enable'["relay"] \subseteq Indices("relay")
    BY <1>1, <1>6 DEF ComplectTypeOK
  <2>3. next' \in Nat
    BY <1>1, <1>2
  <2> QED BY <1>1, <1>2, <1>6, <2>1, <2>2, <2>3 DEF ComplectTypeOK
<1>9. enable'["relay"] = Below("relay", r + 1)
  <2>1. \A i \in Indices("relay") : i < r + 1 <=> i < r \/ i = r
    BY <1>4, <1>7
  <2> QED BY <1>5, <1>6, <2>1 DEF Below
<1>10. \A i \in enable'["relay"] :
         i \in Nat /\ i < RelaySize(plan) /\ place'["relay"][i] = RelayPlace(plan, i)
  <2>1. \A i \in enable'["relay"] : i \in Indices("relay") /\ (i \in enable["relay"] \/ i = r)
    BY <1>1, <1>6 DEF ComplectTypeOK
  <2>2. \A i \in enable["relay"] : i < r
    BY <1>5 DEF Below
  <2>3. RelaySize(plan) \in Nat
    BY <1>1, SizeFacts DEF RelaySize
  <2> QED BY <1>4, <1>5, <1>6, <1>7, <2>1, <2>2, <2>3
<1>11. \A i \in Indices("freq") :
         i < next + 1 => i \in enable'["freq"] /\ place'["freq"][i] = Place(plan, "6DI6RO", i)
  <2>1. \A i \in Indices("freq") : i < next + 1 => i = next \/ (i < next /\ i # next)
    BY <1>1, <1>7
  <2>2. pl = Place(plan, "6DI6RO", next)
    BY DEF pl
  <2> QED BY <1>5, <1>6, <2>1, <2>2
<1>12. EnabledFirst'
  <2> SUFFICES ASSUME NEW k \in List, NEW i \in enable'[k], NEW j \in Indices(k), j < i
               PROVE  j \in enable'[k]
    BY DEF EnabledFirst
  <2>1. CASE k = "freq"
    <3>1. i \in enable["freq"] \/ (i = next /\ j < next)
      BY <1>6, <2>1
    <3> QED BY <1>1, <1>5, <1>6, <2>1, <3>1 DEF EnabledFirst
  <2>2. CASE k = "relay"
    BY <1>1, <1>4, <1>9, <2>2, BelowFacts
  <2>3. CASE k \notin {"freq", "relay"}
    BY <1>1, <1>6, <2>3 DEF EnabledFirst
  <2> QED BY <2>1, <2>2, <2>3
<1>13. OneEach'
  <2> SUFFICES ASSUME NEW k \in List, k # "freq" PROVE Distinct(k)'
    BY <1>2 DEF OneEach
  <2>1. CASE k = "relay"
    BY <1>1, <1>10, <2>1, RelayPlaceDistinct DEF Distinct
  <2>2. CASE k # "relay"
    BY <1>1, <1>6, <2>2 DEF OneEach, Distinct
  <2> QED BY <2>1, <2>2
<1>14. MappedSoFar'
  <2>1. next' <= n
    BY <1>1, <1>2
  <2>2. enable'["relay"] = Below("relay", m + next')
    BY <1>2, <1>4, <1>9
  <2> QED BY <1>2, <1>10, <1>11, <2>1, <2>2 DEF MappedSoFar, m, n
<1> QED BY <1>8, <1>12, <1>13, <1>14 DEF ComplectIInv

LEMMA RestOK ==
  ASSUME ComplectIInv, UpdateRest
  PROVE  ComplectIInv'
<1> DEFINE A == Assigned("steel", plan, "STEEL", 0)
           B == Below("steel", Size(plan, "STEEL"))
           F == enable["freq"] \cap Below("freq", Size(plan, "6DI6RO"))
           R == enable["relay"] \cap Below("relay", RelaySize(plan))
<1>1. /\ ComplectTypeOK /\ EnabledFirst /\ OneEach /\ MappedSoFar /\ plan \in Status
      /\ "8RP" \in BoardTypes /\ "6DI6RO" \in BoardTypes /\ "STEEL" \in BoardTypes
      /\ "relay" \in List /\ "freq" \in List /\ "steel" \in List /\ next \in Nat
      /\ Size(plan, "6DI6RO") \in Nat /\ Size(plan, "STEEL") \in Nat
      /\ Size(plan, "8RP") \in Nat /\ RelaySize(plan) \in Nat
  BY SizeFacts DEF ComplectIInv, ComplectTypeOK, BoardTypes, List, RelaySize
<1>2. A \in [Indices("steel") -> Places] /\ \A i, j \in B : A[i] = A[j] => i = j
  BY <1>1, AssignedFacts, AssignedDistinct
<1>3. B \subseteq Indices("steel") /\ \A i \in B : \A j \in Indices("steel") : j < i => j \in B
  BY <1>1, BelowFacts
<1>4. /\ pc = "6DI6RO" /\ pc' = "idle" /\ next' = 0 /\ known' = known
      /\ place' = [place EXCEPT !["steel"] = A]
      /\ enable' = [enable EXCEPT !["freq"] = F, !["relay"] = R, !["steel"] = B]
      /\ plan' \in Status
      /\ next = Size(plan, "6DI6RO")
  BY <1>1 DEF UpdateRest, LeftOverFreq, ComplectTypeOK, MappedSoFar, Status
<1>5. F \subseteq enable["freq"] /\ R \subseteq enable["relay"]
  OBVIOUS
<1>6. \A i \in F : i \in Indices("freq") /\ i \in Nat /\ i < Size(plan, "6DI6RO")
                   /\ place["freq"][i] = Place(plan, "6DI6RO", i)
  <2>1. Indices("freq") \subseteq Nat
    BY <1>1, IndexFacts
  <2> QED BY <1>1, <1>4, <2>1 DEF Below, MappedSoFar
<1>7. \A i, j \in F : place["freq"][i] = place["freq"][j] => i = j
  <2> HIDE DEF F
  <2> QED BY <1>1, <1>6, PlaceDistinct
<1>8. \A i \in F : \A j \in Indices("freq") : j < i => j \in F
  <2>1. \A i \in Below("freq", Size(plan, "6DI6RO")) :
          \A j \in Indices("freq") : j < i => j \in Below("freq", Size(plan, "6DI6RO"))
    BY <1>1, BelowFacts
  <2> QED BY <1>1, <2>1 DEF EnabledFirst
<1>9. \A i \in R : \A j \in Indices("relay") : j < i => j \in R
  <2>1. \A i \in Below("relay", RelaySize(plan)) :
          \A j \in Indices("relay") : j < i => j \in Below("relay", RelaySize(plan))
    BY <1>1, BelowFacts
  <2> QED BY <1>1, <2>1 DEF EnabledFirst
<1> HIDE DEF A, B, F, R
<1>10. /\ place'["steel"] = A /\ \A k \in List \ {"steel"} : place'[k] = place[k]
       /\ enable'["freq"] = F /\ enable'["relay"] = R /\ enable'["steel"] = B
       /\ enable'["channel"] = enable["channel"]
       /\ DOMAIN place' = List /\ DOMAIN enable' = List
  BY <1>1, <1>4 DEF ComplectTypeOK, List
<1>11. \A k \in List : k \in {"channel", "freq", "relay", "steel"}
  BY DEF List
<1>12. ComplectTypeOK'
  <2>1. \A k \in List : place'[k] \in [Indices(k) -> Places]
    BY <1>1, <1>2, <1>10 DEF ComplectTypeOK
  <2>2. \A k \in List : enable'[k] \subseteq Indices(k)
    BY <1>1, <1>3, <1>5, <1>10, <1>11 DEF ComplectTypeOK
  <2> QED BY <1>1, <1>4, <1>10, <2>1, <2>2 DEF ComplectTypeOK
<1>13. EnabledFirst'
  BY <1>1, <1>3, <1>8, <1>9, <1>10, <1>11 DEF EnabledFirst
<1>14. OneEach'
  <2> SUFFICES ASSUME NEW k \in List PROVE Distinct(k)'
    BY DEF OneEach
  <2>1. CASE k = "channel"
    BY <1>1, <1>10, <2>1 DEF OneEach, Distinct
  <2>2. CASE k = "freq"
    BY <1>1, <1>7, <1>10, <2>2 DEF Distinct
  <2>3. CASE k = "relay"
    BY <1>1, <1>5, <1>10, <2>3 DEF OneEach, Distinct
  <2>4. CASE k = "steel"
    BY <1>2, <1>10, <2>4 DEF Distinct
  <2> QED BY <1>11, <2>1, <2>2, <2>3, <2>4
<1> QED BY <1>4, <1>12, <1>13, <1>14 DEF ComplectIInv, MappedSoFar

LEMMA ComplectInductive == ComplectSpec => []ComplectIInv
<1>1. ComplectIInv /\ [ComplectNext]_complectVars => ComplectIInv'
  <2> SUFFICES ASSUME ComplectIInv, [ComplectNext]_complectVars PROVE ComplectIInv'
    OBVIOUS
  <2>1. CASE UNCHANGED complectVars
    BY <2>1 DEF complectVars, ComplectIInv, ComplectTypeOK, EnabledFirst, OneEach, Distinct, MappedSoFar
  <2> QED BY <2>1, StatusOK, ChannelsOK, RelaysOK, OnePlaceOK, RestOK DEF ComplectNext
<1> QED BY <1>1, ComplectInitOK, PTL DEF ComplectSpec

(* Every variable of the composition has its type: in particular every     *)
(* place given to an object is one of a board (updateDevicesComplect).     *)
THEOREM ComplectTyped == ComplectSpec => []ComplectTypeOK
<1>1. ComplectIInv => ComplectTypeOK
  BY DEF ComplectIInv
<1> QED BY <1>1, ComplectInductive, PTL

(* The enabled objects of each list are the first ones, in the middle of   *)
(* an update too, whatever boards come and go (updateDevicesComplect).     *)
THEOREM NoGaps == ComplectSpec => []EnabledFirst
<1>1. ComplectIInv => EnabledFirst
  BY DEF ComplectIInv
<1> QED BY <1>1, ComplectInductive, PTL

(* The searches by slot and number, which do not look at enable, find      *)
(* every enabled relay in the middle of an update and every enabled object *)
(* between updates (getIndexRelayBySlotAndCh and its like).                *)
THEOREM LookupFinds == ComplectSpec => []LookupExact
BY Lookup, ComplectInductive, PTL

-----------------------------------------------------------------------------
(***************************************************************************)
(* One slot.  The counter counts answers while the board is online and     *)
(* silence while it is not: offline it never exceeds the resets there have *)
(* been without an answer, for the reset that takes a board off line       *)
(* starts it anew.                                                         *)
(***************************************************************************)
SilenceCounted ==
  /\ counterStatus \in 0 .. CountOff /\ silent \in 0 .. CountOff
  /\ ~online => counterStatus <= silent

DeviceIInv == SilenceCounted /\ OfflineMeansSilent

LEMMA CountFacts ==
  ASSUME NEW m \in 0 .. CountOff, NEW n \in 0 .. CountOff
  PROVE  /\ Count(n) \in 0 .. CountOff
         /\ m <= n => Count(m) <= Count(n)
BY DeviceAssumption DEF Count

LEMMA DeviceInitOK == DeviceInit => DeviceIInv
<1> SUFFICES ASSUME DeviceInit PROVE DeviceIInv
  OBVIOUS
<1>1. counterStatus = 1 /\ silent = 1 /\ (stableOnline => CountOff = 1)
  BY DEF DeviceInit
<1>2. SilenceCounted
  BY <1>1, DeviceAssumption DEF SilenceCounted
<1>3. OfflineMeansSilent
  BY <1>1 DEF OfflineMeansSilent
<1> QED BY <1>2, <1>3 DEF DeviceIInv

LEMMA ResetOK ==
  ASSUME DeviceIInv, resetOnline
  PROVE  DeviceIInv'
<1>1. /\ counterStatus \in 0 .. CountOff /\ silent \in 0 .. CountOff
      /\ 0 \in 0 .. CountOff /\ CountOff \in Nat
      /\ ~online => counterStatus <= silent
  BY DeviceAssumption DEF DeviceIInv, SilenceCounted
<1>2. /\ SilentCount \in 0 .. CountOff /\ Count(silent) \in 0 .. CountOff
      /\ SilentCount <= Count(silent)
  BY <1>1, CountFacts DEF SilentCount
<1>3. /\ counterStatus' = SilentCount /\ silent' = Count(silent)
      /\ stableOnline' => SilentCount >= CountOff
  BY DEF resetOnline
<1>4. SilenceCounted'
  BY <1>2, <1>3 DEF SilenceCounted
<1>5. stableOnline' => silent' = CountOff
  <2>1. SilentCount >= CountOff => Count(silent) = CountOff
    BY <1>1, <1>2
  <2> QED BY <1>3, <2>1
<1> QED BY <1>4, <1>5 DEF DeviceIInv, OfflineMeansSilent

LEMMA DeviceStepOK == DeviceIInv /\ [DeviceNext]_deviceVars => DeviceIInv'
<1> SUFFICES ASSUME DeviceIInv, [DeviceNext]_deviceVars PROVE DeviceIInv'
  OBVIOUS
<1> USE DEF DeviceIInv, SilenceCounted, OfflineMeansSilent
<1>1. CASE UNCHANGED <<online, stableOnline, counterStatus, silent>>
  BY <1>1
<1>2. CASE resetOnline
  BY <1>2, ResetOK
<1>3. CASE parseDeviceParam
  BY <1>3, DeviceAssumption, CountFacts DEF parseDeviceParam
<1>4. CASE setOnline
  BY <1>4, DeviceAssumption DEF setOnline
<1> QED BY <1>1, <1>2, <1>3, <1>4
     DEF DeviceNext, updateStatus, updateConstParam, BoardTakesMode, NoAnswer, setMode, pause, Swap,
         deviceVars, slotVars, envVars

(* A slot is given up only after COUNT_STABLE_STATUS_OFF periods in a row  *)
(* without any answer, however the one counter for both directions was     *)
(* moved before (resetOnline, parseDeviceParam, setOnline).                *)
THEOREM GivenUpWhenSilent == DeviceSpec => []OfflineMeansSilent
<1>1. DeviceIInv => OfflineMeansSilent
  BY DEF DeviceIInv
<1> QED BY <1>1, DeviceInitOK, DeviceStepOK, PTL DEF DeviceSpec
=============================================================================
