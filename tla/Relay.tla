------------------------------- MODULE Relay -------------------------------
(***************************************************************************)
(* The relays of one board (Relais/relay.cpp, and the slots of MainWindow  *)
(* that turn their signals into requests).  The recorder keeps the state   *)
(* it wants, writes the whole register of the board on every change and    *)
(* reads it back every half second until the answer confirms the change.   *)
(* Writes are not acknowledged, and writes, reads and commands overlap.    *)
(*                                                                         *)
(* The requests use the line as RequestLine describes it; requests to      *)
(* other boards are left out.                                              *)
(***************************************************************************)
EXTENDS Naturals, Sequences

CONSTANTS
  NumRelay,        \* relays of the board: 8 or 6
  NormallyClosed,  \* relays whose cRelay::type is set
  MaxCommands,     \* bound on commands, and on updates and restarts together
  MaxOutstanding   \* bound on requests in the line that allows another poll

Relays == 1 .. NumRelay

ASSUME RelayAssumption ==
  /\ NumRelay \in Nat \ {0} /\ NormallyClosed \subseteq Relays
  /\ MaxCommands \in Nat /\ MaxOutstanding \in Nat

VARIABLES
  newState,   \* the relays that are to be on
  confirmed,  \* the relays with confirmedState
  pending, busy, reserved, lent, answers,  \* the line
  registers,  \* the value in each of the answers: the relays read as on
  parsed,     \* relays of the first answer that have been told
  coil,       \* the relays that are on, on the board
  commands,   \* commands, updates and restarts so far
  lost,       \* ghost: a change of newState was never written to the board
  crossed,    \* ghost: a command was given while a request was under way
  restarted   \* ghost: the board has restarted

lineVars == <<pending, busy, reserved, lent, answers>>
ghosts == <<lost, crossed, restarted>>
vars == <<newState, confirmed, lineVars, registers, parsed, coil, commands, ghosts>>

Read == [op |-> "read", val |-> {}]
Write(S) == [op |-> "write", val |-> S]
Update == [op |-> "update", val |-> {}]
Transaction == {Read, Update} \cup {Write(S) : S \in SUBSET Relays}

Line == INSTANCE RequestLine WITH
  IsUpdate <- LAMBDA t : t.op = "update",
  IsRead <- LAMBDA t : t.op = "read"

(* The board powers up with all relays off, or was left as it was. *)
Init ==
  /\ newState = {} /\ confirmed = {}
  /\ Line!Init /\ registers = <<>> /\ parsed = 0
  /\ coil \in SUBSET Relays
  /\ commands = 0 /\ lost = FALSE /\ crossed = FALSE /\ restarted = FALSE

-----------------------------------------------------------------------------
Quiet == pending = <<>> /\ busy = <<>> /\ answers = <<>>

HasWrite(s) == \E i \in 1 .. Len(s) : s[i].op = "write"

(* A request is refused while the line is reserved. *)
Request(t) == IF reserved THEN UNCHANGED lineVars ELSE Line!Accept(t)

(* Faulty: the state the answer shows is written back. *)
slotRelayFromBoard(S) == Request(Write(coil))

(* slotRelay: what the signal says is ignored, the register is made of the *)
(* wanted states of all relays of the board.                               *)
slotRelay(S) == Request(Write(S))

Wanted(r, f) == IF f THEN newState \cup {r} ELSE newState \ {r}

Command(r, f) ==
  /\ commands < MaxCommands /\ commands' = commands + 1
  /\ f # (r \in newState)
  /\ newState' = Wanted(r, f)
  /\ crossed' = (crossed \/ ~Quiet)

(* Faulty: the old confirmation stays. *)
setStateConfirmed(r, f) ==
  /\ parsed = 0
  /\ Command(r, f)
  /\ slotRelay(Wanted(r, f))
  /\ lost' = (lost \/ reserved)
  /\ UNCHANGED <<confirmed, registers, parsed, coil, restarted>>

(* A setpoint or the steel analysis switches a relay, in the GUI thread. *)
setState(r, f) ==
  /\ parsed = 0
  /\ Command(r, f)
  /\ confirmed' = confirmed \ {r}
  /\ slotRelay(Wanted(r, f))
  /\ lost' = (lost \/ reserved)
  /\ UNCHANGED <<registers, parsed, coil, restarted>>

(* The external Modbus server switches a relay, in its own thread.  The    *)
(* signal would have to be queued, which Qt refuses: uint8_t is no         *)
(* registered type.  So nothing is written.                                *)
extSetRelay(r, f) ==
  /\ Command(r, f)
  /\ confirmed' = confirmed \ {r}
  /\ lost' = TRUE
  /\ UNCHANGED <<lineVars, registers, parsed, coil, restarted>>

(* Every half second, each relay on its own timer. *)
update(r) ==
  /\ parsed = 0
  /\ r \notin confirmed
  /\ Len(pending) + Len(busy) + Len(answers) < MaxOutstanding
  /\ Request(Read)
  /\ UNCHANGED <<newState, confirmed, registers, parsed, coil, commands, ghosts>>

(* Faulty: a relay that is not as wanted is only polled again. *)
setCurStateUnwritten(r) ==
  LET cur == (r \in Head(registers)) # (r \in NormallyClosed)
  IN IF cur = (r \in newState)
     THEN confirmed' = confirmed \cup {r} /\ UNCHANGED <<lineVars, lost>>
     ELSE confirmed' = confirmed \ {r} /\ UNCHANGED <<lineVars, lost>>

(* cRelay::setCurState for a relay in an answer. *)
setCurState(r) ==
  LET cur == (r \in Head(registers)) # (r \in NormallyClosed)
  IN IF cur = (r \in newState)
     THEN confirmed' = confirmed \cup {r} /\ UNCHANGED <<lineVars, lost>>
     ELSE /\ confirmed' = confirmed \ {r}
          /\ slotRelay(newState)
          /\ lost' = (lost \/ reserved)

(* parseWorkerReceive tells the relays one by one; mListRelay is free      *)
(* between two of them.                                                    *)
ParseRelay ==
  /\ answers # <<>> /\ parsed < NumRelay
  /\ parsed' = parsed + 1
  /\ setCurState(parsed + 1)
  /\ UNCHANGED <<newState, registers, coil, commands, crossed, restarted>>

ParseDone ==
  /\ parsed = NumRelay
  /\ Line!Look
  /\ registers' = Tail(registers)
  /\ parsed' = 0
  /\ UNCHANGED <<newState, confirmed, coil, commands, ghosts>>

-----------------------------------------------------------------------------
(* The line and the board.                                                 *)

Idle == UNCHANGED <<newState, confirmed, parsed, commands, crossed, restarted>>

Start ==
  /\ Line!Start /\ Idle
  /\ UNCHANGED <<registers, coil, lost>>

(* A write may have been carried out though its echo was lost. *)
Fail ==
  /\ Line!Fail /\ Idle
  /\ UNCHANGED registers
  /\ IF busy[1].op = "write"
     THEN \/ coil' = busy[1].val /\ UNCHANGED lost
          \/ lost' = TRUE /\ UNCHANGED coil
     ELSE UNCHANGED <<coil, lost>>

Succeed(op) ==
  /\ Line!Succeed /\ Idle
  /\ busy[1].op = op
  /\ coil' = IF op = "write" THEN busy[1].val ELSE coil
  /\ registers' = IF op = "read" THEN Append(registers, coil) ELSE registers
  /\ UNCHANGED lost

(* The firmware of some board is updated: what waits is dropped. *)
Reserve ==
  /\ parsed = 0
  /\ commands < MaxCommands /\ commands' = commands + 1
  /\ Line!Reserve(Update)
  /\ lost' = (lost \/ HasWrite(pending))
  /\ UNCHANGED <<newState, confirmed, registers, parsed, coil, crossed, restarted>>

(* Nothing of the recorder's state changes when the line is given back. *)
GiveBack ==
  /\ Line!Reopen \/ Line!Release
  /\ Idle
  /\ UNCHANGED <<registers, coil, lost>>

BoardRestart ==
  /\ commands < MaxCommands /\ commands' = commands + 1
  /\ coil' = {} /\ restarted' = TRUE
  /\ UNCHANGED <<newState, confirmed, lineVars, registers, parsed, lost, crossed>>

Exchange == Start \/ Fail \/ \E op \in {"read", "write", "update"} : Succeed(op)

Next ==
  \/ \E r \in Relays, f \in BOOLEAN : setState(r, f) \/ extSetRelay(r, f)
  \/ \E r \in Relays : update(r)
  \/ ParseRelay \/ ParseDone
  \/ Exchange \/ Reserve \/ GiveBack \/ BoardRestart

Spec == Init /\ [][Next]_vars

(* Timers fire, answers are parsed, an exchange ends.  The bus may fail    *)
(* any number of times, but not for ever, and not only for writes.         *)
Fairness ==
  /\ \A r \in Relays : SF_vars(update(r))
  /\ WF_vars(ParseRelay) /\ WF_vars(ParseDone)
  /\ WF_vars(Exchange)
  /\ SF_vars(Succeed("read")) /\ SF_vars(Succeed("write"))

FairSpec == Spec /\ Fairness

-----------------------------------------------------------------------------
(* Types of the variables. *)
TypeOK ==
  /\ newState \subseteq Relays /\ confirmed \subseteq Relays /\ coil \subseteq Relays
  /\ pending \in Seq(Transaction) /\ answers \in Seq({Read})
  /\ busy \in {<<>>} \cup {<<t>> : t \in Transaction}
  /\ reserved \in BOOLEAN /\ lent \in BOOLEAN
  /\ registers \in Seq(SUBSET Relays) /\ Len(registers) = Len(answers)
  /\ parsed \in 0 .. NumRelay /\ (parsed > 0 => answers # <<>>)
  /\ commands \in 0 .. MaxCommands
  /\ lost \in BOOLEAN /\ crossed \in BOOLEAN /\ restarted \in BOOLEAN

(* S is what the board will show once every request in the line is carried *)
(* out: the value of the last write, or what it shows now.                 *)
Final(S) ==
  \/ \E i \in 1 .. Len(pending) :
       pending[i] = Write(S) /\ \A j \in i + 1 .. Len(pending) : pending[j].op # "write"
  \/ ~HasWrite(pending) /\ busy = <<Write(S)>>
  \/ ~HasWrite(pending) /\ ~HasWrite(busy) /\ S = coil

(* A relay that is confirmed and not polled any more is, or will be with   *)
(* the last write under way, as wanted - unless a write was lost and that  *)
(* write crossed another request of the board, or the board restarted.     *)
ConfirmedIsTrue ==
  \/ \A S \in SUBSET Relays : Final(S) => S \cap confirmed = newState \cap confirmed
  \/ lost /\ crossed
  \/ restarted

(* When commands stop the polling ends: every relay is confirmed, however  *)
(* many exchanges failed, unless the line is never given back.             *)
Settles == <>[](confirmed = Relays) \/ <>[]reserved

(* And every relay ends up in the state wanted of it, inverted for a       *)
(* normally closed relay, with the same exceptions.                        *)
Switched ==
  \/ <>[]\A r \in Relays : ((r \in coil) # (r \in NormallyClosed)) = (r \in newState)
  \/ <>((lost /\ crossed) \/ restarted)
  \/ <>[]reserved
=============================================================================
