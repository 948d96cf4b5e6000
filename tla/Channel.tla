------------------------------- MODULE Channel -------------------------------
(***************************************************************************)
(* How the settings of an analog channel (Channels/channelOptions.cpp) or  *)
(* of a frequency input (Channels/freq_channel.cpp) get to the board: a    *)
(* setter writes the parameter at once, a timer reads it back every 30     *)
(* seconds, and the parser writes it again when the board has something    *)
(* else.  The object is set by the dialogs, in the thread of the GUI, and  *)
(* by the handlers of the Modbus server, in the thread of the server; both *)
(* hold the mutex of the list of channels meanwhile.                       *)
(*                                                                         *)
(* A value is a number of halves, so that 3 is a fraction.  type stands    *)
(* for every setting that is polled whatever the others are: SignalType,   *)
(* AdditionalParameter1 and AdditionalParameter2.  The polls of values,    *)
(* flags and errors are left out, and so is the slot of the channel, which *)
(* is that of its one board.  A request dropped by the filter or the pause *)
(* (Device, RequestLine) is one that is not answered.                      *)
(***************************************************************************)
EXTENDS Naturals, Sequences

CONSTANTS
  MaxSets,    \* bound on the settings changed, by either thread
  MaxFaults,  \* bound on answers lost and on boards pulled out
  MaxLine     \* bound on the requests and answers that allows another poll

ASSUME ChannelAssumption == MaxSets \in Nat /\ MaxFaults \in Nat /\ MaxLine \in Nat

Kind == {"analog", "freq"}
Thread == {"gui", "server"}

(* extra is FSRinternal, the shift of the cold junction, which only a      *)
(* thermocouple has, or ImpulseDuration, which only a counter has.         *)
Param == {"type", "extra"}
Plain == 0
Special == 2   \* TermoCoupleMeasure, ImpulseCounterMeasure
Number == {0, 2, 3}
Value(p) == IF p = "extra" THEN {2, 3} ELSE {Plain, Special}

VARIABLES
  kind,           \* analog or freq
  want, enable,   \* outputData and enable of the object
  next,           \* iteratorParam of an analog channel
  todo,           \* what each thread has left to do with the mutex locked
  have, plugged,  \* the board: its parameters, whether it is there
  requests,       \* under way to the board
  answers,        \* of queueTransaction, to be parsed
  sets, faults,   \* so far
  missed          \* ghost: no write of this setting is known to reach the board

boardVars == <<have, plugged>>
lineVars == <<requests, answers>>
vars == <<kind, want, enable, next, todo, boardVars, lineVars, sets, faults, missed>>

(* The parameters polled, in this order. *)
listStr == <<"type", "extra">>

Read(p) == [op |-> "R", p |-> p, v |-> 0]
Write(p, v) == [op |-> "W", p |-> p, v |-> v]
Set(p, v) == [op |-> "set", p |-> p, v |-> v]

Values == {f \in [Param -> Number] : \A p \in Param : f[p] \in Value(p)}

Job == {j \in [op : {"set", "W"}, p : Param, v : Number] : j.v \in Value(j.p)}
Request == {r \in [op : {"R", "W"}, p : Param, v : Number] : r.op = "W" => r.v \in Value(r.p)}
Answer == {a \in [op : {"R"}, p : Param, v : Number] : a.v \in Value(a.p)}

TypeOK ==
  /\ kind \in Kind /\ want \in Values /\ have \in Values
  /\ enable \in BOOLEAN /\ plugged \in BOOLEAN
  /\ next \in 1..Len(listStr)
  /\ todo \in [Thread -> Seq(Job)]
  /\ requests \in Seq(Request) /\ answers \in Seq(Answer)
  /\ sets \in 0..MaxSets /\ faults \in 0..MaxFaults
  /\ missed \in [Param -> BOOLEAN]

Init ==
  /\ kind \in Kind
  /\ want \in Values /\ have \in Values
  /\ enable = FALSE /\ plugged \in BOOLEAN
  /\ next = 1
  /\ todo = [t \in Thread |-> <<>>]
  /\ requests = <<>> /\ answers = <<>>
  /\ sets = 0 /\ faults = 0
  /\ missed = [p \in Param |-> TRUE]

-----------------------------------------------------------------------------
(* The threads *)

Idle(t) == todo[t] = <<>>
Unlocked == \A t \in Thread : Idle(t)

(* Which settings a save changes, in this order: saveParam of the settings *)
(* dialog, or on_bApplyFreq_clicked.                                       *)
SaveSteps(f) ==
  IF kind = "analog" \/ f["type"] = Special
  THEN <<Set("type", f["type"]), Set("extra", f["extra"])>>
  ELSE <<Set("type", f["type"])>>

Save ==
  /\ Unlocked
  /\ sets < MaxSets /\ sets' = sets + 1
  /\ \E f \in Values : todo' = [todo EXCEPT !["gui"] = SaveSteps(f)]
  /\ UNCHANGED <<kind, want, enable, next, boardVars, lineVars, faults, missed>>

(* A handler of the server sets one parameter. *)
ExtSetOne ==
  /\ sets < MaxSets /\ sets' = sets + 1
  /\ \E p \in Param : \E v \in Value(p) : todo' = [todo EXCEPT !["server"] = <<Set(p, v)>>]
  /\ UNCHANGED <<kind, want, enable, next, boardVars, lineVars, faults, missed>>

(* Faulty: mListChannel.lock() forgotten *)
ExtSetUnlocked == Idle("server") /\ ExtSetOne
ExtSet == Unlocked /\ ExtSetOne

(* The setters of a channel that is not enabled write nothing, but that of *)
(* the duration of an impulse does.                                        *)
Sends(p) == enable \/ (kind = "freq" /\ p = "extra")

Assign(t) ==
  /\ ~Idle(t) /\ Head(todo[t]).op = "set"
  /\ LET s == Head(todo[t]) IN
       /\ want' = [want EXCEPT ![s.p] = s.v]
       /\ todo' = [todo EXCEPT ![t] = IF Sends(s.p) THEN [@ EXCEPT ![1] = Write(s.p, s.v)]
                                                    ELSE Tail(@)]
       /\ missed' = [missed EXCEPT ![s.p] = @ \/ ~Sends(s.p)]
  /\ UNCHANGED <<kind, enable, next, boardVars, lineVars, sets, faults>>

(* The signal of an analog channel is connected directly.  That of a       *)
(* frequency input is not: out of another thread it would have to be       *)
(* queued, which Qt refuses for a Transaction, a type not registered.      *)
Connected(t) == kind = "analog" \/ t = "gui"

Emit(t) ==
  /\ ~Idle(t) /\ Head(todo[t]).op = "W"
  /\ LET w == Head(todo[t]) IN
       /\ requests' = IF Connected(t) THEN Append(requests, w) ELSE requests
       /\ missed' = [missed EXCEPT ![w.p] = ~Connected(t)]
  /\ todo' = [todo EXCEPT ![t] = Tail(@)]
  /\ UNCHANGED <<kind, want, enable, next, boardVars, answers, sets, faults>>

-----------------------------------------------------------------------------
(* Polling and parsing, in the thread of the GUI *)

(* A frequency input reads ImpulseDuration as uint16_t, and writes it as a *)
(* whole number.                                                           *)
Whole(p, v) == IF kind = "freq" /\ p = "extra" THEN v - (v % 2) ELSE v

Polled(p) == p = "extra" => want["type"] = Special

ReadsOf(ps) == [i \in DOMAIN ps |-> Read(ps[i])]

(* updateParam of an analog channel asks for the next parameter, that of a *)
(* frequency input for all it has.                                         *)
NextPolled ==
  CASE kind = "freq" -> IF Polled("extra") THEN listStr ELSE <<"type">>
    [] kind = "analog" -> IF Polled(listStr[next]) THEN <<listStr[next]>> ELSE <<>>

(* Faulty: the parameter that is not polled holds up the others *)
updateParamStuck ==
  /\ enable /\ Idle("gui") /\ Len(requests) + Len(answers) <= MaxLine
  /\ requests' = requests \o ReadsOf(NextPolled)
  /\ next' = IF kind = "freq" \/ NextPolled = <<>> THEN next ELSE (next % Len(listStr)) + 1
  /\ UNCHANGED <<kind, want, enable, todo, boardVars, answers, sets, faults, missed>>

updateParam ==
  /\ enable /\ Idle("gui") /\ Len(requests) + Len(answers) <= MaxLine
  /\ requests' = requests \o ReadsOf(NextPolled)
  /\ next' = IF kind = "freq" THEN next ELSE (next % Len(listStr)) + 1
  /\ UNCHANGED <<kind, want, enable, todo, boardVars, answers, sets, faults, missed>>

(* updateDevicesComplect finds the board, or finds it gone.  An analog     *)
(* channel asks for everything at once.                                    *)
Enable ==
  /\ plugged /\ ~enable /\ Unlocked
  /\ enable' = TRUE
  /\ requests' = IF kind = "analog" THEN requests \o ReadsOf(listStr) ELSE requests
  /\ UNCHANGED <<kind, want, next, todo, boardVars, answers, sets, faults, missed>>

Disable ==
  /\ ~plugged /\ enable /\ Unlocked
  /\ enable' = FALSE
  /\ UNCHANGED <<kind, want, next, todo, boardVars, lineVars, sets, faults, missed>>

(* Faulty: a setting is written after every answer *)
CorrectionsAlways(a) == <<Write(a.p, Whole(a.p, want[a.p]))>>

(* parserChannel, called with the mutex locked. *)
Corrections(a) ==
  IF Whole(a.p, a.v) # want[a.p] THEN <<Write(a.p, Whole(a.p, want[a.p]))>> ELSE <<>>

parserChannel ==
  /\ answers # <<>> /\ Unlocked
  /\ answers' = Tail(answers)
  /\ todo' = [todo EXCEPT !["gui"] = Corrections(Head(answers))]
  /\ UNCHANGED <<kind, want, enable, next, boardVars, requests, sets, faults, missed>>

-----------------------------------------------------------------------------
(* The board and the line, external *)

BoardReads ==
  /\ plugged /\ requests # <<>> /\ Head(requests).op = "R"
  /\ answers' = Append(answers, [Head(requests) EXCEPT !.v = have[Head(requests).p]])
  /\ requests' = Tail(requests)
  /\ UNCHANGED <<kind, want, enable, next, todo, boardVars, sets, faults, missed>>

BoardWrites ==
  /\ plugged /\ requests # <<>> /\ Head(requests).op = "W"
  /\ have' = [have EXCEPT ![Head(requests).p] = Head(requests).v]
  /\ requests' = Tail(requests)
  /\ UNCHANGED <<kind, want, enable, next, todo, plugged, answers, sets, faults, missed>>

WritesOf(p) == {i \in DOMAIN requests : requests[i].op = "W" /\ requests[i].p = p}

(* A request that fails; the last write of a setting is missed. *)
NoAnswer ==
  /\ requests # <<>>
  /\ IF plugged THEN faults < MaxFaults /\ faults' = faults + 1 ELSE UNCHANGED faults
  /\ requests' = Tail(requests)
  /\ LET r == Head(requests) IN
       missed' = [missed EXCEPT ![r.p] = @ \/ (r.op = "W" /\ WritesOf(r.p) = {1})]
  /\ UNCHANGED <<kind, want, enable, next, todo, boardVars, answers, sets>>

Unplug ==
  /\ plugged /\ faults < MaxFaults /\ faults' = faults + 1
  /\ plugged' = FALSE
  /\ UNCHANGED <<kind, want, enable, next, todo, have, lineVars, sets, missed>>

(* The same board or another one. *)
Plug ==
  /\ ~plugged /\ plugged' = TRUE
  /\ have' \in Values
  /\ missed' = [p \in Param |-> TRUE]
  /\ UNCHANGED <<kind, want, enable, next, todo, lineVars, sets, faults>>

-----------------------------------------------------------------------------
Run(t) == Assign(t) \/ Emit(t)
Board == BoardReads \/ BoardWrites \/ NoAnswer

Next ==
  \/ Save \/ ExtSet
  \/ \E t \in Thread : Run(t)
  \/ updateParam \/ Enable \/ Disable \/ parserChannel
  \/ Board \/ Unplug \/ Plug

Spec == Init /\ [][Next]_vars

(* The mutex is released, the timers of the program run again and again,   *)
(* and a request is answered or given up.                                  *)
FairSpec ==
  /\ Spec
  /\ \A t \in Thread : WF_vars(Run(t))
  /\ WF_vars(updateParam) /\ WF_vars(Enable) /\ WF_vars(Disable) /\ WF_vars(parserChannel)
  /\ WF_vars(Board)

-----------------------------------------------------------------------------
(* Properties *)

(* A fraction is not kept by a frequency input (freq_channel.cpp:185). *)
Kept(p) == Whole(p, want[p]) = want[p]

Underway(p) == \E t \in Thread : \E i \in DOMAIN todo[t] : todo[t][i].p = p

(* The board has v and nothing under way changes that, or the last write   *)
(* under way is of v.                                                      *)
BoardGets(p, v) ==
  \/ WritesOf(p) = {} /\ have[p] = v
  \/ \E i \in WritesOf(p) : requests[i].v = v /\ \A j \in WritesOf(p) : j <= i

(* What was set last is what the board gets last, whichever thread set it  *)
(* and however late an answer is parsed, except where a write was lost,    *)
(* dropped, not made, or made to another board.                            *)
LastWriteWins ==
  \A p \in Param : missed[p] \/ Underway(p) \/ ~Kept(p) \/ BoardGets(p, want[p])

(* Where a board stays it comes to hold every setting that is polled,      *)
(* after any loss, with a setting changed before it was found, by a        *)
(* handler of the server whose signal is dropped, or with another board    *)
(* put in its place unnoticed; the duration of an impulse to the whole     *)
(* number, which is all that is compared.                                  *)
BoardConfigured ==
  <>[](plugged /\ \A p \in Param : Kept(p)) =>
    <>[](\A p \in Param : Polled(p) => Whole(p, have[p]) = want[p])

(* ... and the program and the board come to rest: it does not go on       *)
(* writing settings for ever.                                              *)
WritesEnd ==
  <>[](plugged /\ \A p \in Param : Kept(p)) => <>[](\A p \in Param : WritesOf(p) = {})

=============================================================================
