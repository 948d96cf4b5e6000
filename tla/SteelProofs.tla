---------------------------- MODULE SteelProofs -----------------------------
(***************************************************************************)
(* Proofs about Steel: the types of its variables, and that the pause the  *)
(* inputs share is never left on by an input that is not measuring, and    *)
(* that what is archived is complete and archived once.                    *)
(***************************************************************************)
EXTENDS Steel, SequenceTheorems, TLAPS

(* What update sends is a sequence of requests. *)
LEMMA SendType ==
  ASSUME TypeOK, NEW c \in Input, NEW s \in Status
  PROVE  /\ Poll \in Seq(Request) /\ Results(c) \in Seq(Request)
         /\ Verify(s) \in Seq(Request) /\ Record(c) \in Records
<1>1. Poll \in Seq(Request) /\ Results(c) \in Seq(Request) /\ Verify(s) \in Seq(Request)
  <2>1. /\ <<>> \in Seq(Request) /\ <<"status">> \in Seq(Request)
        /\ <<"carbon">> \in Seq(Request) /\ <<"verify">> \in Seq(Request)
    BY EmptySeq, SMT DEF Request
  <2>2. <<"activity", "carbon">> \in Seq(Request)
    BY SMT DEF Request
  <2> QED BY <2>1, <2>2 DEF Poll, Results, Verify
<1>2. Record(c) \in Records
  BY DEF TypeOK, Record, Records
<1> QED BY <1>1, <1>2

LEMMA SentType ==
  ASSUME TypeOK, NEW c \in Input, NEW r \in Seq(Request), Send(c, r)
  PROVE  line' \in [Input -> Seq(Request)]
  BY DEF TypeOK, Send

LEMMA DoneType ==
  ASSUME TypeOK, NEW c \in Input, line[c] # <<>>, Done(c)
  PROVE  line' \in [Input -> Seq(Request)]
  BY DEF TypeOK, Done

(* The statuses of the boards, the melts and the flags keep their types in *)
(* every step, whatever the order of updates and answers.                  *)
LEMMA TypeStep == TypeOK /\ [Next]_vars => TypeOK'
<1> SUFFICES ASSUME TypeOK, [Next]_vars PROVE TypeOK'
  OBVIOUS
<1>1. ASSUME NEW c \in Input, update(c) PROVE TypeOK'
  <2> USE <1>1
  <2>1. status[c] \in Status /\ "measure" \in Status /\ "wait" \in {"wait", "measure", "ready"}
    BY DEF TypeOK, Status
  <2>2. Poll \in Seq(Request) /\ Results(c) \in Seq(Request) /\ Verify(status[c]) \in Seq(Request)
        /\ Verify("measure") \in Seq(Request)
        /\ Record(c) \in Records
    BY <2>1, SendType
  <2>3. CASE StartMeasure(c)
    <3>1. line' \in [Input -> Seq(Request)]
      <4>1. Poll \o Verify(status[c]) \in Seq(Request)
        BY <2>2
      <4> QED BY <4>1, <2>3, SentType DEF StartMeasure
    <3> QED BY <3>1, <2>3 DEF update, StartMeasure, Enter, TypeOK, boardVars, resultVars
  <2>4. CASE Finish(c)
    <3>1. line' \in [Input -> Seq(Request)]
      <4>1. Poll \o Results(c) \o Verify("measure") \in Seq(Request)
        BY <2>2
      <4> QED BY <4>1, <2>4, SentType DEF Finish
    <3>2. activity' \in [Input -> Melts] /\ carbon' \in [Input -> Melts]
      BY <2>4, SteelAssumption DEF Finish, TypeOK, Melts
    <3> QED BY <3>1, <3>2, <2>4 DEF update, Finish, Enter, TypeOK, boardVars
  <2>5. CASE GiveUp(c)
    <3>1. line' \in [Input -> Seq(Request)]
      <4>1. Poll \o Verify(status[c]) \in Seq(Request)
        BY <2>2
      <4> QED BY <4>1, <2>5, SentType DEF GiveUp
    <3> QED BY <3>1, <2>5 DEF update, GiveUp, Enter, TypeOK, boardVars, resultVars
  <2>6. CASE Ready(c)
    <3>1. line' \in [Input -> Seq(Request)]
      <4>1. Poll \o Verify(IF fConfirm[c] \/ allVectorsReceived[c] THEN status[c] ELSE "measure")
              \in Seq(Request)
        BY <2>2
      <4> QED BY <4>1, <2>6, SentType DEF Ready
    <3>2. archive' \in [Input -> Seq(Records)]
      <4>1. Append(archive[c], Record(c)) \in Seq(Records)
        BY <2>2, AppendProperties DEF TypeOK
      <4> QED BY <4>1, <2>6 DEF Ready, TypeOK
    <3>3. fConfirm' \in [Input -> BOOLEAN] /\ allVectorsReceived' \in [Input -> BOOLEAN]
      BY <2>6 DEF Ready, TypeOK
    <3> QED BY <3>1, <3>2, <3>3, <2>6 DEF update, Ready, Enter, TypeOK, boardVars
  <2>7. CASE Idle(c)
    <3>1. line' \in [Input -> Seq(Request)]
      <4>1. Poll \o Verify(status[c]) \in Seq(Request)
        BY <2>2
      <4> QED BY <4>1, <2>7, SentType DEF Idle
    <3> QED BY <3>1, <2>7 DEF update, Idle, TypeOK, boardVars, resultVars
  <2> QED BY <2>3, <2>4, <2>5, <2>6, <2>7 DEF update
<1>2. ASSUME NEW c \in Input, parserSteel(c) PROVE TypeOK'
  <2>1. line' \in [Input -> Seq(Request)]
    BY <1>2, DoneType DEF parserSteel
  <2>2. Held(c) \in Melts /\ board[c] \in Status
    BY SteelAssumption DEF Held, TypeOK, Melts
  <2>3. /\ status' \in [Input -> Status] /\ activity' \in [Input -> Melts]
        /\ carbon' \in [Input -> Melts] /\ allVectorsReceived' \in [Input -> BOOLEAN]
    <3> USE <2>2, <1>2 DEF parserSteel, TypeOK
    <3>1. CASE Head(line[c]) = "status"
      BY <3>1
    <3>2. CASE Head(line[c]) = "activity"
      BY <3>2
    <3>3. CASE Head(line[c]) = "carbon"
      BY <3>3
    <3> QED BY <3>1, <3>2, <3>3
  <2> QED BY <2>1, <2>3, <1>2 DEF parserSteel, TypeOK, boardVars
<1>3. ASSUME NEW c \in Input, BoardVerified(c) PROVE TypeOK'
  <2>1. line' \in [Input -> Seq(Request)]
    BY <1>3, DoneType DEF BoardVerified
  <2> QED BY <2>1, <1>3 DEF BoardVerified, TypeOK, resultVars, Status
<1>4. ASSUME NEW c \in Input, NoAnswer(c) PROVE TypeOK'
  <2>1. line' \in [Input -> Seq(Request)]
    BY <1>4, DoneType DEF NoAnswer
  <2>2. losses' \in 0 .. MaxLosses
    BY <1>4, SteelAssumption DEF NoAnswer, TypeOK
  <2> QED BY <2>1, <2>2, <1>4 DEF NoAnswer, TypeOK, boardVars, resultVars
<1>5. ASSUME NEW c \in Input, BoardMeasures(c) PROVE TypeOK'
  <2>1. melts' \in Melts
    BY <1>5, SteelAssumption DEF BoardMeasures, TypeOK, Melts
  <2> QED BY <2>1, <1>5 DEF BoardMeasures, TypeOK, resultVars, Status
<1>6. ASSUME NEW c \in Input, BoardMoves(c) PROVE TypeOK'
  <2>1. PICK s \in Status : board' = [board EXCEPT ![c] = s]
    BY <1>6 DEF BoardMoves, Status
  <2> QED BY <2>1, <1>6 DEF BoardMoves, TypeOK, resultVars
<1>7. ASSUME NEW c \in Input, Swap(c) PROVE TypeOK'
  BY <1>7 DEF Swap, TypeOK, resultVars, Status
<1>8. ASSUME NEW c \in Input, updateDevicesComplect(c) PROVE TypeOK'
  BY <1>8 DEF updateDevicesComplect, TypeOK, boardVars, resultVars
<1>9. CASE UNCHANGED vars
  BY <1>9 DEF vars, TypeOK, boardVars, resultVars
<1> QED
  BY <1>1, <1>2, <1>3, <1>4, <1>5, <1>6, <1>7, <1>8, <1>9 DEF Next, Line

(* The variables of the inputs keep their types, whatever boards do: melts *)
(* and records stay within what was measured (update, parserSteel).        *)
THEOREM TypeCorrect == Spec => []TypeOK
<1>1. Init => TypeOK
  <2> SUFFICES ASSUME Init PROVE TypeOK
    OBVIOUS
  <2>1. 0 \in Melts /\ 0 \in 0 .. MaxLosses
    BY SteelAssumption DEF Melts
  <2>2. <<>> \in Seq(Request) /\ <<>> \in Seq(Records)
    BY EmptySeq
  <2> QED BY <2>1, <2>2 DEF Init, TypeOK, Status
<1> QED
  BY <1>1, TypeStep, PTL DEF Spec

(* A step keeps the owner of the pause, or ends the pause with it. *)
LEMMA OwnerStep == TypeOK /\ PauseHasOwner /\ [Next]_vars => PauseHasOwner'
<1> SUFFICES ASSUME TypeOK, PauseHasOwner, [Next]_vars PROVE PauseHasOwner'
  OBVIOUS
<1>1. ASSUME NEW c \in Input, update(c) PROVE PauseHasOwner'
  <2>1. CASE StartMeasure(c)
    <3>1. state'[c] = "measure"
      BY <2>1 DEF StartMeasure, Enter, TypeOK
    <3> QED BY <3>1 DEF PauseHasOwner
  <2>2. CASE Finish(c)
    BY <2>2 DEF Finish, PauseHasOwner
  <2>3. CASE GiveUp(c)
    BY <2>3 DEF GiveUp, PauseHasOwner
  <2>4. CASE Ready(c)
    BY <2>4 DEF Ready, PauseHasOwner
  <2>5. CASE Idle(c)
    BY <2>5 DEF Idle, PauseHasOwner
  <2> QED BY <1>1, <2>1, <2>2, <2>3, <2>4, <2>5 DEF update
<1>2. ASSUME NEW c \in Input, Line(c) PROVE PauseHasOwner'
  BY <1>2 DEF Line, parserSteel, BoardVerified, NoAnswer, PauseHasOwner
<1>3. ASSUME NEW c \in Input,
             BoardMeasures(c) \/ BoardMoves(c) \/ Swap(c) \/ updateDevicesComplect(c)
      PROVE PauseHasOwner'
  BY <1>3 DEF BoardMeasures, BoardMoves, Swap, updateDevicesComplect, PauseHasOwner
<1>4. CASE UNCHANGED vars
  BY <1>4 DEF vars, PauseHasOwner
<1> QED
  BY <1>1, <1>2, <1>3, <1>4 DEF Next

(* For any number of inputs: polling is paused only while one of them is   *)
(* measuring, whichever of them set the pause and whichever ended it       *)
(* (signalDevicesPause).                                                   *)
THEOREM PauseOwned == Spec => []PauseHasOwner
<1>1. Init => PauseHasOwner
  BY DEF Init, PauseHasOwner
<1> QED
  BY <1>1, OwnerStep, TypeCorrect, PTL DEF Spec

-----------------------------------------------------------------------------
(***************************************************************************)
(* The results: each is complete and archived once.  What an input has in  *)
(* its line is followed through one measurement: the board's carbon        *)
(* content is asked for at most once at a time, and not again before the   *)
(* board has been seen without the result that was asked for.              *)
(***************************************************************************)
Asked(c) == {line[c][k] : k \in 1 .. Len(line[c])}
Recorded(c) == {archive[c][k].carbon : k \in 1 .. Len(archive[c])}

(* At most one request for the carbon content is under way; that for the   *)
(* activity, if the input has one, comes right before it.                  *)
Lined(c) ==
  /\ \A i, j \in 1 .. Len(line[c]) :
       line[c][i] = "carbon" /\ line[c][j] = "carbon" => i = j
  /\ \A i \in 1 .. Len(line[c]) :
       line[c][i] = "activity" => i + 1 \in 1 .. Len(line[c]) /\ line[c][i + 1] = "carbon"
  /\ c \in Oxygen => \A i \in 1 .. Len(line[c]) :
       line[c][i] = "carbon" => i = 1 \/ line[c][i - 1] = "activity"

(* As long as it is, no later measurement ends: the statuses reported      *)
(* since are those of a board that had no result and begins a new melt.    *)
Behind(c) ==
  "carbon" \in Asked(c) =>
    /\ ~allVectorsReceived[c] /\ carbon[c] = 0
    /\ state[c] = "wait" => status[c] \in {"on", "measure"}
    /\ state[c] = "measure" => status[c] = "measure"
    /\ present[c] =>
         /\ state[c] = "wait" \/ (status[c] = "on" /\ state[c] = "ready")
              => board[c] \in {"on", "measure"}
         /\ state[c] = "measure" \/ (state[c] = "wait" /\ status[c] = "measure")
              => board[c] = "measure"

(* The two parts of a result are of the same melt, unless one was lost.    *)
Paired(c) ==
  c \in Oxygen /\ ~lost[c] =>
    /\ "carbon" \in Asked(c) /\ "activity" \notin Asked(c) /\ present[c] => activity[c] = Held(c)
    /\ allVectorsReceived[c] /\ carbon[c] # 0 => activity[c] = carbon[c]

(* A melt that is being measured has been read and archived by nobody.     *)
Fresh(c) ==
  /\ melt[c] <= melts /\ carbon[c] <= melts
  /\ \A m \in Recorded(c) : m <= melts
  /\ board[c] = "measure" => melt[c] # 0 /\ melt[c] # carbon[c] /\ melt[c] \notin Recorded(c)

(* What is archived is not read again: a board that holds it still is      *)
(* known to, and is not asked.                                             *)
Once(c) ==
  /\ \A i, j \in 1 .. Len(archive[c]) :
       i < j /\ archive[c][i].carbon # 0 => archive[c][i].carbon # archive[c][j].carbon
  /\ state[c] = "ready" /\ allVectorsReceived[c] /\ carbon[c] # 0 =>
       carbon[c] \notin Recorded(c) /\ (status[c] = "on" => Held(c) # carbon[c])
  /\ Held(c) # 0 /\ Held(c) \in Recorded(c) =>
       state[c] = "ready" /\ status[c] # "on" /\ "carbon" \notin Asked(c)

Followed(c) == Lined(c) /\ Behind(c) /\ Paired(c) /\ Fresh(c) /\ Once(c)

LEMMA PushLine ==
  ASSUME TypeOK, NEW c \in Input, Lined(c), NEW s \in Seq(Request), Send(c, s),
         \A k \in 1 .. Len(s) : s[k] \notin {"activity", "carbon"}
  PROVE  Lined(c)' /\ \A r \in {"activity", "carbon"} : (r \in Asked(c)' <=> r \in Asked(c))
<1>1. line[c] \in Seq(Request) /\ line'[c] = line[c] \o s /\ Len(line[c]) \in Nat
  BY DEF TypeOK, Send
<1>2. /\ Len(line'[c]) = Len(line[c]) + Len(s) /\ Len(s) \in Nat
      /\ \A i \in 1 .. Len(line[c]) + Len(s) :
            line'[c][i] = IF i <= Len(line[c]) THEN line[c][i] ELSE s[i - Len(line[c])]
  BY <1>1, ConcatProperties
<1>3. /\ \A i \in 1 .. Len(line[c]) : i \in 1 .. Len(line'[c]) /\ line'[c][i] = line[c][i]
      /\ \A i \in 1 .. Len(line'[c]) :
            line'[c][i] \in {"activity", "carbon"} => i \in 1 .. Len(line[c])
  BY <1>1, <1>2
<1>4. \A r \in {"activity", "carbon"} : (r \in Asked(c)' <=> r \in Asked(c))
  BY <1>3 DEF Asked
<1>5. Lined(c)'
  <2>1. \A i, j \in 1 .. Len(line'[c]) :
           line'[c][i] = "carbon" /\ line'[c][j] = "carbon" => i = j
    BY <1>3 DEF Lined
  <2>2. \A i \in 1 .. Len(line'[c]) :
           line'[c][i] = "activity" => i + 1 \in 1 .. Len(line'[c]) /\ line'[c][i + 1] = "carbon"
    BY <1>3 DEF Lined
  <2>3. c \in Oxygen => \A i \in 1 .. Len(line'[c]) :
           line'[c][i] = "carbon" => i = 1 \/ line'[c][i - 1] = "activity"
    <3> SUFFICES ASSUME c \in Oxygen, NEW i \in 1 .. Len(line'[c]), line'[c][i] = "carbon", i # 1
                 PROVE  line'[c][i - 1] = "activity"
      OBVIOUS
    <3>1. i \in 1 .. Len(line[c]) /\ i - 1 \in 1 .. Len(line[c]) /\ line[c][i] = "carbon"
      BY <1>1, <1>3
    <3> QED BY <3>1, <1>3 DEF Lined
  <2> QED BY <2>1, <2>2, <2>3 DEF Lined
<1> QED BY <1>4, <1>5

LEMMA PopLine ==
  ASSUME TypeOK, NEW c \in Input, Lined(c), line[c] # <<>>, Done(c)
  PROVE  /\ Lined(c)' /\ Head(line[c]) \in Asked(c)
         /\ \A r \in Asked(c)' : r \in Asked(c)
         /\ \A r \in Asked(c) : r # Head(line[c]) => r \in Asked(c)'
         /\ (Head(line[c]) = "carbon" => ("carbon" \notin Asked(c)' /\ "activity" \notin Asked(c)))
         /\ (Head(line[c]) = "activity" => ("carbon" \in Asked(c)' /\ "activity" \notin Asked(c)'))
         /\ ((c \in Oxygen /\ "carbon" \in Asked(c) /\ "activity" \notin Asked(c))
              => Head(line[c]) = "carbon")
<1>1. line[c] \in Seq(Request) /\ line'[c] = Tail(line[c]) /\ Len(line[c]) \in Nat \ {0}
  BY EmptySeq DEF TypeOK, Done
<1>2. /\ Head(line[c]) = line[c][1] /\ Len(line'[c]) = Len(line[c]) - 1
      /\ \A i \in 1 .. Len(line'[c]) : line'[c][i] = line[c][i + 1]
  BY <1>1, HeadTailProperties
<1>3. /\ \A i \in 1 .. Len(line'[c]) : i + 1 \in 1 .. Len(line[c]) /\ line'[c][i] = line[c][i + 1]
      /\ \A i \in 1 .. Len(line[c]) :
            i = 1 \/ (i - 1 \in 1 .. Len(line'[c]) /\ line'[c][i - 1] = line[c][i])
  BY <1>1, <1>2
<1>4. Lined(c)'
  <2>1. \A i, j \in 1 .. Len(line'[c]) :
           line'[c][i] = "carbon" /\ line'[c][j] = "carbon" => i = j
    <3> SUFFICES ASSUME NEW i \in 1 .. Len(line'[c]), NEW j \in 1 .. Len(line'[c]),
                        line'[c][i] = "carbon", line'[c][j] = "carbon"
                 PROVE  i = j
      OBVIOUS
    <3>1. i + 1 \in 1 .. Len(line[c]) /\ line[c][i + 1] = "carbon"
      BY <1>3
    <3>2. j + 1 \in 1 .. Len(line[c]) /\ line[c][j + 1] = "carbon"
      BY <1>3
    <3>3. i + 1 = j + 1
      BY <3>1, <3>2 DEF Lined
    <3> QED BY <3>3, <1>1, <1>2
  <2>2. \A i \in 1 .. Len(line'[c]) :
           line'[c][i] = "activity" => i + 1 \in 1 .. Len(line'[c]) /\ line'[c][i + 1] = "carbon"
    BY <1>1, <1>2, <1>3 DEF Lined
  <2>3. c \in Oxygen => \A i \in 1 .. Len(line'[c]) :
           line'[c][i] = "carbon" => i = 1 \/ line'[c][i - 1] = "activity"
    <3> SUFFICES ASSUME c \in Oxygen, NEW i \in 1 .. Len(line'[c]), line'[c][i] = "carbon", i # 1
                 PROVE  line'[c][i - 1] = "activity"
      OBVIOUS
    <3>1. i + 1 \in 1 .. Len(line[c]) /\ line[c][i + 1] = "carbon" /\ i - 1 \in 1 .. Len(line'[c])
      BY <1>1, <1>2, <1>3
    <3>2. line[c][i] = "activity"
      BY <3>1 DEF Lined
    <3> QED BY <3>1, <3>2, <1>2
  <2> QED BY <2>1, <2>2, <2>3 DEF Lined
<1>5. 1 \in 1 .. Len(line[c])
  BY <1>1
<1>6. Head(line[c]) \in Asked(c)
  BY <1>2, <1>5 DEF Asked
<1>10. \A r \in Asked(c)' : r \in Asked(c)
  BY <1>3 DEF Asked
<1>11. \A r \in Asked(c) : r # Head(line[c]) => r \in Asked(c)'
  BY <1>2, <1>3 DEF Asked
<1>7. Head(line[c]) = "carbon" => "carbon" \notin Asked(c)' /\ "activity" \notin Asked(c)
  <2> SUFFICES ASSUME line[c][1] = "carbon"
               PROVE  "carbon" \notin Asked(c)' /\ "activity" \notin Asked(c)
    BY <1>2
  <2>1. \A i \in 1 .. Len(line[c]) : line[c][i] = "carbon" => i = 1
    BY <1>5 DEF Lined
  <2>2. "carbon" \notin Asked(c)'
    BY <2>1, <1>1, <1>2, <1>3 DEF Asked
  <2>3. "activity" \notin Asked(c)
    BY <2>1 DEF Asked, Lined
  <2> QED BY <2>2, <2>3
<1>8. Head(line[c]) = "activity" => "carbon" \in Asked(c)' /\ "activity" \notin Asked(c)'
  <2> SUFFICES ASSUME line[c][1] = "activity"
               PROVE  "carbon" \in Asked(c)' /\ "activity" \notin Asked(c)'
    BY <1>2
  <2>1. 2 \in 1 .. Len(line[c]) /\ line[c][2] = "carbon"
    BY <1>5 DEF Lined
  <2>2. "carbon" \in Asked(c)'
    BY <2>1, <1>3 DEF Asked
  <2>3. \A i \in 1 .. Len(line[c]) : line[c][i] = "activity" => i = 1
    BY <2>1 DEF Lined
  <2>4. "activity" \notin Asked(c)'
    BY <2>3, <1>1, <1>2, <1>3 DEF Asked
  <2> QED BY <2>2, <2>4
<1>9. c \in Oxygen /\ "carbon" \in Asked(c) /\ "activity" \notin Asked(c) => Head(line[c]) = "carbon"
  <2> SUFFICES ASSUME c \in Oxygen, NEW i \in 1 .. Len(line[c]), line[c][i] = "carbon",
                      "activity" \notin Asked(c), i # 1
               PROVE  FALSE
    BY <1>2 DEF Asked
  <2>1. i - 1 \in 1 .. Len(line[c]) /\ line[c][i - 1] = "activity"
    BY <1>1 DEF Lined
  <2> QED BY <2>1 DEF Asked
<1> QED BY <1>4, <1>6, <1>7, <1>8, <1>9, <1>10, <1>11

(* An input that a step leaves alone stays where it was. *)
Same(c) ==
  /\ line'[c] = line[c] /\ archive'[c] = archive[c] /\ present'[c] = present[c]
  /\ board'[c] = board[c] /\ melt'[c] = melt[c] /\ melts <= melts'
  /\ state'[c] = state[c] /\ status'[c] = status[c] /\ lost'[c] = lost[c]
  /\ allVectorsReceived'[c] = allVectorsReceived[c]
  /\ activity'[c] = activity[c] /\ carbon'[c] = carbon[c]

LEMMA RecordedType ==
  ASSUME TypeOK, NEW c \in Input
  PROVE  \A m \in Recorded(c) : m \in Nat
<1>1. archive[c] \in Seq(Records)
  BY DEF TypeOK
<1>2. \A k \in 1 .. Len(archive[c]) : archive[c][k] \in Records
  BY <1>1
<1> QED BY <1>2 DEF Recorded, Records, Melts

LEMMA Frame ==
  ASSUME TypeOK, TypeOK', NEW c \in Input, Followed(c), Same(c)
  PROVE  Followed(c)'
<1>1. Asked(c)' = Asked(c) /\ Recorded(c)' = Recorded(c) /\ Held(c)' = Held(c)
  BY DEF Same, Asked, Recorded, Held
<1>2. Lined(c)'
  BY DEF Followed, Same, Lined
<1>3. Behind(c)'
  BY <1>1 DEF Followed, Same, Behind
<1>4. Paired(c)'
  BY <1>1 DEF Followed, Same, Paired
<1>5. Fresh(c)'
  <2>1. melts \in Nat /\ melts' \in Nat /\ melt[c] \in Nat /\ carbon[c] \in Nat
    BY DEF TypeOK, Melts
  <2>2. \A m \in Recorded(c) : m \in Nat
    BY RecordedType
  <2> QED BY <1>1, <2>1, <2>2 DEF Followed, Same, Fresh
<1>6. Once(c)'
  BY <1>1 DEF Followed, Same, Once
<1> QED BY <1>2, <1>3, <1>4, <1>5, <1>6 DEF Followed

(* The results are sent once the line holds none, in their order. *)
LEMMA PushResults ==
  ASSUME TypeOK, NEW c \in Input, Lined(c), "carbon" \notin Asked(c),
         Send(c, Poll \o Results(c))
  PROVE  /\ Lined(c)' /\ "carbon" \in Asked(c)'
         /\ c \in Oxygen => "activity" \in Asked(c)'
<1> DEFINE s == Poll \o Results(c)
           n == Len(line[c])
<1>1. line[c] \in Seq(Request) /\ n \in Nat /\ s \in Seq(Request) /\ line'[c] = line[c] \o s
  BY SendType DEF TypeOK, Send, Status
<1>2. \A i \in 1 .. n : line[c][i] \notin {"activity", "carbon"}
  BY DEF Asked, Lined
<1>3. /\ c \in Oxygen => Len(s) = 3 /\ s[1] = "status" /\ s[2] = "activity" /\ s[3] = "carbon"
      /\ c \notin Oxygen => Len(s) = 2 /\ s[1] = "status" /\ s[2] = "carbon"
  <2>1. /\ <<"status">> \in Seq(Request) /\ Results(c) \in Seq(Request)
        /\ Len(<<"status">>) = 1 /\ <<"status">>[1] = "status"
    BY SendType, <1>1 DEF Status, Poll, Request
  <2>2. /\ Len(s) = 1 + Len(Results(c)) /\ s[1] = "status"
        /\ \A i \in 1 .. Len(Results(c)) : s[1 + i] = Results(c)[i]
    BY <2>1, ConcatProperties DEF Poll
  <2>3. CASE c \in Oxygen
    <3>1. Len(Results(c)) = 2 /\ Results(c)[1] = "activity" /\ Results(c)[2] = "carbon"
      BY <2>3 DEF Results
    <3> QED BY <2>2, <2>3, <3>1
  <2>4. CASE c \notin Oxygen
    <3>1. Len(Results(c)) = 1 /\ Results(c)[1] = "carbon"
      BY <2>4 DEF Results
    <3> QED BY <2>2, <2>4, <3>1
  <2> QED BY <2>3, <2>4
<1> HIDE DEF s, n
<1>4. /\ Len(line'[c]) = n + Len(s) /\ Len(s) \in Nat
      /\ \A i \in 1 .. n + Len(s) : line'[c][i] = IF i <= n THEN line[c][i] ELSE s[i - n]
  BY <1>1, ConcatProperties DEF n
<1>5. CASE c \in Oxygen
  <2>1. /\ Len(s) = 3 /\ s[1] = "status" /\ s[2] = "activity" /\ s[3] = "carbon"
    BY <1>3, <1>5
  <2>7. n + 1 \in 1 .. n + 3 /\ n + 2 \in 1 .. n + 3 /\ n + 3 \in 1 .. n + 3
        /\ (n + 1) - n = 1 /\ (n + 2) - n = 2 /\ (n + 3) - n = 3
        /\ ~(n + 1 <= n) /\ ~(n + 2 <= n) /\ ~(n + 3 <= n)
        /\ \A i \in 1 .. n : i \in 1 .. n + 3 /\ i <= n
    BY <1>1
  <2>2. /\ Len(line'[c]) = n + 3 /\ line'[c][n + 1] = "status"
        /\ line'[c][n + 2] = "activity" /\ line'[c][n + 3] = "carbon"
        /\ \A i \in 1 .. n : line'[c][i] \notin {"activity", "carbon"}
    BY <1>2, <1>4, <2>1, <2>7
  <2>3. \A i \in 1 .. Len(line'[c]) :
          /\ line'[c][i] = "carbon" => i = n + 3
          /\ line'[c][i] = "activity" => i = n + 2
    <3> SUFFICES ASSUME NEW i \in 1 .. Len(line'[c])
                 PROVE  /\ line'[c][i] = "carbon" => i = n + 3
                        /\ line'[c][i] = "activity" => i = n + 2
      OBVIOUS
    <3>1. i \in 1 .. n \/ i = n + 1 \/ i = n + 2 \/ i = n + 3
      BY <1>1, <2>2
    <3> QED BY <3>1, <2>2
  <2>4. /\ n + 2 \in 1 .. Len(line'[c]) /\ n + 3 \in 1 .. Len(line'[c])
        /\ (n + 2) + 1 = n + 3 /\ (n + 3) - 1 = n + 2
    BY <1>1, <2>2
  <2>5. Lined(c)'
    <3>1. \A i, j \in 1 .. Len(line'[c]) :
             line'[c][i] = "carbon" /\ line'[c][j] = "carbon" => i = j
      BY <2>3
    <3>2. \A i \in 1 .. Len(line'[c]) :
             line'[c][i] = "activity" => i + 1 \in 1 .. Len(line'[c]) /\ line'[c][i + 1] = "carbon"
      BY <2>2, <2>3, <2>4
    <3>3. \A i \in 1 .. Len(line'[c]) :
             line'[c][i] = "carbon" => i = 1 \/ line'[c][i - 1] = "activity"
      BY <2>2, <2>3, <2>4
    <3> QED BY <3>1, <3>2, <3>3 DEF Lined
  <2>6. "carbon" \in Asked(c)' /\ "activity" \in Asked(c)'
    BY <2>2, <2>4 DEF Asked
  <2> QED BY <2>5, <2>6
<1>6. CASE c \notin Oxygen
  <2>1. /\ Len(s) = 2 /\ s[1] = "status" /\ s[2] = "carbon"
    BY <1>3, <1>6
  <2>7. n + 1 \in 1 .. n + 2 /\ n + 2 \in 1 .. n + 2
        /\ (n + 1) - n = 1 /\ (n + 2) - n = 2
        /\ ~(n + 1 <= n) /\ ~(n + 2 <= n)
        /\ \A i \in 1 .. n : i \in 1 .. n + 2 /\ i <= n
    BY <1>1
  <2>2. /\ Len(line'[c]) = n + 2 /\ line'[c][n + 1] = "status" /\ line'[c][n + 2] = "carbon"
        /\ \A i \in 1 .. n : line'[c][i] \notin {"activity", "carbon"}
    BY <1>2, <1>4, <2>1, <2>7
  <2>3. \A i \in 1 .. Len(line'[c]) :
          /\ line'[c][i] = "carbon" => i = n + 2
          /\ line'[c][i] # "activity"
    <3> SUFFICES ASSUME NEW i \in 1 .. Len(line'[c])
                 PROVE  /\ line'[c][i] = "carbon" => i = n + 2
                        /\ line'[c][i] # "activity"
      OBVIOUS
    <3>1. i \in 1 .. n \/ i = n + 1 \/ i = n + 2
      BY <1>1, <2>2
    <3> QED BY <3>1, <2>2
  <2>4. Lined(c)'
    <3>1. \A i, j \in 1 .. Len(line'[c]) :
             line'[c][i] = "carbon" /\ line'[c][j] = "carbon" => i = j
      BY <2>3
    <3> QED BY <3>1, <2>3, <1>6 DEF Lined
  <2>5. n + 2 \in 1 .. Len(line'[c])
    BY <1>1, <2>2
  <2>6. "carbon" \in Asked(c)'
    BY <2>2, <2>5 DEF Asked
  <2> QED BY <2>4, <2>6, <1>6
<1> QED BY <1>5, <1>6

(* A record is added to the archive of its input. *)
LEMMA Recording ==
  ASSUME TypeOK, NEW c \in Input, archive' = [archive EXCEPT ![c] = Append(@, Record(c))]
  PROVE  /\ Recorded(c)' = Recorded(c) \union {carbon[c]}
         /\ (/\ carbon[c] \notin Recorded(c) \/ carbon[c] = 0
             /\ \A i, j \in 1 .. Len(archive[c]) :
                  i < j /\ archive[c][i].carbon # 0 => archive[c][i].carbon # archive[c][j].carbon)
            => \A i, j \in 1 .. Len(archive'[c]) :
                 i < j /\ archive'[c][i].carbon # 0 => archive'[c][i].carbon # archive'[c][j].carbon
<1> DEFINE n == Len(archive[c])
<1>1. archive[c] \in Seq(Records) /\ n \in Nat /\ Record(c) \in Records
      /\ Record(c).carbon = carbon[c] /\ archive'[c] = Append(archive[c], Record(c))
  <2>1. "on" \in Status /\ archive \in [Input -> Seq(Records)]
    BY DEF Status, TypeOK
  <2>2. Record(c) \in Records /\ Record(c).carbon = carbon[c]
    BY <2>1, SendType DEF Record
  <2> QED BY <2>1, <2>2
<1>2. /\ Len(archive'[c]) = n + 1 /\ archive'[c][n + 1] = Record(c)
      /\ \A i \in 1 .. n : archive'[c][i] = archive[c][i]
  BY <1>1, AppendProperties
<1>3. \A i \in 1 .. n + 1 : i \in 1 .. n \/ i = n + 1
  BY <1>1
<1>4. \A i \in 1 .. n : i \in 1 .. n + 1 /\ i < n + 1
  BY <1>1
<1>5. n + 1 \in 1 .. n + 1
  BY <1>1
<1>6. Recorded(c)' = Recorded(c) \union {carbon[c]}
  <2>1. \A x \in Recorded(c)' : x \in Recorded(c) \union {carbon[c]}
    BY <1>1, <1>2, <1>3 DEF Recorded
  <2>2. \A x \in Recorded(c) : x \in Recorded(c)'
    BY <1>1, <1>2, <1>4 DEF Recorded
  <2>3. carbon[c] \in Recorded(c)'
    BY <1>1, <1>2, <1>5 DEF Recorded
  <2> QED BY <2>1, <2>2, <2>3
<1>7. ASSUME carbon[c] \notin Recorded(c) \/ carbon[c] = 0,
             \A i, j \in 1 .. n :
               i < j /\ archive[c][i].carbon # 0 => archive[c][i].carbon # archive[c][j].carbon,
             NEW i \in 1 .. n + 1, NEW j \in 1 .. n + 1, i < j, archive'[c][i].carbon # 0
      PROVE  archive'[c][i].carbon # archive'[c][j].carbon
  <2>1. i \in 1 .. n
    BY <1>1, <1>7
  <2>2. CASE j \in 1 .. n
    BY <2>1, <2>2, <1>2, <1>7
  <2>3. CASE j = n + 1
    <3>1. archive[c][i].carbon \in Recorded(c)
      BY <2>1 DEF Recorded
    <3> QED BY <3>1, <2>1, <2>3, <1>1, <1>2, <1>7
  <2> QED BY <2>2, <2>3, <1>3
<1> QED BY <1>2, <1>6, <1>7

(* The board changes only for what it is asked, or for what happens to it: *)
(* none of this disturbs what its input is followed through.               *)
LEMMA BoardStep ==
  ASSUME TypeOK, TypeOK', NEW c \in Input, Followed(c),
         BoardMeasures(c) \/ BoardMoves(c) \/ Swap(c)
  PROVE  Followed(c)'
<1>1. /\ line'[c] = line[c] /\ archive'[c] = archive[c] /\ state'[c] = state[c]
      /\ status'[c] = status[c] /\ lost'[c] = lost[c] /\ carbon'[c] = carbon[c]
      /\ allVectorsReceived'[c] = allVectorsReceived[c] /\ activity'[c] = activity[c]
  BY DEF BoardMeasures, BoardMoves, Swap, resultVars
<1>2. Asked(c)' = Asked(c) /\ Recorded(c)' = Recorded(c) /\ Lined(c)'
  BY <1>1 DEF Asked, Recorded, Followed, Lined
<1>3. /\ melts \in Nat /\ melts' \in Nat /\ melt[c] \in Nat /\ carbon[c] \in Nat
      /\ board[c] \in Status
  BY DEF TypeOK, Melts
<1>4. \A m \in Recorded(c) : m \in Nat
  BY RecordedType
<1>5. CASE BoardMeasures(c)
  <2>1. /\ board[c] = "on" /\ board'[c] = "measure" /\ present'[c] = present[c]
        /\ melts' = melts + 1 /\ melt'[c] = melts + 1
    BY <1>5 DEF BoardMeasures, TypeOK
  <2>2. Held(c) = 0 /\ Held(c)' = 0
    BY <2>1 DEF Held
  <2>3. Behind(c)'
    BY <1>1, <1>2, <2>1 DEF Followed, Behind
  <2>4. Paired(c)'
    BY <1>1, <1>2, <2>1, <2>2 DEF Followed, Paired
  <2>5. Fresh(c)'
    BY <1>1, <1>2, <1>3, <1>4, <2>1 DEF Followed, Fresh
  <2>6. Once(c)'
    BY <1>1, <1>2, <2>2 DEF Followed, Once
  <2> QED BY <1>2, <2>3, <2>4, <2>5, <2>6 DEF Followed
<1>6. CASE BoardMoves(c)
  <2>1. /\ present'[c] = present[c] /\ melts' = melts /\ melt'[c] = melt[c]
        /\ board'[c] \in {"found", "on", "error"}
        /\ board'[c] = "found" => board[c] = "measure"
    BY <1>6 DEF BoardMoves, TypeOK
  <2>2. "carbon" \notin Asked(c) /\ "carbon" \notin Asked(c)'
    BY <1>6, <1>2 DEF BoardMoves, Asked
  <2>3. Held(c)' # 0 => Held(c)' = melt[c] /\ board[c] = "measure"
    BY <2>1 DEF Held
  <2>4. Behind(c)' /\ Paired(c)'
    BY <1>1, <2>2 DEF Followed, Behind, Paired
  <2>5. Fresh(c)'
    BY <1>1, <1>2, <2>1 DEF Followed, Fresh
  <2>6. Once(c)'
    BY <1>1, <1>2, <2>2, <2>3 DEF Followed, Once, Fresh
  <2> QED BY <1>2, <2>4, <2>5, <2>6 DEF Followed
<1>7. CASE Swap(c)
  <2>1. /\ board'[c] = "on" /\ melts' = melts /\ melt'[c] = melt[c]
        /\ present'[c] => line[c] = <<>>
    BY <1>7 DEF Swap, TypeOK
  <2>2. Held(c)' = 0
    BY <2>1 DEF Held
  <2>3. present'[c] => Asked(c)' = {}
    <3>1. line[c] = <<>> => 1 .. Len(line[c]) = {}
      OBVIOUS
    <3> QED BY <1>2, <2>1, <3>1 DEF Asked
  <2>4. Behind(c)' /\ Paired(c)'
    BY <1>1, <1>2, <2>3 DEF Followed, Behind, Paired
  <2>5. Fresh(c)'
    BY <1>1, <1>2, <2>1 DEF Followed, Fresh
  <2>6. Once(c)'
    BY <1>1, <1>2, <2>2 DEF Followed, Once
  <2> QED BY <1>2, <2>4, <2>5, <2>6 DEF Followed
<1> QED BY <1>5, <1>6, <1>7

(* An answer is parsed, a confirmation written, or neither comes.          *)
LEMMA LineStep ==
  ASSUME TypeOK, TypeOK', NEW c \in Input, Followed(c), Line(c)
  PROVE  Followed(c)'
<1>1. line[c] # <<>> /\ Done(c) /\ Lined(c)
  BY DEF Line, parserSteel, BoardVerified, NoAnswer, Followed
<1>2. /\ Lined(c)' /\ Head(line[c]) \in Asked(c)
      /\ \A r \in Asked(c)' : r \in Asked(c)
      /\ \A r \in Asked(c) : r # Head(line[c]) => r \in Asked(c)'
      /\ (Head(line[c]) = "carbon" => ("carbon" \notin Asked(c)' /\ "activity" \notin Asked(c)))
      /\ (Head(line[c]) = "activity" => ("carbon" \in Asked(c)' /\ "activity" \notin Asked(c)'))
      /\ ((c \in Oxygen /\ "carbon" \in Asked(c) /\ "activity" \notin Asked(c))
           => Head(line[c]) = "carbon")
  BY <1>1, PopLine
<1>3. /\ archive'[c] = archive[c] /\ state'[c] = state[c] /\ present'[c] = present[c]
      /\ melts' = melts /\ melt'[c] = melt[c]
  BY DEF Line, parserSteel, BoardVerified, NoAnswer, boardVars, resultVars
<1>4. Recorded(c)' = Recorded(c)
  BY <1>3 DEF Recorded
<1>5. CASE parserSteel(c) /\ Head(line[c]) = "status"
  <2>1. /\ present[c] /\ status'[c] = board[c] /\ board'[c] = board[c] /\ lost'[c] = lost[c]
        /\ allVectorsReceived'[c] = allVectorsReceived[c]
        /\ activity'[c] = activity[c] /\ carbon'[c] = carbon[c]
    BY <1>5 DEF parserSteel, boardVars, TypeOK
  <2>2. Held(c)' = Held(c) /\ (Held(c) # 0 => board[c] = "found")
    BY <1>3, <2>1 DEF Held
  <2>3. Behind(c)'
    BY <1>2, <1>3, <2>1 DEF Followed, Behind
  <2>4. Paired(c)'
    BY <1>2, <1>3, <1>5, <2>1, <2>2 DEF Followed, Paired
  <2>5. Fresh(c)'
    BY <1>3, <1>4, <2>1 DEF Followed, Fresh
  <2>6. Once(c)'
    BY <1>2, <1>3, <1>4, <2>1, <2>2 DEF Followed, Once
  <2> QED BY <1>2, <2>3, <2>4, <2>5, <2>6 DEF Followed
<1>6. CASE parserSteel(c) /\ Head(line[c]) = "activity"
  <2>1. /\ status'[c] = status[c] /\ board'[c] = board[c] /\ lost'[c] = lost[c]
        /\ allVectorsReceived'[c] = allVectorsReceived[c]
        /\ activity'[c] = Held(c) /\ carbon'[c] = carbon[c]
    BY <1>6 DEF parserSteel, boardVars, TypeOK
  <2>2. Held(c)' = Held(c) /\ "carbon" \in Asked(c)
    BY <1>2, <1>3, <1>6, <2>1 DEF Held
  <2>3. Behind(c)'
    BY <1>2, <1>3, <2>1, <2>2 DEF Followed, Behind
  <2>4. Paired(c)'
    BY <1>2, <1>3, <2>1, <2>2 DEF Followed, Paired, Behind
  <2>5. Fresh(c)'
    BY <1>3, <1>4, <2>1 DEF Followed, Fresh
  <2>6. Once(c)'
    BY <1>2, <1>3, <1>4, <2>1, <2>2 DEF Followed, Once
  <2> QED BY <1>2, <2>3, <2>4, <2>5, <2>6 DEF Followed
<1>7. CASE parserSteel(c) /\ Head(line[c]) = "carbon"
  <2>1. /\ present[c] /\ status'[c] = status[c] /\ board'[c] = board[c] /\ lost'[c] = lost[c]
        /\ allVectorsReceived'[c]
        /\ activity'[c] = activity[c] /\ carbon'[c] = Held(c)
    BY <1>7 DEF parserSteel, boardVars, TypeOK
  <2>2. /\ Held(c)' = Held(c) /\ "carbon" \in Asked(c) /\ "carbon" \notin Asked(c)'
        /\ "activity" \notin Asked(c)
    BY <1>2, <1>3, <1>7, <2>1 DEF Held
  <2>3. Held(c) # 0 => board[c] = "found" /\ Held(c) = melt[c]
    BY DEF Held
  <2>4. state[c] = "ready" /\ status[c] = "on" => Held(c) = 0
    BY <2>1, <2>2, <2>3 DEF Followed, Behind
  <2>5. Behind(c)'
    BY <2>2 DEF Behind
  <2>6. Paired(c)'
    BY <1>2, <1>3, <2>1, <2>2 DEF Followed, Paired
  <2>7. Fresh(c)'
    <3>1. melts \in Nat /\ melt[c] \in Nat
      BY DEF TypeOK, Melts
    <3> QED BY <3>1, <1>3, <1>4, <2>1, <2>3 DEF Followed, Fresh
  <2>8. Once(c)'
    BY <1>3, <1>4, <2>1, <2>2, <2>4 DEF Followed, Once
  <2> QED BY <1>2, <2>5, <2>6, <2>7, <2>8 DEF Followed
<1>8. CASE BoardVerified(c)
  <2>1. /\ Head(line[c]) = "verify" /\ status'[c] = status[c] /\ lost'[c] = lost[c]
        /\ allVectorsReceived'[c] = allVectorsReceived[c]
        /\ activity'[c] = activity[c] /\ carbon'[c] = carbon[c]
        /\ board'[c] = IF board[c] = "found" THEN "on" ELSE board[c]
    BY <1>8 DEF BoardVerified, resultVars, TypeOK
  <2>2. Held(c)' = 0
    BY <2>1 DEF Held
  <2>3. Behind(c)'
    BY <1>2, <1>3, <2>1 DEF Followed, Behind
  <2>4. Paired(c)'
    BY <1>2, <1>3, <2>1, <2>2 DEF Followed, Paired
  <2>5. Fresh(c)'
    BY <1>3, <1>4, <2>1 DEF Followed, Fresh
  <2>6. Once(c)'
    BY <1>3, <1>4, <2>1, <2>2 DEF Followed, Once
  <2> QED BY <1>2, <2>3, <2>4, <2>5, <2>6 DEF Followed
<1>9. CASE NoAnswer(c)
  <2>1. /\ status'[c] = status[c] /\ board'[c] = board[c]
        /\ allVectorsReceived'[c] = allVectorsReceived[c]
        /\ activity'[c] = activity[c] /\ carbon'[c] = carbon[c]
    BY <1>9 DEF NoAnswer, boardVars, resultVars
  <2>2. (Head(line[c]) \notin {"activity", "carbon"} /\ lost'[c] = lost[c]) \/ lost'[c]
    BY <1>9 DEF NoAnswer, TypeOK
  <2>3. Held(c)' = Held(c)
    BY <1>3, <2>1 DEF Held
  <2>4. Behind(c)'
    BY <1>2, <1>3, <2>1 DEF Followed, Behind
  <2>5. Paired(c)'
    BY <1>2, <1>3, <2>1, <2>2, <2>3 DEF Followed, Paired
  <2>6. Fresh(c)'
    BY <1>3, <1>4, <2>1 DEF Followed, Fresh
  <2>7. Once(c)'
    BY <1>2, <1>3, <1>4, <2>1, <2>3 DEF Followed, Once
  <2> QED BY <1>2, <2>4, <2>5, <2>6, <2>7 DEF Followed
<1> QED
  BY <1>5, <1>6, <1>7, <1>8, <1>9 DEF Line, parserSteel

(* update polls, and asks for results or confirms, as its state and the    *)
(* status last reported have it.                                           *)
LEMMA UpdateStep ==
  ASSUME TypeOK, TypeOK', NEW c \in Input, Followed(c), update(c)
  PROVE  Followed(c)'
<1>1. /\ present'[c] = present[c] /\ board'[c] = board[c] /\ melt'[c] = melt[c]
      /\ melts' = melts /\ status'[c] = status[c] /\ status[c] \in Status
  BY DEF update, boardVars, TypeOK
<1>2. Held(c)' = Held(c)
  BY <1>1 DEF Held
<1>3. ASSUME NEW s \in Status, Send(c, Poll \o Verify(s))
      PROVE  /\ Lined(c)'
             /\ "activity" \in Asked(c)' <=> "activity" \in Asked(c)
             /\ "carbon" \in Asked(c)' <=> "carbon" \in Asked(c)
  <2>1. Poll \in Seq(Request) /\ Verify(s) \in Seq(Request)
    BY SendType
  <2>2. Len(Poll) = 1 /\ Poll[1] = "status"
    BY DEF Poll
  <2>3. Len(Verify(s)) \in {0, 1} /\ (Len(Verify(s)) = 1 => Verify(s)[1] = "verify")
    BY DEF Verify
  <2>4. \A k \in 1 .. Len(Poll \o Verify(s)) :
          (Poll \o Verify(s))[k] \notin {"activity", "carbon"}
    <3> SUFFICES ASSUME NEW k \in 1 .. Len(Poll \o Verify(s))
                 PROVE  (Poll \o Verify(s))[k] \in {"status", "verify"}
      OBVIOUS
    <3>1. /\ Len(Poll \o Verify(s)) = 1 + Len(Verify(s))
          /\ k <= 1 => (Poll \o Verify(s))[k] = Poll[k]
          /\ ~(k <= 1) => (Poll \o Verify(s))[k] = Verify(s)[k - 1]
      BY <2>1, <2>2, ConcatProperties
    <3>2. CASE k = 1
      BY <3>1, <3>2, <2>2
    <3>3. CASE k # 1
      <4>1. ~(k <= 1) /\ k - 1 = 1 /\ Len(Verify(s)) = 1
        BY <3>1, <3>3, <2>3
      <4> QED BY <4>1, <3>1, <2>3
    <3> QED BY <3>2, <3>3
  <2>5. Poll \o Verify(s) \in Seq(Request) /\ Lined(c)
    BY <2>1, ConcatProperties DEF Followed
  <2> QED BY <2>4, <2>5, <1>3, PushLine
<1>4. CASE StartMeasure(c)
  <2>1. /\ state[c] = "wait" /\ status[c] = "measure" /\ state'[c] = "measure"
        /\ archive'[c] = archive[c] /\ lost'[c] = lost[c] /\ carbon'[c] = carbon[c]
        /\ allVectorsReceived'[c] = allVectorsReceived[c] /\ activity'[c] = activity[c]
    BY <1>4 DEF StartMeasure, Enter, resultVars, TypeOK
  <2>2. /\ Lined(c)'
        /\ "activity" \in Asked(c)' <=> "activity" \in Asked(c)
        /\ "carbon" \in Asked(c)' <=> "carbon" \in Asked(c)
    BY <1>1, <1>3, <1>4 DEF StartMeasure
  <2>3. Recorded(c)' = Recorded(c)
    BY <2>1 DEF Recorded
  <2>4. Behind(c)'
    BY <1>1, <2>1, <2>2 DEF Followed, Behind
  <2>5. Paired(c)' /\ Fresh(c)' /\ Once(c)'
    BY <1>1, <1>2, <2>1, <2>2, <2>3 DEF Followed, Paired, Fresh, Once
  <2> QED BY <2>2, <2>4, <2>5 DEF Followed
<1>5. CASE Finish(c)
  <2>1. /\ state[c] = "measure" /\ status[c] = "found" /\ state'[c] = "ready"
        /\ archive'[c] = archive[c] /\ carbon'[c] = 0 /\ ~allVectorsReceived'[c]
    BY <1>5 DEF Finish, Enter, TypeOK
  <2>2. "carbon" \notin Asked(c)
    BY <2>1 DEF Followed, Behind
  <2>3. Send(c, Poll \o Results(c))
    <3>1. Poll \o Results(c) \in Seq(Request)
      BY <1>1, SendType, ConcatProperties
    <3>2. Poll \o Results(c) \o Verify("measure") = Poll \o Results(c)
      BY <3>1, ConcatEmptySeq DEF Verify
    <3> QED BY <3>2, <1>5 DEF Finish
  <2>4. /\ Lined(c)' /\ "carbon" \in Asked(c)'
        /\ c \in Oxygen => "activity" \in Asked(c)'
    BY <2>2, <2>3, PushResults DEF Followed
  <2>5. Recorded(c)' = Recorded(c)
    BY <2>1 DEF Recorded
  <2>6. Behind(c)' /\ Paired(c)'
    BY <1>1, <2>1, <2>4 DEF Followed, Behind, Paired
  <2>7. Fresh(c)'
    BY <1>1, <2>1, <2>5 DEF Followed, Fresh, TypeOK, Melts
  <2>8. Once(c)'
    BY <1>2, <2>1, <2>5 DEF Followed, Once
  <2> QED BY <2>4, <2>6, <2>7, <2>8 DEF Followed
<1>6. CASE GiveUp(c)
  <2>1. /\ state[c] = "measure" /\ status[c] = "on" /\ state'[c] = "wait"
        /\ archive'[c] = archive[c] /\ lost'[c] = lost[c] /\ carbon'[c] = carbon[c]
        /\ allVectorsReceived'[c] = allVectorsReceived[c] /\ activity'[c] = activity[c]
    BY <1>6 DEF GiveUp, Enter, resultVars, TypeOK
  <2>2. Lined(c)' /\ ("carbon" \in Asked(c)' <=> "carbon" \in Asked(c))
    BY <1>1, <1>3, <1>6 DEF GiveUp
  <2>3. "carbon" \notin Asked(c)' /\ Recorded(c)' = Recorded(c)
    BY <2>1, <2>2 DEF Followed, Behind, Recorded
  <2>4. Behind(c)' /\ Paired(c)'
    BY <2>1, <2>3 DEF Followed, Behind, Paired
  <2>5. Fresh(c)' /\ Once(c)'
    BY <1>1, <1>2, <2>1, <2>3 DEF Followed, Fresh, Once
  <2> QED BY <2>2, <2>4, <2>5 DEF Followed
<1>7. CASE Ready(c)
  <2>1. /\ state[c] = "ready" /\ ~allVectorsReceived'[c]
        /\ lost'[c] = lost[c] /\ carbon'[c] = carbon[c] /\ activity'[c] = activity[c]
        /\ state'[c] = IF status[c] = "on" THEN "wait" ELSE "ready"
    BY <1>7 DEF Ready, Enter, TypeOK
  <2>2. /\ Lined(c)'
        /\ "activity" \in Asked(c)' <=> "activity" \in Asked(c)
        /\ "carbon" \in Asked(c)' <=> "carbon" \in Asked(c)
    <3>1. PICK s \in Status : Send(c, Poll \o Verify(s))
      BY <1>1, <1>7 DEF Ready, Status
    <3> QED BY <3>1, <1>3
  <2>3. Behind(c)'
    BY <1>1, <2>1, <2>2 DEF Followed, Behind
  <2>4. Paired(c)'
    BY <1>1, <1>2, <2>1, <2>2 DEF Followed, Paired
  <2>5. CASE allVectorsReceived[c]
    <3>1. archive' = [archive EXCEPT ![c] = Append(@, Record(c))]
      BY <1>7, <2>5 DEF Ready
    <3>2. Recorded(c)' = Recorded(c) \union {carbon[c]}
      BY <3>1, Recording
    <3>3. "carbon" \notin Asked(c) /\ (carbon[c] # 0 => carbon[c] \notin Recorded(c))
      BY <2>1, <2>5 DEF Followed, Behind, Once
    <3>4. \A i, j \in 1 .. Len(archive'[c]) :
            i < j /\ archive'[c][i].carbon # 0 => archive'[c][i].carbon # archive'[c][j].carbon
      BY <3>1, <3>3, Recording DEF Followed, Once
    <3>5. Fresh(c)'
      BY <1>1, <2>1, <3>2 DEF Followed, Fresh
    <3>6. Once(c)'
      BY <1>1, <1>2, <2>1, <2>2, <2>5, <3>2, <3>3, <3>4 DEF Followed, Once
    <3> QED BY <2>2, <2>3, <2>4, <3>5, <3>6 DEF Followed
  <2>6. CASE ~allVectorsReceived[c]
    <3>1. archive'[c] = archive[c]
      BY <1>7, <2>6 DEF Ready
    <3>2. Recorded(c)' = Recorded(c)
      BY <3>1 DEF Recorded
    <3>3. Fresh(c)' /\ Once(c)'
      BY <1>1, <1>2, <2>1, <2>2, <3>1, <3>2 DEF Followed, Fresh, Once
    <3> QED BY <2>2, <2>3, <2>4, <3>3 DEF Followed
  <2> QED BY <2>5, <2>6
<1>8. CASE Idle(c)
  <2>1. /\ archive'[c] = archive[c] /\ lost'[c] = lost[c] /\ carbon'[c] = carbon[c]
        /\ allVectorsReceived'[c] = allVectorsReceived[c] /\ activity'[c] = activity[c]
        /\ state'[c] = state[c]
    BY <1>8 DEF Idle, resultVars
  <2>2. /\ Lined(c)'
        /\ "activity" \in Asked(c)' <=> "activity" \in Asked(c)
        /\ "carbon" \in Asked(c)' <=> "carbon" \in Asked(c)
    BY <1>1, <1>3, <1>8 DEF Idle
  <2>3. Recorded(c)' = Recorded(c)
    BY <2>1 DEF Recorded
  <2>4. Behind(c)'
    BY <1>1, <2>1, <2>2 DEF Followed, Behind
  <2>5. Paired(c)' /\ Fresh(c)' /\ Once(c)'
    BY <1>1, <1>2, <2>1, <2>2, <2>3 DEF Followed, Paired, Fresh, Once
  <2> QED BY <2>2, <2>4, <2>5 DEF Followed
<1> QED
  BY <1>4, <1>5, <1>6, <1>7, <1>8 DEF update

(* A step follows its input to the next stage and leaves the others where  *)
(* they were.                                                              *)
LEMMA FollowedStep ==
  TypeOK /\ TypeOK' /\ (\A c \in Input : Followed(c)) /\ [Next]_vars
    => (\A c \in Input : Followed(c))'
<1> SUFFICES ASSUME TypeOK, TypeOK', \A c \in Input : Followed(c), [Next]_vars,
                    NEW d \in Input
             PROVE  Followed(d)'
  OBVIOUS
<1>1. ASSUME NEW c \in Input, update(c) \/ Line(c)
             \/ BoardMeasures(c) \/ BoardMoves(c) \/ Swap(c) \/ updateDevicesComplect(c)
      PROVE  Followed(d)'
  <2>1. CASE c = d /\ ~updateDevicesComplect(c)
    BY <1>1, <2>1, UpdateStep, LineStep, BoardStep
  <2>2. CASE c = d /\ updateDevicesComplect(c)
    <3>1. Same(d)
      BY <2>2 DEF updateDevicesComplect, Same, boardVars, resultVars, TypeOK, Melts
    <3> QED BY <3>1, Frame
  <2>3. CASE c # d
    <3>1. line'[d] = line[d] /\ melts <= melts'
      <4>1. melts \in Nat
        BY DEF TypeOK, Melts
      <4>2. CASE update(c)
        <5>1. PICK r : line' = [line EXCEPT ![c] = r]
          BY <4>2 DEF update, StartMeasure, Finish, GiveUp, Ready, Idle, Send
        <5> QED BY <4>1, <4>2, <5>1, <2>3 DEF update, boardVars, TypeOK
      <4>3. CASE Line(c)
        BY <4>1, <4>3, <2>3 DEF Line, parserSteel, BoardVerified, NoAnswer, Done,
           boardVars, TypeOK
      <4>4. CASE BoardMeasures(c) \/ BoardMoves(c) \/ Swap(c) \/ updateDevicesComplect(c)
        BY <4>1, <4>4 DEF BoardMeasures, BoardMoves, Swap, updateDevicesComplect, boardVars
      <4> QED BY <1>1, <4>2, <4>3, <4>4
    <3>2. /\ present'[d] = present[d] /\ board'[d] = board[d] /\ melt'[d] = melt[d]
          /\ status'[d] = status[d]
      BY <1>1, <2>3 DEF update, Line, parserSteel, BoardVerified, NoAnswer, BoardMeasures,
         BoardMoves, Swap, updateDevicesComplect, boardVars, TypeOK
    <3>3. /\ state'[d] = state[d] /\ archive'[d] = archive[d] /\ lost'[d] = lost[d]
          /\ allVectorsReceived'[d] = allVectorsReceived[d]
          /\ activity'[d] = activity[d] /\ carbon'[d] = carbon[d]
      <4>1. CASE update(c)
        BY <4>1, <2>3 DEF update, StartMeasure, Finish, GiveUp, Ready, Idle, Enter,
           resultVars, TypeOK
      <4>2. CASE ~update(c)
        BY <4>2, <1>1, <2>3 DEF Line, parserSteel, BoardVerified, NoAnswer, BoardMeasures,
           BoardMoves, Swap, updateDevicesComplect, resultVars, TypeOK
      <4> QED BY <4>1, <4>2
    <3> QED BY <3>1, <3>2, <3>3, Frame DEF Same
  <2> QED BY <2>1, <2>2, <2>3
<1>2. CASE UNCHANGED vars
  <2>1. Same(d)
    BY <1>2 DEF vars, Same, boardVars, resultVars, TypeOK, Melts
  <2> QED BY <2>1, Frame
<1> QED BY <1>1, <1>2 DEF Next

LEMMA FollowedAlways == Spec => [](\A c \in Input : Followed(c))
<1>1. Init => \A c \in Input : Followed(c)
  <2> SUFFICES ASSUME Init, NEW c \in Input PROVE Followed(c)
    OBVIOUS
  <2>1. /\ line[c] = <<>> /\ archive[c] = <<>> /\ 1 .. Len(line[c]) = {}
        /\ 1 .. Len(archive[c]) = {}
    BY DEF Init
  <2>2. Asked(c) = {} /\ Recorded(c) = {} /\ Held(c) = 0
    BY <2>1 DEF Asked, Recorded, Held, Init
  <2>3. Lined(c)
    BY <2>1 DEF Lined
  <2>4. Behind(c) /\ Paired(c) /\ Fresh(c)
    BY <2>2 DEF Behind, Paired, Fresh, Init
  <2>5. Once(c)
    BY <2>1, <2>2 DEF Once, Init
  <2> QED BY <2>3, <2>4, <2>5 DEF Followed
<1> QED
  BY <1>1, FollowedStep, TypeCorrect, PTL DEF Spec

(* For any number of inputs and melts: nothing but a lost request leaves   *)
(* the activity of a result out or from another melt, in whatever order    *)
(* updates, answers, confirmations and the board's own moves come.         *)
THEOREM ResultsPaired == Spec => []ArchivedComplete
<1>1. (\A c \in Input : Followed(c)) => ArchivedComplete
  BY SteelAssumption DEF Followed, Paired, ArchivedComplete
<1> QED
  BY <1>1, FollowedAlways, PTL

(* For any number of inputs and melts: no melt is archived twice, although *)
(* an answer asked for before may still come and the board keeps its       *)
(* result until it is confirmed.                                           *)
THEOREM RecordedOnce == Spec => []ArchivedOnce
<1>1. (\A c \in Input : Followed(c)) => ArchivedOnce
  BY DEF Followed, Once, ArchivedOnce
<1> QED
  BY <1>1, FollowedAlways, PTL
=============================================================================
