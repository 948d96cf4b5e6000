---------------------------- MODULE ArchiveProofs ----------------------------
(***************************************************************************)
(* Proofs about Archive: no tick is lost when the day changes, and a graph *)
(* that nothing came across is complete, for any number of days, ticks,    *)
(* loads and restarts.                                                     *)
(***************************************************************************)
EXTENDS Archive, SequenceTheorems, TLAPS

(***************************************************************************)
(* The strengthening of TicksKept says why the file of the day may be      *)
(* emptied although nobody looks at the result of the copy: only a day     *)
(* that is over has a copy, and a copy that is there already is the one    *)
(* made before a restart, of a file nothing was added to since.            *)
(***************************************************************************)
FilesOK ==
  /\ clock \in Day /\ ticks \in 0 .. MaxTicks
  /\ sek \in Seq(Tick) /\ dated \in [0 .. MaxDay -> Seq(Tick)] /\ taken \in Seq(Tick)
  /\ pc # "idle" => ticks < MaxTicks

CopiesAreOver == \A d \in Day : dated[d] # <<>> => d < clock

FirstDayReached == sek # <<>> => sek[1].day <= clock

CopyIsWhole ==
  sek # <<>> => (dated[sek[1].day] # <<>> => Range(sek) \subseteq Range(dated[sek[1].day]))

AppendUncopied == pc = "append" /\ sek # <<>> => dated[sek[1].day] = <<>>

EmptyCopied == pc = "empty" /\ sek # <<>> => Range(sek) \subseteq spoilt \cup Range(dated[sek[1].day])

IInv ==
  /\ FilesOK /\ TicksKept /\ CopiesAreOver /\ FirstDayReached
  /\ CopyIsWhole /\ AppendUncopied /\ EmptyCopied

-----------------------------------------------------------------------------
LEMMA RangeAppend ==
  ASSUME NEW S, NEW s \in Seq(S), NEW e \in S
  PROVE  Range(Append(s, e)) = Range(s) \cup {e}
  <1>1. /\ Len(Append(s, e)) = Len(s) + 1 /\ Append(s, e)[Len(s) + 1] = e
        /\ \A i \in 1 .. Len(s) : Append(s, e)[i] = s[i]
    BY AppendProperties
  <1>2. Len(s) \in Nat /\ DOMAIN s = 1 .. Len(s) /\ DOMAIN Append(s, e) = 1 .. Len(Append(s, e))
    BY LenProperties, AppendProperties
  <1> QED
    BY <1>1, <1>2 DEF Range

LEMMA FirstOfFile ==
  ASSUME NEW s \in Seq(Tick), s # <<>>
  PROVE  /\ s[1] \in Tick /\ s[1].day \in Day /\ FirstDay(s) = s[1].day
         /\ \A t \in Tick : Append(s, t)[1] = s[1]
  <1>1. Len(s) \in Nat \ {0}
    BY EmptySeq, LenProperties
  <1>2. s[1] \in Tick
    BY <1>1, ElementOfSeq
  <1>3. \A t \in Tick : Append(s, t)[1] = s[1]
    BY <1>1, AppendProperties
  <1> QED
    BY <1>2, <1>3 DEF FirstDay, Tick

LEMMA InitIInv == Init => IInv
  <1> SUFFICES ASSUME Init PROVE IInv
    OBVIOUS
  <1>1. <<>> \in Seq(Tick)
    BY EmptySeq
  <1>2. Range(<<>>) = {}
    BY DEF Range
  <1>3. FilesOK
    BY <1>1, ArchiveAssumption DEF Init, FilesOK, Day
  <1>4. TicksKept
    BY <1>2 DEF Init, TicksKept
  <1> QED
    BY <1>3, <1>4 DEF Init, IInv, CopiesAreOver, FirstDayReached, CopyIsWhole, AppendUncopied,
                      EmptyCopied, Day

(* A step that leaves the files and the stage of addTickSek alone, or ends it. *)
LEMMA FilesUntouched ==
  ASSUME IInv, UNCHANGED <<clock, fileVars>>, pc' = pc \/ pc' = "idle"
  PROVE  IInv'
  BY DEF IInv, FilesOK, TicksKept, CopiesAreOver, FirstDayReached, CopyIsWhole, AppendUncopied,
         EmptyCopied, fileVars

LEMMA CheckDayIInv ==
  ASSUME IInv, CheckDay
  PROVE  IInv'
  <1> DEFINE d == FirstDay(sek)
  <1>0. /\ FilesOK /\ TicksKept /\ CopiesAreOver /\ FirstDayReached /\ CopyIsWhole
        /\ UNCHANGED <<clock, sek, taken, ticks>>
    BY DEF IInv, CheckDay
  <1>4. ticks < MaxTicks
    BY DEF CheckDay
  <1>1. CASE d = clock
    <2>1. sek # <<>>
      BY <1>0, <1>1, ArchiveAssumption DEF FirstDay, FilesOK, Day
    <2>2. sek[1].day = clock /\ dated[clock] = <<>>
      BY <2>1, <1>0, <1>1, FirstOfFile DEF FilesOK, CopiesAreOver, Day
    <2>3. pc' = "append" /\ UNCHANGED <<dated, spoilt>>
      BY <1>1 DEF CheckDay
    <2> QED
      BY <1>0, <1>4, <2>2, <2>3 DEF IInv, FilesOK, TicksKept, CopiesAreOver, FirstDayReached,
                              CopyIsWhole, AppendUncopied, EmptyCopied
  <1>2. CASE d # clock /\ spoilt' = spoilt \cup Range(sek) /\ UNCHANGED dated
    <2>1. pc' = "empty"
      BY <1>2 DEF CheckDay
    <2> QED
      BY <1>0, <1>2, <1>4, <2>1 DEF IInv, FilesOK, TicksKept, CopiesAreOver, FirstDayReached,
                              CopyIsWhole, AppendUncopied, EmptyCopied
  <1>3. CASE d # clock /\ UNCHANGED spoilt
               /\ dated' = IF dated[d] = <<>> THEN [dated EXCEPT ![d] = sek] ELSE dated
    <2>1. pc' = "empty"
      BY <1>3 DEF CheckDay
    <2>2. d \in 0 .. MaxDay
      BY <1>0, FirstOfFile, ArchiveAssumption DEF FilesOK, FirstDay, Day
    <2>3. FilesOK'
      BY <1>0, <1>3, <1>4, <2>2 DEF FilesOK
    <2>4. CASE dated[d] # <<>>
      BY <1>0, <1>3, <2>1, <2>3, <2>4, FirstOfFile
         DEF IInv, FilesOK, TicksKept, CopiesAreOver, FirstDayReached, CopyIsWhole,
             AppendUncopied, EmptyCopied
    <2>5. CASE dated[d] = <<>>
      <3>1. /\ dated'[d] = sek
            /\ \A e \in 0 .. MaxDay : e # d => dated'[e] = dated[e]
        BY <1>0, <1>3, <2>2, <2>5 DEF FilesOK
      <3>2. sek # <<>> => d \in Day /\ d = sek[1].day /\ d < clock
        BY <1>0, <1>3, FirstOfFile DEF FilesOK, FirstDayReached, Day
      <3>3. sek = <<>> => d \notin Day
        BY ArchiveAssumption DEF FirstDay, Day
      <3>4. Day \subseteq 0 .. MaxDay
        BY DEF Day
      <3>5. CopiesAreOver'
        BY <1>0, <3>1, <3>2, <3>3, <3>4 DEF CopiesAreOver, Day
      <3>6. CopyIsWhole' /\ EmptyCopied' /\ AppendUncopied'
        BY <1>0, <2>1, <3>1, <3>2 DEF CopyIsWhole, EmptyCopied, AppendUncopied
      <3>7. Range(<<>>) = {}
        BY DEF Range
      <3>8. \A e \in Day : Range(dated[e]) \subseteq Range(dated'[e])
        BY <2>5, <3>1, <3>4, <3>7
      <3>9. TicksKept'
        BY <1>0, <1>3, <3>8 DEF TicksKept
      <3> QED
        BY <1>0, <2>3, <3>5, <3>6, <3>9 DEF IInv, FirstDayReached
    <2> QED
      BY <2>4, <2>5
  <1> QED
    BY <1>1, <1>2, <1>3 DEF CheckDay

(* The file is emptied: what was in it is in the copy of its day, or spoilt. *)
LEMMA EmptyIInv ==
  ASSUME IInv, Empty
  PROVE  IInv'
  <1>1. sek' = <<>> /\ pc = "empty" /\ pc' = "append"
        /\ UNCHANGED <<clock, dated, taken, spoilt, ticks>>
    BY DEF Empty
  <1>2. <<>> \in Seq(Tick) /\ Range(<<>>) = {}
    BY EmptySeq DEF Range
  <1>3. TicksKept'
    <2> SUFFICES ASSUME NEW t \in Range(taken) \ spoilt
                 PROVE  \E d \in Day : t \in Range(dated[d])
      BY <1>1 DEF TicksKept
    <2>1. CASE t \in Range(sek)
      <3>1. sek # <<>>
        BY <2>1, <1>2
      <3>2. sek[1].day \in Day /\ t \in Range(dated[sek[1].day])
        BY <2>1, <3>1, <1>1, FirstOfFile DEF IInv, FilesOK, EmptyCopied
      <3> QED BY <3>2
    <2>2. CASE t \notin Range(sek)
      BY <2>2 DEF IInv, TicksKept
    <2> QED BY <2>1, <2>2
  <1> QED
    BY <1>1, <1>2, <1>3 DEF IInv, FilesOK, CopiesAreOver, FirstDayReached, CopyIsWhole,
                            AppendUncopied, EmptyCopied

(* A tick goes to a file whose day has no copy. *)
LEMMA AppendIInv ==
  ASSUME IInv, AppendTick
  PROVE  IInv'
  <1> DEFINE t == [day |-> clock, n |-> ticks + 1]
  <1>1. /\ sek' = Append(sek, t) /\ taken' = Append(taken, t) /\ ticks' = ticks + 1
        /\ pc = "append" /\ pc' = "idle" /\ UNCHANGED <<clock, dated, spoilt>>
    BY DEF AppendTick
  <1>2. t \in Tick
    BY <1>1, ArchiveAssumption DEF IInv, FilesOK, Tick
  <1>3. /\ Range(sek') = Range(sek) \cup {t} /\ Range(taken') = Range(taken) \cup {t}
    BY <1>1, <1>2, RangeAppend DEF IInv, FilesOK
  <1>4. FilesOK'
    BY <1>1, <1>2, AppendProperties, ArchiveAssumption DEF IInv, FilesOK
  <1>5. TicksKept'
    BY <1>1, <1>3 DEF IInv, TicksKept
  <1>6. sek' # <<>> /\ sek'[1].day <= clock /\ dated[sek'[1].day] = <<>>
    <2>1. CASE sek = <<>>
      <3>1. sek'[1] = t /\ sek' # <<>>
        BY <1>1, <1>2, <2>1, AppendProperties, EmptySeq DEF IInv, FilesOK
      <3> QED
        BY <3>1 DEF IInv, FilesOK, CopiesAreOver, Day
    <2>2. CASE sek # <<>>
      <3>1. sek'[1] = sek[1] /\ sek' # <<>>
        BY <1>1, <1>2, <2>2, FirstOfFile, AppendProperties DEF IInv, FilesOK
      <3> QED
        BY <1>1, <2>2, <3>1 DEF IInv, FirstDayReached, AppendUncopied
    <2> QED BY <2>1, <2>2
  <1> QED
    BY <1>1, <1>4, <1>5, <1>6 DEF IInv, CopiesAreOver, FirstDayReached, CopyIsWhole,
                                  AppendUncopied, EmptyCopied

LEMMA NextIInv == IInv /\ [Next]_vars => IInv'
<1> SUFFICES ASSUME IInv, [Next]_vars PROVE IInv'
  OBVIOUS
<1>1. CASE CheckDay
  BY <1>1, CheckDayIInv
<1>2. CASE Empty
  BY <1>2, EmptyIInv
<1>3. CASE AppendTick
  BY <1>3, AppendIInv
<1>4. ASSUME NEW p \in Back, Open(p) \/ Choose(p) PROVE IInv'
  BY <1>4, FilesUntouched DEF Open, Choose
<1>5. CASE Close \/ OpenDeleted
  BY <1>5, FilesUntouched DEF Close, OpenDeleted
<1>6. ASSUME NEW l \in loads, drowGraf(l) \/ Worker(l) PROVE IInv'
  BY <1>6, FilesUntouched DEF drowGraf, Worker
<1>7. CASE NewDay
  <2>1. clock' \in Day /\ clock < clock'
    BY <1>7, ArchiveAssumption DEF NewDay, IInv, FilesOK, Day
  <2>2. UNCHANGED <<fileVars, pc>>
    BY <1>7 DEF NewDay
  <2>3. \A d \in Day : d < clock => d < clock'
    BY <2>1 DEF IInv, FilesOK, Day
  <2>4. sek # <<>> => sek[1].day \in Day
    BY FirstOfFile DEF IInv, FilesOK
  <2>5. FirstDayReached'
    BY <2>1, <2>2, <2>4 DEF IInv, FilesOK, FirstDayReached, Day, fileVars
  <2> QED
    BY <2>1, <2>2, <2>3, <2>5 DEF IInv, FilesOK, TicksKept, CopiesAreOver, CopyIsWhole,
                                  AppendUncopied, EmptyCopied, fileVars
<1>8. CASE PowerLoss \/ Start
  BY <1>8, FilesUntouched DEF PowerLoss, Start
<1>9. CASE UNCHANGED vars
  BY <1>9, FilesUntouched DEF vars
<1> QED
  BY <1>1, <1>2, <1>3, <1>4, <1>5, <1>6, <1>7, <1>8, <1>9 DEF Next, addTickSek

(* Every tick that was added stays in the file of the current day or in    *)
(* that of an earlier one, whenever the day changes and power fails, but   *)
(* for those whose copy failed (addTickSek).                               *)
THEOREM TicksNeverLost == Spec => []TicksKept
<1>1. IInv => TicksKept
  BY DEF IInv
<1> QED
  BY InitIInv, NextIInv, <1>1, PTL DEF Spec

-----------------------------------------------------------------------------
(***************************************************************************)
(* Loads.  The files are in the order of their days, and as long as        *)
(* nothing but ticks comes in between, what a thread reads is that of the  *)
(* days it has done.                                                       *)
(***************************************************************************)
Rising(f) == \A i, j \in DOMAIN f : i < j => f[i].n < f[j].n

Earlier(a, b) == \A x \in Range(a), y \in Range(b) : x.n < y.n

Counted(file) == \A t \in Range(file) : t.n <= ticks

InOrder ==
  /\ Rising(sek) /\ Counted(sek)
  /\ \A d \in Day :
       /\ Rising(dated[d]) /\ Counted(dated[d])
       /\ dated[d] # <<>> => dated[d][1].day = d
       /\ \A e \in Day : d < e => Earlier(dated[d], dated[e])
       /\ sek # <<>> /\ dated[d] # <<>> => d <= sek[1].day
       /\ sek # <<>> /\ d < sek[1].day => Earlier(dated[d], sek)

(* A thread does the days one after the other. *)
Reading ==
  \A l \in loads :
    /\ l.at # "start" => l.last <= clock /\ l.day \in 1 .. l.last + 1
    /\ l.at = "read" => l.day <= l.last

FileOf(d) == IF d = clock THEN sek ELSE dated[d]

(* What was read is what the files of the days before k hold. *)
ReadUpTo(vec, k) ==
  /\ Rising(vec)
  /\ \A t \in Range(vec) : \E d \in Day : d < k /\ t \in Range(FileOf(d))
  /\ \A d \in span : d < k => \A t \in Range(FileOf(d)) : t.n <= since => t \in Range(vec)

LoadOK(l) ==
  /\ span = {d \in Day : d <= clock /\ clock <= d + l.back}
  /\ IF l.at = "start" THEN l.vec = <<>> ELSE l.last = clock /\ ReadUpTo(l.vec, l.day)
  /\ l.at = "read" => l.name = IF l.day = clock THEN 0 ELSE l.day
  /\ l.at = "finished" => l.day = clock + 1 /\ arrTicks = l.vec

Drawn ==
  /\ Rising(shown)
  /\ \A d, e \in span : \A t \in Range(FileOf(d)), u \in Range(FileOf(e)) :
       t.n < u.n /\ u.n <= since /\ t.day \in span /\ u.day \in span => t \in Range(shown)

PageOK ==
  /\ since <= ticks
  /\ sek = <<>> \/ sek[1].day = clock
  /\ span \subseteq 1 .. clock
  /\ \A l, m \in loads : l = m
  /\ \A l \in loads : LoadOK(l)
  /\ loads = {} => Drawn

PageInv == (pc = "empty" => ~clear) /\ (open /\ clear => PageOK)

LEMMA InFile ==
  ASSUME NEW S, NEW a \in Seq(S)
  PROVE  /\ Len(a) \in Nat /\ DOMAIN a = 1 .. Len(a) /\ Range(a) \subseteq S
         /\ \A i \in DOMAIN a : a[i] \in Range(a)
         /\ \A x \in Range(a) : \E i \in DOMAIN a : x = a[i]
<1>1. Len(a) \in Nat /\ DOMAIN a = 1 .. Len(a) /\ \A i \in 1 .. Len(a) : a[i] \in S
  BY LenProperties, ElementOfSeq
<1> QED BY <1>1 DEF Range

LEMMA EmptyFile ==
  /\ <<>> \in Seq(Tick) /\ Range(<<>>) = {} /\ DOMAIN <<>> = {} /\ Rising(<<>>) /\ Counted(<<>>)
  /\ \A a : Earlier(a, <<>>) /\ Earlier(<<>>, a)
<1>1. <<>> \in Seq(Tick) /\ Range(<<>>) = {} /\ DOMAIN <<>> = {}
  BY EmptySeq DEF Range
<1> QED BY <1>1 DEF Rising, Counted, Earlier

LEMMA JoinFiles ==
  ASSUME NEW a \in Seq(Tick), NEW b \in Seq(Tick)
  PROVE  /\ a \o b \in Seq(Tick) /\ Range(a \o b) = Range(a) \cup Range(b)
         /\ Rising(a) /\ Rising(b) /\ Earlier(a, b) => Rising(a \o b)
<1> DEFINE t == a \o b
           m == Len(a)
           n == Len(b)
<1>1. /\ t \in Seq(Tick) /\ Len(t) = m + n
      /\ \A i \in 1 .. m + n : t[i] = IF i <= m THEN a[i] ELSE b[i - m]
  BY ConcatProperties
<1>2. /\ m \in Nat /\ DOMAIN a = 1 .. m /\ n \in Nat /\ DOMAIN b = 1 .. n
      /\ \A i \in 1 .. m : a[i] \in Range(a)
      /\ \A i \in 1 .. n : b[i] \in Range(b)
  BY InFile
<1> HIDE DEF t, m, n
<1>3. DOMAIN t = 1 .. m + n
  BY <1>1, LenProperties
<1>4. \A i \in 1 .. m + n : (i \in 1 .. m /\ t[i] = a[i]) \/ (i - m \in 1 .. n /\ t[i] = b[i - m])
  BY <1>1, <1>2
<1>5. \A i \in 1 .. m : i \in 1 .. m + n /\ t[i] = a[i]
  BY <1>1, <1>2
<1>6. \A i \in 1 .. n : i + m \in 1 .. m + n /\ t[i + m] = b[i]
  <2>1. \A i \in 1 .. n : i + m \in 1 .. m + n /\ ~(i + m <= m) /\ (i + m) - m = i
    BY <1>2
  <2> QED BY <1>1, <2>1
<1>7. Range(t) \subseteq Range(a) \cup Range(b)
  BY <1>2, <1>3, <1>4 DEF Range
<1>8. Range(a) \subseteq Range(t) /\ Range(b) \subseteq Range(t)
  BY <1>2, <1>3, <1>5, <1>6 DEF Range
<1>9. ASSUME Rising(a), Rising(b), Earlier(a, b) PROVE Rising(t)
  <2>1. \A i, j \in 1 .. m : i < j => a[i].n < a[j].n
    BY <1>2, <1>9 DEF Rising
  <2>2. \A i, j \in 1 .. n : i < j => b[i].n < b[j].n
    BY <1>2, <1>9 DEF Rising
  <2>3. \A i \in 1 .. m, j \in 1 .. n : a[i].n < b[j].n
    BY <1>2, <1>9 DEF Earlier
  <2> SUFFICES ASSUME NEW i \in 1 .. m + n, NEW j \in 1 .. m + n, i < j PROVE t[i].n < t[j].n
    BY <1>3 DEF Rising
  <2>4. CASE j <= m
    <3>1. i \in 1 .. m /\ j \in 1 .. m /\ t[i] = a[i] /\ t[j] = a[j]
      BY <1>1, <1>2, <2>4
    <3> QED BY <2>1, <3>1
  <2>5. CASE i <= m /\ ~(j <= m)
    <3>1. i \in 1 .. m /\ j - m \in 1 .. n /\ t[i] = a[i] /\ t[j] = b[j - m]
      BY <1>1, <1>2, <2>5
    <3> QED BY <2>3, <3>1
  <2>6. CASE ~(i <= m)
    <3>1. /\ i - m \in 1 .. n /\ j - m \in 1 .. n /\ i - m < j - m
          /\ t[i] = b[i - m] /\ t[j] = b[j - m]
      BY <1>1, <1>2, <2>6
    <3> QED BY <2>2, <3>1
  <2> QED BY <1>2, <2>4, <2>5, <2>6
<1> QED BY <1>1, <1>7, <1>8, <1>9 DEF t

LEMMA AddTick ==
  ASSUME NEW a \in Seq(Tick), NEW t \in Tick, Rising(a), \A x \in Range(a) : x.n < t.n
  PROVE  Append(a, t) \in Seq(Tick) /\ Rising(Append(a, t)) /\ Range(Append(a, t)) = Range(a) \cup {t}
<1>1. <<t>> \in Seq(Tick) /\ DOMAIN <<t>> = {1} /\ <<t>>[1] = t
  OBVIOUS
<1>2. Range(<<t>>) = {t} /\ Rising(<<t>>)
  BY <1>1 DEF Range, Rising
<1>3. Append(a, t) = a \o <<t>>
  BY AppendIsConcat
<1>4. Earlier(a, <<t>>)
  BY <1>2 DEF Earlier
<1> QED BY <1>1, <1>2, <1>3, <1>4, JoinFiles

(* Types. *)
LEMMA InitType ==
  ASSUME Init
  PROVE  TypeOK /\ Reading
<1>1. 1 \in Day /\ <<>> \in Seq(Tick) /\ Range(<<>>) = {} /\ DOMAIN <<>> = {}
  BY EmptyFile, ArchiveAssumption DEF Day
<1> QED BY <1>1, ArchiveAssumption DEF Init, TypeOK, Reading

LEMMA LoadType ==
  ASSUME TypeOK, Reading, NEW p \in Back, load(p)
  PROVE  /\ loads' \subseteq Load /\ span' \subseteq Day /\ arrTicks' \in Seq(Tick)
         /\ asked' \in 0 .. MaxLoads /\ since' \in 0 .. MaxTicks /\ clear' \in BOOLEAN
         /\ clock' = clock => Reading'
<1> DEFINE new == [id |-> asked + 1, at |-> "start", back |-> p, day |-> 0, last |-> 0,
                   name |-> 0, vec |-> <<>>]
<1>1. asked \in 0 .. MaxLoads /\ asked < MaxLoads /\ MaxLoads \in Nat
  BY ArchiveAssumption DEF load, TypeOK
<1>2. asked + 1 \in 1 .. MaxLoads /\ 0 \in 0 .. MaxDay /\ 0 \in 0 .. MaxDay + 1
  BY <1>1, ArchiveAssumption
<1>3. new \in Load /\ new.at = "start"
  BY <1>2, EmptyFile DEF Load
<1>4. loads' = loads \cup {new} /\ arrTicks' = <<>> /\ asked' = asked + 1 /\ since' = ticks
      /\ clear' \in BOOLEAN /\ span' \subseteq Day
  BY DEF load
<1> HIDE DEF new
<1>5. clock' = clock => Reading'
  BY <1>3, <1>4 DEF Reading
<1> QED BY <1>1, <1>2, <1>3, <1>4, <1>5, EmptyFile DEF TypeOK

LEMMA OneReplaced ==
  ASSUME TypeOK, Reading, NEW l \in loads, NEW m \in Load, To(l, m), clock' = clock,
         m.last <= clock, m.day \in 1 .. m.last + 1, m.at = "read" => m.day <= m.last
  PROVE  loads' \subseteq Load /\ Reading'
BY DEF To, TypeOK, Reading

LEMMA WorkerType ==
  ASSUME TypeOK, Reading, NEW l \in loads, Worker(l)
  PROVE  loads' \subseteq Load /\ Reading' /\ arrTicks' \in Seq(Tick)
<1>1. /\ l \in Load /\ l.back \in Nat /\ l.day \in Nat /\ l.last \in Nat /\ l.name \in 0 .. MaxDay
      /\ l.vec \in Seq(Tick)
      /\ clock \in Nat \ {0} /\ clock <= MaxDay /\ MaxDay \in Nat \ {0} /\ clock' = clock
      /\ sek \in Seq(Tick) /\ dated \in [0 .. MaxDay -> Seq(Tick)] /\ arrTicks \in Seq(Tick)
  <2>1. l \in Load
    BY DEF TypeOK
  <2>2. /\ l.back \in Nat /\ l.day \in Nat /\ l.last \in Nat /\ l.name \in 0 .. MaxDay
        /\ l.vec \in Seq(Tick) /\ MaxDay \in Nat \ {0}
    <3>1. /\ l.back \in Back /\ l.day \in 0 .. MaxDay + 1 /\ l.last \in 0 .. MaxDay
          /\ l.name \in 0 .. MaxDay /\ l.vec \in Seq(Tick)
      BY <2>1 DEF Load
    <3>2. MaxDay \in Nat \ {0} /\ Back \subseteq Nat
      BY ArchiveAssumption
    <3>3. (\A d \in 0 .. MaxDay + 1 : d \in Nat) /\ (\A d \in 0 .. MaxDay : d \in Nat)
      BY <3>2
    <3>4. l.back \in Nat
      BY <3>1, <3>2
    <3> QED BY <3>1, <3>2, <3>3, <3>4
  <2>3. /\ clock \in Nat \ {0} /\ clock <= MaxDay
        /\ sek \in Seq(Tick) /\ dated \in [0 .. MaxDay -> Seq(Tick)] /\ arrTicks \in Seq(Tick)
    BY <2>2 DEF TypeOK, Day
  <2>4. clock' = clock
    BY DEF Worker
  <2> QED BY <2>1, <2>2, <2>3, <2>4
<1>2. l.at # "start" => l.last <= clock /\ l.day \in 1 .. l.last + 1
  BY DEF Reading
<1>3. CASE WorkerStart(l)
  <2> DEFINE first == IF clock > l.back THEN clock - l.back ELSE 1
             m == [l EXCEPT !.at = "name", !.last = clock, !.day = first]
  <2>1. first \in 1 .. clock + 1 /\ first \in 0 .. MaxDay + 1 /\ clock \in 0 .. MaxDay
    BY <1>1
  <2> HIDE DEF first
  <2>2. m \in Load /\ m.last = clock /\ m.day = first /\ m.at = "name"
    BY <1>1, <2>1 DEF Load
  <2>4. clock <= clock /\ "name" # "read"
    BY <1>1
  <2>5. m.last <= clock /\ m.day \in 1 .. m.last + 1 /\ m.at # "read"
    BY <2>1, <2>2, <2>4
  <2>3. To(l, m) /\ arrTicks' = arrTicks
    BY <1>3 DEF WorkerStart, first
  <2> HIDE DEF m
  <2> QED BY <1>1, <2>2, <2>3, <2>5, OneReplaced
<1>4. CASE WorkerName(l)
  <2> DEFINE name == IF l.day = clock THEN 0 ELSE l.day
             m == [l EXCEPT !.at = "read", !.name = name]
  <2>1. name \in 0 .. MaxDay /\ l.day <= l.last /\ l.at = "name"
    BY <1>1, <1>2, <1>4 DEF WorkerName
  <2> HIDE DEF name
  <2>2. m \in Load /\ m.last = l.last /\ m.day = l.day
    BY <1>1, <2>1 DEF Load
  <2>3. To(l, m) /\ arrTicks' = arrTicks
    BY <1>4 DEF WorkerName, name
  <2> HIDE DEF m
  <2> QED BY <1>1, <1>2, <2>1, <2>2, <2>3, OneReplaced
<1>5. CASE WorkerRead(l)
  <2> DEFINE file == IF l.name = 0 THEN sek ELSE dated[l.name]
             vec == l.vec \o file
             m == [l EXCEPT !.at = "name", !.day = @ + 1, !.vec = vec]
  <2>1. l.at = "read" /\ l.day <= l.last /\ l.last <= clock /\ 1 <= l.day
    BY <1>1, <1>2, <1>5 DEF WorkerRead, Reading
  <2>2. l.day + 1 \in 0 .. MaxDay + 1 /\ l.day + 1 \in 1 .. l.last + 1
    <3>1. \A d, e, c, n \in Nat : 1 <= d /\ d <= e /\ e <= c /\ c <= n
                                => d + 1 \in 0 .. n + 1 /\ d + 1 \in 1 .. e + 1
      OBVIOUS
    <3>2. l.day \in Nat /\ l.last \in Nat /\ clock \in Nat /\ MaxDay \in Nat /\ clock <= MaxDay
      BY <1>1
    <3> QED BY <2>1, <3>1, <3>2
  <2>3. vec \in Seq(Tick)
    <3>1. file \in Seq(Tick)
      BY <1>1
    <3> HIDE DEF file
    <3> QED BY <1>1, <3>1, JoinFiles
  <2>4. To(l, m) /\ arrTicks' = arrTicks
    BY <1>5 DEF WorkerRead
  <2> HIDE DEF vec
  <2>5. m \in Load /\ m.last = l.last /\ m.day = l.day + 1 /\ m.at = "name"
    BY <1>1, <2>2, <2>3 DEF Load
  <2> HIDE DEF m
  <2> QED BY <1>1, <2>1, <2>2, <2>4, <2>5, OneReplaced
<1>6. CASE WorkerFinish(l)
  <2> DEFINE m == [l EXCEPT !.at = "finished"]
  <2>1. m \in Load /\ m.last = l.last /\ m.day = l.day /\ m.at = "finished" /\ l.at = "name"
    BY <1>1, <1>6 DEF Load, WorkerFinish
  <2>2. To(l, m) /\ arrTicks' = l.vec
    BY <1>6 DEF WorkerFinish
  <2> HIDE DEF m
  <2> QED BY <1>1, <1>2, <2>1, <2>2, OneReplaced
<1> QED BY <1>3, <1>4, <1>5, <1>6 DEF Worker

LEMMA DrawnType ==
  ASSUME TypeOK, NEW l \in loads, drowGraf(l)
  PROVE  DOMAIN shown' \subseteq Nat /\ Range(shown') \subseteq Tick
<1>1. arrTicks \in Seq(Tick)
  BY DEF TypeOK
<1>2. DOMAIN arrTicks \subseteq Nat /\ \A i \in DOMAIN arrTicks : arrTicks[i] \in Tick
  BY <1>1, InFile
<1>3. PICK S \in SUBSET DOMAIN arrTicks : shown' = [i \in S |-> arrTicks[i]]
  BY DEF drowGraf, Restrict
<1> QED BY <1>2, <1>3 DEF Range

LEMMA NextType == IInv /\ TypeOK /\ Reading /\ [Next]_vars => TypeOK' /\ Reading'
<1> SUFFICES ASSUME IInv, TypeOK, Reading, [Next]_vars PROVE TypeOK' /\ Reading'
  OBVIOUS
<1>0. /\ FilesOK' /\ FilesOK /\ MaxDay \in Nat \ {0} /\ MaxTicks \in Nat /\ MaxCrashes \in Nat
  BY NextIInv, ArchiveAssumption DEF IInv
<1> DEFINE Files == /\ clock' \in Day /\ sek' \in Seq(Tick) /\ dated' \in [0 .. MaxDay -> Seq(Tick)]
                    /\ ticks' \in 0 .. MaxTicks /\ taken' \in Seq(Tick)
<1>1. Files
  BY <1>0 DEF FilesOK
<1> HIDE DEF Files
<1>2. CASE addTickSek
  <2>1. spoilt' \subseteq Tick
    <3>1. Range(sek) \subseteq Tick
      BY <1>0, InFile DEF FilesOK
    <3> QED BY <1>2, <3>1 DEF addTickSek, CheckDay, Empty, AppendTick, TypeOK
  <2>2. pc' \in {"idle", "empty", "append"} /\ clear' \in BOOLEAN
    BY <1>2 DEF addTickSek, CheckDay, Empty, AppendTick, TypeOK, pageVars
  <2>3. UNCHANGED <<up, arch, open, loads, arrTicks, shown, span, asked, since, crashes, clock>>
    BY <1>2 DEF addTickSek, CheckDay, Empty, AppendTick, pageVars
  <2> QED BY <1>1, <2>1, <2>2, <2>3 DEF TypeOK, Reading, Files
<1>3. ASSUME NEW p \in Back, Open(p) \/ Choose(p) PROVE TypeOK' /\ Reading'
  <2>1. /\ load(p) /\ clock' = clock /\ UNCHANGED <<pc, up, arch, crashes, spoilt>>
        /\ open' \in BOOLEAN /\ (shown' = shown \/ shown' = <<>>)
    BY <1>3 DEF Open, Choose, fileVars, TypeOK
  <2>2. DOMAIN shown' \subseteq Nat /\ Range(shown') \subseteq Tick
    BY <2>1, EmptyFile DEF TypeOK
  <2> QED BY <1>1, <2>1, <2>2, LoadType DEF TypeOK, Files
<1>4. CASE Close
  <2>1. open' = FALSE /\ arch' = FALSE /\ loads' = {} /\ arrTicks' = <<>> /\ shown' = <<>>
        /\ UNCHANGED <<spoilt, pc, up, span, asked, since, clear, crashes>>
    BY <1>4 DEF Close, fileVars
  <2> QED BY <1>1, <2>1, EmptyFile DEF TypeOK, Reading, Files
<1>5. CASE OpenDeleted
  BY <1>1, <1>5 DEF OpenDeleted, fileVars, pageVars, TypeOK, Reading, Files
<1>6. ASSUME NEW l \in loads, drowGraf(l) PROVE TypeOK' /\ Reading'
  <2>1. loads' = loads \ {l}
        /\ UNCHANGED <<spoilt, clock, pc, up, arch, open, arrTicks, span, asked, since, clear, crashes>>
    BY <1>6 DEF drowGraf, fileVars
  <2>2. loads' \subseteq Load /\ Reading'
    BY <2>1 DEF TypeOK, Reading
  <2> QED BY <1>1, <1>6, <2>1, <2>2, DrawnType DEF TypeOK, Files
<1>7. ASSUME NEW l \in loads, Worker(l) PROVE TypeOK' /\ Reading'
  <2>1. UNCHANGED <<spoilt, clock, pc, up, arch, open, shown, span, asked, since, clear, crashes>>
    BY <1>7 DEF Worker, fileVars
  <2> QED BY <1>1, <1>7, <2>1, WorkerType DEF TypeOK, Files
<1>8. CASE NewDay
  <2>1. clock \in Nat /\ clock' = clock + 1 /\ clear' = FALSE
        /\ UNCHANGED <<spoilt, pc, up, arch, open, loads, arrTicks, shown, span, asked, since, crashes>>
    BY <1>8 DEF NewDay, fileVars, TypeOK, Day
  <2>2. Reading'
    <3>1. \A l \in loads : l.last \in Nat
      BY <1>0 DEF TypeOK, Load
    <3> QED BY <2>1, <3>1 DEF Reading
  <2> QED BY <1>1, <2>1, <2>2 DEF TypeOK, Files
<1>9. CASE PowerLoss
  <2>1. /\ open' = FALSE /\ up' = FALSE /\ pc' = "idle" /\ loads' = {} /\ arrTicks' = <<>> /\ shown' = <<>>
        /\ UNCHANGED <<spoilt, arch, span, asked, since, clear>>
        /\ crashes' = crashes + 1 /\ crashes < MaxCrashes
    BY <1>9 DEF PowerLoss, fileVars
  <2>2. crashes' \in 0 .. MaxCrashes
    BY <1>0, <2>1 DEF TypeOK
  <2> QED BY <1>1, <2>1, <2>2, EmptyFile DEF TypeOK, Reading, Files
<1>10. CASE Start
  BY <1>1, <1>10 DEF Start, fileVars, pageVars, TypeOK, Reading, Files
<1>11. CASE UNCHANGED vars
  BY <1>1, <1>11 DEF vars, fileVars, pageVars, TypeOK, Reading, Files
<1> QED BY <1>2, <1>3, <1>4, <1>5, <1>6, <1>7, <1>8, <1>9, <1>10, <1>11 DEF Next

(* The variables have their types; a thread reads days that have come, one *)
(* after the other (addTickSek, load, run).                                *)
THEOREM TypeCorrect == Spec => [](TypeOK /\ Reading)
<1>1. Init => IInv /\ TypeOK /\ Reading
  BY InitIInv, InitType
<1>2. IInv /\ TypeOK /\ Reading /\ [Next]_vars => IInv' /\ TypeOK' /\ Reading'
  BY NextIInv, NextType
<1> QED BY <1>1, <1>2, PTL DEF Spec

(* The order of the files. *)
LEMMA InitOrder ==
  ASSUME Init
  PROVE  InOrder
<1>1. sek = <<>> /\ \A d \in Day : dated[d] = <<>>
  BY DEF Init, Day
<1> QED BY <1>1, EmptyFile DEF InOrder

LEMMA CheckDayOrder ==
  ASSUME IInv, InOrder, CheckDay
  PROVE  InOrder'
<1> DEFINE d == FirstDay(sek)
<1>1. sek' = sek /\ ticks' = ticks
  BY DEF CheckDay
<1>2. CASE dated' = dated
  BY <1>1, <1>2 DEF InOrder, Counted
<1>3. CASE dated[d] = <<>> /\ dated' = [dated EXCEPT ![d] = sek]
  <2>1. dated \in [0 .. MaxDay -> Seq(Tick)] /\ sek \in Seq(Tick) /\ Day \subseteq 0 .. MaxDay
    BY DEF IInv, FilesOK, Day
  <2>2. CASE sek = <<>>
    <3>1. d = 0 /\ 0 \notin Day
      BY <2>2 DEF FirstDay, Day
    <3>2. \A e \in Day : dated'[e] = dated[e]
      BY <1>3, <2>1, <3>1
    <3> QED BY <1>1, <3>2 DEF InOrder, Counted
  <2>3. CASE sek # <<>>
    <3>1. d = sek[1].day /\ d \in Day
      BY <2>1, <2>3, FirstOfFile
    <3> HIDE DEF d
    <3>2. dated'[d] = sek /\ \A e \in Day : e # d => dated'[e] = dated[e]
      BY <1>3, <2>1, <3>1
    <3>3. \A a \in Day : a \in Nat
      BY DEF Day
    <3>4. \A a \in Day : dated[a] # <<>> => a <= d
      BY <2>3, <3>1 DEF InOrder
    <3>5. \A a \in Day : a < d => Earlier(dated[a], sek)
      BY <2>3, <3>1 DEF InOrder
    <3>6. ASSUME NEW a \in Day
          PROVE  /\ Rising(dated'[a]) /\ Counted(dated[a])'
                 /\ dated'[a] # <<>> => dated'[a][1].day = a
                 /\ dated'[a] # <<>> => a <= d
                 /\ a < d => Earlier(dated'[a], sek)
      <4>1. CASE a = d
        <5>1. Rising(sek) /\ Counted(sek)
          BY DEF InOrder
        <5>2. ~(d < d) /\ d <= d
          BY <3>1, <3>3
        <5> QED BY <1>1, <3>1, <3>2, <4>1, <5>1, <5>2 DEF Counted
      <4>2. CASE a # d
        BY <1>1, <3>2, <3>4, <3>5, <4>2 DEF InOrder, Counted
      <4> QED BY <4>1, <4>2
    <3>7. ASSUME NEW a \in Day, NEW e \in Day, a < e PROVE Earlier(dated'[a], dated'[e])
      <4>1. CASE e = d
        BY <3>2, <3>6, <3>7, <4>1
      <4>2. CASE e # d /\ a = d
        <5>1. dated[e] = <<>>
          BY <3>3, <3>4, <3>7, <4>2
        <5> QED BY <3>2, <4>2, <5>1, EmptyFile
      <4>3. CASE e # d /\ a # d
        BY <3>2, <3>7, <4>3 DEF InOrder
      <4> QED BY <4>1, <4>2, <4>3
    <3>8. Rising(sek') /\ Counted(sek)'
      BY <1>1 DEF InOrder, Counted
    <3> QED BY <1>1, <3>1, <3>6, <3>7, <3>8 DEF InOrder
  <2> QED BY <2>2, <2>3
<1> QED BY <1>2, <1>3 DEF CheckDay

LEMMA EmptyOrder ==
  ASSUME InOrder, Empty
  PROVE  InOrder'
<1>1. sek' = <<>> /\ dated' = dated /\ ticks' = ticks
  BY DEF Empty
<1> QED BY <1>1, EmptyFile DEF InOrder, Counted

(* A tick is later than all there are. *)
LEMMA AppendFacts ==
  ASSUME IInv, InOrder, AppendTick, NEW t, t = [day |-> clock, n |-> ticks + 1]
  PROVE  /\ sek' = Append(sek, t) /\ Range(sek') = Range(sek) \cup {t} /\ Rising(sek')
         /\ dated' = dated /\ clock' = clock /\ ticks' = ticks + 1 /\ ticks \in Nat
         /\ t \in Tick /\ t.n = ticks + 1 /\ t.day = clock
         /\ sek' # <<>> /\ sek'[1].day = IF sek = <<>> THEN clock ELSE sek[1].day
<1>1. /\ sek' = Append(sek, t) /\ ticks' = ticks + 1 /\ dated' = dated /\ clock' = clock
      /\ pc = "append"
  BY DEF AppendTick
<1>2. t \in Tick /\ t.n = ticks + 1 /\ t.day = clock /\ ticks \in Nat /\ sek \in Seq(Tick)
  BY <1>1, ArchiveAssumption DEF IInv, FilesOK, Tick
<1>3. \A x \in Range(sek) : x.n < t.n
  <2>1. \A x \in Range(sek) : x.n \in Nat /\ x.n <= ticks
    <3>1. \A x \in Range(sek) : x \in Tick
      BY <1>2, InFile
    <3> QED BY <3>1 DEF InOrder, Counted, Tick
  <2> QED BY <1>2, <2>1
<1>4. Range(sek') = Range(sek) \cup {t} /\ Rising(sek')
  BY <1>1, <1>2, <1>3, AddTick DEF InOrder
<1>5. sek' # <<>> /\ sek'[1].day = IF sek = <<>> THEN clock ELSE sek[1].day
  <2>1. CASE sek = <<>>
    <3>1. sek'[1] = t /\ sek' # <<>>
      BY <1>1, <1>2, <2>1, AppendProperties, EmptySeq
    <3> QED BY <1>2, <2>1, <3>1
  <2>2. CASE sek # <<>>
    <3>1. sek'[1] = sek[1] /\ sek' # <<>>
      BY <1>1, <1>2, <2>2, FirstOfFile, AppendProperties
    <3> QED BY <2>2, <3>1
  <2> QED BY <2>1, <2>2
<1> QED BY <1>1, <1>2, <1>4, <1>5

LEMMA AppendOrder ==
  ASSUME IInv, InOrder, AppendTick
  PROVE  InOrder'
<1>0. PICK t : t = [day |-> clock, n |-> ticks + 1]
  OBVIOUS
<1>1. /\ Range(sek') = Range(sek) \cup {t} /\ Rising(sek')
      /\ dated' = dated /\ clock' = clock /\ ticks' = ticks + 1 /\ ticks \in Nat
      /\ t \in Tick /\ t.n = ticks + 1
      /\ sek' # <<>> /\ sek'[1].day = IF sek = <<>> THEN clock ELSE sek[1].day
  BY <1>0, AppendFacts
<1>2. sek \in Seq(Tick) /\ dated \in [0 .. MaxDay -> Seq(Tick)] /\ clock \in Day /\ Day \subseteq 0 .. MaxDay
  BY DEF IInv, FilesOK, Day
<1>3. \A x \in Tick : x.n \in Nat
  BY DEF Tick
<1>4. Counted(sek)'
  <2>1. \A x \in Range(sek) : x.n \in Nat /\ x.n <= ticks
    BY <1>2, <1>3, InFile DEF InOrder, Counted
  <2> QED BY <1>1, <2>1 DEF Counted
<1>5. ASSUME NEW d \in Day
      PROVE  /\ Counted(dated[d])'
             /\ \A x \in Range(dated[d]) : x.n < t.n
  <2>1. \A x \in Range(dated[d]) : x.n \in Nat /\ x.n <= ticks
    BY <1>2, <1>3, InFile DEF InOrder, Counted
  <2> QED BY <1>1, <2>1 DEF Counted
<1>6. ASSUME NEW d \in Day, dated[d] # <<>> PROVE d <= sek'[1].day
  <2>1. d < clock /\ d \in Nat /\ clock \in Nat
    BY <1>2, <1>6 DEF IInv, CopiesAreOver, Day
  <2> QED BY <1>1, <1>6, <2>1 DEF InOrder
<1>7. ASSUME NEW d \in Day, d < sek'[1].day PROVE Earlier(dated[d], sek')
  <2>1. Earlier(dated[d], sek)
    BY <1>1, <1>7, EmptyFile DEF InOrder
  <2> QED BY <1>1, <1>5, <2>1 DEF Earlier
<1> QED BY <1>1, <1>4, <1>5, <1>6, <1>7 DEF InOrder

LEMMA NextOrder == IInv /\ InOrder /\ [Next]_vars => InOrder'
<1> SUFFICES ASSUME IInv, InOrder, [Next]_vars PROVE InOrder'
  OBVIOUS
<1>1. CASE addTickSek
  BY <1>1, CheckDayOrder, EmptyOrder, AppendOrder DEF addTickSek
<1>2. CASE UNCHANGED fileVars
  BY <1>2 DEF fileVars, InOrder, Counted
<1>3. addTickSek \/ UNCHANGED fileVars
  BY DEF Next, Open, Choose, Close, OpenDeleted, drowGraf, Worker, NewDay, PowerLoss, Start, vars
<1> QED BY <1>1, <1>2, <1>3

(* The page. *)
LEMMA FilesInOrder ==
  ASSUME IInv, InOrder, sek = <<>> \/ sek[1].day = clock
  PROVE  \A d \in Day :
           /\ FileOf(d) \in Seq(Tick) /\ Rising(FileOf(d))
           /\ \A e \in Day : d < e /\ e <= clock => Earlier(FileOf(d), FileOf(e))
<1>1. /\ clock \in Day /\ sek \in Seq(Tick) /\ Day \subseteq Nat
      /\ \A d \in Day : dated[d] \in Seq(Tick)
  BY DEF IInv, FilesOK, Day
<1>2. \A d \in Day : FileOf(d) \in Seq(Tick) /\ Rising(FileOf(d))
  BY <1>1 DEF FileOf, InOrder
<1>3. ASSUME NEW d \in Day, NEW e \in Day, d < e, e <= clock
      PROVE  Earlier(FileOf(d), FileOf(e))
  <2>1. FileOf(d) = dated[d]
    BY <1>1, <1>3 DEF FileOf
  <2>2. CASE e = clock
    <3>1. FileOf(e) = sek
      BY <2>2 DEF FileOf
    <3>2. CASE sek = <<>>
      BY <2>1, <3>1, <3>2, EmptyFile
    <3>3. CASE sek # <<>>
      BY <1>3, <2>1, <2>2, <3>1, <3>3 DEF InOrder
    <3> QED BY <3>2, <3>3
  <2>3. CASE e # clock
    BY <1>3, <2>1, <2>3 DEF InOrder, FileOf
  <2> QED BY <2>2, <2>3
<1> QED BY <1>2, <1>3

LEMMA FilesKept ==
  ASSUME UNCHANGED <<clock, sek, dated, span, since>>
  PROVE  /\ \A d : FileOf(d)' = FileOf(d)
         /\ \A vec, k : ReadUpTo(vec, k)' <=> ReadUpTo(vec, k)
<1>1. \A d : FileOf(d)' = FileOf(d)
  BY DEF FileOf
<1> QED BY <1>1 DEF ReadUpTo

LEMMA PageKept ==
  ASSUME PageOK, UNCHANGED <<clock, sek, dated, ticks, loads, arrTicks, shown, span, since>>
  PROVE  PageOK'
<1>1. \A l \in loads : LoadOK(l)'
  BY FilesKept DEF PageOK, LoadOK
<1>2. Drawn' <=> Drawn
  BY FilesKept DEF Drawn
<1> QED BY <1>1, <1>2 DEF PageOK

LEMMA AppendPage ==
  ASSUME IInv, InOrder, TypeOK, PageOK, AppendTick
  PROVE  PageOK'
<1>0. PICK t : t = [day |-> clock, n |-> ticks + 1]
  OBVIOUS
<1>1. /\ Range(sek') = Range(sek) \cup {t}
      /\ dated' = dated /\ clock' = clock /\ ticks' = ticks + 1 /\ ticks \in Nat
      /\ t.n = ticks + 1
      /\ sek' # <<>> /\ sek'[1].day = IF sek = <<>> THEN clock ELSE sek[1].day
  BY <1>0, AppendFacts
<1>2. UNCHANGED <<loads, arrTicks, shown, span, since>> /\ since \in Nat /\ since <= ticks
  BY DEF AppendTick, pageVars, PageOK, TypeOK
<1>3. ~(t.n <= since)
  BY <1>1, <1>2
<1>4. \A d : /\ Range(FileOf(d)) \subseteq Range(FileOf(d)')
             /\ \A x \in Range(FileOf(d)') : x.n <= since => x \in Range(FileOf(d))
  BY <1>1, <1>3 DEF FileOf
<1>5. ASSUME NEW vec, NEW k, ReadUpTo(vec, k) PROVE ReadUpTo(vec, k)'
  <2>1. \A x \in Range(vec) : \E d \in Day : d < k /\ x \in Range(FileOf(d)')
    BY <1>4, <1>5 DEF ReadUpTo
  <2>2. \A d \in span' : d < k => \A x \in Range(FileOf(d)') : x.n <= since' => x \in Range(vec)
    BY <1>2, <1>4, <1>5 DEF ReadUpTo
  <2> QED BY <1>5, <2>1, <2>2 DEF ReadUpTo
<1>6. \A l \in loads : LoadOK(l)'
  BY <1>1, <1>2, <1>5 DEF PageOK, LoadOK
<1>7. ASSUME Drawn PROVE Drawn'
  <2> SUFFICES ASSUME NEW d \in span, NEW e \in span, NEW x \in Range(FileOf(d)'),
                      NEW u \in Range(FileOf(e)'),
                      x.n < u.n, u.n <= since, x.day \in span, u.day \in span
               PROVE  x \in Range(shown)
    BY <1>2, <1>7 DEF Drawn
  <2>1. u \in Range(FileOf(e))
    BY <1>4
  <2>2. x \in Range(FileOf(d))
    <3>1. x # t \/ x \in Range(FileOf(d))
      <4>1. \A y \in Range(FileOf(e)) : y.n \in Nat
        <5>1. \A f \in {sek, dated[e]} : f \in Seq(Tick)
          BY DEF TypeOK, Day
        <5>2. Range(FileOf(e)) \subseteq Tick
          BY <5>1, InFile DEF FileOf
        <5> QED BY <5>2 DEF Tick
      <4>2. u.n \in Nat
        BY <2>1, <4>1
      <4> QED BY <1>1, <1>2, <4>2
    <3>2. \A y \in Range(FileOf(d)') : y \in Range(FileOf(d)) \/ y = t
      BY <1>1 DEF FileOf
    <3> QED BY <3>1, <3>2
  <2> QED BY <1>7, <2>1, <2>2 DEF Drawn
<1> QED BY <1>1, <1>2, <1>6, <1>7 DEF PageOK

LEMMA LoadPage ==
  ASSUME IInv, TypeOK, NEW p \in Back, load(p), clear', UNCHANGED <<clock, sek, dated, ticks>>
  PROVE  PageOK'
<1>0. PICK new : new = [id |-> asked + 1, at |-> "start", back |-> p, day |-> 0, last |-> 0,
                        name |-> 0, vec |-> <<>>]
  OBVIOUS
<1>1. /\ loads = {} /\ loads' = loads \cup {new} /\ since' = ticks /\ FirstDay(sek) \in {0, clock}
      /\ span' = {d \in Day : d <= clock /\ clock <= d + p}
  BY <1>0 DEF load
<1>2. sek = <<>> \/ sek[1].day = clock
  <2>1. sek \in Seq(Tick) /\ 0 \notin Day
    BY DEF TypeOK, Day
  <2> QED BY <1>1, <2>1, FirstOfFile
<1>3. LoadOK(new)'
  <2>1. new.at = "start" /\ new.vec = <<>> /\ new.back = p
    BY <1>0
  <2> QED BY <1>1, <2>1 DEF LoadOK
<1>4. span' \subseteq 1 .. clock
  BY <1>1 DEF Day, TypeOK
<1>5. ticks <= ticks
  BY DEF TypeOK
<1> QED BY <1>1, <1>2, <1>3, <1>4, <1>5 DEF PageOK

LEMMA DrawPage ==
  ASSUME IInv, InOrder, TypeOK, PageOK, NEW l \in loads, drowGraf(l)
  PROVE  PageOK'
<1> DEFINE inside == {i \in DOMAIN arrTicks : arrTicks[i].day \in span}
           S == {i \in inside : \E j \in inside : i < j}
<1>1. /\ shown' = [i \in S |-> arrTicks[i]] /\ loads' = loads \ {l} /\ l.at = "finished"
      /\ UNCHANGED <<clock, sek, dated, ticks, span, since>>
  BY DEF drowGraf, fileVars, Restrict
<1>2. loads' = {}
  BY <1>1 DEF PageOK
<1>3. l.vec = arrTicks /\ ReadUpTo(arrTicks, clock + 1)
  BY <1>1 DEF PageOK, LoadOK
<1>4. /\ arrTicks \in Seq(Tick) /\ clock \in Nat /\ span \subseteq 1 .. clock
      /\ \A i \in DOMAIN arrTicks : arrTicks[i].n \in Nat
      /\ DOMAIN arrTicks \subseteq Nat
  <2>1. arrTicks \in Seq(Tick) /\ clock \in Nat /\ span \subseteq 1 .. clock
    BY DEF TypeOK, PageOK, Day
  <2>2. \A i \in DOMAIN arrTicks : arrTicks[i] \in Tick
    BY <2>1, InFile
  <2>3. DOMAIN arrTicks \subseteq Nat
    BY <2>1, InFile
  <2> QED BY <2>1, <2>2, <2>3 DEF Tick
<1>5. Rising(arrTicks)
  BY <1>3 DEF ReadUpTo
<1>6. DOMAIN shown' = S /\ S \subseteq DOMAIN arrTicks /\ \A i \in S : shown'[i] = arrTicks[i]
  BY <1>1
<1> HIDE DEF S
<1>7. Rising(shown')
  BY <1>5, <1>6 DEF Rising
<1>8. ASSUME NEW d \in span, NEW e \in span, NEW t \in Range(FileOf(d)), NEW u \in Range(FileOf(e)),
             t.n < u.n, u.n <= since, t.day \in span, u.day \in span
      PROVE  t \in Range(shown')
  <2>1. d < clock + 1 /\ e < clock + 1 /\ d \in Day /\ e \in Day
    BY <1>4 DEF TypeOK
  <2>2. t.n \in Nat /\ u.n \in Nat /\ since \in Nat
    <3>1. \A f \in {sek, dated[e], dated[d]} : f \in Seq(Tick)
      BY <2>1 DEF TypeOK, Day
    <3>2. Range(FileOf(d)) \subseteq Tick /\ Range(FileOf(e)) \subseteq Tick
      BY <3>1, InFile DEF FileOf
    <3>3. t \in Tick /\ u \in Tick
      BY <3>2
    <3> QED BY <3>3 DEF Tick, TypeOK
  <2>3. t.n <= since
    BY <1>8, <2>2
  <2>4. t \in Range(arrTicks) /\ u \in Range(arrTicks)
    BY <1>3, <1>8, <2>1, <2>3 DEF ReadUpTo
  <2>5. PICK i \in DOMAIN arrTicks : t = arrTicks[i]
    BY <1>4, <2>4, InFile
  <2>6. PICK j \in DOMAIN arrTicks : u = arrTicks[j]
    BY <1>4, <2>4, InFile
  <2>7. i < j
    <3>1. ~(j < i)
      BY <1>5, <1>8, <2>2, <2>5, <2>6 DEF Rising
    <3>2. i # j
      BY <1>8, <2>2, <2>5, <2>6
    <3> QED BY <1>4, <3>1, <3>2
  <2>8. i \in S
    BY <1>8, <2>5, <2>6, <2>7 DEF S
  <2> QED BY <1>6, <2>5, <2>8 DEF Range
<1>9. Drawn'
  <2>1. \A d : FileOf(d)' = FileOf(d)
    BY <1>1, FilesKept
  <2> QED BY <1>1, <1>7, <1>8, <2>1 DEF Drawn
<1> QED BY <1>1, <1>2, <1>9 DEF PageOK

LEMMA OnePage ==
  ASSUME PageOK, NEW l \in loads, NEW m, To(l, m), LoadOK(m)',
         UNCHANGED <<clock, sek, dated, ticks, span, since, shown>>
  PROVE  PageOK'
<1>1. loads' = {m}
  BY DEF To, PageOK
<1> QED BY <1>1 DEF PageOK

(* A file joins what was read. *)
LEMMA ReadDay ==
  ASSUME IInv, InOrder, TypeOK, PageOK, NEW vec \in Seq(Tick), NEW k \in Day, k <= clock,
         ReadUpTo(vec, k), NEW file, file = FileOf(k)
  PROVE  ReadUpTo(vec \o file, k + 1)
<1>1. /\ file \in Seq(Tick) /\ Rising(file)
      /\ \A d \in Day : d < k => Earlier(FileOf(d), file)
  BY FilesInOrder DEF PageOK
<1>2. Earlier(vec, file)
  <2>1. \A t \in Range(vec) : \E d \in Day : d < k /\ t \in Range(FileOf(d))
    BY DEF ReadUpTo
  <2> QED BY <1>1, <2>1 DEF Earlier
<1>3. Rising(vec \o file) /\ Range(vec \o file) = Range(vec) \cup Range(file)
  BY <1>1, <1>2, JoinFiles DEF ReadUpTo
<1>4. k < k + 1 /\ \A d \in Day : d < k + 1 <=> d < k \/ d = k
  BY DEF Day
<1>5. \A t \in Range(vec \o file) : \E d \in Day : d < k + 1 /\ t \in Range(FileOf(d))
  BY <1>3, <1>4 DEF ReadUpTo
<1>6. \A d \in span : d < k + 1 => \A t \in Range(FileOf(d)) : t.n <= since => t \in Range(vec \o file)
  <2>1. span \subseteq Day
    BY DEF TypeOK
  <2> QED BY <1>3, <1>4, <2>1 DEF ReadUpTo
<1> QED BY <1>3, <1>5, <1>6 DEF ReadUpTo

LEMMA WorkerPage ==
  ASSUME IInv, InOrder, TypeOK, Reading, PageOK, NEW l \in loads, Worker(l)
  PROVE  PageOK'
<1>1. UNCHANGED <<clock, sek, dated, ticks, span, since, shown>>
  BY DEF Worker, fileVars
<1>2. /\ LoadOK(l)
      /\ l.at # "start" => l.last = clock /\ ReadUpTo(l.vec, l.day) /\ l.day \in 1 .. clock + 1
      /\ l.at = "read" => l.day <= clock
  BY DEF PageOK, LoadOK, Reading
<1>3. l \in Load /\ l.vec \in Seq(Tick) /\ l.back \in Nat /\ clock \in Day /\ clock \in Nat
  <2>1. l \in Load /\ clock \in Day
    BY DEF TypeOK
  <2>2. l.vec \in Seq(Tick) /\ l.back \in Back
    BY <2>1 DEF Load
  <2>3. clock \in Nat
    BY <2>1 DEF Day
  <2>4. l.back \in Nat
    BY <2>2, ArchiveAssumption
  <2> QED BY <2>1, <2>2, <2>3, <2>4
<1>4. \A vec, k : ReadUpTo(vec, k)' <=> ReadUpTo(vec, k)
  BY <1>1, FilesKept
<1>5. span = {d \in Day : d <= clock /\ clock <= d + l.back}
  BY <1>2 DEF LoadOK
<1>6. CASE WorkerStart(l)
  <2>1. PICK first : first = IF clock > l.back THEN clock - l.back ELSE 1
    OBVIOUS
  <2>2. PICK m : m = [l EXCEPT !.at = "name", !.last = clock, !.day = first]
    OBVIOUS
  <2>3. To(l, m) /\ l.at = "start" /\ l.vec = <<>>
    BY <1>2, <1>6, <2>1, <2>2 DEF WorkerStart, LoadOK
  <2>4. m.at = "name" /\ m.last = clock /\ m.day = first /\ m.vec = <<>> /\ m.back = l.back
    BY <1>3, <2>2, <2>3 DEF Load
  <2>5. \A d \in span : ~(d < first)
    BY <1>3, <1>5, <2>1 DEF Day
  <2>6. ReadUpTo(<<>>, first)
    BY <2>5, EmptyFile DEF ReadUpTo
  <2>7. LoadOK(m)'
    BY <1>1, <1>4, <1>5, <2>4, <2>6 DEF LoadOK
  <2> QED BY <1>1, <2>3, <2>7, OnePage
<1>7. CASE WorkerName(l)
  <2>1. PICK name : name = IF l.day = clock THEN 0 ELSE l.day
    OBVIOUS
  <2>2. PICK m : m = [l EXCEPT !.at = "read", !.name = name]
    OBVIOUS
  <2>3. To(l, m) /\ l.at = "name"
    BY <1>7, <2>1, <2>2 DEF WorkerName
  <2>4. /\ m.at = "read" /\ m.last = l.last /\ m.day = l.day /\ m.vec = l.vec /\ m.back = l.back
        /\ m.name = name
    BY <1>3, <2>2 DEF Load
  <2>5. LoadOK(m)'
    BY <1>1, <1>2, <1>4, <1>5, <2>1, <2>3, <2>4 DEF LoadOK
  <2> QED BY <1>1, <2>3, <2>5, OnePage
<1>8. CASE WorkerRead(l)
  <2>1. l.at = "read" /\ l.day \in Day /\ l.day <= clock /\ l.day \in Nat
    <3>1. l.at = "read" /\ l.day \in 1 .. clock + 1 /\ l.day <= clock
      BY <1>2, <1>8 DEF WorkerRead
    <3>2. MaxDay \in Nat /\ clock \in 1 .. MaxDay
      BY <1>3, ArchiveAssumption DEF Day
    <3>3. l.day \in 1 .. MaxDay /\ l.day \in Nat
      BY <3>1, <3>2
    <3> QED BY <3>1, <3>3 DEF Day
  <2>2. PICK file : file = FileOf(l.day)
    OBVIOUS
  <2>3. file = IF l.name = 0 THEN sek ELSE dated[l.name]
    <3>1. l.name = IF l.day = clock THEN 0 ELSE l.day
      BY <1>2, <2>1 DEF LoadOK
    <3>2. l.day # 0
      BY <2>1 DEF Day
    <3> QED BY <2>2, <3>1, <3>2 DEF FileOf
  <2>4. PICK vec : vec = l.vec \o file
    OBVIOUS
  <2>5. PICK m : m = [l EXCEPT !.at = "name", !.day = @ + 1, !.vec = vec]
    OBVIOUS
  <2>6. To(l, m)
    BY <1>8, <2>3, <2>4, <2>5 DEF WorkerRead
  <2>7. /\ m.at = "name" /\ m.last = l.last /\ m.day = l.day + 1 /\ m.vec = vec /\ m.back = l.back
    BY <1>3, <2>5 DEF Load
  <2>8. ReadUpTo(vec, l.day + 1)
    BY <1>2, <1>3, <2>1, <2>2, <2>4, ReadDay
  <2>9. LoadOK(m)'
    BY <1>1, <1>2, <1>4, <1>5, <2>1, <2>7, <2>8 DEF LoadOK
  <2> QED BY <1>1, <2>6, <2>9, OnePage
<1>9. CASE WorkerFinish(l)
  <2>1. PICK m : m = [l EXCEPT !.at = "finished"]
    OBVIOUS
  <2>2. To(l, m) /\ l.at = "name" /\ arrTicks' = l.vec /\ l.day > l.last
    BY <1>9, <2>1 DEF WorkerFinish
  <2>3. /\ m.at = "finished" /\ m.last = l.last /\ m.day = l.day /\ m.vec = l.vec /\ m.back = l.back
    BY <1>3, <2>1 DEF Load
  <2>4. l.last = clock /\ l.day = clock + 1
    BY <1>2, <1>3, <2>2
  <2>5. LoadOK(m)'
    BY <1>1, <1>2, <1>4, <1>5, <2>2, <2>3, <2>4 DEF LoadOK
  <2> QED BY <1>1, <2>2, <2>5, OnePage
<1> QED BY <1>6, <1>7, <1>8, <1>9 DEF Worker

PageIInv == IInv /\ TypeOK /\ Reading /\ InOrder /\ PageInv

LEMMA NextPage == PageIInv /\ [Next]_vars => PageIInv'
<1> SUFFICES ASSUME PageIInv, [Next]_vars PROVE PageIInv'
  OBVIOUS
<1>0. IInv /\ TypeOK /\ Reading /\ InOrder /\ PageInv
  BY DEF PageIInv
<1>1. IInv' /\ TypeOK' /\ Reading' /\ InOrder'
  BY <1>0, NextIInv, NextType, NextOrder
<1> SUFFICES PageInv'
  BY <1>1 DEF PageIInv
<1>2. CASE CheckDay
  <2>1. CASE clear' = FALSE
    BY <2>1 DEF PageInv
  <2>2. CASE clear' = clear /\ pc' = "append" /\ dated' = dated
    <3>1. UNCHANGED <<clock, sek, dated, ticks, loads, arrTicks, shown, span, since, open, clear>>
      BY <1>2, <2>2 DEF CheckDay
    <3> QED BY <1>0, <2>2, <3>1, PageKept DEF PageInv
  <2> QED BY <1>2, <2>1, <2>2 DEF CheckDay
<1>3. CASE Empty
  <2>1. clear' = clear /\ pc = "empty" /\ open' = open
    BY <1>3 DEF Empty, pageVars
  <2> QED BY <1>0, <2>1 DEF PageInv
<1>4. CASE AppendTick
  <2>1. clear' = clear /\ open' = open /\ pc' = "idle"
    BY <1>4 DEF AppendTick, pageVars
  <2> QED BY <1>0, <1>4, <2>1, AppendPage DEF PageInv
<1>5. ASSUME NEW p \in Back, Open(p) \/ Choose(p) PROVE PageInv'
  <2>1. load(p) /\ pc' = pc /\ pc = "idle" /\ UNCHANGED <<clock, sek, dated, ticks>>
    BY <1>5 DEF Open, Choose, fileVars
  <2> QED BY <1>0, <2>1, LoadPage DEF PageInv
<1>6. CASE Close \/ PowerLoss
  <2>1. open' = FALSE /\ pc' = "idle"
    BY <1>6 DEF Close, PowerLoss
  <2> QED BY <2>1 DEF PageInv
<1>7. CASE OpenDeleted \/ Start \/ UNCHANGED vars
  <2>1. UNCHANGED <<clock, sek, dated, ticks, loads, arrTicks, shown, span, since, open, clear, pc>>
    BY <1>7 DEF OpenDeleted, Start, vars, fileVars, pageVars
  <2> QED BY <1>0, <2>1, PageKept DEF PageInv
<1>8. ASSUME NEW l \in loads, drowGraf(l) PROVE PageInv'
  <2>1. UNCHANGED <<open, clear, pc>>
    BY <1>8 DEF drowGraf
  <2> QED BY <1>0, <1>8, <2>1, DrawPage DEF PageInv
<1>9. ASSUME NEW l \in loads, Worker(l) PROVE PageInv'
  <2>1. UNCHANGED <<open, clear, pc>>
    BY <1>9 DEF Worker
  <2> QED BY <1>0, <1>9, <2>1, WorkerPage DEF PageInv
<1>10. CASE NewDay
  <2>1. clear' = FALSE
    BY <1>10 DEF NewDay
  <2> QED BY <2>1 DEF PageInv
<1> QED BY <1>2, <1>3, <1>4, <1>5, <1>6, <1>7, <1>8, <1>9, <1>10 DEF Next, addTickSek

(* Where a tick is that is not in a file of another day. *)
LEMMA WhereSought ==
  ASSUME PageIInv, PageOK, NEW t \in Sought
  PROVE  t.day \in span /\ t.n <= since /\ t \in Range(FileOf(t.day))
<1>1. t \in Range(taken) \ spoilt /\ t.day \in span /\ t.n <= since /\ ~Misfiled(t)
  BY DEF Sought
<1>2. TicksKept /\ InOrder /\ FilesOK /\ CopiesAreOver /\ span \subseteq Day
  BY DEF PageIInv, IInv, TypeOK
<1>3. CASE t \in Range(sek)
  <2>1. sek # <<>>
    BY <1>3, EmptyFile
  <2>2. sek[1].day = t.day
    BY <1>1, <1>3 DEF Misfiled
  <2> QED BY <1>1, <1>3, <2>1, <2>2 DEF PageOK, FileOf
<1>4. ASSUME NEW d \in Day, t \in Range(dated[d])
      PROVE  t \in Range(FileOf(t.day))
  <2>1. dated[d] # <<>>
    BY <1>4, EmptyFile
  <2>2. dated[d][1].day = t.day
    BY <1>1, <1>4 DEF Misfiled
  <2>3. dated[d][1].day = d /\ d < clock
    BY <1>2, <2>1 DEF InOrder, CopiesAreOver
  <2>4. d \in Nat /\ clock \in Nat
    BY <1>2 DEF FilesOK, Day
  <2> QED BY <1>4, <2>2, <2>3, <2>4 DEF FileOf
<1> QED BY <1>1, <1>2, <1>3, <1>4 DEF TicksKept

(* Once drawn, the graph shows the ticks of the period asked for in order, *)
(* each once and none missing but the last, however loads, ticks, changes  *)
(* of the day and restarts fall, but for the exceptions of GraphComplete   *)
(* (run, load, getVector).                                                 *)
THEOREM GraphShowsAll == Spec => []GraphComplete
<1>1. Init => PageIInv
  <2>1. Init => PageInv
    BY DEF Init, PageInv
  <2> QED BY <2>1, InitIInv, InitType, InitOrder DEF PageIInv
<1>2. PageIInv => GraphComplete
  <2> SUFFICES ASSUME PageIInv, open, loads = {}, clear
               PROVE  /\ \A i, j \in DOMAIN shown : i < j => shown[i].n < shown[j].n
                      /\ \A t, u \in Sought : t.n < u.n => t \in Range(shown)
    BY DEF GraphComplete
  <2>1. PageOK /\ Drawn
    BY DEF PageIInv, PageInv, PageOK
  <2>2. \A t \in Sought : t.day \in span /\ t.n <= since /\ t \in Range(FileOf(t.day))
    BY <2>1, WhereSought
  <2> QED BY <2>1, <2>2 DEF Drawn, Rising
<1> QED BY <1>1, <1>2, NextPage, PTL DEF Spec
=============================================================================
