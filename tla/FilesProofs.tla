---------------------------- MODULE FilesProofs -----------------------------
(***************************************************************************)
(* Proofs about Files: at every statement of a save or a reset there are   *)
(* settings to go back to, a save that the log reports is in them, and the *)
(* log holds the latest messages of every logger, each once, for any       *)
(* number of saves, resets, messages and power failures.                   *)
(***************************************************************************)
EXTENDS Files, SequenceTheorems, TLAPS

SaveOp == {"open", "write", "remove", "copy"}
ResetOp == {"clear", "rename", "default", "read"}
LogOp == {"message", "shorten", "rewrite", "append"}

Content == [text : {"whole", "part", "empty", "none"}, v : Nat]
Line == [n : Nat, by : Logger, v : Nat]
Statement == [op : SaveOp \cup ResetOp \cup LogOp, file : File \cup {"log"}, by : Logger, v : Nat]

Types ==
  /\ main \in [File -> Content] /\ backup \in [File -> Content]
  /\ log \in Seq(Line) /\ lines \in Seq(Line) /\ said \in Seq(Line)
  /\ q \in [Logger -> Seq(Line)]
  /\ plan \in Seq(Statement) /\ up \in BOOLEAN /\ saves \in Nat
  /\ safe \in [File -> Nat] /\ kept \in [File -> SUBSET Nat]
  /\ torn \in [File -> BOOLEAN] /\ bare \in [File -> BOOLEAN]
  /\ refused \in [File -> SUBSET Nat]

(* The statements of one handler on a file come in this order. *)
After(a, b) ==
  \/ a = "open" /\ b \in {"write", "remove", "copy"}
  \/ a = "write" /\ b \in {"remove", "copy"}
  \/ a = "remove" /\ b = "copy"
  \/ a = "clear" /\ b \in {"rename", "default", "read"}
  \/ a = "rename" /\ b \in {"default", "read"}
  \/ a = "default" /\ b = "read"

Ordered(s) ==
  \A i, j \in 1 .. Len(s) :
    i < j /\ s[i].file \in File /\ s[j].file = s[i].file => After(s[i].op, s[j].op)

(* Those on a file that are left are the last ones of a save or a reset. *)
OpsOf(s, f) == {s[i].op : i \in {k \in 1 .. Len(s) : s[k].file = f}}

Ops(f) == OpsOf(plan, f)

Chains ==
  {{}, {"copy"}, {"remove", "copy"}, {"write", "remove", "copy"}, SaveOp,
   {"read"}, {"default", "read"}, {"rename", "default", "read"}, ResetOp}

(* A save that cannot open its file skips the other three statements. *)
Together(s) ==
  \A i \in 1 .. Len(s) : s[i].op = "open" =>
    \A k \in 1 .. 3 : i + k \in 1 .. Len(s) /\ s[i + k].file = s[i].file

Kinds(s, v) ==
  \A i \in 1 .. Len(s) :
    /\ s[i].file \in File => s[i].op \in SaveOp \cup ResetOp /\ s[i].v = v
    /\ s[i].file = "log" => s[i].op \in LogOp
    /\ s[i].op = "message" => s[i].v \in {0, v}

(* Messages come last. *)
LogLast(s) ==
  \A i, j \in 1 .. Len(s) : i < j /\ s[i].file = "log" => s[j].file = "log"

Planned ==
  /\ Ordered(plan) /\ Together(plan) /\ Kinds(plan, saves) /\ LogLast(plan)
  /\ \A f \in File : Ops(f) \in Chains
  /\ ~up => plan = <<>>

Used(f) == IF main[f].text \in {"none", "empty"} THEN backup[f] ELSE main[f]

Good(f) == ~torn[f] /\ ~bare[f]

Untouched(f) == Ops(f) = {} \/ "open" \in Ops(f) \/ "clear" \in Ops(f)

FileOK(f) ==
  /\ Good(f) => IsWhole(Used(f)) /\ Used(f).v \in kept[f]
  /\ Ops(f) # {} => kept[f] = {safe[f], saves}
  /\ up /\ Untouched(f) /\ Good(f) => Used(f).v = safe[f]
  /\ "write" \in Ops(f) /\ "open" \notin Ops(f) =>
       main[f] = Bad("empty") /\ (~bare[f] => backup[f] = Whole(safe[f]))
  /\ "copy" \in Ops(f) /\ "write" \notin Ops(f) =>
       main[f] = Whole(saves) \/ (torn[f] /\ ~IsWhole(main[f]))
  /\ Ops(f) = {"copy"} => backup[f] = Bad("none")
  /\ "rename" \in Ops(f) /\ "clear" \notin Ops(f) =>
       backup[f] = Bad("none") /\ (~bare[f] => main[f] = Whole(safe[f]))
  /\ "default" \in Ops(f) /\ "rename" \notin Ops(f) =>
       main[f] = Bad("none") /\ (~bare[f] => backup[f] = Whole(safe[f]))
  /\ Ops(f) = {"read"} =>
       main[f] = Whole(saves)
         \/ (main[f] = Bad("none") /\ (~bare[f] => backup[f] = Whole(safe[f])))

Reported(f, v) ==
  \/ v \in refused[f]
  \/ /\ IsWhole(main[f]) => main[f].v >= v
     /\ IsWhole(backup[f]) => backup[f].v >= v

Told == Range(log) \cup Range(lines) \cup UNION {Range(q[l]) : l \in Logger}

(* The save that a message reports is in both files, or shows as refused. *)
Filed(m) == m.v <= saves /\ \A f \in File : Reported(f, m.v)

(* So will be the one that a message of the plan reports, when it is sent. *)
Promised ==
  \A i \in 1 .. Len(plan) : plan[i].op = "message" /\ plan[i].v # 0 =>
    \A f \in File : Ops(f) \subseteq SaveOp /\ (Ops(f) = {} => Reported(f, plan[i].v))

LogOK == (\A m \in Told : Filed(m)) /\ Promised

-----------------------------------------------------------------------------
(* Plans: what is left of one when its first statement is done, or another *)
(* comes before the rest.                                                  *)

Shaped(s, v) == s \in Seq(Statement) /\ Ordered(s) /\ Together(s) /\ Kinds(s, v) /\ LogLast(s)

LEMMA ChainHead ==
  ASSUME NEW C \in Chains, NEW a \in C, \A o \in C : o = a \/ After(a, o)
  PROVE  /\ a = "open" => C = SaveOp
         /\ a = "write" => C = {"write", "remove", "copy"}
         /\ a = "remove" => C = {"remove", "copy"}
         /\ a = "copy" => C = {"copy"}
         /\ a = "clear" => C = ResetOp
         /\ a = "rename" => C = {"rename", "default", "read"}
         /\ a = "default" => C = {"default", "read"}
         /\ a = "read" => C = {"read"}
<1>1. CASE C = {} BY <1>1
<1>2. CASE C = {"copy"} BY <1>2 DEF After
<1>3. CASE C = {"remove", "copy"} BY <1>3 DEF After
<1>4. CASE C = {"write", "remove", "copy"} BY <1>4 DEF After
<1>5. CASE C = SaveOp BY <1>5 DEF After, SaveOp
<1>6. CASE C = {"read"} BY <1>6 DEF After
<1>7. CASE C = {"default", "read"} BY <1>7 DEF After
<1>8. CASE C = {"rename", "default", "read"} BY <1>8 DEF After
<1>9. CASE C = ResetOp BY <1>9 DEF After, ResetOp
<1> QED BY <1>1, <1>2, <1>3, <1>4, <1>5, <1>6, <1>7, <1>8, <1>9 DEF Chains

LEMMA RestShaped ==
  ASSUME NEW s, NEW v, Shaped(s, v), s # <<>>
  PROVE  /\ Shaped(Tail(s), v)
         /\ Len(s) \in Nat \ {0} /\ Head(s) = s[1] /\ Head(s) \in Statement
         /\ Len(Tail(s)) = Len(s) - 1
         /\ \A i \in 1 .. Len(Tail(s)) : i + 1 \in 1 .. Len(s) /\ Tail(s)[i] = s[i + 1]
         /\ \A i \in 1 .. Len(s) : i = 1 \/ (i - 1 \in 1 .. Len(Tail(s)) /\ Tail(s)[i - 1] = s[i])
<1>1. s \in Seq(Statement) /\ Len(s) \in Nat \ {0}
  BY EmptySeq DEF Shaped
<1>2. /\ Tail(s) \in Seq(Statement) /\ Head(s) \in Statement /\ Head(s) = s[1]
      /\ Len(Tail(s)) = Len(s) - 1
      /\ \A i \in 1 .. Len(Tail(s)) : Tail(s)[i] = s[i + 1]
  BY <1>1, HeadTailProperties DEF Shaped
<1> DEFINE t == Tail(s)
<1> HIDE DEF t
<1>3. /\ t \in Seq(Statement) /\ Len(t) = Len(s) - 1
      /\ \A i \in 1 .. Len(t) : i + 1 \in 1 .. Len(s) /\ t[i] = s[i + 1]
  BY <1>1, <1>2 DEF t
<1>4. \A i \in 1 .. Len(s) : i = 1 \/ (i - 1 \in 1 .. Len(t) /\ t[i - 1] = s[i])
  BY <1>1, <1>3
<1>5. \A i, j \in 1 .. Len(t) : i < j => i + 1 < j + 1
  BY <1>1, <1>3
<1>6. Ordered(t)
  BY <1>3, <1>5 DEF Shaped, Ordered
<1>7. LogLast(t)
  BY <1>3, <1>5 DEF Shaped, LogLast
<1>8. Kinds(t, v)
  BY <1>3 DEF Shaped, Kinds
<1>9. Together(t)
  <2> SUFFICES ASSUME NEW i \in 1 .. Len(t), t[i].op = "open", NEW k \in 1 .. 3
               PROVE  i + k \in 1 .. Len(t) /\ t[i + k].file = t[i].file
    BY DEF Together
  <2>1. (i + 1) + k \in 1 .. Len(s) /\ s[(i + 1) + k].file = s[i + 1].file
    BY <1>3 DEF Shaped, Together
  <2>2. i + k \in 1 .. Len(t) /\ (i + k) + 1 = (i + 1) + k
    BY <1>1, <1>3, <2>1
  <2> QED BY <2>1, <2>2, <1>3
<1> QED BY <1>1, <1>2, <1>3, <1>4, <1>6, <1>7, <1>8, <1>9 DEF Shaped, t

(* The first statement on a file goes; the others stay. *)
LEMMA RestOps ==
  ASSUME NEW s, NEW v, Shaped(s, v), s # <<>>, NEW f \in File
  PROVE  /\ Head(s).file # f => OpsOf(Tail(s), f) = OpsOf(s, f)
         /\ Head(s).file = f =>
              /\ Head(s).op \in OpsOf(s, f)
              /\ \A o \in OpsOf(s, f) : o = Head(s).op \/ After(Head(s).op, o)
              /\ OpsOf(Tail(s), f) = OpsOf(s, f) \ {Head(s).op}
<1> DEFINE t == Tail(s)
<1>1. /\ Len(s) \in Nat \ {0} /\ Head(s) = s[1]
      /\ \A i \in 1 .. Len(t) : i + 1 \in 1 .. Len(s) /\ t[i] = s[i + 1]
      /\ \A i \in 1 .. Len(s) : i = 1 \/ (i - 1 \in 1 .. Len(t) /\ t[i - 1] = s[i])
  BY RestShaped
<1> HIDE DEF t
<1>2. 1 \in 1 .. Len(s) /\ \A i \in 1 .. Len(s) : i # 1 => 1 < i
  BY <1>1
<1>3. \A o \in OpsOf(t, f) : o \in OpsOf(s, f)
  BY <1>1 DEF OpsOf
<1>4. \A o \in OpsOf(s, f) : o \in OpsOf(t, f) \/ (s[1].file = f /\ o = s[1].op)
  <2> SUFFICES ASSUME NEW i \in 1 .. Len(s), s[i].file = f, i # 1
               PROVE  s[i].op \in OpsOf(t, f)
    BY DEF OpsOf
  <2>1. i - 1 \in 1 .. Len(t) /\ t[i - 1] = s[i]
    BY <1>1
  <2> QED BY <2>1 DEF OpsOf
<1>5. CASE Head(s).file # f
  BY <1>1, <1>3, <1>4, <1>5 DEF t
<1>6. CASE Head(s).file = f
  <2>1. Head(s).op \in OpsOf(s, f)
    BY <1>1, <1>2, <1>6 DEF OpsOf
  <2>2. \A i \in 1 .. Len(s) : i # 1 /\ s[i].file = f => After(s[1].op, s[i].op)
    BY <1>1, <1>2, <1>6 DEF Shaped, Ordered
  <2>3. \A o \in OpsOf(s, f) : o = Head(s).op \/ After(Head(s).op, o)
    BY <1>1, <2>2 DEF OpsOf
  <2>4. ~After(s[1].op, s[1].op)
    BY DEF After
  <2>5. s[1].op \notin OpsOf(t, f)
    <3> SUFFICES ASSUME NEW i \in 1 .. Len(t), t[i].file = f, t[i].op = s[1].op PROVE FALSE
      BY DEF OpsOf
    <3>1. i + 1 \in 1 .. Len(s) /\ s[i + 1].file = f /\ s[i + 1].op = s[1].op /\ i + 1 # 1
      BY <1>1
    <3> QED BY <3>1, <2>2, <2>4
  <2> QED BY <1>1, <1>3, <1>4, <1>6, <2>1, <2>3, <2>5 DEF t
<1> QED BY <1>5, <1>6

LEMMA SkipLength ==
  ASSUME NEW n \in Nat, 4 <= n
  PROVE  (IF 5 <= n THEN n - 5 + 1 ELSE 0) = n - 4
OBVIOUS

(* A save whose file does not open leaves its four statements out. *)
LEMMA SkipShaped ==
  ASSUME NEW s, NEW v, Shaped(s, v), s # <<>>, Head(s).op = "open", Head(s).file \in File
  PROVE  LET t == SubSeq(s, 5, Len(s))
         IN /\ Shaped(t, v)
            /\ \A i \in 1 .. Len(t) : i + 4 \in 1 .. Len(s) /\ t[i] = s[i + 4]
            /\ OpsOf(t, Head(s).file) = {}
            /\ \A f \in File : f # Head(s).file => OpsOf(t, f) = OpsOf(s, f)
<1> DEFINE t == SubSeq(s, 5, Len(s))
<1>1. /\ Len(s) \in Nat \ {0} /\ Head(s) = s[1] /\ s \in Seq(Statement)
  BY RestShaped DEF Shaped
<1>2. 1 \in 1 .. Len(s) /\ \A k \in 1 .. 3 : 1 + k \in 1 .. Len(s) /\ s[1 + k].file = s[1].file
  BY <1>1 DEF Shaped, Together
<1>3. /\ 2 \in 1 .. Len(s) /\ s[2].file = s[1].file
      /\ 3 \in 1 .. Len(s) /\ s[3].file = s[1].file
      /\ 4 \in 1 .. Len(s) /\ s[4].file = s[1].file
  BY <1>2
<1>4. /\ t \in Seq(Statement) /\ Len(t) = Len(s) - 4
      /\ \A i \in 1 .. Len(t) : t[i] = s[i + 4]
  <2>1. \A i \in 5 .. Len(s) : s[i] \in Statement
    BY <1>1
  <2>2. /\ t \in Seq(Statement)
        /\ Len(t) = IF 5 <= Len(s) THEN Len(s) - 5 + 1 ELSE 0
        /\ \A i \in 1 .. Len(s) - 5 + 1 : t[i] = s[5 + i - 1]
    BY <1>1, <1>3, SubSeqProperties
  <2> HIDE DEF t
  <2>5. Len(s) \in Nat /\ 4 <= Len(s)
    BY <1>1, <1>3
  <2>3. Len(t) = Len(s) - 4
    BY <2>2, <2>5, SkipLength
  <2>4. \A i \in 1 .. Len(t) : i \in 1 .. Len(s) - 5 + 1 /\ 5 + i - 1 = i + 4
    BY <1>1, <2>3
  <2> QED BY <2>2, <2>3, <2>4
<1> HIDE DEF t
<1>5. \A i \in 1 .. Len(t) : i + 4 \in 1 .. Len(s) /\ t[i] = s[i + 4]
  BY <1>1, <1>4
<1>6. \A i, j \in 1 .. Len(t) : i < j => i + 4 < j + 4
  BY <1>1, <1>4
<1>7. Ordered(t)
  BY <1>5, <1>6 DEF Shaped, Ordered
<1>8. LogLast(t)
  BY <1>5, <1>6 DEF Shaped, LogLast
<1>9. Kinds(t, v)
  BY <1>5 DEF Shaped, Kinds
<1>10. Together(t)
  <2> SUFFICES ASSUME NEW i \in 1 .. Len(t), t[i].op = "open", NEW k \in 1 .. 3
               PROVE  i + k \in 1 .. Len(t) /\ t[i + k].file = t[i].file
    BY DEF Together
  <2>1. (i + 4) + k \in 1 .. Len(s) /\ s[(i + 4) + k].file = s[i + 4].file
    BY <1>5 DEF Shaped, Together
  <2>2. i + k \in 1 .. Len(t) /\ (i + k) + 4 = (i + 4) + k
    BY <1>1, <1>4, <2>1
  <2> QED BY <2>1, <2>2, <1>5
<1>11. OpsOf(t, s[1].file) = {}
  <2> SUFFICES ASSUME NEW i \in 1 .. Len(s), 4 < i, s[i].file = s[1].file PROVE FALSE
    <3>1. \A k \in 1 .. Len(t) : 4 < k + 4
      BY <1>1, <1>4
    <3> QED BY <3>1, <1>5 DEF OpsOf
  <2>1. /\ After(s[1].op, s[2].op) /\ After(s[2].op, s[3].op) /\ After(s[3].op, s[4].op)
        /\ After(s[4].op, s[i].op)
    BY <1>1, <1>2, <1>3 DEF Shaped, Ordered
  <2>2. s[2].op \in {"write", "remove", "copy"}
    BY <1>1, <2>1 DEF After
  <2>3. s[3].op \in {"remove", "copy"}
    BY <2>1, <2>2 DEF After
  <2>4. s[4].op = "copy"
    BY <2>1, <2>3 DEF After
  <2> QED BY <2>1, <2>4 DEF After
<1>12. ASSUME NEW f \in File, f # s[1].file PROVE OpsOf(t, f) = OpsOf(s, f)
  <2>1. \A o \in OpsOf(t, f) : o \in OpsOf(s, f)
    BY <1>5 DEF OpsOf
  <2>2. ASSUME NEW i \in 1 .. Len(s), s[i].file = f PROVE s[i].op \in OpsOf(t, f)
    <3>1. i \notin {1, 2, 3, 4}
      BY <1>3, <1>12, <2>2
    <3>2. i - 4 \in 1 .. Len(t) /\ t[i - 4] = s[i]
      <4>1. i - 4 \in 1 .. Len(t) /\ (i - 4) + 4 = i
        BY <3>1, <1>1, <1>4
      <4> QED BY <4>1, <1>5
    <3> QED BY <3>2, <2>2 DEF OpsOf
  <2> QED BY <2>1, <2>2 DEF OpsOf
<1> QED BY <1>1, <1>4, <1>5, <1>7, <1>8, <1>9, <1>10, <1>11, <1>12 DEF Shaped, t

(* Two plans in a row are one, if the second continues the first. *)
Continued(a, b) ==
  \A i \in 1 .. Len(a), j \in 1 .. Len(b) :
    /\ a[i].file \in File /\ b[j].file = a[i].file => After(a[i].op, b[j].op)
    /\ a[i].file = "log" => b[j].file = "log"

Joined(a, b, v) ==
  /\ Shaped(a \o b, v)
  /\ \A f \in File : OpsOf(a \o b, f) = OpsOf(a, f) \cup OpsOf(b, f)
  /\ \A i \in 1 .. Len(a \o b) : \/ \E k \in 1 .. Len(a) : (a \o b)[i] = a[k]
                                 \/ \E k \in 1 .. Len(b) : (a \o b)[i] = b[k]

LEMMA JoinShaped ==
  ASSUME NEW v, NEW a, NEW b, Shaped(a, v), Shaped(b, v), Continued(a, b)
  PROVE  Joined(a, b, v)
<1> DEFINE t == a \o b
           m == Len(a)
           n == Len(b)
<1>1. a \in Seq(Statement) /\ b \in Seq(Statement) /\ m \in Nat /\ n \in Nat
  BY DEF Shaped
<1>2. /\ t \in Seq(Statement) /\ Len(t) = m + n
      /\ \A i \in 1 .. m + n : t[i] = IF i <= m THEN a[i] ELSE b[i - m]
  BY <1>1, ConcatProperties
<1> HIDE DEF t, m, n
<1>3. \A i \in 1 .. Len(t) :
        \/ i \in 1 .. m /\ t[i] = a[i]
        \/ i - m \in 1 .. n /\ t[i] = b[i - m] /\ m < i
  BY <1>1, <1>2
<1>4. /\ \A i \in 1 .. m : i \in 1 .. Len(t) /\ t[i] = a[i]
      /\ \A i \in 1 .. n : m + i \in 1 .. Len(t) /\ t[m + i] = b[i]
  <2>1. \A i \in 1 .. m : i \in 1 .. m + n /\ i <= m
    BY <1>1
  <2>2. \A i \in 1 .. n : m + i \in 1 .. m + n /\ ~(m + i <= m) /\ (m + i) - m = i
    BY <1>1
  <2> QED BY <1>2, <2>1, <2>2
<1>5. \A i, j \in 1 .. Len(t) :
        i < j => /\ j \in 1 .. m /\ t[j] = a[j] => i \in 1 .. m /\ t[i] = a[i]
                 /\ i - m \in 1 .. n => i - m < j - m /\ j - m \in 1 .. n
  <2>1. \A i, j \in 1 .. m + n :
           i < j => /\ j \in 1 .. m => i \in 1 .. m
                    /\ i - m \in 1 .. n => i - m < j - m /\ j - m \in 1 .. n
    BY <1>1
  <2> QED BY <1>2, <1>4, <2>1
<1>6. ASSUME NEW i \in 1 .. Len(t), NEW j \in 1 .. Len(t), i < j
      PROVE  /\ t[i].file \in File /\ t[j].file = t[i].file => After(t[i].op, t[j].op)
             /\ t[i].file = "log" => t[j].file = "log"
  <2>1. CASE j \in 1 .. m /\ t[j] = a[j]
    <3>1. i \in 1 .. m /\ t[i] = a[i]
      BY <1>5, <1>6, <2>1
    <3> QED BY <2>1, <3>1, <1>6 DEF Shaped, Ordered, LogLast, m
  <2>2. CASE i - m \in 1 .. n /\ t[i] = b[i - m]
    <3>1. i - m < j - m /\ j - m \in 1 .. n
      BY <1>5, <1>6, <2>2
    <3>2. t[j] = b[j - m]
      BY <1>1, <1>3, <1>6, <2>2, <3>1
    <3> QED BY <2>2, <3>1, <3>2 DEF Shaped, Ordered, LogLast, n
  <2>3. CASE (i \in 1 .. m /\ t[i] = a[i]) /\ (j - m \in 1 .. n /\ t[j] = b[j - m])
    BY <2>3 DEF m, n, Continued
  <2> QED BY <1>3, <2>1, <2>2, <2>3
<1>7. Ordered(t) /\ LogLast(t)
  BY <1>6 DEF Ordered, LogLast
<1>8. Kinds(t, v)
  BY <1>3 DEF Kinds, Shaped, m, n
<1>9. Together(t)
  <2> SUFFICES ASSUME NEW i \in 1 .. Len(t), t[i].op = "open", NEW k \in 1 .. 3
               PROVE  i + k \in 1 .. Len(t) /\ t[i + k].file = t[i].file
    BY DEF Together
  <2>1. CASE i \in 1 .. m /\ t[i] = a[i]
    <3>1. i + k \in 1 .. m /\ a[i + k].file = a[i].file
      BY <2>1 DEF Shaped, Together, m
    <3> QED BY <2>1, <3>1, <1>4
  <2>2. CASE i - m \in 1 .. n /\ t[i] = b[i - m]
    <3>1. (i - m) + k \in 1 .. n /\ b[(i - m) + k].file = b[i - m].file
      BY <2>2 DEF Shaped, Together, n
    <3>2. m + ((i - m) + k) = i + k
      BY <1>1, <1>2
    <3> QED BY <2>2, <3>1, <3>2, <1>4
  <2> QED BY <1>3, <2>1, <2>2
<1>10. ASSUME NEW f \in File PROVE OpsOf(t, f) = OpsOf(a, f) \cup OpsOf(b, f)
  <2>1. \A o \in OpsOf(t, f) : o \in OpsOf(a, f) \cup OpsOf(b, f)
    BY <1>3 DEF OpsOf, m, n
  <2>2. \A o \in OpsOf(a, f) : o \in OpsOf(t, f)
    BY <1>4 DEF OpsOf, m, n
  <2>3. \A o \in OpsOf(b, f) : o \in OpsOf(t, f)
    BY <1>4 DEF OpsOf, m, n
  <2> QED BY <2>1, <2>2, <2>3
<1>11. \A i \in 1 .. Len(t) : \/ \E k \in 1 .. Len(a) : t[i] = a[k]
                              \/ \E k \in 1 .. Len(b) : t[i] = b[k]
  BY <1>3 DEF m, n
<1> QED BY <1>2, <1>7, <1>8, <1>9, <1>10, <1>11 DEF Joined, Shaped, t

(* A statement on its own. *)
LEMMA OneShaped ==
  ASSUME NEW x \in Statement, NEW v, x.op # "open", x.op = "message" => x.v \in {0, v},
         x.file \in File => x.op \in SaveOp \cup ResetOp /\ x.v = v,
         x.file = "log" => x.op \in LogOp
  PROVE  /\ Shaped(<<x>>, v) /\ Len(<<x>>) = 1 /\ <<x>>[1] = x
         /\ \A f \in File : OpsOf(<<x>>, f) = IF x.file = f THEN {x.op} ELSE {}
<1> DEFINE s == <<x>>
<1>1. s \in Seq(Statement) /\ Len(s) = 1 /\ s[1] = x
  OBVIOUS
<1> HIDE DEF s
<1>2. \A i \in 1 .. Len(s) : i = 1 /\ s[i] = x
  BY <1>1
<1>3. \A i, j \in 1 .. Len(s) : ~(i < j)
  BY <1>1
<1>4. Ordered(s) /\ LogLast(s)
  BY <1>3 DEF Ordered, LogLast
<1>5. Together(s) /\ Kinds(s, v)
  BY <1>2 DEF Together, Kinds
<1>6. ASSUME NEW f \in File PROVE OpsOf(s, f) = IF x.file = f THEN {x.op} ELSE {}
  <2>1. 1 \in 1 .. Len(s)
    BY <1>1
  <2> QED BY <1>2, <2>1 DEF OpsOf
<1> QED BY <1>1, <1>4, <1>5, <1>6 DEF Shaped, s

LEMMA NoneShaped ==
  ASSUME NEW v
  PROVE  Shaped(<<>>, v) /\ Len(<<>>) = 0 /\ \A f \in File : OpsOf(<<>>, f) = {}
<1>1. <<>> \in Seq(Statement) /\ Len(<<>>) = 0 /\ 1 .. Len(<<>>) = {}
  BY EmptySeq
<1>2. Ordered(<<>>) /\ Together(<<>>) /\ Kinds(<<>>, v) /\ LogLast(<<>>)
  BY <1>1 DEF Ordered, Together, Kinds, LogLast
<1> QED BY <1>1, <1>2 DEF Shaped, OpsOf

LEMMA DoType ==
  ASSUME Types, NEW f \in File, NEW o \in SaveOp \cup ResetOp
  PROVE  /\ Do(o, f) \in Statement /\ Do(o, f).op = o /\ Do(o, f).file = f
         /\ Do(o, f).v = saves + 1
  BY FilesAssumption DEF Do, Statement, Types, File

LEMMA SayShaped ==
  ASSUME NEW l \in Logger, NEW v \in Nat, NEW w \in {0, v}
  PROVE  /\ Shaped(Say(l, w), v) /\ Len(Say(l, w)) = 1 /\ \A f \in File : OpsOf(Say(l, w), f) = {}
         /\ \A i \in 1 .. 1 : /\ Say(l, w)[i].file = "log"
                              /\ Say(l, w)[i].op = "message" /\ Say(l, w)[i].v = w
<1> DEFINE x == [op |-> "message", file |-> "log", by |-> l, v |-> w]
<1>1. /\ x \in Statement /\ x.op = "message" /\ x.file = "log" /\ x.v = w
      /\ "log" \notin File /\ "message" \in LogOp
  BY DEF Statement, LogOp, File
<1>2. Say(l, w) = <<x>>
  BY DEF Say
<1> HIDE DEF x
<1>3. /\ Shaped(<<x>>, v) /\ Len(<<x>>) = 1 /\ <<x>>[1] = x
      /\ \A f \in File : OpsOf(<<x>>, f) = {}
  BY <1>1, OneShaped
<1> QED BY <1>1, <1>2, <1>3

LEMMA SaveShaped ==
  ASSUME Types, NEW f \in File
  PROVE  /\ Shaped(Save(f), saves + 1)
         /\ \A g \in File : OpsOf(Save(f), g) = IF g = f THEN SaveOp ELSE {}
         /\ \A i \in 1 .. Len(Save(f)) : Save(f)[i].file = f /\ Save(f)[i].op \in SaveOp
<1>1. /\ Do("open", f) \in Statement /\ Do("open", f).op = "open"
      /\ Do("open", f).file = f /\ Do("open", f).v = saves + 1
      /\ Do("write", f) \in Statement /\ Do("write", f).op = "write"
      /\ Do("write", f).file = f /\ Do("write", f).v = saves + 1
      /\ Do("remove", f) \in Statement /\ Do("remove", f).op = "remove"
      /\ Do("remove", f).file = f /\ Do("remove", f).v = saves + 1
      /\ Do("copy", f) \in Statement /\ Do("copy", f).op = "copy"
      /\ Do("copy", f).file = f /\ Do("copy", f).v = saves + 1
  BY DoType DEF SaveOp
<1> DEFINE s == Save(f)
<1>2. /\ s \in Seq(Statement) /\ Len(s) = 4 /\ s[1] = Do("open", f)
      /\ s[2] = Do("write", f) /\ s[3] = Do("remove", f) /\ s[4] = Do("copy", f)
  BY <1>1 DEF Save
<1> HIDE DEF s
<1>3. \A i \in 1 .. Len(s) : i \in {1, 2, 3, 4}
  BY <1>2
<1>4. \A i \in 1 .. Len(s) : s[i].file = f /\ s[i].op \in SaveOp /\ s[i].v = saves + 1
  BY <1>1, <1>2, <1>3 DEF SaveOp
<1>5. Ordered(s)
  <2> SUFFICES ASSUME NEW i \in 1 .. Len(s), NEW j \in 1 .. Len(s), i < j
               PROVE  After(s[i].op, s[j].op)
    BY DEF Ordered
  <2>1. \/ i = 1 /\ j \in {2, 3, 4}
        \/ i = 2 /\ j \in {3, 4}
        \/ i = 3 /\ j = 4
    BY <1>3
  <2> QED BY <2>1, <1>1, <1>2 DEF After
<1>6. Together(s)
  <2> SUFFICES ASSUME NEW i \in 1 .. Len(s), s[i].op = "open", NEW k \in 1 .. 3
               PROVE  i + k \in 1 .. Len(s) /\ s[i + k].file = s[i].file
    BY DEF Together
  <2>1. i = 1
    BY <1>1, <1>2, <1>3
  <2> QED BY <2>1, <1>2, <1>4
<1>7. "log" \notin File /\ f # "log" /\ "message" \notin SaveOp
  BY DEF File, SaveOp
<1>8. LogLast(s) /\ Kinds(s, saves + 1)
  BY <1>4, <1>7 DEF LogLast, Kinds
<1>9. ASSUME NEW g \in File PROVE OpsOf(s, g) = IF g = f THEN SaveOp ELSE {}
  <2>1. CASE g = f
    <3>1. \A o \in SaveOp : \E i \in 1 .. Len(s) : s[i].op = o
      <4>1. 1 \in 1 .. Len(s) /\ 2 \in 1 .. Len(s) /\ 3 \in 1 .. Len(s) /\ 4 \in 1 .. Len(s)
        BY <1>2
      <4> QED BY <4>1, <1>1, <1>2 DEF SaveOp
    <3>2. \A o \in SaveOp : o \in OpsOf(s, g)
      BY <3>1, <1>4, <2>1 DEF OpsOf
    <3>3. \A o \in OpsOf(s, g) : o \in SaveOp
      BY <1>4 DEF OpsOf
    <3> QED BY <2>1, <3>2, <3>3
  <2>2. CASE g # f
    BY <1>4, <2>2 DEF OpsOf
  <2> QED BY <2>1, <2>2
<1> QED BY <1>2, <1>4, <1>5, <1>6, <1>8, <1>9 DEF Shaped, s

LEMMA DefaultShaped ==
  ASSUME Types, NEW f \in File
  PROVE  /\ Shaped(Default(f), saves + 1)
         /\ \A g \in File :
              OpsOf(Default(f), g) = IF g = f THEN {"clear", "rename", "default"} ELSE {}
         /\ \A i \in 1 .. Len(Default(f)) :
              Default(f)[i].file = f /\ Default(f)[i].op \in {"clear", "rename", "default"}
<1>1. /\ Do("clear", f) \in Statement /\ Do("clear", f).op = "clear"
      /\ Do("clear", f).file = f /\ Do("clear", f).v = saves + 1
      /\ Do("rename", f) \in Statement /\ Do("rename", f).op = "rename"
      /\ Do("rename", f).file = f /\ Do("rename", f).v = saves + 1
      /\ Do("default", f) \in Statement /\ Do("default", f).op = "default"
      /\ Do("default", f).file = f /\ Do("default", f).v = saves + 1
  BY DoType DEF ResetOp
<1> DEFINE s == Default(f)
           D == {"clear", "rename", "default"}
<1>2. /\ s \in Seq(Statement) /\ Len(s) = 3 /\ s[1] = Do("clear", f)
      /\ s[2] = Do("rename", f) /\ s[3] = Do("default", f)
  BY <1>1 DEF Default
<1> HIDE DEF s
<1>3. \A i \in 1 .. Len(s) : i \in {1, 2, 3}
  BY <1>2
<1>4. \A i \in 1 .. Len(s) : s[i].file = f /\ s[i].op \in D /\ s[i].v = saves + 1
  BY <1>1, <1>2, <1>3
<1>5. Ordered(s)
  <2> SUFFICES ASSUME NEW i \in 1 .. Len(s), NEW j \in 1 .. Len(s), i < j
               PROVE  After(s[i].op, s[j].op)
    BY DEF Ordered
  <2>1. \/ i = 1 /\ j \in {2, 3}
        \/ i = 2 /\ j = 3
    BY <1>3
  <2> QED BY <2>1, <1>1, <1>2 DEF After
<1>7. "log" \notin File /\ f # "log" /\ "message" \notin D /\ "open" \notin D /\ D \subseteq ResetOp
  BY DEF File, ResetOp
<1>8. LogLast(s) /\ Kinds(s, saves + 1) /\ Together(s)
  BY <1>4, <1>7 DEF LogLast, Kinds, Together
<1>9. ASSUME NEW g \in File PROVE OpsOf(s, g) = IF g = f THEN D ELSE {}
  <2>1. CASE g = f
    <3>1. \A o \in D : \E i \in 1 .. Len(s) : s[i].op = o
      <4>1. 1 \in 1 .. Len(s) /\ 2 \in 1 .. Len(s) /\ 3 \in 1 .. Len(s)
        BY <1>2
      <4> QED BY <4>1, <1>1, <1>2
    <3>2. \A o \in D : o \in OpsOf(s, g)
      BY <3>1, <1>4, <2>1 DEF OpsOf
    <3>3. \A o \in OpsOf(s, g) : o \in D
      BY <1>4 DEF OpsOf
    <3> QED BY <2>1, <3>2, <3>3
  <2>2. CASE g # f
    BY <1>4, <2>2 DEF OpsOf
  <2> QED BY <2>1, <2>2
<1> QED BY <1>2, <1>4, <1>5, <1>8, <1>9 DEF Shaped, s

(* The plans of the handlers. *)
LEMMA SaveStepsShaped ==
  ASSUME Types
  PROVE  /\ Shaped(SaveSteps, saves + 1)
         /\ \A f \in File : OpsOf(SaveSteps, f) = SaveOp
<1> DEFINE a == Save("system")
           b == Save("channels")
           c == Say(menu, saves + 1)
<1>1. "system" \in File /\ "channels" \in File /\ File = {"system", "channels"} /\ "log" \notin File
  BY DEF File
<1>2. /\ Shaped(a, saves + 1) /\ Shaped(b, saves + 1)
      /\ OpsOf(a, "system") = SaveOp /\ OpsOf(a, "channels") = {}
      /\ OpsOf(b, "channels") = SaveOp /\ OpsOf(b, "system") = {}
      /\ \A i \in 1 .. Len(a) : a[i].file = "system"
      /\ \A i \in 1 .. Len(b) : b[i].file = "channels"
  BY <1>1, SaveShaped
<1>3. /\ Shaped(c, saves + 1) /\ \A f \in File : OpsOf(c, f) = {}
      /\ \A i \in 1 .. Len(c) : c[i].file = "log"
  <2>1. saves + 1 \in Nat /\ menu \in Logger
    BY FilesAssumption DEF Types
  <2> QED BY <2>1, SayShaped
<1> HIDE DEF a, b, c
<1>4. /\ Shaped(a \o b, saves + 1)
      /\ \A f \in File : OpsOf(a \o b, f) = SaveOp
      /\ \A i \in 1 .. Len(a \o b) : (a \o b)[i].file \in File
  <2>1. /\ Shaped(a \o b, saves + 1)
        /\ \A f \in File : OpsOf(a \o b, f) = OpsOf(a, f) \cup OpsOf(b, f)
        /\ \A i \in 1 .. Len(a \o b) : \/ \E k \in 1 .. Len(a) : (a \o b)[i] = a[k]
                                       \/ \E k \in 1 .. Len(b) : (a \o b)[i] = b[k]
    <3>1. Continued(a, b)
      BY <1>1, <1>2 DEF Continued
    <3>2. Joined(a, b, saves + 1)
      BY <1>2, <3>1, JoinShaped
    <3> QED BY <3>2 DEF Joined
  <2>2. \A f \in File : OpsOf(a \o b, f) = SaveOp
    BY <1>1, <1>2, <2>1
  <2> QED BY <1>1, <1>2, <2>1, <2>2
<1>5. /\ Shaped((a \o b) \o c, saves + 1)
      /\ \A f \in File : OpsOf((a \o b) \o c, f) = SaveOp
  <2> DEFINE u == a \o b
  <2> HIDE DEF u
  <2>1. /\ Shaped(u, saves + 1) /\ \A f \in File : OpsOf(u, f) = SaveOp
        /\ \A i \in 1 .. Len(u) : u[i].file \in File
    BY <1>4 DEF u
  <2>2. /\ Shaped(u \o c, saves + 1)
        /\ \A f \in File : OpsOf(u \o c, f) = OpsOf(u, f) \cup OpsOf(c, f)
    <3>1. Continued(u, c)
      BY <1>1, <1>3, <2>1 DEF Continued
    <3>2. Joined(u, c, saves + 1)
      BY <1>3, <2>1, <3>1, JoinShaped
    <3> QED BY <3>2 DEF Joined
  <2> QED BY <1>3, <2>1, <2>2 DEF u
<1> QED BY <1>5 DEF SaveSteps, a, b, c

ResetSteps ==
  Default("channels") \o Default("system")
    \o <<Do("read", "channels"), Do("read", "system")>> \o Say(menu, 0)

LEMMA ResetStepsShaped ==
  ASSUME Types
  PROVE  /\ Shaped(ResetSteps, saves + 1)
         /\ \A f \in File : OpsOf(ResetSteps, f) = ResetOp
         /\ \A i \in 1 .. Len(ResetSteps) : ResetSteps[i].op = "message" => ResetSteps[i].v = 0
<1> DEFINE D == {"clear", "rename", "default"}
           a == Default("channels")
           b == Default("system")
           c == <<Do("read", "channels"), Do("read", "system")>>
           d == Say(menu, 0)
<1>1. "system" \in File /\ "channels" \in File /\ File = {"system", "channels"} /\ "log" \notin File
  BY DEF File
<1>2. /\ Shaped(a, saves + 1) /\ Shaped(b, saves + 1)
      /\ OpsOf(a, "system") = {} /\ OpsOf(a, "channels") = D
      /\ OpsOf(b, "channels") = {} /\ OpsOf(b, "system") = D
      /\ \A i \in 1 .. Len(a) : a[i].file = "channels" /\ a[i].op \in D
      /\ \A i \in 1 .. Len(b) : b[i].file = "system" /\ b[i].op \in D
  BY <1>1, DefaultShaped
<1>3. /\ Shaped(c, saves + 1) /\ \A f \in File : OpsOf(c, f) = {"read"}
      /\ \A i \in 1 .. Len(c) : c[i].file \in File /\ c[i].op = "read"
  <2> DEFINE x == Do("read", "channels")
             y == Do("read", "system")
  <2>1. /\ x \in Statement /\ x.op = "read" /\ x.file = "channels" /\ x.v = saves + 1
        /\ y \in Statement /\ y.op = "read" /\ y.file = "system" /\ y.v = saves + 1
    BY <1>1, DoType DEF ResetOp
  <2> HIDE DEF x, y
  <2>2. c \in Seq(Statement) /\ Len(c) = 2 /\ c[1] = x /\ c[2] = y
    BY <2>1 DEF x, y
  <2> HIDE DEF c
  <2>3. \A i \in 1 .. Len(c) : i \in {1, 2}
    BY <2>2
  <2>4. 1 \in 1 .. Len(c) /\ 2 \in 1 .. Len(c)
    BY <2>2
  <2>5. Ordered(c) /\ LogLast(c)
    BY <2>1, <2>2, <2>3 DEF Ordered, LogLast
  <2>6. Kinds(c, saves + 1) /\ Together(c)
    BY <2>1, <2>2, <2>3 DEF Kinds, Together, ResetOp
  <2>7. \A i \in 1 .. Len(c) : c[i].file \in File /\ c[i].op = "read"
    BY <1>1, <2>1, <2>2, <2>3
  <2>8. \A f \in File : OpsOf(c, f) = {"read"}
    BY <1>1, <2>1, <2>2, <2>4, <2>7 DEF OpsOf
  <2> QED BY <2>2, <2>5, <2>6, <2>7, <2>8 DEF Shaped
<1>4. /\ Shaped(d, saves + 1) /\ \A f \in File : OpsOf(d, f) = {}
      /\ \A i \in 1 .. Len(d) : d[i].file = "log" /\ d[i].v = 0
  <2>1. saves + 1 \in Nat /\ menu \in Logger
    BY FilesAssumption DEF Types
  <2> QED BY <2>1, SayShaped
<1> HIDE DEF a, b, c, d
<1>5. /\ Shaped(a \o b, saves + 1)
      /\ \A f \in File : OpsOf(a \o b, f) = D
      /\ \A i \in 1 .. Len(a \o b) : (a \o b)[i].file \in File /\ (a \o b)[i].op \in D
  <2> HIDE DEF D
  <2>1. /\ Shaped(a \o b, saves + 1)
        /\ \A f \in File : OpsOf(a \o b, f) = OpsOf(a, f) \cup OpsOf(b, f)
        /\ \A i \in 1 .. Len(a \o b) : \/ \E k \in 1 .. Len(a) : (a \o b)[i] = a[k]
                                       \/ \E k \in 1 .. Len(b) : (a \o b)[i] = b[k]
    <3>1. Continued(a, b)
      BY <1>1, <1>2 DEF Continued
    <3>2. Joined(a, b, saves + 1)
      BY <1>2, <3>1, JoinShaped
    <3> QED BY <3>2 DEF Joined
  <2>2. \A f \in File : OpsOf(a \o b, f) = D
    BY <1>1, <1>2, <2>1
  <2> QED BY <1>1, <1>2, <2>1, <2>2
<1>6. /\ Shaped((a \o b) \o c, saves + 1)
      /\ \A f \in File : OpsOf((a \o b) \o c, f) = ResetOp
      /\ \A i \in 1 .. Len((a \o b) \o c) :
            ((a \o b) \o c)[i].file \in File /\ ((a \o b) \o c)[i].op \in ResetOp
  <2>1. \A o \in D : After(o, "read")
    BY DEF After
  <2>2. D \cup {"read"} = ResetOp
    BY DEF ResetOp
  <2> DEFINE u == a \o b
  <2> HIDE DEF D, u
  <2>3. /\ Shaped(u, saves + 1) /\ \A f \in File : OpsOf(u, f) = D
        /\ \A i \in 1 .. Len(u) : u[i].file \in File /\ u[i].op \in D
    BY <1>5 DEF u
  <2>4. Continued(u, c)
    BY <1>1, <1>3, <2>1, <2>3 DEF Continued
  <2>5. /\ Shaped(u \o c, saves + 1)
        /\ \A f \in File : OpsOf(u \o c, f) = OpsOf(u, f) \cup OpsOf(c, f)
        /\ \A i \in 1 .. Len(u \o c) : \/ \E k \in 1 .. Len(u) : (u \o c)[i] = u[k]
                                       \/ \E k \in 1 .. Len(c) : (u \o c)[i] = c[k]
    <3>1. Joined(u, c, saves + 1)
      BY <1>3, <2>3, <2>4, JoinShaped
    <3> QED BY <3>1 DEF Joined
  <2>6. \A f \in File : OpsOf(u \o c, f) = ResetOp
    BY <1>3, <2>2, <2>3, <2>5
  <2>7. D \subseteq ResetOp /\ "read" \in ResetOp
    BY <2>2
  <2>8. \A i \in 1 .. Len(u \o c) : (u \o c)[i].file \in File /\ (u \o c)[i].op \in ResetOp
    BY <1>3, <2>3, <2>5, <2>7
  <2> QED BY <2>5, <2>6, <2>8 DEF u
<1>7. /\ Shaped(((a \o b) \o c) \o d, saves + 1)
      /\ \A f \in File : OpsOf(((a \o b) \o c) \o d, f) = ResetOp
      /\ \A i \in 1 .. Len(((a \o b) \o c) \o d) :
            \/ (((a \o b) \o c) \o d)[i].op \in ResetOp
            \/ (((a \o b) \o c) \o d)[i].v = 0
  <2> DEFINE u == (a \o b) \o c
  <2> HIDE DEF u
  <2>1. /\ Shaped(u, saves + 1) /\ \A f \in File : OpsOf(u, f) = ResetOp
        /\ \A i \in 1 .. Len(u) : u[i].file \in File /\ u[i].op \in ResetOp
    BY <1>6 DEF u
  <2>2. /\ Shaped(u \o d, saves + 1)
        /\ \A f \in File : OpsOf(u \o d, f) = OpsOf(u, f) \cup OpsOf(d, f)
        /\ \A i \in 1 .. Len(u \o d) : \/ \E k \in 1 .. Len(u) : (u \o d)[i] = u[k]
                                       \/ \E k \in 1 .. Len(d) : (u \o d)[i] = d[k]
    <3>1. Continued(u, d)
      BY <1>1, <1>4, <2>1 DEF Continued
    <3>2. Joined(u, d, saves + 1)
      BY <1>4, <2>1, <3>1, JoinShaped
    <3> QED BY <3>2 DEF Joined
  <2>3. \A f \in File : OpsOf(u \o d, f) = ResetOp
    BY <1>4, <2>1, <2>2
  <2> QED BY <1>4, <2>1, <2>2, <2>3 DEF u
<1> QED BY <1>7 DEF ResetSteps, ResetOp, a, b, c, d

-----------------------------------------------------------------------------
(* Steps.                                                                  *)

Inv == Types /\ Planned /\ (\A f \in File : FileOK(f)) /\ LogOK

(* What a step leaves of a file that it does not work on. *)
SameFile(f) ==
  /\ main'[f] = main[f] /\ backup'[f] = backup[f] /\ safe'[f] = safe[f]
  /\ kept'[f] = kept[f] /\ torn'[f] = torn[f] /\ bare'[f] = bare[f]
  /\ refused'[f] = refused[f] /\ Ops(f)' = Ops(f)

LEMMA SameOK ==
  ASSUME NEW f \in File, SameFile(f), saves' = saves, up' => up
  PROVE  /\ FileOK(f) => FileOK(f)'
         /\ \A v : Reported(f, v) => Reported(f, v)'
<1>1. Used(f)' = Used(f) /\ (Good(f)' <=> Good(f)) /\ (Untouched(f)' <=> Untouched(f))
  BY DEF SameFile, Used, Good, Untouched
<1>2. FileOK(f) => FileOK(f)'
  BY <1>1 DEF SameFile, FileOK
<1> QED BY <1>2 DEF SameFile, Reported

(* What either file holds after a step it has held before, or is new. *)
Succeeds(f) ==
  /\ main'[f] \in {main[f], backup[f], Whole(saves)} \/ ~IsWhole(main'[f])
  /\ backup'[f] \in {main[f], backup[f], Whole(saves)} \/ ~IsWhole(backup'[f])
  /\ refused[f] \subseteq refused'[f]

LEMMA SucceedsOK ==
  ASSUME NEW f \in File, Succeeds(f), NEW v \in Nat, saves \in Nat, v <= saves, Reported(f, v)
  PROVE  Reported(f, v)'
<1>1. Whole(saves).v = saves
  BY DEF Whole
<1> QED BY <1>1 DEF Succeeds, Reported, IsWhole

(* The statement at the head of the plan, and those of its file. *)
LEMMA PlanHead ==
  ASSUME Inv, plan # <<>>, Head(plan).op \in SaveOp \cup ResetOp
  PROVE  LET do == Head(plan) f == Head(plan).file
         IN /\ Shaped(plan, saves) /\ up
            /\ f \in File /\ do.v = saves /\ kept[f] = {safe[f], saves} /\ FileOK(f)
            /\ do.op = "open" => Ops(f) = SaveOp
            /\ do.op = "write" => Ops(f) = {"write", "remove", "copy"}
            /\ do.op = "remove" => Ops(f) = {"remove", "copy"}
            /\ do.op = "copy" => Ops(f) = {"copy"}
            /\ do.op = "clear" => Ops(f) = ResetOp
            /\ do.op = "rename" => Ops(f) = {"rename", "default", "read"}
            /\ do.op = "default" => Ops(f) = {"default", "read"}
            /\ do.op = "read" => Ops(f) = {"read"}
<1> DEFINE do == Head(plan)
           f == Head(plan).file
<1>1. Shaped(plan, saves) /\ up
  BY DEF Inv, Types, Planned, Shaped
<1>2. do \in Statement /\ do = plan[1] /\ 1 \in 1 .. Len(plan)
  <2>1. Len(plan) \in Nat \ {0} /\ Head(plan) = plan[1] /\ Head(plan) \in Statement
    BY <1>1, RestShaped
  <2> QED BY <2>1
<1>3. f \in File /\ do.v = saves
  <2>1. f \in File \cup {"log"}
    BY <1>2 DEF Statement
  <2>2. f # "log"
    BY <1>1, <1>2 DEF Shaped, Kinds, LogOp, SaveOp, ResetOp
  <2> QED BY <1>1, <1>2, <2>1, <2>2 DEF Shaped, Kinds
<1>4. do.op \in Ops(f) /\ \A o \in Ops(f) : o = do.op \/ After(do.op, o)
  BY <1>1, <1>3, RestOps DEF Ops
<1>5. Ops(f) \in Chains /\ kept[f] = {safe[f], saves} /\ FileOK(f)
  BY <1>3, <1>4 DEF Inv, Planned, FileOK
<1> QED BY <1>1, <1>3, <1>4, <1>5, ChainHead

LEMMA SettingHead ==
  ASSUME Inv, SettingsStep
  PROVE  LET do == Head(plan) f == Head(plan).file
         IN /\ plan # <<>> /\ Shaped(plan, saves) /\ up /\ up' = up /\ saves' = saves
            /\ f \in File /\ do.v = saves /\ kept[f] = {safe[f], saves} /\ FileOK(f)
            /\ do.op = "open" => Ops(f) = SaveOp
            /\ do.op = "write" => Ops(f) = {"write", "remove", "copy"}
            /\ do.op = "remove" => Ops(f) = {"remove", "copy"}
            /\ do.op = "copy" => Ops(f) = {"copy"}
            /\ do.op = "clear" => Ops(f) = ResetOp
            /\ do.op = "rename" => Ops(f) = {"rename", "default", "read"}
            /\ do.op = "default" => Ops(f) = {"default", "read"}
            /\ do.op = "read" => Ops(f) = {"read"}
<1>1. plan # <<>> /\ up' = up /\ saves' = saves /\ Head(plan).op \in SaveOp \cup ResetOp
  BY DEF SettingsStep, SaveOp, ResetOp
<1> QED BY <1>1, PlanHead

(* What a statement does to the plan: it goes, or the save is given up. *)
LEMMA SettingPlan ==
  ASSUME Inv, SettingsStep, NEW f \in File, f = Head(plan).file, plan' = Tail(plan)
  PROVE  /\ Shaped(plan', saves)
         /\ Ops(f)' = Ops(f) \ {Head(plan).op}
         /\ \A g \in File : g # f => Ops(g)' = Ops(g)
         /\ \A i \in 1 .. Len(plan') : \E k \in 1 .. Len(plan) : plan'[i] = plan[k]
<1>1. plan # <<>> /\ Shaped(plan, saves)
  BY SettingHead
<1>2. Shaped(plan', saves)
  BY <1>1, RestShaped
<1>3. \A i \in 1 .. Len(plan') : i + 1 \in 1 .. Len(plan) /\ plan'[i] = plan[i + 1]
  BY <1>1, RestShaped
<1>4. OpsOf(plan', f) = OpsOf(plan, f) \ {Head(plan).op}
  BY <1>1, RestOps
<1>5. \A g \in File : g # f => OpsOf(plan', g) = OpsOf(plan, g)
  BY <1>1, RestOps
<1> QED BY <1>2, <1>3, <1>4, <1>5 DEF Ops

LEMMA SettingSkip ==
  ASSUME Inv, SettingsStep, NEW f \in File, f = Head(plan).file,
         Head(plan).op = "open", plan' = SubSeq(plan, 5, Len(plan))
  PROVE  /\ Shaped(plan', saves)
         /\ Ops(f)' = {}
         /\ \A g \in File : g # f => Ops(g)' = Ops(g)
         /\ \A i \in 1 .. Len(plan') : \E k \in 1 .. Len(plan) : plan'[i] = plan[k]
<1>1. plan # <<>> /\ Shaped(plan, saves)
  BY SettingHead
<1>2. /\ Shaped(plan', saves)
      /\ \A i \in 1 .. Len(plan') : i + 4 \in 1 .. Len(plan) /\ plan'[i] = plan[i + 4]
      /\ OpsOf(plan', f) = {}
      /\ \A g \in File : g # f => OpsOf(plan', g) = OpsOf(plan, g)
  BY <1>1, SkipShaped
<1> QED BY <1>2 DEF Ops

(* Each statement leads its file from one stage to the next. *)
FileStep(f) ==
  /\ FileOK(f)' /\ Succeeds(f)
  /\ Ops(f)' = {} /\ Ops(f) \subseteq SaveOp => Reported(f, saves)'
  /\ Ops(f)' \in Chains
  /\ main'[f] \in Content /\ backup'[f] \in Content /\ safe'[f] \in Nat
  /\ kept'[f] \in SUBSET Nat /\ torn'[f] \in BOOLEAN /\ bare'[f] \in BOOLEAN
  /\ refused'[f] \in SUBSET Nat

LEMMA ContentType ==
  ASSUME Types
  PROVE  /\ Whole(saves) \in Content /\ IsWhole(Whole(saves)) /\ Whole(saves).v = saves
         /\ \A x \in {"part", "empty", "none"} :
              Bad(x) \in Content /\ ~IsWhole(Bad(x)) /\ Bad(x).text = x
         /\ Whole(saves).text = "whole"
  BY DEF Types, Content, Whole, Bad, IsWhole

LEMMA OpenStep ==
  ASSUME Inv, SettingsStep, NEW f \in File, f = Head(plan).file,
         Head(plan).op = "open", Open(f, Head(plan).v)
  PROVE  FileStep(f)
<1>1. /\ up /\ up' = up /\ saves' = saves /\ f \in File /\ Head(plan).v = saves
      /\ kept[f] = {safe[f], saves} /\ FileOK(f) /\ Ops(f) = SaveOp
  BY SettingHead
<1>2. /\ main[f] \in Content /\ backup[f] \in Content /\ safe[f] \in Nat /\ saves \in Nat
      /\ kept[f] \in SUBSET Nat /\ torn[f] \in BOOLEAN /\ bare[f] \in BOOLEAN
      /\ refused[f] \in SUBSET Nat
  BY <1>1 DEF Inv, Types
<1>3. CASE plan' = Tail(plan) /\ main' = Put(main, f, Bad("empty"))
             /\ bare' = [bare EXCEPT ![f] = backup[f] # Whole(safe[f])]
             /\ UNCHANGED <<backup, mem, safe, kept, torn, refused>>
  <2>1. Ops(f)' = {"write", "remove", "copy"}
    BY <1>1, <1>3, SettingPlan DEF SaveOp
  <2>2. /\ main'[f] = Bad("empty") /\ backup'[f] = backup[f] /\ safe'[f] = safe[f]
        /\ kept'[f] = kept[f] /\ torn'[f] = torn[f] /\ refused'[f] = refused[f]
        /\ bare'[f] = (backup[f] # Whole(safe[f]))
    BY <1>1, <1>3 DEF Inv, Types, Put
  <2>3. Bad("empty") \in Content /\ ~IsWhole(Bad("empty")) /\ Bad("empty").text = "empty"
    BY ContentType DEF Inv
  <2>4. IsWhole(Whole(safe[f])) /\ Whole(safe[f]).v = safe[f]
    BY DEF IsWhole, Whole
  <2>5. /\ "open" \notin Ops(f)' /\ "clear" \notin Ops(f)' /\ "rename" \notin Ops(f)'
        /\ "default" \notin Ops(f)' /\ "write" \in Ops(f)' /\ Ops(f)' # {}
        /\ Ops(f)' # {"copy"} /\ Ops(f)' # {"read"}
    BY <2>1
  <2>6. ~bare'[f] => backup[f] = Whole(safe[f])
    BY <2>2
  <2>7. Used(f)' = backup[f] /\ (Good(f)' => ~bare'[f]) /\ ~Untouched(f)'
    BY <2>2, <2>3, <2>5 DEF Used, Good, Untouched
  <2>8. FileOK(f)'
    BY <1>1, <2>2, <2>4, <2>5, <2>6, <2>7 DEF FileOK
  <2> QED BY <1>2, <2>1, <2>2, <2>3, <2>8 DEF FileStep, Succeeds, Chains
<1>4. CASE plan' = SubSeq(plan, 5, Len(plan))
             /\ refused' = [refused EXCEPT ![f] = @ \cup {saves}]
             /\ UNCHANGED <<main, backup, mem, safe, kept, torn, bare>>
  <2>1. Ops(f)' = {}
    BY <1>1, <1>4, SettingSkip
  <2>2. /\ main'[f] = main[f] /\ backup'[f] = backup[f] /\ safe'[f] = safe[f]
        /\ kept'[f] = kept[f] /\ torn'[f] = torn[f] /\ bare'[f] = bare[f]
        /\ refused'[f] = refused[f] \cup {saves}
    BY <1>1, <1>4 DEF Inv, Types
  <2>3. "open" \in Ops(f)
    BY <1>1 DEF SaveOp
  <2>4. FileOK(f)'
    BY <1>1, <2>1, <2>2, <2>3 DEF FileOK, Good, Used, Untouched
  <2>5. Reported(f, saves)'
    BY <1>1, <2>2 DEF Reported
  <2> QED BY <1>2, <2>1, <2>2, <2>4, <2>5 DEF FileStep, Succeeds, Chains
<1> QED BY <1>1, <1>3, <1>4 DEF Open, Next1

LEMMA WriteStep ==
  ASSUME Inv, SettingsStep, NEW f \in File, f = Head(plan).file,
         Head(plan).op = "write", Write(f, Head(plan).v)
  PROVE  FileStep(f)
<1>1. /\ up /\ up' = up /\ saves' = saves /\ f \in File /\ Head(plan).v = saves
      /\ kept[f] = {safe[f], saves} /\ FileOK(f) /\ Ops(f) = {"write", "remove", "copy"}
  BY SettingHead
<1>2. /\ main[f] \in Content /\ backup[f] \in Content /\ safe[f] \in Nat /\ saves \in Nat
      /\ kept[f] \in SUBSET Nat /\ torn[f] \in BOOLEAN /\ bare[f] \in BOOLEAN
      /\ refused[f] \in SUBSET Nat
  BY <1>1 DEF Inv, Types
<1>3. plan' = Tail(plan)
  BY DEF Write, Next1
<1>4. Ops(f)' = {"remove", "copy"}
  BY <1>1, <1>3, SettingPlan
<1>5. /\ backup'[f] = backup[f] /\ safe'[f] = safe[f] /\ bare'[f] = bare[f]
      /\ kept'[f] = kept[f] /\ refused'[f] = refused[f]
      /\ \/ main'[f] = Whole(saves) /\ torn'[f] = torn[f]
         \/ main'[f] \in {Bad("empty"), Bad("part")} /\ torn'[f] = TRUE
  BY <1>1 DEF Write, Put, Inv, Types
<1>6. /\ Whole(saves) \in Content /\ IsWhole(Whole(saves)) /\ Whole(saves).v = saves
      /\ Whole(saves).text = "whole"
      /\ Bad("empty") \in Content /\ ~IsWhole(Bad("empty"))
      /\ Bad("part") \in Content /\ ~IsWhole(Bad("part"))
  BY ContentType DEF Inv
<1>7. FileOK(f)'
  BY <1>1, <1>4, <1>5, <1>6 DEF FileOK, Good, Used, Untouched
<1> QED BY <1>2, <1>4, <1>5, <1>6, <1>7 DEF FileStep, Succeeds, Chains

LEMMA RemoveStep ==
  ASSUME Inv, SettingsStep, NEW f \in File, f = Head(plan).file,
         Head(plan).op = "remove", RemoveBackup(f)
  PROVE  FileStep(f)
<1>1. /\ up /\ up' = up /\ saves' = saves /\ f \in File /\ Head(plan).v = saves
      /\ kept[f] = {safe[f], saves} /\ FileOK(f) /\ Ops(f) = {"remove", "copy"}
  BY SettingHead
<1>2. /\ main[f] \in Content /\ backup[f] \in Content /\ safe[f] \in Nat /\ saves \in Nat
      /\ kept[f] \in SUBSET Nat /\ torn[f] \in BOOLEAN /\ bare[f] \in BOOLEAN
      /\ refused[f] \in SUBSET Nat
  BY <1>1 DEF Inv, Types
<1>3. plan' = Tail(plan)
  BY DEF RemoveBackup, Next1
<1>4. Ops(f)' = {"copy"}
  BY <1>1, <1>3, SettingPlan
<1>5. /\ main'[f] = main[f] /\ safe'[f] = safe[f] /\ bare'[f] = bare[f] /\ torn'[f] = torn[f]
      /\ kept'[f] = kept[f] /\ refused'[f] = refused[f] /\ backup'[f] = Bad("none")
  BY <1>1 DEF RemoveBackup, Put, Inv, Types
<1>6. /\ Whole(saves) \in Content /\ IsWhole(Whole(saves)) /\ Whole(saves).v = saves
      /\ Whole(saves).text = "whole"
      /\ Bad("none") \in Content /\ ~IsWhole(Bad("none"))
  BY ContentType DEF Inv
<1>7. FileOK(f)'
  BY <1>1, <1>4, <1>5, <1>6 DEF FileOK, Good, Used, Untouched
<1> QED BY <1>2, <1>4, <1>5, <1>6, <1>7 DEF FileStep, Succeeds, Chains

LEMMA CopyStep ==
  ASSUME Inv, SettingsStep, NEW f \in File, f = Head(plan).file,
         Head(plan).op = "copy", Copy(f, Head(plan).v)
  PROVE  FileStep(f)
<1>1. /\ up /\ up' = up /\ saves' = saves /\ f \in File /\ Head(plan).v = saves
      /\ kept[f] = {safe[f], saves} /\ FileOK(f) /\ Ops(f) = {"copy"}
  BY SettingHead
<1>2. /\ main[f] \in Content /\ backup[f] \in Content /\ safe[f] \in Nat /\ saves \in Nat
      /\ kept[f] \in SUBSET Nat /\ torn[f] \in BOOLEAN /\ bare[f] \in BOOLEAN
      /\ refused[f] \in SUBSET Nat
  BY <1>1 DEF Inv, Types
<1>3. plan' = Tail(plan)
  BY DEF Copy, Next1
<1>4. Ops(f)' = {}
  BY <1>1, <1>3, SettingPlan
<1>5. /\ main'[f] = main[f] /\ refused'[f] = refused[f]
      /\ backup'[f] = main[f] \/ backup'[f] = backup[f]
      /\ safe'[f] = IF main[f] = Whole(saves) THEN saves ELSE safe[f]
      /\ kept'[f] = IF main[f] = Whole(saves) THEN {saves} ELSE kept[f]
      /\ torn'[f] = (torn[f] /\ main[f] # Whole(saves))
      /\ bare'[f] = (bare[f] /\ main[f] # Whole(saves))
  BY <1>1 DEF Copy, Ended, Put, Inv, Types
<1>6. /\ Whole(saves) \in Content /\ IsWhole(Whole(saves)) /\ Whole(saves).v = saves
      /\ Whole(saves).text = "whole"
      /\ Bad("none") \in Content /\ ~IsWhole(Bad("none"))
  BY ContentType DEF Inv
<1>7. /\ main[f] = Whole(saves) \/ (torn[f] /\ ~IsWhole(main[f]))
      /\ backup[f] = Bad("none")
  BY <1>1 DEF FileOK
<1>8. FileOK(f)'
  <2>1. CASE main[f] = Whole(saves)
    <3>1. Used(f)' = Whole(saves) /\ safe'[f] = saves /\ kept'[f] = {saves}
      BY <1>5, <1>6, <2>1 DEF Used
    <3> QED BY <3>1, <1>4, <1>6 DEF FileOK
  <2>2. CASE torn[f] /\ main[f] # Whole(saves)
    <3>1. ~Good(f)'
      BY <1>5, <2>2 DEF Good
    <3> QED BY <3>1, <1>4 DEF FileOK
  <2> QED BY <2>1, <2>2, <1>6, <1>7
<1>9. Reported(f, saves)'
  BY <1>1, <1>2, <1>5, <1>6, <1>7 DEF Reported
<1> QED BY <1>2, <1>4, <1>5, <1>6, <1>7, <1>8, <1>9 DEF FileStep, Succeeds, Chains

LEMMA ClearStep ==
  ASSUME Inv, SettingsStep, NEW f \in File, f = Head(plan).file,
         Head(plan).op = "clear", Clear(f)
  PROVE  FileStep(f)
<1>1. /\ up /\ up' = up /\ saves' = saves /\ f \in File /\ Head(plan).v = saves
      /\ kept[f] = {safe[f], saves} /\ FileOK(f) /\ Ops(f) = ResetOp
  BY SettingHead
<1>2. /\ main[f] \in Content /\ backup[f] \in Content /\ safe[f] \in Nat /\ saves \in Nat
      /\ kept[f] \in SUBSET Nat /\ torn[f] \in BOOLEAN /\ bare[f] \in BOOLEAN
      /\ refused[f] \in SUBSET Nat
  BY <1>1 DEF Inv, Types
<1>3. plan' = Tail(plan)
  BY DEF Clear, Next1
<1>4. Ops(f)' = {"rename", "default", "read"}
  BY <1>1, <1>3, SettingPlan DEF ResetOp
<1>5. /\ main'[f] = main[f] /\ safe'[f] = safe[f] /\ torn'[f] = torn[f]
      /\ kept'[f] = kept[f] /\ refused'[f] = refused[f] /\ backup'[f] = Bad("none")
      /\ bare'[f] = (main[f] # Whole(safe[f]))
  BY <1>1 DEF Clear, Put, Inv, Types
<1>6. /\ IsWhole(Whole(safe[f])) /\ Whole(safe[f]).v = safe[f]
      /\ Whole(safe[f]).text = "whole"
      /\ Bad("none") \in Content /\ ~IsWhole(Bad("none"))
  <2>1. Bad("none") \in Content /\ ~IsWhole(Bad("none"))
    BY ContentType DEF Inv
  <2> QED BY <2>1 DEF IsWhole, Whole
<1>7. FileOK(f)'
  <2>1. /\ "open" \notin Ops(f)' /\ "clear" \notin Ops(f)' /\ "rename" \in Ops(f)'
        /\ "write" \notin Ops(f)' /\ "copy" \notin Ops(f)' /\ Ops(f)' # {}
        /\ Ops(f)' # {"copy"} /\ Ops(f)' # {"read"}
    BY <1>4
  <2>2. ~bare'[f] => main[f] = Whole(safe[f])
    BY <1>5
  <2>3. Good(f)' => ~bare'[f] /\ Used(f)' = Whole(safe[f])
    BY <1>5, <1>6, <2>2 DEF Good, Used
  <2>4. ~Untouched(f)'
    BY <2>1 DEF Untouched
  <2> QED BY <1>1, <1>5, <1>6, <2>1, <2>2, <2>3, <2>4 DEF FileOK
<1> QED BY <1>1, <1>2, <1>4, <1>5, <1>6, <1>7 DEF FileStep, Succeeds, Chains

LEMMA RenameStep ==
  ASSUME Inv, SettingsStep, NEW f \in File, f = Head(plan).file,
         Head(plan).op = "rename", Rename(f)
  PROVE  FileStep(f)
<1>1. /\ up /\ up' = up /\ saves' = saves /\ f \in File /\ Head(plan).v = saves
      /\ kept[f] = {safe[f], saves} /\ FileOK(f) /\ Ops(f) = {"rename", "default", "read"}
  BY SettingHead
<1>2. /\ main[f] \in Content /\ backup[f] \in Content /\ safe[f] \in Nat /\ saves \in Nat
      /\ kept[f] \in SUBSET Nat /\ torn[f] \in BOOLEAN /\ bare[f] \in BOOLEAN
      /\ refused[f] \in SUBSET Nat
  BY <1>1 DEF Inv, Types
<1>3. plan' = Tail(plan)
  BY DEF Rename, Next1
<1>4. Ops(f)' = {"default", "read"}
  BY <1>1, <1>3, SettingPlan
<1>5. /\ main'[f] = Bad("none") /\ safe'[f] = safe[f] /\ torn'[f] = torn[f]
      /\ kept'[f] = kept[f] /\ refused'[f] = refused[f] /\ backup'[f] = main[f]
      /\ bare'[f] = bare[f]
  BY <1>1 DEF Rename, Put, Inv, Types
<1>6. /\ IsWhole(Whole(safe[f])) /\ Whole(safe[f]).v = safe[f]
      /\ Bad("none") \in Content /\ ~IsWhole(Bad("none")) /\ Bad("none").text = "none"
  <2>1. Bad("none") \in Content /\ ~IsWhole(Bad("none")) /\ Bad("none").text = "none"
    BY ContentType DEF Inv
  <2> QED BY <2>1 DEF IsWhole, Whole
<1>7. FileOK(f)'
  BY <1>1, <1>4, <1>5, <1>6 DEF FileOK, Good, Used, Untouched
<1> QED BY <1>1, <1>2, <1>4, <1>5, <1>6, <1>7 DEF FileStep, Succeeds, Chains

LEMMA DefaultStep ==
  ASSUME Inv, SettingsStep, NEW f \in File, f = Head(plan).file,
         Head(plan).op = "default", CopyDefault(f, Head(plan).v)
  PROVE  FileStep(f)
<1>1. /\ up /\ up' = up /\ saves' = saves /\ f \in File /\ Head(plan).v = saves
      /\ kept[f] = {safe[f], saves} /\ FileOK(f) /\ Ops(f) = {"default", "read"}
  BY SettingHead
<1>2. /\ main[f] \in Content /\ backup[f] \in Content /\ safe[f] \in Nat /\ saves \in Nat
      /\ kept[f] \in SUBSET Nat /\ torn[f] \in BOOLEAN /\ bare[f] \in BOOLEAN
      /\ refused[f] \in SUBSET Nat
  BY <1>1 DEF Inv, Types
<1>3. plan' = Tail(plan)
  BY DEF CopyDefault, Next1
<1>4. Ops(f)' = {"read"}
  BY <1>1, <1>3, SettingPlan
<1>5. /\ main'[f] = Whole(saves) \/ main'[f] = main[f]
      /\ safe'[f] = safe[f] /\ torn'[f] = torn[f] /\ bare'[f] = bare[f]
      /\ kept'[f] = kept[f] /\ refused'[f] = refused[f] /\ backup'[f] = backup[f]
  BY <1>1 DEF CopyDefault, Put, Inv, Types
<1>6. /\ IsWhole(Whole(safe[f])) /\ Whole(safe[f]).v = safe[f]
      /\ Whole(saves) \in Content /\ IsWhole(Whole(saves)) /\ Whole(saves).v = saves
      /\ Whole(saves).text = "whole"
      /\ Bad("none") \in Content /\ ~IsWhole(Bad("none")) /\ Bad("none").text = "none"
  <2>1. /\ Bad("none") \in Content /\ ~IsWhole(Bad("none")) /\ Bad("none").text = "none"
        /\ Whole(saves) \in Content /\ IsWhole(Whole(saves)) /\ Whole(saves).v = saves
        /\ Whole(saves).text = "whole"
    BY ContentType DEF Inv
  <2> QED BY <2>1 DEF IsWhole, Whole
<1>7. FileOK(f)'
  BY <1>1, <1>4, <1>5, <1>6 DEF FileOK, Good, Used, Untouched
<1> QED BY <1>1, <1>2, <1>4, <1>5, <1>6, <1>7 DEF FileStep, Succeeds, Chains

LEMMA ReadStep ==
  ASSUME Inv, SettingsStep, NEW f \in File, f = Head(plan).file,
         Head(plan).op = "read", Read(f, Head(plan).v)
  PROVE  FileStep(f)
<1>1. /\ up /\ up' = up /\ saves' = saves /\ f \in File /\ Head(plan).v = saves
      /\ kept[f] = {safe[f], saves} /\ FileOK(f) /\ Ops(f) = {"read"}
  BY SettingHead
<1>2. /\ main[f] \in Content /\ backup[f] \in Content /\ safe[f] \in Nat /\ saves \in Nat
      /\ kept[f] \in SUBSET Nat /\ torn[f] \in BOOLEAN /\ bare[f] \in BOOLEAN
      /\ refused[f] \in SUBSET Nat
  BY <1>1 DEF Inv, Types
<1>3. plan' = Tail(plan)
  BY DEF Read, Next1
<1>4. Ops(f)' = {}
  BY <1>1, <1>3, SettingPlan
<1>5. /\ main'[f] = main[f] /\ refused'[f] = refused[f] /\ backup'[f] = backup[f]
      /\ safe'[f] = IF main[f] = Whole(saves) THEN saves ELSE safe[f]
      /\ kept'[f] = IF main[f] = Whole(saves) THEN {saves} ELSE kept[f]
      /\ torn'[f] = (torn[f] /\ main[f] # Whole(saves))
      /\ bare'[f] = (bare[f] /\ main[f] # Whole(saves))
  BY <1>1 DEF Read, Ended, Inv, Types
<1>6. /\ IsWhole(Whole(safe[f])) /\ Whole(safe[f]).v = safe[f]
      /\ IsWhole(Whole(saves)) /\ Whole(saves).v = saves /\ Whole(saves).text = "whole"
      /\ ~IsWhole(Bad("none")) /\ Bad("none").text = "none"
  <2>1. /\ ~IsWhole(Bad("none")) /\ Bad("none").text = "none"
        /\ IsWhole(Whole(saves)) /\ Whole(saves).v = saves /\ Whole(saves).text = "whole"
    BY ContentType DEF Inv
  <2> QED BY <2>1 DEF IsWhole, Whole
<1>7. "read" \notin SaveOp
  BY DEF SaveOp
<1>8. FileOK(f)'
  <2>1. CASE main[f] = Whole(saves)
    <3>1. Used(f)' = Whole(saves) /\ safe'[f] = saves /\ kept'[f] = {saves}
      BY <1>5, <1>6, <2>1 DEF Used
    <3> QED BY <3>1, <1>4, <1>6 DEF FileOK
  <2>2. CASE main[f] = Bad("none")
    <3>1. /\ Used(f)' = backup[f] /\ safe'[f] = safe[f] /\ kept'[f] = {safe[f], saves}
          /\ (Good(f)' => ~bare[f])
      BY <1>1, <1>5, <1>6, <2>2 DEF Used, Good
    <3>2. ~bare[f] => backup[f] = Whole(safe[f])
      BY <1>1, <1>6, <2>2 DEF FileOK
    <3> QED BY <3>1, <3>2, <1>4, <1>6 DEF FileOK
  <2>3. main[f] = Whole(saves) \/ main[f] = Bad("none")
    BY <1>1 DEF FileOK
  <2> QED BY <2>1, <2>2, <2>3
<1> QED BY <1>1, <1>2, <1>4, <1>5, <1>6, <1>7, <1>8 DEF FileStep, Succeeds, Chains

-----------------------------------------------------------------------------
(* A statement on a file of settings keeps the invariant. *)

OneFile(f) ==
  /\ main' = [main EXCEPT ![f] = main'[f]] /\ backup' = [backup EXCEPT ![f] = backup'[f]]
  /\ safe' = [safe EXCEPT ![f] = safe'[f]] /\ kept' = [kept EXCEPT ![f] = kept'[f]]
  /\ torn' = [torn EXCEPT ![f] = torn'[f]] /\ bare' = [bare EXCEPT ![f] = bare'[f]]
  /\ refused' = [refused EXCEPT ![f] = refused'[f]]

SettingDone(f) ==
  /\ FileStep(f) /\ OneFile(f)
  /\ \/ plan' = Tail(plan)
     \/ Head(plan).op = "open" /\ plan' = SubSeq(plan, 5, Len(plan))

LEMMA SettingEffect ==
  ASSUME Inv, SettingsStep, NEW f \in File, f = Head(plan).file
  PROVE  SettingDone(f)
<1> DEFINE v == Head(plan).v
<1>1. Types
  BY DEF Inv
<1>2. CASE Head(plan).op = "open" /\ Open(f, v)
  <2>1. FileStep(f)
    BY <1>2, OpenStep
  <2>2. OneFile(f)
    BY <1>1, <1>2 DEF Open, Put, OneFile, Types
  <2> QED BY <1>2, <2>1, <2>2 DEF SettingDone, Open, Next1
<1>3. CASE Head(plan).op = "write" /\ Write(f, v)
  <2>1. FileStep(f)
    BY <1>3, WriteStep
  <2>2. OneFile(f)
    BY <1>1, <1>3 DEF Write, Put, OneFile, Types
  <2> QED BY <1>3, <2>1, <2>2 DEF SettingDone, Write, Next1
<1>4. CASE Head(plan).op = "remove" /\ RemoveBackup(f)
  <2>1. FileStep(f)
    BY <1>4, RemoveStep
  <2>2. OneFile(f)
    BY <1>1, <1>4 DEF RemoveBackup, Put, OneFile, Types
  <2> QED BY <1>4, <2>1, <2>2 DEF SettingDone, RemoveBackup, Next1
<1>5. CASE Head(plan).op = "copy" /\ Copy(f, v)
  <2>1. FileStep(f)
    BY <1>5, CopyStep
  <2>2. OneFile(f)
    BY <1>1, <1>5 DEF Copy, Ended, Put, OneFile, Types
  <2> QED BY <1>5, <2>1, <2>2 DEF SettingDone, Copy, Next1
<1>6. CASE Head(plan).op = "clear" /\ Clear(f)
  <2>1. FileStep(f)
    BY <1>6, ClearStep
  <2>2. OneFile(f)
    BY <1>1, <1>6 DEF Clear, Put, OneFile, Types
  <2> QED BY <1>6, <2>1, <2>2 DEF SettingDone, Clear, Next1
<1>7. CASE Head(plan).op = "rename" /\ Rename(f)
  <2>1. FileStep(f)
    BY <1>7, RenameStep
  <2>2. OneFile(f)
    BY <1>1, <1>7 DEF Rename, Put, OneFile, Types
  <2> QED BY <1>7, <2>1, <2>2 DEF SettingDone, Rename, Next1
<1>8. CASE Head(plan).op = "default" /\ CopyDefault(f, v)
  <2>1. FileStep(f)
    BY <1>8, DefaultStep
  <2>2. OneFile(f)
    BY <1>1, <1>8 DEF CopyDefault, Put, OneFile, Types
  <2> QED BY <1>8, <2>1, <2>2 DEF SettingDone, CopyDefault, Next1
<1>9. CASE Head(plan).op = "read" /\ Read(f, v)
  <2>1. FileStep(f)
    BY <1>9, ReadStep
  <2>2. OneFile(f)
    BY <1>1, <1>9 DEF Read, Ended, OneFile, Types
  <2> QED BY <1>9, <2>1, <2>2 DEF SettingDone, Read, Next1
<1> QED BY <1>2, <1>3, <1>4, <1>5, <1>6, <1>7, <1>8, <1>9 DEF SettingsStep

(* Messages that are told are lines, so they have a number. *)
LEMMA ToldType ==
  ASSUME Types
  PROVE  \A m \in Told : m \in Line /\ m.v \in Nat
<1>1. \A s \in Seq(Line) : \A m \in Range(s) : m \in Line
  <2> SUFFICES ASSUME NEW s \in Seq(Line) PROVE \A i \in DOMAIN s : s[i] \in Line
    BY DEF Range
  <2> QED BY LenProperties
<1>2. \A m \in Told : m \in Line
  BY <1>1 DEF Types, Told
<1> QED BY <1>2 DEF Line

LEMMA SettingsStepOK ==
  ASSUME Inv, SettingsStep
  PROVE  Inv'
<1>1. PICK f \in File : f = Head(plan).file
  BY SettingHead
<1>2. SettingDone(f)
  BY <1>1, SettingEffect
<1>3. /\ FileOK(f)' /\ Succeeds(f) /\ Ops(f)' \in Chains
      /\ Ops(f)' = {} /\ Ops(f) \subseteq SaveOp => Reported(f, saves)'
  BY <1>2 DEF SettingDone, FileStep
<1>4. /\ saves' = saves /\ up' = up /\ up /\ saves \in Nat /\ Types
      /\ log' = log /\ q' = q /\ lines' = lines /\ said' = said
  <2>1. UNCHANGED <<saves, logVars, up, notes>>
    BY DEF SettingsStep
  <2>2. up
    BY SettingHead
  <2> QED BY <2>1, <2>2 DEF logVars, Inv, Types
<1>5. /\ Shaped(plan', saves)
      /\ Ops(f)' \subseteq Ops(f)
      /\ \A g \in File : g # f => Ops(g)' = Ops(g)
      /\ \A i \in 1 .. Len(plan') : \E k \in 1 .. Len(plan) : plan'[i] = plan[k]
  <2>1. CASE plan' = Tail(plan)
    BY <1>1, <2>1, SettingPlan
  <2>2. CASE Head(plan).op = "open" /\ plan' = SubSeq(plan, 5, Len(plan))
    BY <1>1, <2>2, SettingSkip
  <2> QED BY <1>2, <2>1, <2>2 DEF SettingDone
<1>6. \A g \in File : g # f => SameFile(g)
  BY <1>2, <1>4, <1>5 DEF SettingDone, OneFile, SameFile, Types
<1>7. Types'
  <2>1. /\ main' \in [File -> Content] /\ backup' \in [File -> Content]
        /\ safe' \in [File -> Nat] /\ kept' \in [File -> SUBSET Nat]
        /\ torn' \in [File -> BOOLEAN] /\ bare' \in [File -> BOOLEAN]
        /\ refused' \in [File -> SUBSET Nat]
    BY <1>2, <1>4 DEF SettingDone, OneFile, FileStep, Types
  <2>2. plan' \in Seq(Statement)
    BY <1>5 DEF Shaped
  <2> QED BY <1>4, <2>1, <2>2 DEF Types
<1>8. Planned'
  <2>1. \A g \in File : Ops(g)' \in Chains
    BY <1>3, <1>5 DEF Inv, Planned
  <2> QED BY <1>4, <1>5, <2>1 DEF Shaped, Planned
<1>9. \A g \in File : FileOK(g)'
  <2>1. ASSUME NEW g \in File, g # f PROVE FileOK(g)'
    BY <1>4, <1>6, <2>1, SameOK DEF Inv
  <2> QED BY <1>3, <2>1
<1>10. ASSUME NEW g \in File, NEW v \in Nat, v <= saves, Reported(g, v) PROVE Reported(g, v)'
  <2>1. CASE g = f
    BY <1>3, <1>4, <1>10, <2>1, SucceedsOK
  <2>2. CASE g # f
    BY <1>4, <1>6, <1>10, <2>2, SameOK
  <2> QED BY <2>1, <2>2
<1>11. \A m \in Told' : Filed(m)'
  <2> SUFFICES ASSUME NEW m \in Told PROVE Filed(m)'
    BY <1>4 DEF Told
  <2>1. m.v \in Nat /\ m.v <= saves /\ \A g \in File : Reported(g, m.v)
    BY <1>4, ToldType DEF Inv, LogOK, Filed
  <2> QED BY <1>4, <1>10, <2>1 DEF Filed
<1>12. Promised'
  <2> SUFFICES ASSUME NEW i \in 1 .. Len(plan'), NEW w, w = plan'[i].v,
                      plan'[i].op = "message", w # 0, NEW g \in File
               PROVE  Ops(g)' \subseteq SaveOp /\ (Ops(g)' = {} => Reported(g, w)')
    BY DEF Promised
  <2>1. PICK k \in 1 .. Len(plan) : plan'[i] = plan[k]
    BY <1>5
  <2>2. w = saves /\ Ops(g) \subseteq SaveOp /\ (Ops(g) = {} => Reported(g, w))
    BY <2>1 DEF Inv, Planned, Kinds, LogOK, Promised
  <2>3. CASE g = f
    <3>1. Ops(g)' \subseteq SaveOp
      BY <1>5, <2>2, <2>3
    <3>2. Ops(g)' = {} => Reported(g, saves)'
      BY <1>3, <2>2, <2>3
    <3>3. Reported(g, saves)' <=> Reported(g, w)'
      BY <1>4, <2>2 DEF Reported
    <3> QED BY <3>1, <3>2, <3>3
  <2>4. CASE g # f
    BY <1>4, <1>5, <1>10, <2>2, <2>4
  <2> QED BY <2>3, <2>4
<1> QED BY <1>7, <1>8, <1>9, <1>11, <1>12 DEF Inv, LogOK

-----------------------------------------------------------------------------
(* The handlers begin when no statement is left. *)

LEMMA IdleOps ==
  ASSUME plan = <<>>
  PROVE  \A f \in File : Ops(f) = {} /\ Untouched(f)
<1>1. \A f \in File : OpsOf(<<>>, f) = {}
  BY NoneShaped
<1> QED BY <1>1 DEF Ops, Untouched

(* A message that reports a save comes with the plan of that save. *)
Announces(s) ==
  \A i \in 1 .. Len(s) : s[i].op = "message" /\ s[i].v # 0 =>
    \A f \in File : OpsOf(s, f) = SaveOp

LEMMA BeginStep ==
  ASSUME Inv, NEW s, NEW files \in SUBSET File, Begin(s, files), Shaped(s, saves + 1),
         \A f \in File : OpsOf(s, f) \in IF f \in files THEN {SaveOp, ResetOp} ELSE {{}},
         Announces(s)
  PROVE  Inv'
<1>1. /\ saves' = saves + 1 /\ saves \in Nat /\ saves' \in Nat /\ up /\ up' = up
      /\ main' = main /\ backup' = backup /\ safe' = safe /\ torn' = torn /\ bare' = bare
      /\ refused' = refused /\ log' = log /\ q' = q /\ lines' = lines /\ said' = said
      /\ kept' = [f \in File |-> IF f \in files THEN {safe[f], saves'} ELSE kept[f]]
      /\ plan = <<>> /\ plan' = s /\ Types
  <2>1. saves \in Nat /\ saves + 1 \in Nat /\ Types
    BY DEF Inv, Types
  <2> QED BY <2>1 DEF Begin, logVars
<1>2. \A f \in File : Ops(f) = {} /\ Untouched(f)
  BY <1>1, IdleOps
<1>3. ASSUME NEW f \in File
      PROVE  /\ f \in files => Ops(f)' \in {SaveOp, ResetOp}
             /\ f \notin files => Ops(f)' = {}
  BY <1>1 DEF Ops
<1>4. Types'
  <2>1. kept' \in [File -> SUBSET Nat]
    BY <1>1 DEF Types
  <2> QED BY <1>1, <2>1 DEF Types, Shaped
<1>5. Planned'
  <2>1. \A f \in File : Ops(f)' \in Chains
    BY <1>3 DEF Chains
  <2> QED BY <1>1, <2>1 DEF Shaped, Planned
<1>6. ASSUME NEW f \in File PROVE FileOK(f)'
  <2>1. FileOK(f) /\ Used(f)' = Used(f) /\ Good(f)' = Good(f)
    BY <1>1 DEF Inv, Used, Good
  <2>2. Good(f) => IsWhole(Used(f)) /\ Used(f).v \in kept[f] /\ Used(f).v = safe[f]
    BY <1>1, <1>2, <2>1 DEF FileOK
  <2>3. CASE f \in files
    <3>1. kept'[f] = {safe[f], saves'}
      BY <1>1, <2>3
    <3>2. \/ Ops(f)' = SaveOp /\ "open" \in Ops(f)' /\ "write" \in Ops(f)'
                /\ "rename" \notin Ops(f)' /\ "default" \notin Ops(f)'
          \/ Ops(f)' = ResetOp /\ "clear" \in Ops(f)' /\ "rename" \in Ops(f)'
                /\ "write" \notin Ops(f)' /\ "copy" \notin Ops(f)'
      BY <1>3, <2>3 DEF SaveOp, ResetOp
    <3>3. Ops(f)' # {"copy"} /\ Ops(f)' # {"read"}
      BY <3>2
    <3> QED BY <1>1, <2>1, <2>2, <3>1, <3>2, <3>3 DEF FileOK
  <2>4. CASE f \notin files
    <3>1. kept'[f] = kept[f] /\ Ops(f)' = {}
      BY <1>1, <1>3, <2>4
    <3> QED BY <1>1, <2>1, <2>2, <3>1 DEF FileOK
  <2> QED BY <2>3, <2>4
<1>7. \A m \in Told' : Filed(m)'
  <2> SUFFICES ASSUME NEW m \in Told PROVE Filed(m)'
    BY <1>1 DEF Told
  <2>1. m.v \in Nat /\ m.v <= saves /\ \A f \in File : Reported(f, m.v)
    BY <1>1, ToldType DEF Inv, LogOK, Filed
  <2>2. m.v <= saves'
    BY <1>1, <2>1
  <2>3. \A f \in File : Reported(f, m.v)'
    BY <1>1, <2>1 DEF Reported
  <2> QED BY <2>2, <2>3 DEF Filed
<1>8. Promised'
  <2> SUFFICES ASSUME NEW i \in 1 .. Len(plan'), NEW w, w = plan'[i].v,
                      plan'[i].op = "message", w # 0, NEW f \in File
               PROVE  Ops(f)' \subseteq SaveOp /\ (Ops(f)' = {} => Reported(f, w)')
    BY DEF Promised
  <2>1. Ops(f)' = SaveOp
    BY <1>1 DEF Announces, Ops
  <2> QED BY <2>1 DEF SaveOp
<1> QED BY <1>4, <1>5, <1>6, <1>7, <1>8 DEF Inv, LogOK

LEMMA SaveBegins ==
  ASSUME Inv, MenuSave
  PROVE  Inv'
<1>1. Types
  BY DEF Inv
<1>2. Shaped(SaveSteps, saves + 1) /\ \A f \in File : OpsOf(SaveSteps, f) = SaveOp
  BY <1>1, SaveStepsShaped
<1>3. Announces(SaveSteps)
  BY <1>2 DEF Announces
<1> QED BY <1>2, <1>3, BeginStep DEF MenuSave

LEMMA DialogBegins ==
  ASSUME Inv, DialogSave
  PROVE  Inv'
<1>1. Types /\ "channels" \in File
  BY DEF Inv, File
<1>2. /\ Shaped(Save("channels"), saves + 1)
      /\ \A f \in File : OpsOf(Save("channels"), f) = IF f = "channels" THEN SaveOp ELSE {}
      /\ \A i \in 1 .. Len(Save("channels")) : Save("channels")[i].op \in SaveOp
  BY <1>1, SaveShaped
<1>3. Announces(Save("channels"))
  BY <1>2 DEF Announces, SaveOp
<1>4. \A f \in File : OpsOf(Save("channels"), f) \in
                        IF f \in {"channels"} THEN {SaveOp, ResetOp} ELSE {{}}
  BY <1>2
<1> QED BY <1>1, <1>2, <1>3, <1>4, BeginStep DEF DialogSave

LEMMA ResetBegins ==
  ASSUME Inv, Reset
  PROVE  Inv'
<1>1. Types
  BY DEF Inv
<1>2. /\ Shaped(ResetSteps, saves + 1) /\ \A f \in File : OpsOf(ResetSteps, f) = ResetOp
      /\ \A i \in 1 .. Len(ResetSteps) : ResetSteps[i].op = "message" => ResetSteps[i].v = 0
  BY <1>1, ResetStepsShaped
<1>3. Announces(ResetSteps)
  BY <1>2 DEF Announces
<1>4. Begin(ResetSteps, File)
  BY DEF Reset, ResetSteps
<1> QED BY <1>2, <1>3, <1>4, BeginStep

(* A message of its own reports no save. *)
LEMMA SayPlanned ==
  ASSUME saves \in Nat, saves' = saves, NEW l \in Logger, plan' = Say(l, 0), up'
  PROVE  /\ plan' \in Seq(Statement) /\ Planned' /\ Promised'
         /\ \A f \in File : Ops(f)' = {} /\ Untouched(f)'
<1>1. /\ Shaped(plan', saves) /\ \A f \in File : OpsOf(plan', f) = {}
      /\ \A i \in 1 .. Len(plan') : plan'[i].v = 0
  BY SayShaped
<1>2. \A f \in File : Ops(f)' = {}
  BY <1>1 DEF Ops
<1>3. Planned'
  BY <1>1, <1>2 DEF Planned, Shaped, Chains
<1>4. Promised'
  BY <1>1 DEF Promised
<1> QED BY <1>1, <1>2, <1>3, <1>4 DEF Shaped, Untouched

(* What a step that leaves the settings alone has yet to show. *)
LEMMA SettingsKept ==
  ASSUME Inv, UNCHANGED settingVars, up' => up,
         \A f \in File : Ops(f) = {} /\ Ops(f)' = {},
         Planned', Promised', plan' \in Seq(Statement), up' \in BOOLEAN,
         log' \in Seq(Line), lines' \in Seq(Line), said' \in Seq(Line),
         q' \in [Logger -> Seq(Line)],
         \A m \in Told' : Filed(m)
  PROVE  Inv'
<1>1. /\ main' = main /\ backup' = backup /\ safe' = safe /\ torn' = torn /\ bare' = bare
      /\ kept' = kept /\ refused' = refused /\ saves' = saves
  BY DEF settingVars
<1>2. \A f \in File : SameFile(f)
  BY <1>1 DEF SameFile
<1>3. \A f \in File : FileOK(f)'
  BY <1>1, <1>2, SameOK DEF Inv
<1>4. \A m \in Told' : Filed(m)'
  <2> SUFFICES ASSUME NEW m \in Told' PROVE Filed(m)'
    OBVIOUS
  <2>1. Filed(m)
    OBVIOUS
  <2> QED BY <1>1, <2>1 DEF Filed, Reported
<1>5. Types'
  BY <1>1 DEF Inv, Types
<1> QED BY <1>3, <1>4, <1>5 DEF Inv, LogOK

LEMMA NoteBegins ==
  ASSUME Inv, NEW l \in Logger, Note(l)
  PROVE  Inv'
<1>1. /\ up /\ up' = up /\ plan = <<>> /\ plan' = Say(l, 0) /\ UNCHANGED settingVars
      /\ log' = log /\ q' = q /\ lines' = lines /\ said' = said /\ saves \in Nat /\ saves' = saves
  BY DEF Note, logVars, settingVars, Inv, Types
<1>2. /\ plan' \in Seq(Statement) /\ Planned' /\ Promised'
      /\ \A f \in File : Ops(f)' = {}
  BY <1>1, SayPlanned
<1>3. \A f \in File : Ops(f) = {}
  BY <1>1, IdleOps
<1>4. /\ log' \in Seq(Line) /\ lines' \in Seq(Line) /\ said' \in Seq(Line)
      /\ q' \in [Logger -> Seq(Line)]
  BY <1>1 DEF Inv, Types
<1>5. \A m \in Told' : Filed(m)
  BY <1>1 DEF Told, Inv, LogOK
<1> QED BY <1>1, <1>2, <1>3, <1>4, <1>5, SettingsKept

-----------------------------------------------------------------------------
(* Statements on the log. *)

LEMMA RangeParts ==
  ASSUME NEW S, NEW a \in Seq(S)
  PROVE  /\ \A b \in Seq(S) : a \o b \in Seq(S) /\ Range(a \o b) \subseteq Range(a) \cup Range(b)
         /\ \A e \in S : Append(a, e) \in Seq(S) /\ Range(Append(a, e)) \subseteq Range(a) \cup {e}
         /\ \A i \in Nat \ {0}, j \in 0 .. Len(a) :
              SubSeq(a, i, j) \in Seq(S) /\ Range(SubSeq(a, i, j)) \subseteq Range(a)
         /\ <<>> \in Seq(S) /\ Range(<<>>) = {}
<1>1. ASSUME NEW b \in Seq(S)
      PROVE  a \o b \in Seq(S) /\ Range(a \o b) \subseteq Range(a) \cup Range(b)
  <2> DEFINE t == a \o b
  <2>1. /\ t \in Seq(S) /\ Len(t) = Len(a) + Len(b) /\ Len(a) \in Nat /\ Len(b) \in Nat
        /\ DOMAIN a = 1 .. Len(a) /\ DOMAIN b = 1 .. Len(b)
        /\ \A i \in 1 .. Len(a) + Len(b) : t[i] = IF i <= Len(a) THEN a[i] ELSE b[i - Len(a)]
    BY ConcatProperties, LenProperties
  <2> HIDE DEF t
  <2>2. DOMAIN t = 1 .. Len(a) + Len(b)
    BY <2>1, LenProperties
  <2>3. \A i \in DOMAIN t : (i \in DOMAIN a /\ t[i] = a[i]) \/ (i - Len(a) \in DOMAIN b /\ t[i] = b[i - Len(a)])
    BY <2>1, <2>2
  <2>4. Range(t) \subseteq Range(a) \cup Range(b)
    BY <2>3 DEF Range
  <2> QED BY <2>1, <2>4 DEF t
<1>2. ASSUME NEW e \in S
      PROVE  Append(a, e) \in Seq(S) /\ Range(Append(a, e)) \subseteq Range(a) \cup {e}
  <2> DEFINE t == Append(a, e)
  <2>1. /\ t \in Seq(S) /\ Len(t) = Len(a) + 1 /\ Len(a) \in Nat /\ DOMAIN a = 1 .. Len(a)
        /\ \A i \in 1 .. Len(a) : t[i] = a[i]
        /\ t[Len(a) + 1] = e
    BY AppendProperties, LenProperties
  <2> HIDE DEF t
  <2>2. DOMAIN t = 1 .. Len(a) + 1
    BY <2>1, LenProperties
  <2>3. \A i \in DOMAIN t : (i \in DOMAIN a /\ t[i] = a[i]) \/ t[i] = e
    BY <2>1, <2>2
  <2>4. Range(t) \subseteq Range(a) \cup {e}
    BY <2>3 DEF Range
  <2> QED BY <2>1, <2>4 DEF t
<1>3. ASSUME NEW i \in Nat \ {0}, NEW j \in 0 .. Len(a)
      PROVE  SubSeq(a, i, j) \in Seq(S) /\ Range(SubSeq(a, i, j)) \subseteq Range(a)
  <2> DEFINE t == SubSeq(a, i, j)
  <2>1. Len(a) \in Nat /\ DOMAIN a = 1 .. Len(a) /\ \A k \in i .. j : k \in 1 .. Len(a) /\ a[k] \in S
    BY LenProperties
  <2>2. /\ t \in Seq(S) /\ Len(t) = IF i <= j THEN j - i + 1 ELSE 0
        /\ \A k \in 1 .. j - i + 1 : t[k] = a[i + k - 1]
    BY <2>1, SubSeqProperties
  <2> HIDE DEF t
  <2>3. DOMAIN t = 1 .. Len(t)
    BY <2>2, LenProperties
  <2>4. \A k \in DOMAIN t : i + k - 1 \in DOMAIN a /\ t[k] = a[i + k - 1]
    BY <2>1, <2>2, <2>3
  <2>5. Range(t) \subseteq Range(a)
    BY <2>4 DEF Range
  <2> QED BY <2>2, <2>5 DEF t
<1>4. <<>> \in Seq(S) /\ Range(<<>>) = {}
  BY EmptySeq DEF Range
<1> QED BY <1>1, <1>2, <1>3, <1>4

(* When it is the turn of the log, no statement on the settings is left. *)
LEMMA LogHead ==
  ASSUME Inv, LogStep
  PROVE  LET do == Head(plan)
         IN /\ plan # <<>> /\ Shaped(plan, saves) /\ up
            /\ do \in Statement /\ do.file = "log" /\ do.by \in Logger /\ do.v \in Nat
            /\ \A f \in File : Ops(f) = {}
            /\ \A i \in 1 .. Len(plan) : plan[i].file = "log"
            /\ do.op = "message" => \A f \in File : Reported(f, do.v)
            /\ do.op = "message" => do.v <= saves
<1> DEFINE do == Head(plan)
<1>1. plan # <<>> /\ Shaped(plan, saves) /\ up /\ do.op \in LogOp /\ Types
  BY DEF LogStep, LogOp, Inv, Types, Planned, Shaped
<1>2. do \in Statement /\ do = plan[1] /\ 1 \in 1 .. Len(plan) /\ \A i \in 1 .. Len(plan) : i = 1 \/ 1 < i
  <2>1. Len(plan) \in Nat \ {0} /\ Head(plan) = plan[1] /\ Head(plan) \in Statement
    BY <1>1, RestShaped
  <2> QED BY <2>1
<1>3. do.file \in File \cup {"log"} /\ do.by \in Logger /\ do.v \in Nat
  BY <1>2 DEF Statement
<1>4. do.file = "log"
  <2>1. do.file \in File => do.op \in SaveOp \cup ResetOp
    BY <1>1, <1>2 DEF Shaped, Kinds
  <2> QED BY <1>1, <1>3, <2>1 DEF LogOp, SaveOp, ResetOp
<1>5. \A i \in 1 .. Len(plan) : plan[i].file = "log"
  BY <1>1, <1>2, <1>4 DEF Shaped, LogLast
<1>6. \A f \in File : Ops(f) = {}
  BY <1>5 DEF Ops, OpsOf, File
<1>7. ASSUME do.op = "message" PROVE do.v <= saves /\ \A f \in File : Reported(f, do.v)
  <2>1. do.v \in {0, saves} /\ saves \in Nat
    BY <1>1, <1>2, <1>7 DEF Shaped, Kinds, Types
  <2>2. CASE do.v = 0
    <3>1. \A f \in File : main[f].v \in Nat /\ backup[f].v \in Nat
      BY <1>1 DEF Types, Content
    <3>2. \A f \in File : main[f].v >= 0 /\ backup[f].v >= 0
      BY <3>1
    <3> QED BY <2>1, <2>2, <3>2 DEF Reported
  <2>3. CASE do.v # 0
    BY <1>2, <1>6, <1>7, <2>1, <2>3 DEF Inv, LogOK, Promised
  <2> QED BY <2>2, <2>3
<1> QED BY <1>1, <1>2, <1>3, <1>4, <1>5, <1>6, <1>7

(* A message is followed by the statements on the file of the log. *)
Following(a) ==
  Shaped(a, saves) /\ \A i \in 1 .. Len(a) : a[i].file = "log" /\ a[i].op # "message"

LEMMA LogPlan ==
  ASSUME Inv, LogStep, NEW a, Following(a), plan' = a \o Tail(plan), up' = up
  PROVE  plan' \in Seq(Statement) /\ Planned' /\ Promised' /\ \A f \in File : Ops(f)' = {}
<1> DEFINE b == Tail(plan)
<1>1. /\ plan # <<>> /\ Shaped(plan, saves) /\ up /\ \A f \in File : Ops(f) = {}
      /\ \A i \in 1 .. Len(plan) : plan[i].file = "log"
  BY LogHead
<1>2. UNCHANGED settingVars /\ saves' = saves
  BY DEF LogStep, settingVars
<1>3. /\ Shaped(b, saves)
      /\ \A i \in 1 .. Len(b) : i + 1 \in 1 .. Len(plan) /\ b[i] = plan[i + 1]
  BY <1>1, RestShaped
<1> HIDE DEF b
<1>4. \A i \in 1 .. Len(b) : b[i].file = "log"
  BY <1>1, <1>3
<1>5. Joined(a, b, saves)
  <2>1. Continued(a, b)
    BY <1>4 DEF Following, Continued, File
  <2> QED BY <1>3, <2>1, JoinShaped DEF Following
<1>6. plan' = a \o b
  BY DEF b
<1> DEFINE p == a \o b
<1>7. /\ Shaped(p, saves)
      /\ \A i \in 1 .. Len(p) : (\E k \in 1 .. Len(a) : p[i] = a[k]) \/ (\E k \in 1 .. Len(b) : p[i] = b[k])
  BY <1>5 DEF Joined
<1> HIDE DEF p
<1>8. \A i \in 1 .. Len(p) : p[i].file = "log"
  BY <1>4, <1>7 DEF Following
<1>9. \A i \in 1 .. Len(p) : p[i].op = "message" => \E k \in 1 .. Len(plan) : p[i] = plan[k]
  BY <1>3, <1>7 DEF Following
<1>10. plan' = p
  BY <1>6 DEF p
<1>11. \A f \in File : Ops(f)' = {}
  BY <1>8, <1>10 DEF Ops, OpsOf, File
<1>12. Planned'
  BY <1>1, <1>2, <1>7, <1>10, <1>11 DEF Planned, Shaped, Chains
<1>13. Promised'
  <2> SUFFICES ASSUME NEW i \in 1 .. Len(p), NEW w, w = p[i].v,
                      p[i].op = "message", w # 0, NEW f \in File
               PROVE  Ops(f)' \subseteq SaveOp /\ (Ops(f)' = {} => Reported(f, w)')
    BY <1>10 DEF Promised
  <2>1. PICK k \in 1 .. Len(plan) : p[i] = plan[k]
    BY <1>9
  <2>2. Reported(f, w)
    BY <1>1, <2>1 DEF Inv, LogOK, Promised
  <2>3. Reported(f, w)'
    BY <1>2, <2>2 DEF settingVars, Reported
  <2> QED BY <1>11, <2>3
<1> QED BY <1>7, <1>10, <1>11, <1>12, <1>13 DEF Shaped

LEMMA LogNext ==
  ASSUME Inv, LogStep, Next1, up' = up
  PROVE  plan' \in Seq(Statement) /\ Planned' /\ Promised' /\ \A f \in File : Ops(f)' = {}
<1>1. Following(<<>>)
  <2>1. Shaped(<<>>, saves) /\ Len(<<>>) = 0 /\ 1 .. 0 = {}
    BY NoneShaped
  <2> QED BY <2>1 DEF Following
<1>2. plan # <<>> /\ plan \in Seq(Statement)
  BY LogHead DEF Shaped
<1>3. Tail(plan) \in Seq(Statement)
  BY <1>2, HeadTailProperties
<1>4. plan' = <<>> \o Tail(plan)
  BY <1>3, ConcatEmptySeq DEF Next1
<1> QED BY <1>1, <1>4, LogPlan

LEMMA OneFollows ==
  ASSUME Inv, LogStep, NEW o \in LogOp \ {"message"}
  PROVE  Following(<<[Head(plan) EXCEPT !.op = o]>>)
<1> DEFINE x == [Head(plan) EXCEPT !.op = o]
<1>1. Head(plan) \in Statement /\ Head(plan).file = "log"
  BY LogHead
<1>2. x \in Statement /\ x.op = o /\ x.file = "log"
  BY <1>1 DEF Statement
<1>3. o # "open"
  BY DEF LogOp
<1> HIDE DEF x
<1>4. Shaped(<<x>>, saves) /\ Len(<<x>>) = 1 /\ <<x>>[1] = x
  BY <1>2, <1>3, OneShaped DEF File
<1>5. Following(<<x>>)
  BY <1>2, <1>4 DEF Following
<1> QED BY <1>5 DEF x

LEMMA TwoFollow ==
  ASSUME NEW a, NEW b, Following(a), Following(b)
  PROVE  Following(a \o b)
<1>1. Continued(a, b)
  BY DEF Following, Continued, File
<1>2. Joined(a, b, saves)
  BY <1>1, JoinShaped DEF Following
<1> DEFINE t == a \o b
<1>3. /\ Shaped(t, saves)
      /\ \A i \in 1 .. Len(t) : (\E k \in 1 .. Len(a) : t[i] = a[k]) \/ (\E k \in 1 .. Len(b) : t[i] = b[k])
  BY <1>2 DEF Joined
<1> HIDE DEF t
<1>4. Following(t)
  BY <1>3 DEF Following
<1> QED BY <1>4 DEF t

LEMMA MessageOK ==
  ASSUME Inv, LogStep, Head(plan).op = "message", Message(Head(plan))
  PROVE  Inv'
<1> DEFINE do == Head(plan)
           m == [n |-> Len(said) + 1, by |-> do.by, v |-> do.v]
           app == <<[do EXCEPT !.op = "append"]>>
           size == IF Len(log) >= MaxLog THEN <<[do EXCEPT !.op = "shorten"]>> ELSE <<>>
<1>1. /\ do.by \in Logger /\ do.v \in Nat /\ do.v <= saves /\ up
      /\ \A f \in File : Ops(f) = {} /\ Reported(f, do.v)
  BY LogHead
<1>2. /\ UNCHANGED settingVars /\ Types /\ up' = up /\ up' \in BOOLEAN
      /\ log' = log /\ lines' = lines /\ said' = Append(said, m)
      /\ q' = [q EXCEPT ![do.by] = Append(@, m)]
      /\ plan' = (size \o app) \o Tail(plan)
  BY DEF LogStep, Message, Then, Inv, Types
<1>3. Following(size \o app)
  <2>1. Following(app) /\ Following(<<[do EXCEPT !.op = "shorten"]>>)
    BY OneFollows DEF LogOp
  <2>2. Following(<<>>)
    <3>1. Shaped(<<>>, saves) /\ Len(<<>>) = 0 /\ 1 .. 0 = {}
      BY NoneShaped
    <3> QED BY <3>1 DEF Following
  <2>3. Following(size)
    BY <2>1, <2>2
  <2> HIDE DEF size, app
  <2> QED BY <2>1, <2>3, TwoFollow
<1> HIDE DEF size, app
<1>4. plan' \in Seq(Statement) /\ Planned' /\ Promised' /\ \A f \in File : Ops(f)' = {}
  BY <1>2, <1>3, LogPlan
<1>5. m \in Line /\ m.v = do.v
  <2>1. Len(said) \in Nat
    BY <1>2, LenProperties DEF Types
  <2> QED BY <1>1, <2>1 DEF Line
<1>6. Filed(m)
  BY <1>1, <1>5 DEF Filed
<1> HIDE DEF m
<1>7. /\ said' \in Seq(Line) /\ log' \in Seq(Line) /\ lines' \in Seq(Line)
      /\ q' \in [Logger -> Seq(Line)]
      /\ \A l \in Logger : Range(q'[l]) \subseteq Range(q[l]) \cup {m}
  <2>1. Append(said, m) \in Seq(Line)
    BY <1>2, <1>5, RangeParts DEF Types
  <2>2. \A l \in Logger : /\ Append(q[l], m) \in Seq(Line)
                          /\ Range(Append(q[l], m)) \subseteq Range(q[l]) \cup {m}
    BY <1>2, <1>5, RangeParts DEF Types
  <2> QED BY <1>2, <2>1, <2>2 DEF Types
<1>8. Told' \subseteq Told \cup {m}
  BY <1>2, <1>7 DEF Told
<1>9. \A x \in Told' : Filed(x)
  BY <1>6, <1>8 DEF Inv, LogOK
<1> QED BY <1>1, <1>2, <1>4, <1>7, <1>9, SettingsKept

(* The other statements tell nothing new. *)
LEMMA NothingNew ==
  ASSUME Inv, LogStep, up' => up, up' \in BOOLEAN,
         plan' \in Seq(Statement), Planned', Promised', \A f \in File : Ops(f)' = {},
         log' \in Seq(Line), lines' \in Seq(Line), said' = said,
         q' \in [Logger -> Seq(Line)], Told' \subseteq Told
  PROVE  Inv'
<1>1. \A f \in File : Ops(f) = {}
  BY LogHead
<1>2. UNCHANGED settingVars /\ said' \in Seq(Line)
  BY DEF LogStep, Inv, Types
<1>3. \A m \in Told' : Filed(m)
  BY DEF Inv, LogOK
<1> QED BY <1>1, <1>2, <1>3, SettingsKept

LEMMA LogFails ==
  ASSUME Inv, LogStep, Next1, UNCHANGED <<logVars, up>>
  PROVE  Inv'
<1>1. /\ log' = log /\ lines' = lines /\ said' = said /\ q' = q /\ up' = up
      /\ log' \in Seq(Line) /\ lines' \in Seq(Line) /\ q' \in [Logger -> Seq(Line)]
      /\ up' \in BOOLEAN
  BY DEF logVars, Inv, Types
<1>2. Told' = Told
  BY <1>1 DEF Told
<1> QED BY <1>1, <1>2, LogNext, NothingNew

LEMMA TenthNatural ==
  ASSUME NEW n \in Nat, NEW d \in Nat \ {0}
  PROVE  n \div d \in Nat
OBVIOUS

LEMMA ShortenOK ==
  ASSUME Inv, LogStep, Shorten(Head(plan))
  PROVE  Inv'
<1>1. Types
  BY DEF Inv
<1>2. CASE /\ lines' = SubSeq(log, Len(log) \div Share + 1, Len(log)) /\ log' = <<>>
           /\ plan' = <<[Head(plan) EXCEPT !.op = "rewrite"]>> \o Tail(plan)
           /\ UNCHANGED <<q, said, gone, up>>
  <2>1. Following(<<[Head(plan) EXCEPT !.op = "rewrite"]>>)
    BY OneFollows DEF LogOp
  <2>2. plan' \in Seq(Statement) /\ Planned' /\ Promised' /\ \A f \in File : Ops(f)' = {}
    BY <1>2, <2>1, LogPlan
  <2>3. Len(log) \in Nat /\ log \in Seq(Line)
    BY <1>1, LenProperties DEF Types
  <2>4. Len(log) \div Share \in Nat
    BY <2>3, TenthNatural, FilesAssumption
  <2> DEFINE k == Len(log) \div Share + 1
  <2> HIDE DEF k
  <2>5. lines' \in Seq(Line) /\ Range(lines') \subseteq Range(log)
    <3>1. k \in Nat \ {0} /\ Len(log) \in 0 .. Len(log)
      BY <2>3, <2>4 DEF k
    <3>2. lines' = SubSeq(log, k, Len(log))
      BY <1>2 DEF k
    <3> QED BY <2>3, <3>1, <3>2, RangeParts
  <2>6. log' \in Seq(Line) /\ Range(log') = {}
    BY <1>1, <1>2, RangeParts DEF Types
  <2>7. q' = q /\ said' = said /\ up' = up
    BY <1>2
  <2>8. Told' \subseteq Told
    BY <2>5, <2>6, <2>7 DEF Told
  <2> QED BY <1>1, <2>2, <2>5, <2>6, <2>7, <2>8, NothingNew DEF Types
<1>3. CASE Next1 /\ UNCHANGED <<logVars, up>>
  BY <1>3, LogFails
<1> QED BY <1>2, <1>3 DEF Shorten, Then

LEMMA RewriteOK ==
  ASSUME Inv, LogStep, Rewrite
  PROVE  Inv'
<1>1. /\ Types /\ Next1 /\ log' = lines /\ lines' = <<>> /\ q' = q /\ said' = said /\ up' = up
  BY DEF Rewrite, Inv
<1>2. lines' \in Seq(Line) /\ Range(lines') = {}
  BY <1>1, RangeParts DEF Types
<1>3. Told' \subseteq Told
  BY <1>1, <1>2 DEF Told
<1> QED BY <1>1, <1>2, <1>3, LogNext, NothingNew DEF Types

LEMMA NothingPlanned ==
  ASSUME plan' = <<>>, saves' \in Nat
  PROVE  plan' \in Seq(Statement) /\ Planned' /\ Promised' /\ \A f \in File : Ops(f)' = {}
<1>1. Shaped(plan', saves') /\ Len(plan') = 0 /\ \A f \in File : OpsOf(plan', f) = {}
  BY NoneShaped
<1>2. \A f \in File : Ops(f)' = {}
  BY <1>1 DEF Ops
<1>3. Planned'
  BY <1>1, <1>2 DEF Planned, Shaped, Chains
<1>4. 1 .. Len(plan') = {}
  BY <1>1
<1>5. Promised'
  BY <1>4 DEF Promised
<1> QED BY <1>1, <1>2, <1>3, <1>5 DEF Shaped

LEMMA AppendOK ==
  ASSUME Inv, LogStep, NEW l \in Logger, AppendQueue(l)
  PROVE  Inv'
<1>1. Types /\ up /\ saves' = saves /\ saves \in Nat
  <2>1. up
    BY LogHead
  <2> QED BY <2>1 DEF Inv, Types, LogStep, settingVars
<1>2. <<>> \in Seq(Line) /\ Range(<<>>) = {}
  BY <1>1, RangeParts DEF Types
<1>3. CASE /\ log' = log \o q[l] /\ q' = [q EXCEPT ![l] = <<>>] /\ Next1
           /\ UNCHANGED <<lines, said, gone, up>>
  <2>1. log' \in Seq(Line) /\ Range(log') \subseteq Range(log) \cup Range(q[l])
    BY <1>1, <1>3, RangeParts DEF Types
  <2>2. /\ q' \in [Logger -> Seq(Line)] /\ \A k \in Logger : Range(q'[k]) \subseteq Range(q[k])
        /\ lines' = lines /\ said' = said /\ up' = up
    BY <1>1, <1>2, <1>3 DEF Types
  <2>3. Told' \subseteq Told
    BY <2>1, <2>2 DEF Told
  <2> QED BY <1>1, <1>3, <2>1, <2>2, <2>3, LogNext, NothingNew DEF Types
<1>4. CASE /\ up' = FALSE /\ plan' = <<>> /\ q' = [k \in Logger |-> <<>>]
           /\ UNCHANGED <<log, lines, said>>
  <2>1. q' \in [Logger -> Seq(Line)] /\ \A k \in Logger : Range(q'[k]) = {}
    BY <1>2, <1>4
  <2>2. lines' = lines /\ said' = said /\ log' = log
    BY <1>4
  <2>3. Told' \subseteq Told
    BY <2>1, <2>2 DEF Told
  <2> QED BY <1>1, <1>4, <2>1, <2>2, <2>3, NothingPlanned, NothingNew DEF Types
<1>5. CASE Next1 /\ UNCHANGED <<logVars, up>>
  BY <1>5, LogFails
<1> QED BY <1>3, <1>4, <1>5 DEF AppendQueue

LEMMA LogStepOK ==
  ASSUME Inv, LogStep
  PROVE  Inv'
<1>1. Head(plan).by \in Logger
  BY LogHead
<1>2. CASE Head(plan).op = "message" /\ Message(Head(plan))
  BY <1>2, MessageOK
<1>3. CASE Shorten(Head(plan))
  BY <1>3, ShortenOK
<1>4. CASE Rewrite
  BY <1>4, RewriteOK
<1>5. CASE AppendQueue(Head(plan).by)
  BY <1>1, <1>5, AppendOK
<1> QED BY <1>2, <1>3, <1>4, <1>5 DEF LogStep

-----------------------------------------------------------------------------
(* Power. *)

(* A text that is cut off while it is written is the old one's ruin, or    *)
(* the whole of the new one.                                               *)
LEMMA CutOK ==
  ASSUME Inv, CutSettings, up' = FALSE, plan' = <<>>,
         UNCHANGED <<backup, saves, safe, kept, bare, refused>>
  PROVE  /\ main' \in [File -> Content] /\ torn' \in [File -> BOOLEAN]
         /\ \A f \in File : FileOK(f)' /\ Succeeds(f)
<1>1. Types /\ saves \in Nat /\ \A f \in File : main[f] \in Content /\ torn[f] \in BOOLEAN
  BY DEF Inv, Types
<1>2. \A f \in File : Ops(f)' = {}
  BY <1>1, NothingPlanned
<1>3. ASSUME NEW f \in File, main'[f] = main[f], torn'[f] = torn[f]
      PROVE  FileOK(f)' /\ Succeeds(f)
  <2>1. Used(f)' = Used(f) /\ Good(f)' = Good(f)
    BY <1>3 DEF Used, Good
  <2>2. FileOK(f)'
    BY <1>2, <2>1 DEF Inv, FileOK
  <2> QED BY <1>3, <2>2 DEF Succeeds
<1>4. CASE plan # <<>> /\ Head(plan).op = "write"
  <2>1. PICK f \in File : f = Head(plan).file
    BY <1>4, PlanHead DEF SaveOp
  <2>2. /\ Head(plan).v = saves /\ kept[f] = {safe[f], saves} /\ FileOK(f)
        /\ Ops(f) = {"write", "remove", "copy"}
    BY <1>4, <2>1, PlanHead DEF SaveOp
  <2>3. main[f] = Bad("empty") /\ (~bare[f] => backup[f] = Whole(safe[f]))
    BY <2>2 DEF FileOK
  <2>4. PICK c \in {Bad("empty"), Bad("part"), Whole(saves)} :
          /\ main' = Put(main, f, c)
          /\ torn' = [torn EXCEPT ![f] = @ \/ c = Bad("part")]
    BY <1>4, <2>1, <2>2 DEF CutSettings
  <2>5. /\ Bad("empty") \in Content /\ ~IsWhole(Bad("empty")) /\ Bad("empty").text = "empty"
        /\ Bad("part") \in Content /\ ~IsWhole(Bad("part"))
        /\ Whole(saves) \in Content /\ IsWhole(Whole(saves)) /\ Whole(saves).v = saves
        /\ Whole(saves).text = "whole"
    BY <1>1, ContentType
  <2>6. IsWhole(Whole(safe[f])) /\ Whole(safe[f]).v = safe[f]
    BY DEF IsWhole, Whole
  <2>7. main' \in [File -> Content] /\ torn' \in [File -> BOOLEAN]
    BY <1>1, <2>4, <2>5 DEF Types, Put
  <2>8. main'[f] = c /\ torn'[f] = (torn[f] \/ c = Bad("part"))
    BY <1>1, <2>4 DEF Types, Put
  <2>9. Good(f)' => IsWhole(Used(f)') /\ Used(f)'.v \in {safe[f], saves}
    <3>1. CASE c = Bad("empty")
      BY <2>3, <2>5, <2>6, <2>8, <3>1 DEF Good, Used
    <3>2. CASE c = Bad("part")
      BY <2>8, <3>2 DEF Good
    <3>3. CASE c = Whole(saves)
      BY <2>5, <2>8, <3>3 DEF Used
    <3> QED BY <2>4, <3>1, <3>2, <3>3
  <2>10. FileOK(f)'
    BY <1>2, <2>2, <2>9 DEF FileOK
  <2>11. Succeeds(f)
    BY <2>4, <2>5, <2>8 DEF Succeeds
  <2>12. \A g \in File : g # f => main'[g] = main[g] /\ torn'[g] = torn[g]
    BY <1>1, <2>4 DEF Types, Put
  <2>13. \A g \in File : FileOK(g)' /\ Succeeds(g)
    BY <1>3, <2>10, <2>11, <2>12
  <2> QED BY <2>7, <2>13
<1>5. CASE ~(plan # <<>> /\ Head(plan).op = "write")
  <2>1. main' = main /\ torn' = torn
    BY <1>5 DEF CutSettings
  <2> QED BY <1>1, <1>3, <2>1 DEF Types
<1> QED BY <1>4, <1>5

LEMMA CutLogTells ==
  ASSUME Inv, up, CutLog, q' = [l \in Logger |-> <<>>], lines' = <<>>
  PROVE  /\ log' \in Seq(Line) /\ lines' \in Seq(Line) /\ q' \in [Logger -> Seq(Line)]
         /\ Told' \subseteq Told
<1> DEFINE op == IF plan = <<>> THEN "none" ELSE Head(plan).op
           writing == IF op = "rewrite" THEN lines
                      ELSE IF op = "append" THEN q[Head(plan).by] ELSE <<>>
<1>1. Types /\ log \in Seq(Line)
  BY DEF Inv, Types
<1>2. <<>> \in Seq(Line) /\ Range(<<>>) = {}
  BY <1>1, RangeParts
<1>3. plan # <<>> => Head(plan).by \in Logger
  <2>1. ASSUME plan # <<>> PROVE Head(plan) \in Statement
    BY <1>1, <2>1, HeadTailProperties DEF Types
  <2> QED BY <2>1 DEF Statement
<1>4. writing \in Seq(Line) /\ Range(writing) \subseteq Told
  <2>1. lines \in Seq(Line) /\ Range(lines) \subseteq Told
    BY <1>1 DEF Types, Told
  <2>2. \A l \in Logger : q[l] \in Seq(Line) /\ Range(q[l]) \subseteq Told
    BY <1>1 DEF Types, Told
  <2>3. op = "append" => plan # <<>>
    OBVIOUS
  <2> QED BY <1>2, <1>3, <2>1, <2>2, <2>3
<1>5. PICK s \in Prefixes(writing) : log' = log \o s
  BY DEF CutLog
<1> HIDE DEF writing, op
<1>6. s \in Seq(Line) /\ Range(s) \subseteq Told
  <2>1. PICK j \in 0 .. Len(writing) : s = SubSeq(writing, 1, j)
    BY <1>5 DEF Prefixes
  <2> QED BY <1>4, <2>1, RangeParts
<1>7. log' \in Seq(Line) /\ Range(log') \subseteq Told
  <2>1. Range(log) \subseteq Told
    BY DEF Told
  <2> QED BY <1>1, <1>5, <1>6, <2>1, RangeParts
<1>8. lines' \in Seq(Line) /\ Range(lines') = {}
  BY <1>2
<1>9. q' \in [Logger -> Seq(Line)] /\ \A l \in Logger : Range(q'[l]) = {}
  BY <1>2
<1>10. Told' \subseteq Told
  BY <1>7, <1>8, <1>9 DEF Told
<1> QED BY <1>7, <1>8, <1>9, <1>10

LEMMA PowerLossOK ==
  ASSUME Inv, PowerLoss
  PROVE  Inv'
<1>1. /\ Types /\ up /\ up' = FALSE /\ plan' = <<>> /\ CutSettings /\ CutLog
      /\ q' = [l \in Logger |-> <<>>] /\ lines' = <<>>
      /\ UNCHANGED <<backup, saves, safe, kept, bare, refused>> /\ said' = said
      /\ saves' = saves /\ saves \in Nat
  BY DEF PowerLoss, Inv, Types
<1>2. /\ main' \in [File -> Content] /\ torn' \in [File -> BOOLEAN]
      /\ \A f \in File : FileOK(f)' /\ Succeeds(f)
  BY <1>1, CutOK
<1>3. /\ log' \in Seq(Line) /\ lines' \in Seq(Line) /\ q' \in [Logger -> Seq(Line)]
      /\ Told' \subseteq Told
  BY <1>1, CutLogTells
<1>4. plan' \in Seq(Statement) /\ Planned' /\ Promised'
  BY <1>1, NothingPlanned
<1>5. \A m \in Told' : Filed(m)'
  <2> SUFFICES ASSUME NEW m \in Told PROVE Filed(m)'
    BY <1>3
  <2>1. m.v \in Nat /\ m.v <= saves /\ \A f \in File : Reported(f, m.v)
    BY <1>1, ToldType DEF Inv, LogOK, Filed
  <2>2. \A f \in File : Reported(f, m.v)'
    BY <1>1, <1>2, <2>1, SucceedsOK
  <2> QED BY <1>1, <2>1, <2>2 DEF Filed
<1>6. Types'
  BY <1>1, <1>2, <1>3, <1>4 DEF Types
<1> QED BY <1>2, <1>4, <1>5, <1>6 DEF Inv, LogOK

LEMMA StartOK ==
  ASSUME Inv, Start
  PROVE  Inv'
<1>1. /\ Types /\ ~up /\ up' = TRUE /\ plan = <<>> /\ saves' = saves /\ saves \in Nat
      /\ safe' = [f \in File |-> Restored(f)]
      /\ main' = main /\ backup' = backup /\ kept' = kept /\ torn' = torn /\ bare' = bare
      /\ refused' = refused /\ log' = log /\ lines' = lines /\ said' = said /\ q' = q
  BY DEF Start, logVars, Inv, Planned, Types
<1>2. PICK l \in Logger : plan' = Say(l, 0)
  BY DEF Start
<1>3. /\ plan' \in Seq(Statement) /\ Planned' /\ Promised'
      /\ \A f \in File : Ops(f)' = {}
  BY <1>1, <1>2, SayPlanned
<1>4. \A f \in File : Restored(f) \in Nat
  <2>1. \A f \in File : main[f].v \in Nat /\ backup[f].v \in Nat
    BY <1>1 DEF Types, Content
  <2> QED BY <2>1 DEF Restored
<1>5. ASSUME NEW f \in File PROVE FileOK(f)'
  <2>1. Used(f)' = Used(f) /\ Good(f)' = Good(f) /\ kept'[f] = kept[f] /\ safe'[f] = Restored(f)
    BY <1>1 DEF Used, Good
  <2>2. Good(f) => IsWhole(Used(f)) /\ Used(f).v \in kept[f]
    BY DEF Inv, FileOK
  <2>3. Good(f) => Restored(f) = Used(f).v
    BY <2>2 DEF Restored, Used
  <2> QED BY <1>3, <2>1, <2>2, <2>3 DEF FileOK
<1>6. \A m \in Told' : Filed(m)'
  <2> SUFFICES ASSUME NEW m \in Told PROVE Filed(m)'
    BY <1>1 DEF Told
  <2>1. Filed(m)
    BY DEF Inv, LogOK
  <2> QED BY <1>1, <2>1 DEF Filed, Reported
<1>7. Types'
  BY <1>1, <1>3, <1>4 DEF Types
<1> QED BY <1>3, <1>5, <1>6, <1>7 DEF Inv, LogOK

-----------------------------------------------------------------------------

LEMMA InitOK ==
  ASSUME Init
  PROVE  Inv
<1>1. /\ Whole(0) \in Content /\ IsWhole(Whole(0)) /\ Whole(0).v = 0 /\ Whole(0).text = "whole"
  BY DEF Whole, IsWhole, Content
<1>2. /\ \A f \in File : main[f] = Whole(0) /\ backup[f] = Whole(0) /\ safe[f] = 0 /\ kept[f] = {0}
      /\ log = <<>> /\ lines = <<>> /\ said = <<>> /\ q = [l \in Logger |-> <<>>]
      /\ plan = <<>> /\ up = TRUE /\ saves = 0
  BY DEF Init
<1>3. <<>> \in Seq(Line) /\ Range(<<>>) = {}
  BY EmptySeq DEF Range
<1>4. /\ Shaped(plan, saves) /\ Len(plan) = 0 /\ \A f \in File : Ops(f) = {}
  BY <1>2, NoneShaped DEF Ops
<1>5. Types
  BY <1>1, <1>2, <1>3, <1>4 DEF Init, Types, Shaped
<1>6. Planned
  BY <1>2, <1>4 DEF Planned, Shaped, Chains
<1>7. \A f \in File : FileOK(f)
  <2>1. \A f \in File : Used(f) = Whole(0)
    BY <1>1, <1>2 DEF Used
  <2> QED BY <1>1, <1>2, <1>4, <2>1 DEF FileOK
<1>8. Told = {}
  BY <1>2, <1>3 DEF Told
<1>9. 1 .. Len(plan) = {}
  BY <1>4
<1>10. LogOK
  BY <1>8, <1>9 DEF LogOK, Promised
<1> QED BY <1>5, <1>6, <1>7, <1>10 DEF Inv

LEMMA InvAlways == Spec => []Inv
<1>1. Init => Inv
  BY InitOK
<1>2. Inv /\ [Next]_vars => Inv'
  <2> SUFFICES ASSUME Inv, [Next]_vars PROVE Inv'
    OBVIOUS
  <2>1. CASE MenuSave
    BY <2>1, SaveBegins
  <2>2. CASE DialogSave
    BY <2>2, DialogBegins
  <2>3. CASE Reset
    BY <2>3, ResetBegins
  <2>4. CASE \E l \in Logger : Note(l)
    BY <2>4, NoteBegins
  <2>5. CASE SettingsStep
    BY <2>5, SettingsStepOK
  <2>6. CASE LogStep
    BY <2>6, LogStepOK
  <2>7. CASE PowerLoss
    BY <2>7, PowerLossOK
  <2>8. CASE Start
    BY <2>8, StartOK
  <2>9. CASE UNCHANGED vars
    <3>1. /\ UNCHANGED settingVars /\ plan' = plan /\ up' = up
          /\ log' = log /\ lines' = lines /\ said' = said /\ q' = q
          /\ UNCHANGED <<main, backup, saves, safe, kept, torn, bare, refused>>
      BY <2>9 DEF vars, logVars, settingVars
    <3>2. Types' /\ Planned'
      BY <3>1 DEF Inv, Types, Planned, Ops
    <3>3. \A f \in File : FileOK(f)'
      BY <3>1 DEF Inv, FileOK, Used, Good, Untouched, Ops
    <3>4. Told' = Told /\ Promised'
      BY <3>1 DEF Inv, LogOK, Told, Promised, Ops, Reported
    <3>5. LogOK'
      BY <3>1, <3>4 DEF Inv, LogOK, Filed, Reported
    <3> QED BY <3>2, <3>3, <3>5 DEF Inv
  <2> QED BY <2>1, <2>2, <2>3, <2>4, <2>5, <2>6, <2>7, <2>8, <2>9 DEF Next
<1> QED BY <1>1, <1>2, PTL DEF Spec

(* What is read is what the used one of the two files holds. *)
LEMMA RestoredUsed ==
  ASSUME Inv, NEW f \in File, Good(f)
  PROVE  IsWhole(Used(f)) /\ Restored(f) = Used(f).v /\ Restored(f) \in kept[f]
<1>1. IsWhole(Used(f)) /\ Used(f).v \in kept[f]
  BY DEF Inv, FileOK
<1> QED BY <1>1 DEF Used, Restored

(* Settings that were not cut off, of a save that began with a good        *)
(* backup, are those of the last save or of the one under way, at every    *)
(* statement of a save or a reset and through any number of power failures *)
(* (writeChannelsSettings, readChannelsSettings,                           *)
(* on_bResetToDefault_clicked).                                            *)
THEOREM Survival == Spec => []SettingsSurvive
<1>1. Inv => SettingsSurvive
  BY RestoredUsed DEF SettingsSurvive, Good
<1> QED BY <1>1, InvAlways, PTL

(* A save that the log reports is in the settings that are restored, or    *)
(* shows as refused (on_saveButton, addMess).                              *)
THEOREM LogTellsTruth == Spec => []SavedAsLogged
<1>1. Inv => SavedAsLogged
  <2> SUFFICES ASSUME Inv, NEW m \in Range(log), NEW f \in File,
                      m.v \notin refused[f], Good(f)
               PROVE  Restored(f) >= m.v
    BY DEF SavedAsLogged, Good
  <2>1. Reported(f, m.v)
    BY DEF Inv, LogOK, Filed, Told
  <2>2. IsWhole(Used(f)) /\ Restored(f) = Used(f).v
    BY RestoredUsed
  <2> QED BY <2>1, <2>2 DEF Reported, Used
<1> QED BY <1>1, InvAlways, PTL

-----------------------------------------------------------------------------
(***************************************************************************)
(* The log.  A message is in the file, among the lines that are written    *)
(* again, or in the queue of its logger, and in this order; the lines are  *)
(* only there while the file is empty.                                     *)
(***************************************************************************)
AtRewrite == plan # <<>> /\ Head(plan).op = "rewrite"

NoRewrite(s) == \A i \in 1 .. Len(s) : s[i].op # "rewrite"

Rewriting ==
  /\ AtRewrite => log = <<>>
  /\ lines # <<>> => AtRewrite
  /\ \A i \in 2 .. Len(plan) : plan[i].op # "rewrite"

Numbered == gone \subseteq Range(said) /\ \A m \in Range(said) : m.n <= Len(said)

Owned == \A l \in Logger : \A m \in Range(q[l]) : m.by = l

Rising(s, l) ==
  \A i, j \in 1 .. Len(s) : i < j /\ s[i].by = l /\ s[j].by = l => s[i].n < s[j].n

Below(a, b, l) == \A x \in Range(a), y \in Range(b) : x.by = l /\ y.by = l => x.n < y.n

Here(l) == Range(log) \cup Range(lines) \cup Range(q[l])

KeptOf(l) ==
  /\ Rising(log, l) /\ Rising(lines, l) /\ Rising(q[l], l)
  /\ Below(log, lines, l) /\ Below(log, q[l], l) /\ Below(lines, q[l], l)
  /\ \A m \in Here(l) : m.by = l => m \in Range(said) /\ m \notin gone
  /\ \A m \in Here(l), k \in Range(said) :
       m.by = l /\ k.by = l /\ k \notin gone /\ m.n < k.n => k \in Here(l)

LogInv == Rewriting /\ Numbered /\ Owned /\ \A l \in Logger : KeptOf(l)

LEMMA InRange ==
  ASSUME NEW S, NEW a \in Seq(S)
  PROVE  /\ Len(a) \in Nat /\ DOMAIN a = 1 .. Len(a) /\ Range(a) \subseteq S
         /\ \A i \in 1 .. Len(a) : a[i] \in Range(a)
         /\ \A x \in Range(a) : \E i \in 1 .. Len(a) : x = a[i]
<1>1. Len(a) \in Nat /\ DOMAIN a = 1 .. Len(a) /\ \A i \in 1 .. Len(a) : a[i] \in S
  BY LenProperties, ElementOfSeq
<1> QED BY <1>1 DEF Range

LEMMA ConcatRange ==
  ASSUME NEW S, NEW a \in Seq(S), NEW b \in Seq(S)
  PROVE  /\ a \o b \in Seq(S) /\ Range(a \o b) = Range(a) \cup Range(b)
         /\ Len(a \o b) = Len(a) + Len(b)
         /\ \A i \in 1 .. Len(a) + Len(b) : (a \o b)[i] = IF i <= Len(a) THEN a[i] ELSE b[i - Len(a)]
<1> DEFINE t == a \o b
           m == Len(a)
           n == Len(b)
<1>1. /\ t \in Seq(S) /\ Len(t) = m + n
      /\ \A i \in 1 .. m + n : t[i] = IF i <= m THEN a[i] ELSE b[i - m]
  BY ConcatProperties
<1>2. /\ m \in Nat /\ DOMAIN a = 1 .. m /\ n \in Nat /\ DOMAIN b = 1 .. n
  BY LenProperties
<1> HIDE DEF t, m, n
<1>3. DOMAIN t = 1 .. m + n
  BY <1>1, LenProperties
<1>4. \A i \in 1 .. m + n : (i \in 1 .. m /\ t[i] = a[i]) \/ (i - m \in 1 .. n /\ t[i] = b[i - m])
  BY <1>1, <1>2
<1>5. \A i \in 1 .. m : i \in 1 .. m + n /\ t[i] = a[i]
  BY <1>1, <1>2
<1>6. \A i \in 1 .. n : i + m \in 1 .. m + n /\ t[i + m] = b[i]
  <2>1. \A i \in 1 .. n : i + m \in 1 .. m + n /\ ~(i + m <= m) /\ (i + m) - m = i
    BY <1>2
  <2> QED BY <1>1, <2>1
<1>7. Range(t) \subseteq Range(a) \cup Range(b)
  BY <1>2, <1>3, <1>4 DEF Range
<1>8. Range(a) \subseteq Range(t) /\ Range(b) \subseteq Range(t)
  BY <1>2, <1>3, <1>5, <1>6 DEF Range
<1> QED BY <1>1, <1>7, <1>8 DEF t, m, n

LEMMA RisingConcat ==
  ASSUME NEW l, NEW a \in Seq(Line), NEW b \in Seq(Line),
         Rising(a, l), Rising(b, l), Below(a, b, l)
  PROVE  Rising(a \o b, l)
<1> DEFINE t == a \o b
           m == Len(a)
           n == Len(b)
<1>1. /\ Len(t) = m + n /\ m \in Nat /\ n \in Nat
      /\ \A i \in 1 .. m + n : t[i] = IF i <= m THEN a[i] ELSE b[i - m]
  BY ConcatRange, LenProperties
<1>2. /\ \A i \in 1 .. m : a[i] \in Range(a)
      /\ \A i \in 1 .. n : b[i] \in Range(b)
  BY InRange
<1>3. /\ \A i, j \in 1 .. m : i < j /\ a[i].by = l /\ a[j].by = l => a[i].n < a[j].n
      /\ \A i, j \in 1 .. n : i < j /\ b[i].by = l /\ b[j].by = l => b[i].n < b[j].n
  BY DEF Rising
<1>4. \A i \in 1 .. m, j \in 1 .. n : a[i].by = l /\ b[j].by = l => a[i].n < b[j].n
  BY <1>2 DEF Below
<1> HIDE DEF t, m, n
<1> SUFFICES ASSUME NEW i \in 1 .. m + n, NEW j \in 1 .. m + n, i < j, t[i].by = l, t[j].by = l
             PROVE  t[i].n < t[j].n
  BY <1>1 DEF Rising, t
<1>5. CASE j <= m
  <2>1. i \in 1 .. m /\ j \in 1 .. m /\ t[i] = a[i] /\ t[j] = a[j]
    BY <1>1, <1>5
  <2> QED BY <1>3, <2>1
<1>6. CASE i <= m /\ ~(j <= m)
  <2>1. i \in 1 .. m /\ j - m \in 1 .. n /\ t[i] = a[i] /\ t[j] = b[j - m]
    BY <1>1, <1>6
  <2> QED BY <1>4, <2>1
<1>7. CASE ~(i <= m)
  <2>1. /\ i - m \in 1 .. n /\ j - m \in 1 .. n /\ i - m < j - m
        /\ t[i] = b[i - m] /\ t[j] = b[j - m]
    BY <1>1, <1>7
  <2> QED BY <1>3, <2>1
<1> QED BY <1>1, <1>5, <1>6, <1>7

(* A part of the lines; what a last part leaves out comes before it.       *)
LEMMA RisingPart ==
  ASSUME NEW l, NEW a \in Seq(Line), Rising(a, l), NEW k \in Nat \ {0}, NEW j \in 0 .. Len(a)
  PROVE  /\ Rising(SubSeq(a, k, j), l)
         /\ j = Len(a) => \A x \in Range(a), y \in Range(SubSeq(a, k, j)) :
              x.by = l /\ y.by = l /\ x \notin Range(SubSeq(a, k, j)) => x.n < y.n
<1> DEFINE t == SubSeq(a, k, j)
           m == Len(a)
<1>1. /\ m \in Nat /\ \A i \in 1 .. m : a[i] \in Line
      /\ \A x \in Range(a) : \E i \in 1 .. m : x = a[i]
  BY InRange, ElementOfSeq
<1>2. \A i \in k .. j : i \in 1 .. m /\ a[i] \in Line
  BY <1>1
<1>3. /\ t \in Seq(Line) /\ Len(t) = IF k <= j THEN j - k + 1 ELSE 0
      /\ \A i \in 1 .. j - k + 1 : t[i] = a[k + i - 1]
  BY <1>2, SubSeqProperties
<1>4. /\ \A i \in 1 .. Len(t) : t[i] \in Range(t)
      /\ \A x \in Range(t) : \E i \in 1 .. Len(t) : x = t[i]
  BY <1>3, InRange
<1>5. \A p, r \in 1 .. m : p < r /\ a[p].by = l /\ a[r].by = l => a[p].n < a[r].n
  BY DEF Rising
<1> HIDE DEF t, m
<1>6. \A i \in 1 .. Len(t) : k + i - 1 \in k .. j /\ k + i - 1 \in 1 .. m /\ t[i] = a[k + i - 1]
  <2>1. \A i \in 1 .. Len(t) : i \in 1 .. j - k + 1 /\ k + i - 1 \in k .. j
    BY <1>1, <1>3
  <2>2. \A i \in 1 .. Len(t) : k + i - 1 \in 1 .. m
    BY <1>2, <2>1
  <2> QED BY <1>3, <2>1, <2>2
<1>7. \A i, r \in 1 .. Len(t) : i < r => k + i - 1 < k + r - 1
  BY <1>3
<1>8. Rising(t, l)
  BY <1>5, <1>6, <1>7 DEF Rising
<1>9. ASSUME j = m, NEW x \in Range(a), NEW y \in Range(t), x.by = l, y.by = l, x \notin Range(t)
      PROVE  x.n < y.n
  <2>1. PICK p \in 1 .. m : x = a[p]
    BY <1>1
  <2>2. PICK r \in 1 .. Len(t) : y = t[r]
    BY <1>4
  <2>3. k + r - 1 \in k .. j /\ k + r - 1 \in 1 .. m /\ y = a[k + r - 1]
    BY <1>6, <2>2
  <2>4. p < k
    <3> SUFFICES ASSUME k <= p PROVE FALSE
      BY <1>1
    <3>1. p - k + 1 \in 1 .. Len(t) /\ k + (p - k + 1) - 1 = p
      BY <1>1, <1>3, <1>9
    <3>2. t[p - k + 1] = a[p]
      BY <1>6, <3>1
    <3> QED BY <1>4, <1>9, <2>1, <3>1, <3>2
  <2>5. p < k + r - 1
    BY <1>1, <2>3, <2>4
  <2> QED BY <1>5, <1>9, <2>1, <2>3, <2>5
<1> QED BY <1>8, <1>9 DEF t, m

LEMMA PartRange ==
  ASSUME NEW a \in Seq(Line), NEW k \in Nat \ {0}, NEW j \in 0 .. Len(a)
  PROVE  SubSeq(a, k, j) \in Seq(Line) /\ Range(SubSeq(a, k, j)) \subseteq Range(a)
<1> DEFINE t == SubSeq(a, k, j)
           m == Len(a)
<1>1. m \in Nat /\ \A i \in 1 .. m : a[i] \in Line /\ a[i] \in Range(a)
  BY InRange, ElementOfSeq
<1>2. \A i \in k .. j : i \in 1 .. m /\ a[i] \in Line
  BY <1>1
<1>3. /\ t \in Seq(Line) /\ Len(t) = IF k <= j THEN j - k + 1 ELSE 0
      /\ \A i \in 1 .. j - k + 1 : t[i] = a[k + i - 1]
  BY <1>2, SubSeqProperties
<1>4. \A x \in Range(t) : \E i \in 1 .. Len(t) : x = t[i]
  BY <1>3, InRange
<1> HIDE DEF t, m
<1>5. \A i \in 1 .. Len(t) : k + i - 1 \in 1 .. m /\ t[i] = a[k + i - 1]
  <2>1. \A i \in 1 .. Len(t) : i \in 1 .. j - k + 1 /\ k + i - 1 \in k .. j
    BY <1>1, <1>3
  <2>2. \A i \in 1 .. Len(t) : k + i - 1 \in 1 .. m
    BY <1>2, <2>1
  <2> QED BY <1>3, <2>1, <2>2
<1>6. Range(t) \subseteq Range(a)
  BY <1>1, <1>4, <1>5
<1> QED BY <1>3, <1>6 DEF t

(* Lines none of which are of that logger. *)
LEMMA NoneRising ==
  ASSUME NEW l, NEW a \in Seq(Line), \A x \in Range(a) : x.by # l
  PROVE  Rising(a, l) /\ \A b : Below(a, b, l) /\ Below(b, a, l)
<1>1. \A i \in 1 .. Len(a) : a[i] \in Range(a)
  BY InRange
<1> QED BY <1>1 DEF Rising, Below

LEMMA EmptyRising ==
  /\ <<>> \in Seq(Line) /\ Range(<<>>) = {}
  /\ \A l : Rising(<<>>, l) /\ \A b : Below(<<>>, b, l) /\ Below(b, <<>>, l)
<1>1. <<>> \in Seq(Line) /\ Range(<<>>) = {}
  BY EmptySeq DEF Range
<1> QED BY <1>1, NoneRising DEF Below

LEMMA LogTypes ==
  ASSUME Inv
  PROVE  /\ log \in Seq(Line) /\ lines \in Seq(Line) /\ said \in Seq(Line) /\ plan \in Seq(Statement)
         /\ \A l \in Logger : q[l] \in Seq(Line)
         /\ Range(log) \subseteq Line /\ Range(lines) \subseteq Line /\ Range(said) \subseteq Line
         /\ \A l \in Logger : Range(q[l]) \subseteq Line
         /\ \A x \in Line : x.n \in Nat /\ x.by \in Logger
<1>1. /\ log \in Seq(Line) /\ lines \in Seq(Line) /\ said \in Seq(Line) /\ plan \in Seq(Statement)
      /\ \A l \in Logger : q[l] \in Seq(Line)
  BY DEF Inv, Types
<1>2. /\ Range(log) \subseteq Line /\ Range(lines) \subseteq Line /\ Range(said) \subseteq Line
      /\ \A l \in Logger : Range(q[l]) \subseteq Line
  BY <1>1, InRange
<1> QED BY <1>1, <1>2 DEF Line

(* Messages of a logger that are dropped are gone or older than the rest.  *)
LEMMA MovedOK ==
  ASSUME NEW l \in Logger, Inv, KeptOf(l), said' = said,
         Rising(log', l), Rising(lines', l), Rising(q'[l], l),
         Below(log', lines', l), Below(log', q'[l], l), Below(lines', q'[l], l),
         \A m \in Here(l)' : m.by = l => m \in Here(l) /\ m \notin gone',
         gone \subseteq gone',
         \A k \in Here(l) : k.by = l =>
           \/ k \in Here(l)' \/ k \in gone'
           \/ \A m \in Here(l)' : m.by = l => k.n < m.n
  PROVE  KeptOf(l)'
<1>1. \A m \in Here(l)' : m.by = l => m \in Range(said) /\ m \notin gone'
  BY DEF KeptOf
<1>2. \A m \in Range(said) : m.n \in Nat
  BY LogTypes
<1>3. ASSUME NEW m \in Here(l)', NEW k \in Range(said), m.by = l, k.by = l, k \notin gone', m.n < k.n
      PROVE  k \in Here(l)'
  <2>1. m \in Here(l) /\ m.n \in Nat /\ k.n \in Nat /\ k \notin gone
    BY <1>1, <1>2, <1>3
  <2>2. k \in Here(l)
    BY <1>3, <2>1 DEF KeptOf
  <2>3. ~(k.n < m.n)
    BY <1>3, <2>1
  <2> QED BY <1>3, <2>2, <2>3
<1> QED BY <1>1, <1>3 DEF KeptOf

(* Plans without a line to be written again. *)
LEMMA NoneRewritten ==
  ASSUME NEW s, NoRewrite(s), plan' = s, s \in Seq(Statement), lines' = <<>>
  PROVE  Rewriting'
<1>1. ~(s # <<>> /\ Head(s).op = "rewrite")
  <2> SUFFICES ASSUME s # <<>> PROVE Head(s).op # "rewrite"
    OBVIOUS
  <2>1. Len(s) \in Nat \ {0} /\ Head(s) = s[1]
    BY EmptySeq, HeadTailProperties
  <2> QED BY <2>1 DEF NoRewrite
<1>2. \A i \in 2 .. Len(s) : i \in 1 .. Len(s)
  OBVIOUS
<1> QED BY <1>1, <1>2 DEF Rewriting, AtRewrite, NoRewrite

LEMMA RewriteRest ==
  ASSUME Inv, Rewriting, plan # <<>>
  PROVE  /\ NoRewrite(Tail(plan)) /\ Tail(plan) \in Seq(Statement)
         /\ plan \in Seq(Statement) /\ Len(plan) \in Nat \ {0} /\ Head(plan) = plan[1]
         /\ \A i \in 1 .. Len(plan) : i = 1 \/ plan[i].op # "rewrite"
<1>1. /\ plan \in Seq(Statement) /\ Len(plan) \in Nat \ {0} /\ Head(plan) = plan[1]
      /\ Tail(plan) \in Seq(Statement) /\ Len(Tail(plan)) = Len(plan) - 1
      /\ \A i \in 1 .. Len(Tail(plan)) : Tail(plan)[i] = plan[i + 1]
  BY LogTypes, EmptySeq, HeadTailProperties
<1> DEFINE n == Len(plan)
<1> HIDE DEF n
<1>2. n \in Nat \ {0} /\ Len(Tail(plan)) = n - 1 /\ \A i \in 2 .. n : plan[i].op # "rewrite"
  BY <1>1 DEF Rewriting, n
<1>3. \A i \in 1 .. n - 1 : i + 1 \in 2 .. n
  BY <1>2
<1>4. \A i \in 1 .. n : i = 1 \/ i \in 2 .. n
  BY <1>2
<1> QED BY <1>1, <1>2, <1>3, <1>4 DEF NoRewrite, n

LEMMA ConcatNoRewrite ==
  ASSUME NEW a \in Seq(Statement), NEW b \in Seq(Statement), NoRewrite(a), NoRewrite(b)
  PROVE  NoRewrite(a \o b) /\ a \o b \in Seq(Statement)
<1> DEFINE t == a \o b
           m == Len(a)
           n == Len(b)
<1>1. /\ t \in Seq(Statement) /\ Len(t) = m + n /\ m \in Nat /\ n \in Nat
      /\ \A i \in 1 .. m + n : t[i] = IF i <= m THEN a[i] ELSE b[i - m]
  BY ConcatProperties, LenProperties
<1>2. (\A i \in 1 .. m : a[i].op # "rewrite") /\ (\A i \in 1 .. n : b[i].op # "rewrite")
  BY DEF NoRewrite
<1> HIDE DEF t, m, n
<1>3. \A i \in 1 .. m + n : (i \in 1 .. m /\ t[i] = a[i]) \/ (i - m \in 1 .. n /\ t[i] = b[i - m])
  BY <1>1
<1>4. t \in Seq(Statement) /\ NoRewrite(t)
  BY <1>1, <1>2, <1>3 DEF NoRewrite
<1> QED BY <1>4 DEF t

LEMMA OneNoRewrite ==
  ASSUME NEW x \in Statement, x.op # "rewrite"
  PROVE  NoRewrite(<<x>>) /\ <<x>> \in Seq(Statement)
<1>1. <<x>> \in Seq(Statement) /\ Len(<<x>>) = 1 /\ <<x>>[1] = x
  OBVIOUS
<1> QED BY <1>1 DEF NoRewrite

LEMMA HandlersNoRewrite ==
  ASSUME Inv
  PROVE  /\ \A f \in File : /\ NoRewrite(Save(f)) /\ Save(f) \in Seq(Statement)
                            /\ NoRewrite(Default(f)) /\ Default(f) \in Seq(Statement)
                            /\ NoRewrite(<<Do("read", f)>>) /\ <<Do("read", f)>> \in Seq(Statement)
         /\ \A l \in Logger, v \in Nat : NoRewrite(Say(l, v)) /\ Say(l, v) \in Seq(Statement)
<1>1. saves \in Nat /\ menu \in Logger
  BY FilesAssumption DEF Inv, Types
<1>2. \A f \in File, o \in SaveOp \cup ResetOp : Do(o, f) \in Statement /\ Do(o, f).op = o
  BY <1>1 DEF Do, Statement
<1>3. ASSUME NEW f \in File PROVE NoRewrite(Save(f)) /\ Save(f) \in Seq(Statement)
  <2> DEFINE s == Save(f)
  <2>1. /\ Do("open", f) \in Statement /\ Do("open", f).op = "open"
        /\ Do("write", f) \in Statement /\ Do("write", f).op = "write"
        /\ Do("remove", f) \in Statement /\ Do("remove", f).op = "remove"
        /\ Do("copy", f) \in Statement /\ Do("copy", f).op = "copy"
    BY <1>2 DEF SaveOp
  <2>2. /\ s \in Seq(Statement) /\ Len(s) = 4
        /\ s[1] = Do("open", f) /\ s[2] = Do("write", f) /\ s[3] = Do("remove", f) /\ s[4] = Do("copy", f)
    BY <2>1 DEF Save
  <2> HIDE DEF s
  <2>3. \A i \in 1 .. 4 : i = 1 \/ i = 2 \/ i = 3 \/ i = 4
    OBVIOUS
  <2>4. NoRewrite(s)
    BY <2>1, <2>2, <2>3 DEF NoRewrite
  <2> QED BY <2>2, <2>4 DEF s
<1>4. ASSUME NEW f \in File PROVE NoRewrite(Default(f)) /\ Default(f) \in Seq(Statement)
  <2> DEFINE s == Default(f)
  <2>1. /\ Do("clear", f) \in Statement /\ Do("clear", f).op = "clear"
        /\ Do("rename", f) \in Statement /\ Do("rename", f).op = "rename"
        /\ Do("default", f) \in Statement /\ Do("default", f).op = "default"
    BY <1>2 DEF ResetOp
  <2>2. /\ s \in Seq(Statement) /\ Len(s) = 3
        /\ s[1] = Do("clear", f) /\ s[2] = Do("rename", f) /\ s[3] = Do("default", f)
    BY <2>1 DEF Default
  <2> HIDE DEF s
  <2>3. \A i \in 1 .. 3 : i = 1 \/ i = 2 \/ i = 3
    OBVIOUS
  <2>4. NoRewrite(s)
    BY <2>1, <2>2, <2>3 DEF NoRewrite
  <2> QED BY <2>2, <2>4 DEF s
<1>5. ASSUME NEW f \in File PROVE NoRewrite(<<Do("read", f)>>) /\ <<Do("read", f)>> \in Seq(Statement)
  <2>1. Do("read", f) \in Statement /\ Do("read", f).op = "read"
    BY <1>2 DEF ResetOp
  <2> QED BY <2>1, OneNoRewrite
<1>6. ASSUME NEW l \in Logger, NEW v \in Nat PROVE NoRewrite(Say(l, v)) /\ Say(l, v) \in Seq(Statement)
  <2> DEFINE x == [op |-> "message", file |-> "log", by |-> l, v |-> v]
  <2>1. x \in Statement /\ x.op # "rewrite"
    BY DEF Statement, LogOp
  <2> HIDE DEF x
  <2>2. NoRewrite(<<x>>) /\ <<x>> \in Seq(Statement)
    BY <2>1, OneNoRewrite
  <2> QED BY <2>2 DEF Say, x
<1> QED BY <1>3, <1>4, <1>5, <1>6

(* A step that says nothing and leaves the log alone. *)
LEMMA LogUntouched ==
  ASSUME LogInv, UNCHANGED <<log, lines, q, said, gone>>, Rewriting'
  PROVE  LogInv'
<1>1. \A l \in Logger : Here(l)' = Here(l)
  BY DEF Here
<1>2. \A l \in Logger : KeptOf(l)'
  BY <1>1 DEF LogInv, KeptOf
<1> QED BY <1>2 DEF LogInv, Numbered, Owned

LEMMA BeginsLog ==
  ASSUME Inv, LogInv, plan = <<>>, NEW s \in Seq(Statement), NoRewrite(s), plan' = s,
         UNCHANGED <<log, lines, q, said, gone>>
  PROVE  LogInv'
<1>1. lines' = <<>>
  BY DEF LogInv, Rewriting, AtRewrite
<1> QED BY <1>1, NoneRewritten, LogUntouched

LEMMA HandlersLog ==
  ASSUME Inv, LogInv, MenuSave \/ DialogSave \/ Reset \/ (\E l \in Logger : Note(l)) \/ Start
  PROVE  LogInv'
<1>1. "system" \in File /\ "channels" \in File /\ menu \in Logger /\ saves \in Nat
  BY FilesAssumption DEF File, Inv, Types
<1>2. saves + 1 \in Nat /\ 0 \in Nat
  BY <1>1
<1>3. CASE MenuSave
  <2>1. plan = <<>> /\ plan' = SaveSteps /\ UNCHANGED <<log, lines, q, said, gone>>
    BY <1>3 DEF MenuSave, Begin, logVars
  <2>2. SaveSteps \in Seq(Statement) /\ NoRewrite(SaveSteps)
    <3>1. /\ NoRewrite(Save("system")) /\ Save("system") \in Seq(Statement)
          /\ NoRewrite(Save("channels")) /\ Save("channels") \in Seq(Statement)
          /\ NoRewrite(Say(menu, saves + 1)) /\ Say(menu, saves + 1) \in Seq(Statement)
      BY <1>1, <1>2, HandlersNoRewrite
    <3> QED BY <3>1, ConcatNoRewrite DEF SaveSteps
  <2> QED BY <2>1, <2>2, BeginsLog
<1>4. CASE DialogSave
  <2>1. plan = <<>> /\ plan' = Save("channels") /\ UNCHANGED <<log, lines, q, said, gone>>
    BY <1>4 DEF DialogSave, Begin, logVars
  <2>2. Save("channels") \in Seq(Statement) /\ NoRewrite(Save("channels"))
    BY <1>1, HandlersNoRewrite
  <2> QED BY <2>1, <2>2, BeginsLog
<1>5. CASE Reset
  <2>1. /\ plan = <<>> /\ UNCHANGED <<log, lines, q, said, gone>>
        /\ plan' = Default("channels") \o Default("system")
                     \o <<Do("read", "channels"), Do("read", "system")>> \o Say(menu, 0)
    BY <1>5 DEF Reset, Begin, logVars
  <2> DEFINE r == <<Do("read", "channels"), Do("read", "system")>>
  <2>2. r \in Seq(Statement) /\ NoRewrite(r)
    <3>1. \A f \in File : Do("read", f) \in Statement /\ Do("read", f).op = "read"
      BY <1>1 DEF Do, Statement, ResetOp
    <3>2. Do("read", "channels") \in Statement /\ Do("read", "system") \in Statement
      BY <1>1, <3>1
    <3>3. r \in Seq(Statement) /\ Len(r) = 2 /\ r[1] = Do("read", "channels") /\ r[2] = Do("read", "system")
      BY <3>2
    <3> HIDE DEF r
    <3>4. \A i \in 1 .. 2 : i = 1 \/ i = 2
      OBVIOUS
    <3> QED BY <1>1, <3>1, <3>3, <3>4 DEF NoRewrite
  <2>3. /\ NoRewrite(Default("system")) /\ Default("system") \in Seq(Statement)
        /\ NoRewrite(Default("channels")) /\ Default("channels") \in Seq(Statement)
        /\ NoRewrite(Say(menu, 0)) /\ Say(menu, 0) \in Seq(Statement)
    BY <1>1, <1>2, HandlersNoRewrite
  <2> HIDE DEF r
  <2>4. /\ Default("channels") \o Default("system") \o r \o Say(menu, 0) \in Seq(Statement)
        /\ NoRewrite(Default("channels") \o Default("system") \o r \o Say(menu, 0))
    BY <2>2, <2>3, ConcatNoRewrite
  <2> QED BY <2>1, <2>4, BeginsLog DEF r
<1>6. ASSUME NEW l \in Logger, Note(l) PROVE LogInv'
  <2>1. plan = <<>> /\ plan' = Say(l, 0) /\ UNCHANGED <<log, lines, q, said, gone>>
    BY <1>6 DEF Note, logVars
  <2> QED BY <1>2, <2>1, HandlersNoRewrite, BeginsLog
<1>7. CASE Start
  <2>1. plan = <<>> /\ UNCHANGED <<log, lines, q, said, gone>>
    BY <1>7 DEF Start, logVars, Inv, Planned
  <2>2. PICK l \in Logger : plan' = Say(l, 0)
    BY <1>7 DEF Start
  <2> QED BY <1>2, <2>1, <2>2, HandlersNoRewrite, BeginsLog
<1> QED BY <1>3, <1>4, <1>5, <1>6, <1>7

LEMMA SettingsStepLog ==
  ASSUME Inv, LogInv, SettingsStep
  PROVE  LogInv'
<1>1. /\ plan # <<>> /\ UNCHANGED <<log, lines, q, said, gone>>
      /\ Head(plan).op \in SaveOp \cup ResetOp
  BY DEF SettingsStep, logVars, SaveOp, ResetOp
<1>2. Rewriting /\ lines' = <<>>
  BY <1>1 DEF LogInv, Rewriting, AtRewrite, SaveOp, ResetOp
<1>3. /\ NoRewrite(Tail(plan)) /\ Tail(plan) \in Seq(Statement)
      /\ plan \in Seq(Statement) /\ Len(plan) \in Nat \ {0}
      /\ \A i \in 1 .. Len(plan) : i = 1 \/ plan[i].op # "rewrite"
  BY <1>1, <1>2, RewriteRest
<1>4. plan' = Tail(plan) \/ plan' = SubSeq(plan, 5, Len(plan))
  BY DEF SettingsStep, Open, Write, RemoveBackup, Copy, Clear, Rename, CopyDefault, Read, Next1
<1>5. CASE plan' = Tail(plan)
  BY <1>1, <1>2, <1>3, <1>5, NoneRewritten, LogUntouched
<1>6. CASE plan' = SubSeq(plan, 5, Len(plan))
  <2> DEFINE t == SubSeq(plan, 5, Len(plan))
             n == Len(plan)
  <2>1. n \in Nat \ {0} /\ \A i \in 5 .. n : i \in 1 .. n /\ plan[i] \in Statement
    BY <1>3, ElementOfSeq
  <2>2. /\ t \in Seq(Statement) /\ Len(t) = IF 5 <= n THEN n - 5 + 1 ELSE 0
        /\ \A i \in 1 .. n - 5 + 1 : t[i] = plan[5 + i - 1]
    BY <2>1, SubSeqProperties
  <2>3. \A i \in 1 .. n : i = 1 \/ plan[i].op # "rewrite"
    BY <1>3
  <2> HIDE DEF n, t
  <2>4. \A i \in 1 .. Len(t) : 5 + i - 1 \in 1 .. n /\ 5 + i - 1 # 1 /\ t[i] = plan[5 + i - 1]
    BY <2>1, <2>2
  <2>5. NoRewrite(t)
    BY <2>3, <2>4 DEF NoRewrite
  <2>6. plan' = t
    BY <1>6 DEF t, n
  <2> QED BY <1>1, <1>2, <2>2, <2>5, <2>6, NoneRewritten, LogUntouched
<1> QED BY <1>4, <1>5, <1>6

LEMMA FollowedNoRewrite ==
  ASSUME Inv, Rewriting, plan # <<>>, NEW a \in Seq(Statement), NoRewrite(a),
         plan' = a \o Tail(plan), lines' = <<>>
  PROVE  Rewriting'
<1>1. NoRewrite(Tail(plan)) /\ Tail(plan) \in Seq(Statement)
  BY RewriteRest
<1>2. NoRewrite(a \o Tail(plan)) /\ a \o Tail(plan) \in Seq(Statement)
  BY <1>1, ConcatNoRewrite
<1> QED BY <1>2, NoneRewritten

(* The message is the latest of its logger. *)
LEMMA MessageLog ==
  ASSUME Inv, LogInv, LogStep, Head(plan).op = "message", Message(Head(plan)),
         NEW b \in Logger, b = Head(plan).by
  PROVE  LogInv'
<1> DEFINE do == Head(plan)
           m == [n |-> Len(said) + 1, by |-> b, v |-> do.v]
           app == <<[do EXCEPT !.op = "append"]>>
           size == IF Len(log) >= MaxLog THEN <<[do EXCEPT !.op = "shorten"]>> ELSE <<>>
<1>1. /\ plan # <<>> /\ do \in Statement /\ do.by \in Logger /\ do.v \in Nat
  BY LogHead
<1>2. /\ log' = log /\ lines' = lines /\ gone' = gone /\ said' = Append(said, m)
      /\ q' = [q EXCEPT ![b] = Append(@, m)]
      /\ plan' = (size \o app) \o Tail(plan)
  BY DEF Message, Then
<1>3. lines = <<>> /\ Rewriting
  BY DEF LogInv, Rewriting, AtRewrite
<1>4. Rewriting'
  <2>1. /\ [do EXCEPT !.op = "append"] \in Statement /\ [do EXCEPT !.op = "append"].op = "append"
        /\ [do EXCEPT !.op = "shorten"] \in Statement /\ [do EXCEPT !.op = "shorten"].op = "shorten"
    BY <1>1 DEF Statement, LogOp
  <2>2. app \in Seq(Statement) /\ NoRewrite(app)
    BY <2>1, OneNoRewrite
  <2>3. /\ <<[do EXCEPT !.op = "shorten"]>> \in Seq(Statement)
        /\ NoRewrite(<<[do EXCEPT !.op = "shorten"]>>)
    BY <2>1, OneNoRewrite
  <2>4. <<>> \in Seq(Statement) /\ NoRewrite(<<>>)
    BY EmptySeq DEF NoRewrite
  <2>5. size \in Seq(Statement) /\ NoRewrite(size)
    BY <2>3, <2>4
  <2> HIDE DEF size, app
  <2>6. size \o app \in Seq(Statement) /\ NoRewrite(size \o app)
    BY <2>2, <2>5, ConcatNoRewrite
  <2> QED BY <1>1, <1>2, <1>3, <2>6, FollowedNoRewrite
<1> HIDE DEF size, app
<1>5. /\ log \in Seq(Line) /\ said \in Seq(Line) /\ Len(said) \in Nat
      /\ \A l \in Logger : q[l] \in Seq(Line)
      /\ q \in [Logger -> Seq(Line)]
      /\ \A x \in Range(said) : x.n \in Nat
  BY LogTypes, LenProperties DEF Inv, Types
<1>6. m \in Line /\ m.n = Len(said) + 1 /\ m.by = b
  BY <1>1, <1>5 DEF Line
<1> HIDE DEF m
<1>7. \A x \in Range(said) : x.n <= Len(said) /\ x.n < m.n
  BY <1>5, <1>6 DEF LogInv, Numbered
<1>8. <<m>> \in Seq(Line) /\ Range(<<m>>) = {m} /\ \A l : Rising(<<m>>, l)
  <2>1. <<m>> \in Seq(Line) /\ Len(<<m>>) = 1 /\ <<m>>[1] = m /\ DOMAIN <<m>> = {1}
    BY <1>6
  <2> QED BY <2>1 DEF Range, Rising
<1>9. Range(said') = Range(said) \cup {m} /\ Len(said') = Len(said) + 1
  <2>1. said' = said \o <<m>>
    BY <1>2, <1>5, <1>6, AppendIsConcat
  <2>2. Len(<<m>>) = 1
    OBVIOUS
  <2>3. /\ Range(said \o <<m>>) = Range(said) \cup Range(<<m>>)
        /\ Len(said \o <<m>>) = Len(said) + Len(<<m>>)
    <3>1. said \in Seq(Line) /\ <<m>> \in Seq(Line)
      BY <1>5, <1>8
    <3> QED BY <3>1, ConcatRange
  <2> QED BY <1>8, <2>1, <2>2, <2>3
<1>10. Numbered'
  <2>1. \A x \in Range(said') : x.n <= Len(said')
    BY <1>5, <1>6, <1>7, <1>9
  <2> QED BY <1>2, <1>9, <2>1 DEF LogInv, Numbered
<1>11. ASSUME NEW l \in Logger, l # b PROVE q'[l] = q[l]
  BY <1>2, <1>5, <1>11
<1>12. q'[b] = q[b] \o <<m>> /\ Range(q'[b]) = Range(q[b]) \cup {m}
  <2>1. q'[b] = Append(q[b], m)
    BY <1>1, <1>2, <1>5
  <2>2. Append(q[b], m) = q[b] \o <<m>>
    BY <1>1, <1>5, <1>6, AppendIsConcat
  <2>3. Range(q[b] \o <<m>>) = Range(q[b]) \cup Range(<<m>>)
    <3>1. q[b] \in Seq(Line) /\ <<m>> \in Seq(Line)
      BY <1>5, <1>8
    <3>2. \A x, y \in Seq(Line) : Range(x \o y) = Range(x) \cup Range(y)
      BY ConcatRange
    <3> QED BY <3>1, <3>2
  <2> QED BY <1>8, <2>1, <2>2, <2>3
<1>13. Owned'
  BY <1>6, <1>11, <1>12 DEF LogInv, Owned
<1>14. ASSUME NEW l \in Logger, l # b PROVE KeptOf(l)'
  <2>1. Here(l)' = Here(l) /\ KeptOf(l)
    BY <1>2, <1>11, <1>14 DEF Here, LogInv
  <2>2. \A k \in Range(said') : k.by = l => k \in Range(said)
    BY <1>6, <1>9, <1>14
  <2> QED BY <1>2, <1>9, <1>11, <1>14, <2>1, <2>2 DEF KeptOf
<1>15. KeptOf(b)'
  <2>1. KeptOf(b) 
    BY <1>1 DEF LogInv
  <2>2. \A x \in Here(b) : x.by = b => x.n < m.n
    BY <1>7, <2>1 DEF KeptOf
  <2>3. Rising(q'[b], b)
    <3>1. Below(q[b], <<m>>, b)
      BY <1>8, <2>2 DEF Below, Here
    <3> QED BY <1>5, <1>8, <1>12, <2>1, <3>1, RisingConcat DEF KeptOf
  <2>4. Below(log, q'[b], b) /\ Below(lines, q'[b], b)
    BY <1>12, <2>1, <2>2 DEF KeptOf, Below, Here
  <2>5. Range(log') \cup Range(lines') \cup Range(q'[b]) = Here(b) \cup {m}
    BY <1>2, <1>12 DEF Here
  <2>6. m \notin gone
    <3>1. m \notin Range(said)
      <4>1. m.n \in Nat
        BY <1>5, <1>6
      <4> QED BY <1>7, <4>1
    <3> QED BY <3>1 DEF LogInv, Numbered
  <2>7. \A x \in Here(b) \cup {m} : x.by = b => x \in Range(said') /\ x \notin gone'
    BY <1>2, <1>9, <2>1, <2>6 DEF KeptOf
  <2>8. \A x \in Here(b) \cup {m}, k \in Range(said') :
          x.by = b /\ k.by = b /\ k \notin gone' /\ x.n < k.n => k \in Here(b) \cup {m}
    <3> SUFFICES ASSUME NEW x \in Here(b), NEW k \in Range(said), x.by = b, k.by = b, k \notin gone,
                        x.n < k.n
                 PROVE  k \in Here(b)
      <4>1. \A k \in Range(said) : ~(m.n < k.n)
        BY <1>5, <1>6, <1>7
      <4>2. ~(m.n < m.n)
        BY <1>5, <1>6
      <4> QED BY <1>2, <1>9, <4>1, <4>2
    <3> QED BY <2>1 DEF KeptOf
  <2> QED BY <1>2, <2>1, <2>3, <2>4, <2>5, <2>7, <2>8 DEF KeptOf, Here
<1>16. \A l \in Logger : KeptOf(l)'
  <2>1. \A l \in Logger : l # b \/ l = b
    OBVIOUS
  <2> QED BY <1>14, <1>15, <2>1
<1> QED BY <1>4, <1>10, <1>13, <1>16 DEF LogInv

LEMMA RestRewriting ==
  ASSUME Inv, Rewriting, plan # <<>>, plan' = Tail(plan), lines' = <<>>
  PROVE  Rewriting'
BY RewriteRest, NoneRewritten

LEMMA RewritingHead ==
  ASSUME Inv, Rewriting, plan # <<>>, NEW d \in Statement, plan' = <<d>> \o Tail(plan), log' = <<>>,
         d.op = "rewrite"
  PROVE  Rewriting'
<1>1. NoRewrite(Tail(plan)) /\ Tail(plan) \in Seq(Statement)
  BY RewriteRest
<1> DEFINE r == Tail(plan)
           n == Len(r)
           t == <<d>> \o r
<1>2. r \in Seq(Statement) /\ n \in Nat /\ \A i \in 1 .. n : r[i].op # "rewrite"
  BY <1>1, LenProperties DEF NoRewrite
<1>3. <<d>> \in Seq(Statement) /\ Len(<<d>>) = 1 /\ <<d>>[1] = d
  OBVIOUS
<1>4. /\ t \in Seq(Statement) /\ Len(t) = 1 + n
      /\ \A i \in 1 .. 1 + n : t[i] = IF i <= 1 THEN d ELSE r[i - 1]
  <2> HIDE DEF r
  <2>1. /\ t \in Seq(Statement) /\ Len(t) = Len(<<d>>) + n
        /\ \A i \in 1 .. Len(<<d>>) + n : t[i] = IF i <= Len(<<d>>) THEN <<d>>[i] ELSE r[i - Len(<<d>>)]
    BY <1>2, <1>3, ConcatProperties
  <2> QED BY <1>2, <1>3, <2>1
<1>5. plan' = t
  OBVIOUS
<1> HIDE DEF r, n, t
<1>6. t # <<>> /\ Head(t) = d
  <2>1. t # <<>>
    BY <1>2, <1>4
  <2>2. Head(t) = t[1]
    BY <1>4, <2>1, HeadTailProperties
  <2> QED BY <1>2, <1>4, <2>1, <2>2
<1>7. \A i \in 2 .. 1 + n : i \in 1 .. 1 + n /\ ~(i <= 1) /\ i - 1 \in 1 .. n
  BY <1>2
<1>8. \A i \in 2 .. Len(t) : t[i].op # "rewrite"
  BY <1>2, <1>4, <1>7
<1> QED BY <1>5, <1>6, <1>8 DEF Rewriting, AtRewrite

LEMMA Shares ==
  ASSUME NEW n \in Nat, NEW c \in Nat \ {0}
  PROVE  n \div c + 1 \in Nat \ {0}
OBVIOUS

LEMMA ShortenLog ==
  ASSUME Inv, LogInv, LogStep, Head(plan).op = "shorten", Shorten(Head(plan))
  PROVE  LogInv'
<1>1. /\ plan # <<>> /\ Head(plan) \in Statement /\ Rewriting
  BY LogHead DEF LogInv
<1>2. lines = <<>>
  BY DEF LogInv, Rewriting, AtRewrite
<1>3. CASE plan' = Tail(plan) /\ UNCHANGED logVars
  BY <1>1, <1>2, <1>3, RestRewriting, LogUntouched DEF logVars
<1>4. CASE /\ lines' = SubSeq(log, Len(log) \div Share + 1, Len(log)) /\ log' = <<>>
           /\ plan' = <<[Head(plan) EXCEPT !.op = "rewrite"]>> \o Tail(plan)
           /\ UNCHANGED <<q, said, gone>>
  <2> DEFINE k == Len(log) \div Share + 1
             s == SubSeq(log, k, Len(log))
  <2>1. Rewriting'
    <3>1. /\ [Head(plan) EXCEPT !.op = "rewrite"] \in Statement
          /\ [Head(plan) EXCEPT !.op = "rewrite"].op = "rewrite"
      BY <1>1 DEF Statement, LogOp
    <3> QED BY <1>1, <1>4, <3>1, RewritingHead
  <2>2. log \in Seq(Line) /\ Len(log) \in Nat
    BY LogTypes, LenProperties
  <2>3. k \in Nat \ {0}
    BY <2>2, Shares, FilesAssumption
  <2>4. lines' = s
    BY <1>4
  <2> HIDE DEF k
  <2>5. s \in Seq(Line) /\ Range(s) \subseteq Range(log)
    BY <2>2, <2>3, PartRange
  <2>6. ASSUME NEW l \in Logger
        PROVE  /\ KeptOf(l) /\ Rising(s, l)
               /\ \A x \in Range(log), y \in Range(s) :
                    x.by = l /\ y.by = l /\ x \notin Range(s) => x.n < y.n
    <3>1. KeptOf(l)
      BY DEF LogInv
    <3>2. Rising(log, l) /\ Len(log) \in 0 .. Len(log)
      BY <2>2, <3>1 DEF KeptOf
    <3> QED BY <2>2, <2>3, <3>1, <3>2, RisingPart
  <2> HIDE DEF s
  <2>7. ASSUME NEW l \in Logger PROVE KeptOf(l)'
    <3>1. KeptOf(l) /\ Rising(s, l)
      BY <2>6
    <3>2. log' = <<>> /\ lines' = s /\ q'[l] = q[l] /\ said' = said /\ gone' = gone
      BY <1>4, <2>4
    <3>3. Here(l) = Range(log) \cup Range(q[l]) /\ Here(l)' = Range(s) \cup Range(q[l])
      BY <1>2, <3>2, EmptyRising DEF Here
    <3>4. Rising(log', l) /\ Rising(lines', l) /\ Rising(q'[l], l)
      BY <3>1, <3>2, EmptyRising DEF KeptOf
    <3>5. Below(log', lines', l) /\ Below(log', q'[l], l) /\ Below(lines', q'[l], l)
      <4>1. Below(log, q[l], l)
        BY <3>1 DEF KeptOf
      <4>2. Below(s, q[l], l)
        BY <2>5, <4>1 DEF Below
      <4> QED BY <3>2, <4>2, EmptyRising
    <3>6. \A m \in Here(l)' : m.by = l => m \in Here(l) /\ m \notin gone'
      BY <2>5, <3>1, <3>2, <3>3 DEF KeptOf
    <3>7. ASSUME NEW x \in Here(l), x.by = l, x \notin Here(l)', NEW y \in Here(l)', y.by = l
          PROVE  x.n < y.n
      <4>1. x \in Range(log) /\ x \notin Range(s)
        BY <3>3, <3>7
      <4>2. CASE y \in Range(s)
        BY <2>6, <3>7, <4>1, <4>2
      <4>3. CASE y \in Range(q[l])
        BY <3>1, <3>7, <4>1, <4>3 DEF KeptOf, Below
      <4> QED BY <3>3, <3>7, <4>2, <4>3
    <3> QED BY <3>1, <3>2, <3>4, <3>5, <3>6, <3>7, MovedOK
  <2> QED BY <1>4, <2>1, <2>7 DEF LogInv, Numbered, Owned
<1> QED BY <1>3, <1>4 DEF Shorten, Then, Next1

LEMMA RewriteLog ==
  ASSUME Inv, LogInv, LogStep, Head(plan).op = "rewrite", Rewrite
  PROVE  LogInv'
<1>1. plan # <<>> /\ Rewriting /\ log = <<>>
  BY LogHead DEF LogInv, Rewriting, AtRewrite
<1>2. log' = lines /\ lines' = <<>> /\ q' = q /\ said' = said /\ gone' = gone /\ plan' = Tail(plan)
  BY DEF Rewrite, Next1
<1>3. Rewriting'
  BY <1>1, <1>2, RestRewriting
<1>4. ASSUME NEW l \in Logger PROVE KeptOf(l)'
  <2>1. KeptOf(l) /\ q'[l] = q[l]
    BY <1>2 DEF LogInv
  <2>2. Here(l)' = Here(l)
    BY <1>1, <1>2, EmptyRising DEF Here
  <2>3. /\ Rising(log', l) /\ Rising(lines', l) /\ Rising(q'[l], l)
        /\ Below(log', lines', l) /\ Below(log', q'[l], l) /\ Below(lines', q'[l], l)
    BY <1>2, <2>1, EmptyRising DEF KeptOf
  <2> QED BY <1>2, <2>1, <2>2, <2>3 DEF KeptOf
<1> QED BY <1>2, <1>3, <1>4 DEF LogInv, Numbered, Owned

(* The queues and the lines hold what was said and is not gone. *)
LEMMA WaitingSaid ==
  ASSUME Inv, LogInv
  PROVE  /\ \A l \in Logger : \A m \in Range(q[l]) : m.by = l /\ m \in Range(said)
         /\ Range(lines) \subseteq Range(said) /\ Range(log) \subseteq Range(said)
         /\ \A m \in Range(log) \cup Range(lines) : m \notin gone
         /\ Range(lines) \cup UNION {Range(q[l]) : l \in Logger} \subseteq Range(said)
<1>1. \A l \in Logger : \A m \in Range(q[l]) : m.by = l /\ m \in Range(said)
  BY DEF LogInv, Owned, KeptOf, Here
<1>2. ASSUME NEW m \in Range(lines) \cup Range(log) PROVE m \in Range(said) /\ m \notin gone
  <2>1. m.by \in Logger
    BY <1>2, LogTypes
  <2>2. KeptOf(m.by) /\ m \in Here(m.by)
    BY <2>1, <1>2 DEF LogInv, Here
  <2> QED BY <2>2 DEF KeptOf
<1>3. UNION {Range(q[l]) : l \in Logger} \subseteq Range(said)
  BY <1>1
<1> QED BY <1>1, <1>2, <1>3

(* Power goes while some of what waits is written; or the program is       *)
(* aborted.                                                                *)
LEMMA PowerOffLog ==
  ASSUME Inv, LogInv, NEW s \in Seq(Line),
         Range(s) \subseteq Range(lines) \cup UNION {Range(q[l]) : l \in Logger},
         \A l \in Logger : Rising(s, l) /\ Below(log, s, l),
         log' = log \o s,
         gone' = gone \cup ((Range(lines) \cup UNION {Range(q[l]) : l \in Logger}) \ Range(s)),
         plan' = <<>>, lines' = <<>>, q' = [l \in Logger |-> <<>>], said' = said
  PROVE  LogInv'
<1> DEFINE waiting == Range(lines) \cup UNION {Range(q[l]) : l \in Logger}
<1>1. waiting \subseteq Range(said) /\ Range(s) \subseteq waiting /\ gone' = gone \cup (waiting \ Range(s))
  BY WaitingSaid
<1>2. /\ \A l \in Logger : Range(q[l]) \subseteq waiting
      /\ Range(lines) \subseteq waiting
      /\ \A l \in Logger : \A x \in waiting : x.by = l => x \in Range(lines) \cup Range(q[l])
  BY DEF LogInv, Owned
<1> HIDE DEF waiting
<1>3. Range(log') = Range(log) \cup Range(s)
  <2>1. log \in Seq(Line)
    BY LogTypes
  <2> QED BY <2>1, ConcatRange
<1>4. Rewriting'
  <2>1. <<>> \in Seq(Statement) /\ NoRewrite(<<>>)
    BY EmptySeq DEF NoRewrite
  <2> QED BY <2>1, NoneRewritten
<1>5. Numbered' /\ Owned'
  BY <1>1, EmptyRising DEF LogInv, Numbered, Owned
<1>6. ASSUME NEW l \in Logger PROVE KeptOf(l)'
  <2>1. KeptOf(l) /\ q'[l] = <<>>
    BY DEF LogInv
  <2>2. Here(l)' = Range(log) \cup Range(s)
    BY <1>3, <2>1, EmptyRising DEF Here
  <2>3. Rising(log', l)
    <3>1. log \in Seq(Line) /\ Rising(log, l)
      BY <2>1, LogTypes DEF KeptOf
    <3> QED BY <3>1, RisingConcat
  <2>4. /\ Rising(lines', l) /\ Rising(q'[l], l)
        /\ Below(log', lines', l) /\ Below(log', q'[l], l) /\ Below(lines', q'[l], l)
    BY <2>1, EmptyRising
  <2>5. ASSUME NEW x \in Here(l)', x.by = l PROVE x \in Here(l) /\ x \notin gone'
    <3>1. x \in Here(l)
      BY <1>1, <1>2, <2>2, <2>5 DEF Here
    <3>2. x \notin gone
      BY <2>1, <2>5, <3>1 DEF KeptOf
    <3>3. x \in Range(s) \/ x \notin waiting
      <4> SUFFICES ASSUME x \in Range(log), x \in waiting PROVE FALSE
        BY <2>2, <2>5
      <4>1. x \in Range(lines) \cup Range(q[l])
        BY <1>2, <2>5
      <4>2. x.n < x.n
        BY <2>1, <2>5, <4>1 DEF KeptOf, Below
      <4>3. x.n \in Nat
        BY LogTypes
      <4> QED BY <4>2, <4>3
    <3> QED BY <1>1, <3>1, <3>2, <3>3
  <2>6. \A k \in Here(l) : k.by = l => k \in Here(l)' \/ k \in gone'
    BY <1>1, <1>2, <2>1, <2>2 DEF Here
  <2> QED BY <1>1, <2>1, <2>3, <2>4, <2>5, <2>6, MovedOK
<1> QED BY <1>4, <1>5, <1>6 DEF LogInv

LEMMA AppendLog ==
  ASSUME Inv, LogInv, LogStep, Head(plan).op = "append", AppendQueue(Head(plan).by)
  PROVE  LogInv'
<1>1. plan # <<>> /\ Rewriting /\ Head(plan).by \in Logger
  BY LogHead DEF LogInv
<1>2. lines = <<>>
  BY DEF LogInv, Rewriting, AtRewrite
<1>3. PICK b \in Logger : b = Head(plan).by
  BY <1>1
<1>4. log \in Seq(Line) /\ q \in [Logger -> Seq(Line)] /\ q[b] \in Seq(Line)
  BY <1>3, LogTypes DEF Inv, Types
<1>5. CASE plan' = Tail(plan) /\ UNCHANGED logVars
  BY <1>1, <1>2, <1>5, RestRewriting, LogUntouched DEF logVars
<1>6. CASE /\ log' = log \o q[b] /\ q' = [q EXCEPT ![b] = <<>>] /\ plan' = Tail(plan)
           /\ UNCHANGED <<lines, said, gone>>
  <2>1. Rewriting'
    BY <1>1, <1>2, <1>6, RestRewriting
  <2>2. /\ Range(log') = Range(log) \cup Range(q[b])
        /\ q'[b] = <<>> /\ \A l \in Logger : l # b => q'[l] = q[l]
        /\ lines' = <<>> /\ lines = <<>> /\ said' = said /\ gone' = gone
    <3>1. \A x, y \in Seq(Line) : Range(x \o y) = Range(x) \cup Range(y)
      BY ConcatRange
    <3> QED BY <1>2, <1>4, <1>6, <3>1
  <2>3. ASSUME NEW l \in Logger
        PROVE  /\ Rising(q[b], l) /\ Below(log, q[b], l)
               /\ l # b => Below(q[b], q[l], l)
    <3>1. CASE l = b
      BY <3>1 DEF LogInv, KeptOf
    <3>2. CASE l # b
      <4>1. \A x \in Range(q[b]) : x.by # l
        BY <3>2 DEF LogInv, Owned
      <4> QED BY <1>4, <4>1, NoneRising
    <3> QED BY <3>1, <3>2
  <2>4. ASSUME NEW l \in Logger PROVE KeptOf(l)'
    <3>1. KeptOf(l)
      BY DEF LogInv
    <3>2. Rising(log', l)
      <4>1. Rising(log, l)
        BY <3>1 DEF KeptOf
      <4> QED BY <1>4, <1>6, <2>3, <4>1, RisingConcat
    <3>3. Below(log', q'[l], l)
      <4>1. CASE l = b
        BY <2>2, <4>1, EmptyRising
      <4>2. CASE l # b
        <5>1. Below(log, q[l], l)
          BY <3>1 DEF KeptOf
        <5> QED BY <2>2, <2>3, <4>2, <5>1 DEF Below
      <4> QED BY <4>1, <4>2
    <3>4. Rising(q'[l], l) /\ Rising(lines', l)
      BY <2>2, <3>1, EmptyRising DEF KeptOf
    <3>5. Below(log', lines', l) /\ Below(lines', q'[l], l)
      BY <2>2, EmptyRising
    <3>6. \A x \in Here(l)' : x.by = l => x \in Here(l)
      <4>1. \A x \in Range(q[b]) : x.by = l => l = b
        BY <1>3 DEF LogInv, Owned
      <4> QED BY <2>2, <4>1, EmptyRising DEF Here
    <3>7. \A x \in Here(l) : x \in Here(l)'
      BY <2>2 DEF Here
    <3> QED BY <2>2, <3>1, <3>2, <3>3, <3>4, <3>5, <3>6, <3>7, MovedOK DEF KeptOf
  <2>5. Owned'
    BY <2>2, EmptyRising DEF LogInv, Owned
  <2> QED BY <1>6, <2>1, <2>4, <2>5 DEF LogInv, Numbered
<1>7. CASE /\ plan' = <<>> /\ q' = [l \in Logger |-> <<>>]
           /\ gone' = gone \cup UNION {Range(q[l]) : l \in Logger}
           /\ UNCHANGED <<log, lines, said>>
  <2>1. /\ <<>> \in Seq(Line) /\ Range(<<>>) = {} /\ Range(lines) = {}
        /\ \A l \in Logger : Rising(<<>>, l) /\ Below(log, <<>>, l)
    BY <1>2, EmptyRising
  <2>2. log' = log \o <<>> /\ lines' = <<>> /\ said' = said
    BY <1>2, <1>4, <1>7, ConcatEmptySeq
  <2>3. gone' = gone \cup ((Range(lines) \cup UNION {Range(q[l]) : l \in Logger}) \ Range(<<>>))
    BY <1>7, <2>1
  <2>4. Range(<<>>) \subseteq Range(lines) \cup UNION {Range(q[l]) : l \in Logger}
    BY <2>1
  <2>5. plan' = <<>> /\ q' = [l \in Logger |-> <<>>]
    BY <1>7
  <2> QED BY <2>1, <2>2, <2>3, <2>4, <2>5, PowerOffLog
<1> QED BY <1>3, <1>5, <1>6, <1>7 DEF AppendQueue, Next1

LEMMA PowerLossLog ==
  ASSUME Inv, LogInv, PowerLoss
  PROVE  LogInv'
<1> DEFINE op == IF plan = <<>> THEN "none" ELSE Head(plan).op
           writing == IF op = "rewrite" THEN lines
                      ELSE IF op = "append" THEN q[Head(plan).by] ELSE <<>>
           waiting == Range(lines) \cup UNION {Range(q[l]) : l \in Logger}
<1>1. /\ plan' = <<>> /\ q' = [l \in Logger |-> <<>>] /\ lines' = <<>> /\ said' = said
      /\ CutLog
  BY DEF PowerLoss
<1>2. PICK s \in Prefixes(writing) : log' = log \o s /\ gone' = gone \cup (waiting \ Range(s))
  BY <1>1 DEF CutLog
<1>3. CASE op = "rewrite"
  <2>1. writing = lines /\ lines \in Seq(Line) /\ log = <<>>
    BY <1>3, LogTypes DEF LogInv, Rewriting, AtRewrite
  <2>2. PICK j \in 0 .. Len(lines) : s = SubSeq(lines, 1, j)
    BY <2>1 DEF Prefixes
  <2>3. s \in Seq(Line) /\ Range(s) \subseteq Range(lines)
    BY <2>1, <2>2, PartRange
  <2>4. ASSUME NEW l \in Logger PROVE Rising(s, l) /\ Below(log, s, l)
    <3>1. Rising(lines, l)
      BY DEF LogInv, KeptOf
    <3> QED BY <2>1, <2>2, <3>1, RisingPart, EmptyRising
  <2> QED BY <1>1, <1>2, <2>3, <2>4, PowerOffLog
<1>4. CASE op = "append"
  <2>1. plan # <<>> /\ Head(plan) \in Statement /\ Head(plan).op = "append"
    <3>1. plan # <<>> /\ Head(plan).op = "append"
      BY <1>4
    <3>2. plan \in Seq(Statement) /\ Head(plan) \in Statement
      BY <3>1, LogTypes, HeadTailProperties
    <3> QED BY <3>1, <3>2
  <2>2. PICK b \in Logger : b = Head(plan).by
    BY <2>1 DEF Statement
  <2>3. writing = q[b] /\ q[b] \in Seq(Line)
    BY <1>4, <2>2, LogTypes
  <2>4. PICK j \in 0 .. Len(q[b]) : s = SubSeq(q[b], 1, j)
    BY <2>3 DEF Prefixes
  <2>5. s \in Seq(Line) /\ Range(s) \subseteq Range(q[b])
    BY <2>3, <2>4, PartRange
  <2>6. Range(s) \subseteq waiting
    BY <2>5
  <2>7. ASSUME NEW l \in Logger PROVE Rising(s, l) /\ Below(log, s, l)
    <3>1. CASE l = b
      <4>1. Rising(q[b], l) /\ Below(log, q[b], l)
        BY <3>1 DEF LogInv, KeptOf
      <4>2. Rising(s, l)
        BY <2>3, <2>4, <4>1, RisingPart
      <4> QED BY <2>5, <4>1, <4>2 DEF Below
    <3>2. CASE l # b
      <4>1. \A x \in Range(s) : x.by # l
        BY <2>5, <3>2 DEF LogInv, Owned
      <4> QED BY <2>5, <4>1, NoneRising
    <3> QED BY <3>1, <3>2
  <2> HIDE DEF waiting
  <2> QED BY <1>1, <1>2, <2>5, <2>6, <2>7, PowerOffLog DEF waiting
<1>5. CASE op # "rewrite" /\ op # "append"
  <2>1. writing = <<>>
    BY <1>5
  <2>2. PICK j \in 0 .. Len(<<>>) : s = SubSeq(<<>>, 1, j)
    BY <2>1 DEF Prefixes
  <2>3. s = <<>>
    <3>1. <<>> \in Seq(Line) /\ Len(<<>>) = 0
      BY EmptyRising
    <3>2. j = 0
      BY <2>2, <3>1
    <3>3. s \in Seq(Line) /\ Len(s) = 0
      BY <2>2, <3>1, <3>2, SubSeqProperties
    <3> QED BY <3>3, EmptySeq
  <2>4. s \in Seq(Line) /\ Range(s) = {} /\ \A l : Rising(s, l) /\ Below(log, s, l)
    BY <2>3, EmptyRising
  <2> QED BY <1>1, <1>2, <2>4, PowerOffLog
<1> QED BY <1>3, <1>4, <1>5

LEMMA InitLog ==
  ASSUME Init
  PROVE  LogInv
<1>1. plan = <<>> /\ log = <<>> /\ lines = <<>> /\ said = <<>> /\ gone = {} /\ q = [l \in Logger |-> <<>>]
  BY DEF Init
<1>2. Len(plan) = 0
  BY <1>1
<1>3. Rewriting
  BY <1>1, <1>2 DEF Rewriting, AtRewrite
<1>4. Numbered /\ Owned
  BY <1>1, EmptyRising DEF Numbered, Owned
<1>5. \A l \in Logger : KeptOf(l)
  BY <1>1, EmptyRising DEF KeptOf, Here
<1> QED BY <1>3, <1>4, <1>5 DEF LogInv

LEMMA StepLog ==
  ASSUME Inv, LogInv, [Next]_vars
  PROVE  LogInv'
<1>1. CASE MenuSave \/ DialogSave \/ Reset \/ (\E l \in Logger : Note(l)) \/ Start
  BY <1>1, HandlersLog
<1>2. CASE SettingsStep
  BY <1>2, SettingsStepLog
<1>3. CASE LogStep
  <2>1. /\ plan # <<>>
        /\ \/ Head(plan).op = "message" /\ Message(Head(plan))
           \/ Head(plan).op = "shorten" /\ Shorten(Head(plan))
           \/ Head(plan).op = "rewrite" /\ Rewrite
           \/ Head(plan).op = "append" /\ AppendQueue(Head(plan).by)
    BY <1>3 DEF LogStep
  <2>2. \E b \in Logger : b = Head(plan).by
    BY <1>3, LogHead
  <2> QED BY <1>3, <2>1, <2>2, MessageLog, ShortenLog, RewriteLog, AppendLog
<1>4. CASE PowerLoss
  BY <1>4, PowerLossLog
<1>5. CASE UNCHANGED vars
  <2>1. UNCHANGED <<log, lines, q, said, gone, plan>>
    BY <1>5 DEF vars, logVars
  <2>2. Rewriting'
    BY <2>1 DEF LogInv, Rewriting, AtRewrite
  <2> QED BY <2>1, <2>2, LogUntouched
<1> QED BY <1>1, <1>2, <1>3, <1>4, <1>5 DEF Next

(* The order of the messages in the three places together. *)
LEMMA HeldInOrder ==
  ASSUME Inv, LogInv, NEW l \in Logger
  PROVE  LET held == log \o lines \o q[l]
         IN /\ \A i, j \in 1 .. Len(held) :
                 i < j /\ held[i].by = l /\ held[j].by = l => held[i].n < held[j].n
            /\ Range(held) = Here(l)
<1> DEFINE a == log \o lines
           held == a \o q[l]
<1>1. log \in Seq(Line) /\ lines \in Seq(Line) /\ q[l] \in Seq(Line)
  BY LogTypes
<1>2. /\ Rising(log, l) /\ Rising(lines, l) /\ Rising(q[l], l)
      /\ Below(log, lines, l) /\ Below(log, q[l], l) /\ Below(lines, q[l], l)
  BY DEF LogInv, KeptOf
<1>3. a \in Seq(Line) /\ Range(a) = Range(log) \cup Range(lines)
  BY <1>1, ConcatRange
<1>4. Rising(a, l)
  BY <1>1, <1>2, RisingConcat
<1> HIDE DEF a
<1>5. Below(a, q[l], l)
  BY <1>2, <1>3 DEF Below
<1>6. held \in Seq(Line) /\ Range(held) = Range(a) \cup Range(q[l])
  <2>1. \A x, y \in Seq(Line) : x \o y \in Seq(Line) /\ Range(x \o y) = Range(x) \cup Range(y)
    BY ConcatRange
  <2> QED BY <1>1, <1>3, <2>1
<1>7. Rising(held, l)
  BY <1>1, <1>2, <1>3, <1>4, <1>5, RisingConcat
<1> QED BY <1>3, <1>6, <1>7 DEF Rising, Here, a

(* The log holds the latest messages of every logger, in order and each    *)
(* once, whatever fails on the way (LogKept; addMess, power).              *)
THEOREM LogComplete == Spec => []LogKept
<1>1. Init => LogInv
  BY InitLog
<1>2. Inv /\ LogInv /\ [Next]_vars => LogInv'
  BY StepLog
<1>3. Inv /\ LogInv => LogKept
  <2> SUFFICES ASSUME Inv, LogInv, NEW l \in Logger
               PROVE  LET held == log \o lines \o q[l]
                          Own(S) == {m \in S : m.by = l}
                      IN /\ \A i, j \in 1 .. Len(held) :
                              i < j /\ held[i].by = l /\ held[j].by = l => held[i].n < held[j].n
                         /\ Own(Range(held)) \subseteq Range(said) \ gone
                         /\ \A m \in Own(Range(held)), k \in Own(Range(said) \ gone) :
                              m.n < k.n => k \in Range(held)
    BY DEF LogKept
  <2> DEFINE held == log \o lines \o q[l]
  <2>1. /\ \A i, j \in 1 .. Len(held) :
             i < j /\ held[i].by = l /\ held[j].by = l => held[i].n < held[j].n
        /\ Range(held) = Here(l)
    BY HeldInOrder
  <2>2. /\ \A m \in Here(l) : m.by = l => m \in Range(said) /\ m \notin gone
        /\ \A m \in Here(l), k \in Range(said) :
             m.by = l /\ k.by = l /\ k \notin gone /\ m.n < k.n => k \in Here(l)
    BY DEF LogInv, KeptOf
  <2> HIDE DEF held
  <2>3. \A m \in Range(held) : m.by = l => m \in Range(said) \ gone
    BY <2>1, <2>2
  <2>4. \A m \in Range(held), k \in Range(said) \ gone :
          m.by = l /\ k.by = l /\ m.n < k.n => k \in Range(held)
    BY <2>1, <2>2
  <2> QED BY <2>1, <2>3, <2>4 DEF held
<1> QED BY <1>1, <1>2, <1>3, InvAlways, PTL DEF Spec
=============================================================================
