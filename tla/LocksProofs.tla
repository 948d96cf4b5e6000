----------------------------- MODULE LocksProofs -----------------------------
(***************************************************************************)
(* Proof that the threads of Locks never wait for each other in a circle,  *)
(* for any number of channels.  Every step of every handler pops a mutex   *)
(* or pushes one whose rank is above all that the thread holds; a circle   *)
(* of waiting threads would need ranks that grow all the way round.        *)
(***************************************************************************)
EXTENDS Locks, SequenceTheorems, TLAPS

Stacks == Seq(Mutex)

(* Every mutex of the stack has a rank below n. *)
Below(s, n) == \A i \in 1 .. Len(s) : Rank[s[i]] < n

Step(p, q) ==
  \/ \E m \in Mutex : q = Append(p, m) /\ Below(p, Rank[m])
  \/ \E m \in Mutex : p = Append(q, m)

Steps(r) == \A k \in 1 .. Len(r) - 1 : Step(r[k], r[k + 1])

(* What a handler called with stack s goes through. *)
Fragment(s, r) ==
  /\ r \in Seq(Stacks) /\ r # <<>>
  /\ Step(s, r[1]) /\ Steps(r)
  /\ r[Len(r)] = s

(* What is left of a handler when its thread has stack p. *)
Rest(p, r) ==
  /\ p \in Stacks /\ r \in Seq(Stacks)
  /\ IF r = <<>> THEN p = <<>> ELSE Step(p, r[1]) /\ Steps(r) /\ r[Len(r)] = <<>>

(* The inductive invariant. *)
Ordered ==
  /\ stack \in [Thread -> Stacks] /\ todo \in [Thread -> Seq(Stacks)]
  /\ \A t \in Thread : Rest(stack[t], todo[t])

IInv ==
  /\ enabled \in Nat /\ labels \in Nat /\ skipped \in BOOLEAN
  /\ skipped \/ Ordered

-----------------------------------------------------------------------------
LEMMA Ranks ==
  /\ Mutex = { "mSysOpt", "mQTr", "mListUstvok", "mListMath", "mExtModbus",
               "mutex", "mListChannel", "mListFreq", "mListRelay", "mListDev",
               "mQueue" }
  /\ \A m \in Mutex : Rank[m] \in 1 .. 4
  /\ \A m \in { "mSysOpt", "mQTr", "mListUstvok", "mListMath", "mExtModbus",
                "mutex" } : Rank[m] = 1
  /\ \A m \in { "mListChannel", "mListFreq", "mListRelay" } : Rank[m] = 2
  /\ Rank["mListDev"] = 3 /\ Rank["mQueue"] = 4
BY DEF Mutex, Rank

LEMMA BelowEmpty == \A n \in Nat : <<>> \in Stacks /\ Below(<<>>, n)
BY DEF Stacks, Below

LEMMA BelowAppend ==
  ASSUME NEW s \in Stacks, NEW m \in Mutex, Below(s, Rank[m])
  PROVE  Append(s, m) \in Stacks /\ Below(Append(s, m), Rank[m] + 1)
BY Ranks DEF Stacks, Below

LEMMA Concat ==
  ASSUME NEW s \in Stacks, NEW a, NEW b, Fragment(s, a), Fragment(s, b)
  PROVE  Fragment(s, a \o b)
<1>1. a \in Seq(Stacks) /\ b \in Seq(Stacks) /\ Len(a) > 0 /\ Len(b) > 0
  BY EmptySeq, LenProperties DEF Fragment
<1>2. /\ a \o b \in Seq(Stacks) /\ Len(a \o b) = Len(a) + Len(b)
      /\ \A i \in 1 .. Len(a) + Len(b) :
           (a \o b)[i] = IF i <= Len(a) THEN a[i] ELSE b[i - Len(a)]
  BY <1>1, ConcatProperties
<1>3. Step(s, (a \o b)[1]) /\ (a \o b)[Len(a \o b)] = s /\ a \o b # <<>>
  BY <1>1, <1>2, LenProperties DEF Fragment
<1>4. ASSUME NEW k \in 1 .. Len(a \o b) - 1
      PROVE  Step((a \o b)[k], (a \o b)[k + 1])
  <2>1. CASE k < Len(a)
    BY <1>1, <1>2, <2>1, LenProperties DEF Fragment, Steps
  <2>2. CASE k = Len(a)
    BY <1>1, <1>2, <2>2, LenProperties DEF Fragment
  <2>3. CASE k > Len(a)
    <3>1. k - Len(a) \in 1 .. Len(b) - 1
      BY <1>1, <1>2, <2>3, LenProperties
    <3>2. Step(b[k - Len(a)], b[k - Len(a) + 1])
      BY <3>1 DEF Fragment, Steps
    <3>3. (a \o b)[k] = b[k - Len(a)] /\ (a \o b)[k + 1] = b[k - Len(a) + 1]
      BY <1>1, <1>2, <2>3, LenProperties
    <3> QED BY <3>2, <3>3
  <2> QED BY <1>1, <2>1, <2>2, <2>3, LenProperties
<1> QED BY <1>2, <1>3, <1>4 DEF Fragment, Steps

LEMMA Inside ==
  ASSUME NEW s \in Stacks, NEW m \in Mutex, Below(s, Rank[m]),
         NEW body, Fragment(Append(s, m), body)
  PROVE  Fragment(s, In(s, m, body))
<1> DEFINE p == Append(s, m)
           r == In(s, m, body)
<1>1. p \in Stacks /\ Step(s, p) /\ Step(p, s)
  BY DEF Step, Stacks
<1>2. body \in Seq(Stacks) /\ Len(body) > 0 /\ body[Len(body)] = p /\ Step(p, body[1])
  BY EmptySeq, LenProperties DEF Fragment
<1>3. /\ r \in Seq(Stacks) /\ Len(r) = Len(body) + 2
      /\ r[1] = p /\ r[Len(r)] = s
      /\ \A i \in 1 .. Len(body) : r[i + 1] = body[i]
  BY <1>1, <1>2, LenProperties DEF In
<1>5. r[2] = body[1] /\ r[Len(body) + 1] = p /\ Len(body) \in Nat
  <2>1. r[1 + 1] = body[1] /\ r[Len(body) + 1] = body[Len(body)]
    BY <1>2, <1>3, LenProperties
  <2> QED BY <1>2, <2>1, LenProperties
<1>4. ASSUME NEW k \in 1 .. Len(r) - 1
      PROVE  Step(r[k], r[k + 1])
  <2>1. CASE k = 1
    <3>1. k + 1 = 2
      BY <2>1
    <3> QED BY <1>2, <1>3, <1>5, <2>1, <3>1
  <2>2. CASE k = Len(body) + 1
    <3>1. k + 1 = Len(r)
      BY <1>3, <1>5, <2>2
    <3> QED BY <1>1, <1>3, <1>5, <2>2, <3>1
  <2>3. CASE k > 1 /\ k < Len(body) + 1
    <3>1. k - 1 \in 1 .. Len(body) - 1
      BY <1>2, <2>3, LenProperties
    <3>2. Step(body[k - 1], body[k - 1 + 1])
      BY <3>1 DEF Fragment, Steps
    <3>3. r[k] = body[k - 1] /\ r[k + 1] = body[k - 1 + 1]
      BY <1>2, <1>3, <3>1, LenProperties
    <3> QED BY <3>2, <3>3
  <2> QED BY <1>2, <1>3, <2>1, <2>2, <2>3, LenProperties
<1> QED BY <1>1, <1>2, <1>3, <1>4, LenProperties, EmptySeq DEF Fragment, Steps

LEMMA LockAlone ==
  ASSUME NEW s \in Stacks, NEW m \in Mutex, Below(s, Rank[m])
  PROVE  Fragment(s, Lock(s, m))
<1>1. Append(s, m) \in Stacks /\ Step(s, Append(s, m)) /\ Step(Append(s, m), s)
  BY DEF Step, Stacks
<1> DEFINE p == Append(s, m)
           r == Lock(s, m)
<1>2. r \in Seq(Stacks) /\ Len(r) = 2 /\ r[1] = p /\ r[2] = s
  <2>1. <<p>> \in Seq(Stacks) /\ <<s>> \in Seq(Stacks) /\ <<>> \in Seq(Stacks)
    BY <1>1
  <2>2. <<p>> \o <<>> = <<p>>
    BY <2>1, ConcatEmptySeq
  <2>3. r = <<p>> \o <<s>>
    BY <2>2 DEF Lock, In
  <2>4. /\ <<p>> \o <<s>> \in Seq(Stacks) /\ Len(<<p>> \o <<s>>) = 2
        /\ (<<p>> \o <<s>>)[1] = p /\ (<<p>> \o <<s>>)[2] = s
    BY <2>1
  <2> QED BY <2>3, <2>4
<1>3. ASSUME NEW k \in 1 .. Len(r) - 1
      PROVE  Step(r[k], r[k + 1])
  <2>1. k = 1 /\ k + 1 = 2
    BY <1>2
  <2> QED BY <1>1, <1>2, <2>1
<1>4. r # <<>> /\ r[Len(r)] = s /\ Step(s, r[1])
  <2> HIDE DEF r
  <2>1. r # <<>>
    <3>1. r \in Seq(Stacks) /\ Len(r) # 0
      BY <1>2
    <3> QED BY <3>1, EmptySeq
  <2>2. r[Len(r)] = s /\ Step(s, r[1])
    BY <1>1, <1>2
  <2> QED BY <2>1, <2>2
<1>5. Steps(r)
  BY <1>3 DEF Steps
<1> HIDE DEF r
<1>6. Fragment(s, r)
  BY <1>2, <1>4, <1>5 DEF Fragment
<1> QED BY <1>6 DEF r

-----------------------------------------------------------------------------
(* The sections that handlers are made of. *)
LEMMA Request ==
  ASSUME NEW s \in Stacks, Below(s, 4)
  PROVE  Fragment(s, getTransSlot(s))
BY LockAlone, Ranks DEF getTransSlot

LEMMA Retransmit ==
  ASSUME NEW s \in Stacks, Below(s, 3)
  PROVE  Fragment(s, retransToWorker(s))
<1>1. Below(s, 4)
  BY Ranks DEF Below, Stacks
<1>2. Fragment(s, Lock(s, "mListDev"))
  BY LockAlone, Ranks
<1> QED BY <1>1, <1>2, Request, Concat DEF retransToWorker

LEMMA Setters ==
  ASSUME NEW s \in Stacks, Below(s, 2)
  PROVE  /\ Fragment(s, Channels(s)) /\ Fragment(s, Freqs(s))
         /\ Fragment(s, Devices(s)) /\ Fragment(s, Relays(s))
<1> DEFINE p(m) == Append(s, m)
<1>1. Below(s, 3) /\ Below(s, 4)
  BY Ranks DEF Below, Stacks
<1>2. ASSUME NEW m \in {"mListChannel", "mListFreq", "mListRelay"}
      PROVE  p(m) \in Stacks /\ Below(p(m), 3) /\ Below(p(m), 4) /\ Below(s, Rank[m])
  <2>1. m \in Mutex /\ Rank[m] = 2
    BY Ranks
  <2>2. p(m) \in Stacks /\ Below(p(m), 3)
    BY <2>1, BelowAppend
  <2> QED BY <2>1, <2>2, Ranks DEF Below, Stacks
<1>3. p("mListDev") \in Stacks /\ Below(p("mListDev"), 4)
  BY <1>1, BelowAppend, Ranks
<1>4. Fragment(s, Channels(s))
  BY <1>2, Retransmit, Inside, Ranks DEF Channels
<1>5. Fragment(s, Freqs(s))
  BY <1>2, Retransmit, Inside, Ranks DEF Freqs
<1>6. Fragment(s, Devices(s))
  BY <1>1, <1>3, Request, Inside, Ranks DEF Devices
<1>7. Fragment(s, Relays(s))
  BY <1>2, Request, Inside, Ranks DEF Relays
<1> QED BY <1>4, <1>5, <1>6, <1>7

LEMMA Singly ==
  ASSUME NEW s \in Stacks, Below(s, 1), NEW m \in Mutex
  PROVE  Fragment(s, Lock(s, m))
<1>1. Below(s, Rank[m])
  BY Ranks DEF Below, Stacks
<1> QED BY <1>1, LockAlone

-----------------------------------------------------------------------------
(* The handlers, called with no mutex held. *)
LEMMA Empty == <<>> \in Stacks /\ \A n \in 1 .. 4 : Below(<<>>, n)
BY BelowEmpty

LEMMA First ==
  ASSUME NEW m \in Mutex, Rank[m] = 1
  PROVE  /\ Append(<<>>, m) \in Stacks /\ Below(Append(<<>>, m), 2)
         /\ Below(<<>>, Rank[m])
<1>1. <<>> \in Stacks /\ Below(<<>>, Rank[m])
  BY Empty
<1>2. Append(<<>>, m) \in Stacks /\ Below(Append(<<>>, m), Rank[m] + 1)
  BY <1>1, BelowAppend
<1>3. Rank[m] + 1 = 2
  OBVIOUS
<1> QED BY <1>1, <1>2, <1>3

LEMMA Setpoints == Fragment(<<>>, UpdUst(<<>>))
<1> DEFINE p == Append(<<>>, "mListUstvok")
<1>1. p \in Stacks /\ Below(p, 2) /\ Below(<<>>, Rank["mListUstvok"])
  BY Ranks, First
<1>2. Fragment(p, Lock(p, "mListChannel"))
  BY <1>1, LockAlone, Ranks
<1> QED BY <1>1, <1>2, Empty, Inside, Ranks DEF UpdUst

LEMMA Answers == \A h \in parseWorkerReceive(<<>>) : Fragment(<<>>, h)
<1> DEFINE p == Append(<<>>, "mQTr")
<1>1. p \in Stacks /\ Below(p, 2) /\ Below(<<>>, Rank["mQTr"])
  BY Ranks, First
<1>2. /\ Fragment(p, Lock(p, "mListDev")) /\ Fragment(p, Lock(p, "mListChannel"))
      /\ Fragment(p, Lock(p, "mListFreq"))
  <2>1. Below(p, 3)
    BY <1>1, Ranks DEF Below, Stacks
  <2> QED BY <1>1, <2>1, LockAlone, Ranks
<1>3. \A a \in Answer(p) : Fragment(p, a)
  <2>1. /\ Fragment(p, Lock(p, "mListChannel") \o Channels(p))
        /\ Fragment(p, Lock(p, "mListFreq") \o Freqs(p))
        /\ Fragment(p, Devices(p) \o Relays(p))
    BY <1>1, <1>2, Setters, Concat
  <2> QED BY <1>1, <1>2, <2>1, Concat DEF Answer
<1>4. \A a \in Answer(p) : Fragment(<<>>, In(<<>>, "mQTr", a))
  BY <1>1, <1>3, Empty, Inside, Ranks
<1> QED BY <1>4 DEF parseWorkerReceive

LEMMA Files ==
  /\ Fragment(<<>>, writeChannelsSettings(<<>>))
  /\ Fragment(<<>>, readChannelsSettings(<<>>))
  /\ Fragment(<<>>, saveParam(<<>>))
<1>1. \A m \in Mutex : Fragment(<<>>, Lock(<<>>, m))
  BY Empty, Singly
<1>2. Fragment(<<>>, Channels(<<>>)) /\ Fragment(<<>>, Freqs(<<>>))
  BY Empty, Setters
<1>3. Fragment(<<>>, Lock(<<>>, "mListChannel") \o Lock(<<>>, "mListFreq"))
  BY <1>1, Empty, Concat, Ranks
<1>4. Fragment(<<>>, Channels(<<>>) \o Freqs(<<>>))
  BY <1>2, Empty, Concat
<1>5. Fragment(<<>>, writeChannelsSettings(<<>>))
  BY <1>1, <1>3, Empty, Concat, Ranks DEF writeChannelsSettings
<1>6. Fragment(<<>>, readChannelsSettings(<<>>))
  BY <1>1, <1>4, Empty, Concat, Ranks DEF readChannelsSettings
<1>7. Fragment(<<>>, saveParam(<<>>))
  BY <1>1, <1>2, Empty, Concat, Ranks DEF saveParam
<1> QED BY <1>5, <1>6, <1>7

LEMMA Saving == Fragment(<<>>, MenuSave(<<>>))
<1> DEFINE p == Append(<<>>, "mSysOpt")
<1>1. p \in Stacks /\ Below(p, 3) /\ Below(<<>>, Rank["mSysOpt"])
  <2>1. p \in Stacks /\ Below(p, 2) /\ Below(<<>>, Rank["mSysOpt"])
    BY Ranks, First
  <2> QED BY <2>1, Ranks DEF Below, Stacks
<1>2. Fragment(<<>>, In(<<>>, "mSysOpt", retransToWorker(p)))
  BY <1>1, Retransmit, Empty, Inside, Ranks
<1>3. Fragment(<<>>, Lock(<<>>, "mListMath"))
  BY Empty, Singly, Ranks
<1>4. Fragment(<<>>, In(<<>>, "mSysOpt", retransToWorker(p)) \o Lock(<<>>, "mListMath"))
  BY <1>2, <1>3, Empty, Concat
<1> QED BY <1>4, Files, Empty, Concat DEF MenuSave

LEMMA Sequential ==
  /\ Fragment(<<>>, updateBars(<<>>))
  /\ Fragment(<<>>, updateObjectsOfMainThread(<<>>))
  /\ Fragment(<<>>, updateDevicesComplect(<<>>))
  /\ Fragment(<<>>, Lock(<<>>, "mListChannel") \o Lock(<<>>, "mListFreq"))
<1> DEFINE l(m) == Lock(<<>>, m)
<1>1. \A m \in Mutex : Fragment(<<>>, l(m))
  BY Empty, Singly
<1> HIDE DEF l
<1>2. \A a, b : Fragment(<<>>, a) /\ Fragment(<<>>, b) => Fragment(<<>>, a \o b)
  BY Empty, Concat
<1>3. Fragment(<<>>, Channels(<<>>))
  BY Empty, Setters
<1>4. Fragment(<<>>, updateBars(<<>>))
  <2>1. Fragment(<<>>, l("mListChannel") \o l("mListUstvok"))
    BY <1>1, <1>2, Ranks
  <2>2. Fragment(<<>>, l("mListChannel") \o l("mListUstvok") \o l("mListMath"))
    BY <1>1, <1>2, <2>1, Ranks
  <2> QED BY <1>1, <1>2, <2>2, Ranks DEF updateBars, l
<1>5. Fragment(<<>>, updateObjectsOfMainThread(<<>>))
  BY <1>1, <1>2, Ranks DEF updateObjectsOfMainThread, l
<1>6. Fragment(<<>>, updateDevicesComplect(<<>>))
  <2> DEFINE x == l("mListDev") \o Channels(<<>>) \o l("mListRelay")
             y == x \o l("mListFreq") \o l("mListRelay")
  <2>1. Fragment(<<>>, x)
    BY <1>1, <1>2, <1>3, Ranks
  <2>2. Fragment(<<>>, y)
    <3> HIDE DEF x
    <3>1. Fragment(<<>>, x \o l("mListFreq"))
      BY <1>1, <1>2, <2>1, Ranks
    <3> QED BY <1>1, <1>2, <3>1, Ranks
  <2>3. Fragment(<<>>, y \o l("mListFreq") \o l("mListRelay"))
    <3> HIDE DEF y
    <3>1. Fragment(<<>>, y \o l("mListFreq"))
      BY <1>1, <1>2, <2>2, Ranks
    <3> QED BY <1>1, <1>2, <3>1, Ranks
  <2> QED BY <2>3 DEF updateDevicesComplect, l
<1>7. Fragment(<<>>, Lock(<<>>, "mListChannel") \o Lock(<<>>, "mListFreq"))
  BY <1>1, <1>2, Ranks DEF l
<1> QED BY <1>4, <1>5, <1>6, <1>7

LEMMA Handlers ==
  /\ \A h \in GuiHandler(<<>>) : Fragment(<<>>, h)
  /\ \A h \in ServerHandler(<<>>) : Fragment(<<>>, h)
  /\ \A h \in WorkerHandler(<<>>) : Fragment(<<>>, h)
<1>1. \A m \in Mutex : Fragment(<<>>, Lock(<<>>, m))
  BY Empty, Singly
<1>2. Fragment(<<>>, retransToWorker(<<>>))
  BY Empty, Retransmit
<1>3. /\ Fragment(<<>>, Channels(<<>>)) /\ Fragment(<<>>, Freqs(<<>>))
      /\ Fragment(<<>>, Devices(<<>>)) /\ Fragment(<<>>, Relays(<<>>))
  BY Empty, Setters
<1>4. \A h \in GuiHandler(<<>>) : Fragment(<<>>, h)
  BY <1>2, <1>3, Answers, Setpoints, Files, Saving, Sequential DEF GuiHandler
<1>5. \A h \in ServerHandler(<<>>) : Fragment(<<>>, h)
  BY <1>1, <1>3, Ranks DEF ServerHandler
<1>6. \A h \in WorkerHandler(<<>>) : Fragment(<<>>, h)
  BY <1>1, Ranks DEF WorkerHandler
<1> QED BY <1>4, <1>5, <1>6

(* The page of measured values, as long as it skips no channel. *)
LEMMA Diagnostic ==
  ASSUME labels \in Nat, enabled \in Nat, labels <= enabled
  PROVE  Fragment(<<>>, updateLabelDiagnostic(<<>>))
<1> DEFINE p == Append(<<>>, "mListChannel")
           q == [k \in 1 .. 2 * labels |-> IF k % 2 = 1 THEN p ELSE <<>>]
           l == Lock(<<>>, "mListFreq")
           none == [j \in 1 .. 0 |-> "mListChannel"]
           kept(i) == <<>> \o [j \in 1 .. i |-> "mListChannel"]
           noneKept == [i \in 1 .. 0 |-> kept(i)]
<1>1. p \in Stacks /\ <<>> \in Stacks /\ Step(<<>>, p) /\ Step(p, <<>>)
  BY Empty, Ranks DEF Stacks, Step
<1>2. Fragment(<<>>, l)
  BY Empty, Singly, Ranks
<1>3. none = <<>> /\ noneKept = <<>>
  OBVIOUS
<1>4. updateLabelDiagnostic(<<>>) = q \o <<>> \o l
  <2>1. labels - labels = 0
    OBVIOUS
  <2>2. kept(0) = <<>>
    BY <1>3
  <2>3. updateLabelDiagnostic(<<>>) = q \o noneKept \o Lock(kept(0), "mListFreq")
    BY <2>1 DEF updateLabelDiagnostic
  <2> QED BY <1>3, <2>2, <2>3
<1>5. q \in Seq(Stacks) /\ Len(q) = 2 * labels
  BY <1>1
<1>6. q \o <<>> = q
  BY <1>5, ConcatEmptySeq
<1>7. CASE labels = 0
  <2>1. q = <<>>
    BY <1>5, <1>7, EmptySeq
  <2>2. l \in Seq(Stacks)
    BY <1>2 DEF Fragment
  <2> HIDE DEF q, l
  <2> QED BY <1>2, <1>4, <1>6, <2>1, <2>2, ConcatEmptySeq
<1>8. CASE labels > 0
  <2>1. q # <<>> /\ q[1] = p /\ q[Len(q)] = <<>>
    <3>1. q[1] = p
      BY <1>8
    <3>2. q[2 * labels] = <<>>
      BY <1>8
    <3>3. q # <<>>
      BY <1>5, <1>8, EmptySeq
    <3> QED BY <1>5, <3>1, <3>2, <3>3
  <2>2. ASSUME NEW k \in 1 .. Len(q) - 1
        PROVE  Step(q[k], q[k + 1])
    <3>1. k \in 1 .. 2 * labels /\ k + 1 \in 1 .. 2 * labels
      BY <1>5
    <3>2. CASE k % 2 = 1
      <4>1. (k + 1) % 2 # 1
        BY <3>1, <3>2
      <4>2. q[k] = p /\ q[k + 1] = <<>>
        BY <3>1, <3>2, <4>1
      <4> QED BY <1>1, <4>2
    <3>3. CASE k % 2 # 1
      <4>1. (k + 1) % 2 = 1
        BY <3>1, <3>3
      <4>2. q[k] = <<>> /\ q[k + 1] = p
        BY <3>1, <3>3, <4>1
      <4> QED BY <1>1, <4>2
    <3> QED BY <3>2, <3>3
  <2> HIDE DEF q
  <2>3. Fragment(<<>>, q)
    BY <1>1, <1>5, <2>1, <2>2 DEF Fragment, Steps
  <2> QED BY <1>2, <1>4, <1>6, <2>3, Empty, Concat
<1> QED BY <1>7, <1>8

-----------------------------------------------------------------------------
(* The invariant. *)
LEMMA Started ==
  ASSUME Ordered, NEW t \in Thread, NEW h, Handle(t, h),
         stack[t] = <<>> => Fragment(<<>>, h)
  PROVE  Ordered'
<1>1. stack[t] = <<>>
  BY DEF Handle, Ordered, Rest
<1>2. Rest(<<>>, h)
  BY <1>1, Empty DEF Rest, Fragment
<1>3. stack' = stack /\ todo' = [todo EXCEPT ![t] = h] /\ h \in Seq(Stacks)
  BY <1>2 DEF Handle, Rest
<1>4. ASSUME NEW u \in Thread
      PROVE  Rest(stack'[u], todo'[u])
  <2>1. CASE u = t
    BY <1>1, <1>2, <1>3, <2>1 DEF Ordered
  <2>2. CASE u # t
    BY <1>3, <2>2 DEF Ordered
  <2> QED BY <2>1, <2>2
<1> QED BY <1>3, <1>4 DEF Ordered

LEMMA Advanced ==
  ASSUME Ordered, NEW t \in Thread, todo[t] # <<>>, Advance(t)
  PROVE  Ordered'
<1> DEFINE r == todo[t]
<1>1. r \in Seq(Stacks) /\ r # <<>> /\ Steps(r) /\ r[Len(r)] = <<>>
  BY DEF Ordered, Rest
<1>2. Len(r) \in Nat /\ Len(r) > 0 /\ Head(r) = r[1] /\ r[1] \in Stacks
  BY <1>1, EmptySeq, LenProperties
<1>5. stack' = [stack EXCEPT ![t] = r[1]] /\ todo' = [todo EXCEPT ![t] = Tail(r)]
  BY <1>2 DEF Advance, NextStack
<1> HIDE DEF r
<1>3. /\ Tail(r) \in Seq(Stacks) /\ Len(Tail(r)) = Len(r) - 1
      /\ \A i \in 1 .. Len(r) - 1 : Tail(r)[i] = r[i + 1]
  BY <1>1, <1>2
<1>4. Rest(r[1], Tail(r))
  <2>1. CASE Tail(r) = <<>>
    <3>1. Len(r) - 1 = 0
      BY <1>3, <2>1, EmptySeq
    <3>2. Len(r) = 1
      BY <1>2, <3>1
    <3> QED BY <1>1, <1>2, <1>3, <2>1, <3>2 DEF Rest
  <2>2. CASE Tail(r) # <<>>
    <3>1. Len(r) - 1 \in Nat /\ Len(r) - 1 > 0
      BY <1>2, <1>3, <2>2, EmptySeq
    <3>2. Step(r[1], Tail(r)[1])
      <4>1. 1 \in 1 .. Len(r) - 1 /\ Tail(r)[1] = r[1 + 1]
        BY <1>2, <1>3, <3>1
      <4> QED BY <1>1, <4>1 DEF Steps
    <3>3. Tail(r)[Len(Tail(r))] = <<>>
      <4>1. Len(r) - 1 \in 1 .. Len(r) - 1 /\ Len(r) - 1 + 1 = Len(r)
        BY <1>2, <3>1
      <4> QED BY <1>1, <1>3, <4>1
    <3>4. ASSUME NEW k \in 1 .. Len(Tail(r)) - 1
          PROVE  Step(Tail(r)[k], Tail(r)[k + 1])
      <4>1. /\ k \in 1 .. Len(r) - 1 /\ k + 1 \in 1 .. Len(r) - 1
        BY <1>2, <1>3
      <4>2. Step(r[k + 1], r[k + 1 + 1])
        BY <1>1, <4>1 DEF Steps
      <4> QED BY <1>3, <4>1, <4>2
    <3> QED BY <1>2, <1>3, <2>2, <3>2, <3>3, <3>4 DEF Rest, Steps
  <2> QED BY <2>1, <2>2
<1>6. ASSUME NEW u \in Thread
      PROVE  Rest(stack'[u], todo'[u])
  <2>1. CASE u = t
    BY <1>4, <1>5, <2>1 DEF Ordered
  <2>2. CASE u # t
    BY <1>5, <2>2 DEF Ordered
  <2> QED BY <2>1, <2>2
<1> QED BY <1>2, <1>3, <1>5, <1>6 DEF Ordered

LEMMA Initially == Init => IInv
<1> SUFFICES ASSUME Init PROVE IInv
  OBVIOUS
<1>1. enabled \in Nat /\ labels \in Nat /\ skipped \in BOOLEAN
  <2>1. enabled \in 0 .. MaxChannels /\ labels = 0 /\ skipped = FALSE
    BY DEF Init
  <2>2. enabled \in Nat
    BY <2>1, LocksAssumption
  <2> QED BY <2>1, <2>2
<1>2. Ordered
  BY Empty, EmptySeq DEF Init, Ordered, Rest
<1> QED BY <1>1, <1>2 DEF IInv

LEMMA Inductive == IInv /\ [Next]_vars => IInv'
<1> SUFFICES ASSUME IInv, [Next]_vars
             PROVE  IInv'
  OBVIOUS
<1> USE DEF IInv
<1> "gui" \in Thread /\ "server" \in Thread /\ "worker" \in Thread
  BY DEF Thread
<1>1. CASE Gui
  BY <1>1, Handlers, Started DEF Gui
<1>2. CASE UpdateBoards
  BY <1>2, Sequential, Started, LocksAssumption DEF UpdateBoards
<1>3. CASE ReadSettings
  BY <1>3, Files, Started DEF ReadSettings
<1>4. CASE OpenMeasures
  BY <1>4, Sequential, Started DEF OpenMeasures
<1>5. CASE UpdateDiagnostic
  <2>1. CASE skipped \/ labels > enabled
    BY <1>5, <2>1 DEF UpdateDiagnostic
  <2>2. CASE ~skipped /\ labels <= enabled
    BY <1>5, <2>2, Diagnostic, Started DEF UpdateDiagnostic
  <2> QED BY <2>1, <2>2
<1>6. CASE Server
  BY <1>6, Handlers, Started DEF Server
<1>7. CASE Worker
  BY <1>7, Handlers, Started DEF Worker
<1>8. ASSUME NEW t \in Thread, lock(t) \/ unlock(t)
      PROVE  IInv'
  BY <1>8, Advanced DEF lock, unlock, Locks, Advance
<1>9. CASE UNCHANGED vars
  BY <1>9 DEF vars, Ordered, Rest, Steps
<1> QED BY <1>1, <1>2, <1>3, <1>4, <1>5, <1>6, <1>7, <1>8, <1>9 DEF Next

-----------------------------------------------------------------------------
(* A thread that waits holds only mutexes of lower ranks. *)
LEMMA Waiting ==
  ASSUME Ordered, NEW t \in Thread, Locks(t)
  PROVE  /\ Wanted(t) \in Mutex
         /\ \A m \in Mutex : Holds(t, m) => Rank[m] < Rank[Wanted(t)]
<1> DEFINE p == stack[t]
           q == todo[t][1]
<1>1. p \in Stacks /\ Step(p, q) /\ Len(q) > Len(p) /\ NextStack(t) = q
  BY EmptySeq DEF Ordered, Rest, Locks, NextStack
<1>2. PICK m \in Mutex : q = Append(p, m) /\ Below(p, Rank[m])
  <2>1. ASSUME NEW m \in Mutex, p = Append(q, m)
        PROVE  FALSE
    <3>1. q \in Stacks
      BY <1>1, EmptySeq, LenProperties DEF Ordered, Rest, Locks
    <3>2. Len(p) = Len(q) + 1 /\ Len(q) \in Nat
      BY <2>1, <3>1 DEF Stacks
    <3> QED BY <1>1, <3>2
  <2> QED BY <1>1, <2>1 DEF Step
<1>3. Wanted(t) = m
  <2>1. Len(Append(p, m)) = Len(p) + 1 /\ Append(p, m)[Len(p) + 1] = m
    BY <1>1 DEF Stacks
  <2> QED BY <1>1, <1>2, <2>1 DEF Wanted
<1> QED BY <1>2, <1>3 DEF Holds, Below

LEMMA NoCircle == Ordered => \A S \in SUBSET Thread : ~Deadlocked(S)
<1> SUFFICES ASSUME Ordered, NEW S \in SUBSET Thread, Deadlocked(S)
             PROVE  FALSE
  OBVIOUS
<1> DEFINE rank(t) == Rank[Wanted(t)]
<1>1. \A t \in S : Locks(t) /\ rank(t) \in 1 .. 4
  BY Waiting, Ranks DEF Deadlocked, WaitsFor
<1>2. \A t \in S : \E u \in S : rank(t) < rank(u)
  <2> TAKE t \in S
  <2>1. PICK u \in S : WaitsFor(t, u)
    BY DEF Deadlocked
  <2>2. rank(t) < rank(u)
    BY <1>1, <2>1, Waiting DEF WaitsFor
  <2> QED BY <2>2
<1> HIDE DEF rank
<1>3. \A t \in S : rank(t) \notin {4}
  BY <1>1, <1>2
<1>4. \A t \in S : rank(t) \notin {3, 4}
  BY <1>1, <1>2, <1>3
<1>5. \A t \in S : rank(t) \notin {2, 3, 4}
  BY <1>1, <1>2, <1>4
<1>6. S = {}
  BY <1>1, <1>2, <1>5
<1> QED BY <1>6 DEF Deadlocked

(* No two or three threads wait for each other's mutexes in a circle and   *)
(* none for itself, whatever handlers run (mainwindow_logic.cpp:505-523,   *)
(* 791-986, 1242-1508 and the sections listed in Locks), until the page of *)
(* measured values skips a channel (menu.cpp:2644).                        *)
THEOREM DeadlockFree == Spec => []NoDeadlock
<1>1. Spec => []IInv
  BY Initially, Inductive, PTL DEF Spec
<1>2. IInv => NoDeadlock
  BY NoCircle DEF IInv, NoDeadlock
<1> QED BY <1>1, <1>2, PTL
=============================================================================
