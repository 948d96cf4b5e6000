--------------------------- MODULE SetpointProofs --------------------------
(***************************************************************************)
(* Proofs about Setpoint, for any setpoints, relays, configurations and    *)
(* bounds; and about SetpointList, for any objects and bounds.             *)
(***************************************************************************)
EXTENDS Setpoint, SetpointList, SequenceTheorems, TLAPS

(* A setpoint switched last no relay but the one it is configured for.     *)
(* NoSwitchLost alone is not inductive: a filter that runs off settles the *)
(* relay of the configuration, and no other that the setpoint had put.     *)
LastIsOwn == \A r \in Relays, u \in Ustavka : <<r, u>> \in lastBy => numRelayUp[u] = r

IInv == TypeOK /\ LastIsOwn /\ NoSwitchLost /\ OneDialogEach

-----------------------------------------------------------------------------
(* The invariant holds in every initial state. *)
LEMMA InitIInv == Init => IInv
<1> SUFFICES ASSUME Init PROVE IInv
  OBVIOUS
<1> USE SetpointAssumption DEF Init
<1>1. TypeOK
  <2>1. PICK c \in [Ustavka -> Config] :
          /\ numChannel = [u \in Ustavka |-> c[u].channel]
          /\ numRelayUp = [u \in Ustavka |-> c[u].relay]
          /\ kvitir = [u \in Ustavka |-> c[u].kvitir]
    OBVIOUS
  <2>2. \A u \in Ustavka : c[u] \in [channel : {0, 1}, relay : 0 .. TotalRelay, kvitir : SUBSET BOOLEAN]
    OBVIOUS
  <2> QED
    BY <2>1, <2>2 DEF TypeOK, Zones, Relays
<1>2. LastIsOwn /\ NoSwitchLost
  BY DEF LastIsOwn, NoSwitchLost
<1>3. OneDialogEach
  BY DEF OneDialogEach
<1> QED
  BY <1>1, <1>2, <1>3 DEF IInv

-----------------------------------------------------------------------------
(* Opening the dialog of u, which has none, on top of the others. *)
LEMMA Opened ==
  ASSUME NEW s \in Seq(Ustavka), NEW u \in Ustavka,
         \A i \in 1 .. Len(s) : s[i] # u,
         \A i, j \in 1 .. Len(s) : s[i] = s[j] => i = j
  PROVE  LET t == <<u>> \o s
         IN /\ t \in Seq(Ustavka)
            /\ \A i, j \in 1 .. Len(t) : t[i] = t[j] => i = j
            /\ \A v \in Ustavka :
                 (\E i \in 1 .. Len(t) : t[i] = v) <=> v = u \/ \E i \in 1 .. Len(s) : s[i] = v
<1> DEFINE t == <<u>> \o s
<1>0. /\ t \in Seq(Ustavka) /\ Len(s) \in Nat /\ Len(t) = Len(s) + 1 /\ t[1] = u
      /\ \A i \in 1 .. Len(s) : t[i + 1] = s[i]
      /\ \A i \in 2 .. Len(t) : t[i] = s[i - 1] /\ i - 1 \in 1 .. Len(s)
  OBVIOUS
<1> HIDE DEF t
<1> USE <1>0
<1>1. \A i, j \in 1 .. Len(t) : t[i] = t[j] => i = j
  <2> SUFFICES ASSUME NEW i \in 1 .. Len(t), NEW j \in 1 .. Len(t), t[i] = t[j] PROVE i = j
    OBVIOUS
  <2>1. CASE i = 1 /\ j \in 2 .. Len(t)
    BY <2>1
  <2>2. CASE j = 1 /\ i \in 2 .. Len(t)
    BY <2>2
  <2>3. CASE i \in 2 .. Len(t) /\ j \in 2 .. Len(t)
    <3>1. s[i - 1] = s[j - 1] /\ i - 1 \in 1 .. Len(s) /\ j - 1 \in 1 .. Len(s)
      BY <2>3
    <3> QED
      BY <3>1, <2>3
  <2> QED
    BY <2>1, <2>2, <2>3
<1>2. ASSUME NEW v \in Ustavka
      PROVE  (\E i \in 1 .. Len(t) : t[i] = v) <=> v = u \/ \E i \in 1 .. Len(s) : s[i] = v
  <2>1. ASSUME NEW i \in 1 .. Len(t), t[i] = v
        PROVE  v = u \/ \E k \in 1 .. Len(s) : s[k] = v
    <3>1. CASE i = 1
      BY <2>1, <3>1
    <3>2. CASE i \in 2 .. Len(t)
      BY <2>1, <3>2
    <3> QED
      BY <3>1, <3>2
  <2>2. ASSUME v = u PROVE \E i \in 1 .. Len(t) : t[i] = v
    BY <2>2
  <2>3. ASSUME NEW i \in 1 .. Len(s), s[i] = v PROVE \E k \in 1 .. Len(t) : t[k] = v
    <3>1. i + 1 \in 1 .. Len(t) /\ t[i + 1] = v
      BY <2>3
    <3> QED
      BY <3>1
  <2> QED
    BY <2>1, <2>2, <2>3
<1> QED
  BY <1>1, <1>2 DEF t

(* Closing the dialog on top leaves the others. *)
LEMMA Closed ==
  ASSUME NEW s \in Seq(Ustavka), s # <<>>,
         \A i, j \in 1 .. Len(s) : s[i] = s[j] => i = j
  PROVE  LET t == Tail(s)
         IN /\ t \in Seq(Ustavka) /\ Head(s) \in Ustavka
            /\ \A i, j \in 1 .. Len(t) : t[i] = t[j] => i = j
            /\ \A v \in Ustavka :
                 (\E i \in 1 .. Len(t) : t[i] = v)
                   <=> v # Head(s) /\ \E i \in 1 .. Len(s) : s[i] = v
<1> DEFINE t == Tail(s)
<1>1. /\ t \in Seq(Ustavka) /\ Head(s) \in Ustavka /\ Head(s) = s[1]
      /\ Len(s) \in Nat /\ Len(s) >= 1 /\ Len(t) = Len(s) - 1
      /\ \A i \in 1 .. Len(t) : t[i] = s[i + 1] /\ i + 1 \in 1 .. Len(s)
  OBVIOUS
<1> HIDE DEF t
<1>2. \A i, j \in 1 .. Len(t) : t[i] = t[j] => i = j
  <2> SUFFICES ASSUME NEW i \in 1 .. Len(t), NEW j \in 1 .. Len(t), t[i] = t[j] PROVE i = j
    OBVIOUS
  <2>1. s[i + 1] = s[j + 1] /\ i + 1 \in 1 .. Len(s) /\ j + 1 \in 1 .. Len(s)
    BY <1>1
  <2> QED
    BY <2>1
<1>3. ASSUME NEW v \in Ustavka
      PROVE  (\E i \in 1 .. Len(t) : t[i] = v)
               <=> v # Head(s) /\ \E i \in 1 .. Len(s) : s[i] = v
  <2>1. ASSUME NEW i \in 1 .. Len(t), t[i] = v
        PROVE  v # Head(s) /\ \E k \in 1 .. Len(s) : s[k] = v
    <3>1. i + 1 \in 1 .. Len(s) /\ s[i + 1] = v /\ 1 \in 1 .. Len(s) /\ i + 1 # 1
      BY <1>1, <2>1
    <3> QED
      BY <3>1, <1>1
  <2>2. ASSUME v # Head(s), NEW i \in 1 .. Len(s), s[i] = v
        PROVE  \E k \in 1 .. Len(t) : t[k] = v
    <3>1. i # 1
      BY <2>2, <1>1
    <3>2. i - 1 \in 1 .. Len(t) /\ (i - 1) + 1 = i
      BY <3>1, <1>1
    <3> QED
      BY <3>2, <2>2, <1>1
  <2> QED
    BY <2>1, <2>2
<1> QED
  BY <1>1, <1>2, <1>3 DEF t

-----------------------------------------------------------------------------
(* What a command to a relay leaves true, given that the filter of the     *)
(* setpoint has stopped.                                                   *)
LEMMA Sent ==
  ASSUME IInv, NEW u \in Ustavka, sendRelayStateToWorker(u),
         timeFilter' = [timeFilter EXCEPT ![u] = FALSE], UNCHANGED <<setUp, numRelayUp>>
  PROVE  /\ newState' \subseteq Relays /\ lastBy' \subseteq Relays \X Ustavka
         /\ LastIsOwn' /\ NoSwitchLost'
<1> DEFINE r == numRelayUp[u]
<1> USE DEF IInv, TypeOK
<1>1. CASE r # 0 /\ r \in enabled
  <2>1. newState' = Switched(r, setUp[u]) /\ lastBy' = Others(r) \cup {<<r, u>>} /\ r \in Relays
    BY <1>1 DEF sendRelayStateToWorker
  <2>2. newState' \subseteq Relays /\ lastBy' \subseteq Relays \X Ustavka
    BY <2>1 DEF Switched, Others
  <2>3. LastIsOwn'
    BY <2>1 DEF LastIsOwn, Others
  <2>4. ASSUME NEW q \in Relays, NEW v \in Ustavka, <<q, v>> \in lastBy', ~timeFilter'[v]
        PROVE  (q \in newState') <=> setUp'[v]
    <3>1. CASE q = r
      <4>1. v = u
        BY <2>1, <2>4, <3>1 DEF Others
      <4> QED
        BY <2>1, <3>1, <4>1 DEF Switched
    <3>2. CASE q # r
      <4>1. <<q, v>> \in lastBy
        BY <2>1, <2>4, <3>2 DEF Others
      <4>2. v # u
        BY <4>1, <3>2 DEF LastIsOwn
      <4>3. ~timeFilter[v]
        BY <4>2, <2>4
      <4>4. q \in newState' <=> q \in newState
        BY <2>1, <3>2 DEF Switched
      <4> QED
        BY <4>1, <4>3, <4>4 DEF NoSwitchLost
    <3> QED
      BY <3>1, <3>2
  <2> QED
    BY <2>2, <2>3, <2>4 DEF NoSwitchLost
<1>2. CASE ~(r # 0 /\ r \in enabled)
  <2>1. newState' = newState /\ lastBy' = Others(r)
    BY <1>2 DEF sendRelayStateToWorker
  <2>2. newState' \subseteq Relays /\ lastBy' \subseteq Relays \X Ustavka
    BY <2>1 DEF Others
  <2>3. LastIsOwn'
    BY <2>1 DEF LastIsOwn, Others
  <2>4. ASSUME NEW q \in Relays, NEW v \in Ustavka, <<q, v>> \in lastBy', ~timeFilter'[v]
        PROVE  (q \in newState') <=> setUp'[v]
    <3>1. <<q, v>> \in lastBy /\ q # r
      BY <2>1, <2>4 DEF Others
    <3>2. v # u
      BY <3>1 DEF LastIsOwn
    <3>3. ~timeFilter[v]
      BY <3>2, <2>4
    <3> QED
      BY <2>1, <3>1, <3>3 DEF NoSwitchLost
  <2> QED
    BY <2>2, <2>3, <2>4 DEF NoSwitchLost
<1> QED
  BY <1>1, <1>2

(* The filter runs off, with or without a dialog. *)
LEMMA FilterRunsOff ==
  ASSUME IInv, NEW u \in Ustavka, timeoutToWorkRelay(u) PROVE IInv'
<1> USE DEF timeoutToWorkRelay, settings
<1>1. /\ newState' \subseteq Relays /\ lastBy' \subseteq Relays \X Ustavka
      /\ LastIsOwn' /\ NoSwitchLost'
  BY Sent
<1>2. CASE MustConfirm(u)
  <2>1. /\ ~waitKvitirUp[u] /\ dialogs' = <<u>> \o dialogs
        /\ waitKvitirUp' = [waitKvitirUp EXCEPT ![u] = TRUE]
    BY <1>2 DEF MustConfirm
  <2>2. /\ dialogs \in Seq(Ustavka)
        /\ \A i \in 1 .. Len(dialogs) : dialogs[i] # u
        /\ \A i, j \in 1 .. Len(dialogs) : dialogs[i] = dialogs[j] => i = j
    BY <2>1 DEF IInv, TypeOK, OneDialogEach
  <2>3. /\ dialogs' \in Seq(Ustavka)
        /\ \A i, j \in 1 .. Len(dialogs') : dialogs'[i] = dialogs'[j] => i = j
        /\ \A v \in Ustavka : (\E i \in 1 .. Len(dialogs') : dialogs'[i] = v)
             <=> v = u \/ \E i \in 1 .. Len(dialogs) : dialogs[i] = v
    <3> HIDE DEF timeoutToWorkRelay
    <3> DEFINE t == <<u>> \o dialogs
    <3>1. /\ t \in Seq(Ustavka)
          /\ \A i, j \in 1 .. Len(t) : t[i] = t[j] => i = j
          /\ \A v \in Ustavka :
               (\E i \in 1 .. Len(t) : t[i] = v) <=> v = u \/ \E i \in 1 .. Len(dialogs) : dialogs[i] = v
      BY ONLY <2>2, Opened, u \in Ustavka
    <3>2. dialogs' = t
      BY <2>1
    <3> HIDE DEF t
    <3> QED
      BY <3>1, <3>2
  <2>4. TypeOK'
    BY <1>1, <2>1, <2>3 DEF IInv, TypeOK
  <2>5. ASSUME NEW v \in Ustavka
        PROVE  waitKvitirUp'[v] <=> \E i \in 1 .. Len(dialogs') : dialogs'[i] = v
    BY <2>1, <2>3 DEF IInv, TypeOK, OneDialogEach
  <2> QED
    BY <1>1, <2>3, <2>4, <2>5 DEF IInv, OneDialogEach
<1>3. CASE ~MustConfirm(u)
  <2>1. UNCHANGED <<waitKvitirUp, dialogs>>
    BY <1>3
  <2>2. TypeOK'
    BY <1>1, <2>1 DEF IInv, TypeOK
  <2>3. OneDialogEach'
    BY <2>1 DEF IInv, OneDialogEach
  <2> QED
    BY <1>1, <2>2, <2>3 DEF IInv
<1> QED
  BY <1>2, <1>3

(* The operator acknowledges. *)
LEMMA Acknowledged == ASSUME IInv, Acknowledge PROVE IInv'
<1> USE DEF Acknowledge, settings, relays
<1>1. /\ dialogs \in Seq(Ustavka) /\ dialogs # <<>>
      /\ \A i, j \in 1 .. Len(dialogs) : dialogs[i] = dialogs[j] => i = j
  BY DEF IInv, TypeOK, OneDialogEach
<1>2. /\ dialogs' \in Seq(Ustavka) /\ Head(dialogs) \in Ustavka
      /\ \A i, j \in 1 .. Len(dialogs') : dialogs'[i] = dialogs'[j] => i = j
      /\ \A v \in Ustavka : (\E i \in 1 .. Len(dialogs') : dialogs'[i] = v)
           <=> v # Head(dialogs) /\ \E i \in 1 .. Len(dialogs) : dialogs[i] = v
  BY <1>1, Closed
<1>3. TypeOK'
  BY <1>2 DEF IInv, TypeOK
<1>4. LastIsOwn' /\ NoSwitchLost'
  BY DEF IInv, LastIsOwn, NoSwitchLost
<1>5. ASSUME NEW v \in Ustavka
      PROVE  waitKvitirUp'[v] <=> \E i \in 1 .. Len(dialogs') : dialogs'[i] = v
  BY <1>2 DEF IInv, TypeOK, OneDialogEach
<1> QED
  BY <1>2, <1>3, <1>4, <1>5 DEF IInv, OneDialogEach

-----------------------------------------------------------------------------
(* Every step keeps the invariant. *)
LEMMA StepIInv == ASSUME IInv, [Next]_vars PROVE IInv'
<1> USE SetpointAssumption
<1>1. ASSUME NEW u \in Ustavka, Measure(u) PROVE IInv'
  <2> USE <1>1 DEF Measure, settings, relays
  <2>1. TypeOK'
    BY DEF IInv, TypeOK
  <2>2. LastIsOwn' /\ NoSwitchLost' /\ OneDialogEach'
    BY DEF IInv, LastIsOwn, NoSwitchLost, OneDialogEach
  <2> QED
    BY <2>1, <2>2 DEF IInv
<1>2. ASSUME NEW u \in Ustavka, update(u) PROVE IInv'
  <2> USE <1>2 DEF update, settings, relays
  <2>1. TypeOK'
    BY DEF IInv, TypeOK
  <2>2. LastIsOwn' /\ OneDialogEach'
    BY DEF IInv, LastIsOwn, OneDialogEach
  <2>3. NoSwitchLost'
    <3>1. \A v \in Ustavka : ~timeFilter'[v] => ~timeFilter[v] /\ setUp'[v] = setUp[v]
      BY DEF IInv, TypeOK
    <3> QED
      BY <3>1 DEF IInv, NoSwitchLost
  <2> QED
    BY <2>1, <2>2, <2>3 DEF IInv
<1>3. ASSUME NEW u \in Ustavka, timeoutToWorkRelay(u) PROVE IInv'
  BY <1>3, FilterRunsOff
<1>4. ASSUME NEW u \in Ustavka, setUstavka(u) PROVE IInv'
  <2> USE <1>4 DEF setUstavka, StopFilter
  <2>1. PICK c \in Config, z \in Zones :
          /\ numChannel' = [numChannel EXCEPT ![u] = c.channel]
          /\ numRelayUp' = [numRelayUp EXCEPT ![u] = c.relay]
          /\ kvitir' = [kvitir EXCEPT ![u] = c.kvitir]
          /\ zone' = [zone EXCEPT ![u] = z]
    OBVIOUS
  <2>2. c \in [channel : {0, 1}, relay : 0 .. TotalRelay, kvitir : SUBSET BOOLEAN]
    OBVIOUS
  <2>3. TypeOK'
    BY <2>1, <2>2 DEF IInv, TypeOK
  <2>4. LastIsOwn'
    BY <2>1 DEF IInv, TypeOK, LastIsOwn
  <2>5. NoSwitchLost'
    BY <2>1 DEF IInv, TypeOK, NoSwitchLost
  <2>6. OneDialogEach'
    BY DEF IInv, OneDialogEach
  <2> QED
    BY <2>3, <2>4, <2>5, <2>6 DEF IInv
<1>5. CASE Acknowledge
  BY <1>5, Acknowledged
<1>6. CASE EnableRelays
  <2> USE <1>6 DEF EnableRelays, settings
  <2>1. TypeOK'
    BY DEF IInv, TypeOK
  <2>2. LastIsOwn' /\ NoSwitchLost' /\ OneDialogEach'
    BY DEF IInv, LastIsOwn, NoSwitchLost, OneDialogEach
  <2> QED
    BY <2>1, <2>2 DEF IInv
<1>7. ASSUME NEW r \in Commanded, Override(r) PROVE IInv'
  <2> USE <1>7 DEF Override, settings
  <2>1. TypeOK'
    BY DEF IInv, TypeOK, Switched, Others
  <2>2. LastIsOwn' /\ OneDialogEach'
    BY DEF IInv, LastIsOwn, OneDialogEach, Others
  <2>3. NoSwitchLost'
    BY DEF IInv, NoSwitchLost, Switched, Others
  <2> QED
    BY <2>1, <2>2, <2>3 DEF IInv
<1>8. CASE UNCHANGED vars
  <2> USE <1>8 DEF vars, settings, relays
  <2>1. TypeOK'
    BY DEF IInv, TypeOK
  <2>2. LastIsOwn' /\ NoSwitchLost' /\ OneDialogEach'
    BY DEF IInv, LastIsOwn, NoSwitchLost, OneDialogEach
  <2> QED
    BY <2>1, <2>2 DEF IInv
<1> QED
  BY <1>1, <1>2, <1>3, <1>4, <1>5, <1>6, <1>7, <1>8 DEF Next

(* IInv is an invariant of the specification. *)
THEOREM Inductive == Spec => []IInv
<1>1. Init => IInv
  BY InitIInv
<1>2. IInv /\ [Next]_vars => IInv'
  BY StepIInv
<1> QED
  BY <1>1, <1>2, PTL DEF Spec

(* The variables have their types. *)
THEOREM TypeCorrect == Spec => []TypeOK
<1>1. IInv => TypeOK
  BY DEF IInv
<1> QED
  BY <1>1, Inductive, PTL

(* No change of a setpoint gets lost on the way to its relay (update,      *)
(* timeoutToWorkRelay, sendRelayStateToWorker), for any number of          *)
(* setpoints that share relays and of reconfigurations.                    *)
THEOREM SwitchesKept == Spec => []NoSwitchLost
<1>1. IInv => NoSwitchLost
  BY DEF IInv
<1> QED
  BY <1>1, Inductive, PTL

(* A setpoint never has two dialogs, and waits for the operator exactly    *)
(* while its dialog is open (timeoutToWorkRelay), however deep the event   *)
(* loops of the dialogs nest.                                              *)
THEOREM DialogsDistinct == Spec => []OneDialogEach
<1>1. IInv => OneDialogEach
  BY DEF IInv
<1> QED
  BY <1>1, Inductive, PTL

(* Inside the hysteresis only a reconfiguration changes the state of a     *)
(* setpoint (Ustavka::update).                                             *)
THEOREM HysteresisKept == Spec => HysteresisHolds
<1> DEFINE Kept == \A u \in Ustavka :
             zone[u] = "between" /\ setUp'[u] # setUp[u] => edits' # edits
<1>1. ASSUME IInv, [Next]_vars PROVE [Kept]_vars
  <2> SUFFICES ASSUME NEW v \in Ustavka, zone[v] = "between", setUp'[v] # setUp[v]
               PROVE  edits' # edits
    OBVIOUS
  <2>1. ASSUME NEW u \in Ustavka, update(u) PROVE FALSE
    BY <2>1, <1>1 DEF update, IInv, TypeOK
  <2>2. ASSUME NEW u \in Ustavka, setUstavka(u) PROVE edits' # edits
    BY <2>2, <1>1 DEF setUstavka, IInv, TypeOK
  <2>3. ASSUME UNCHANGED setUp PROVE FALSE
    BY <2>3
  <2> QED
    BY <1>1, <2>1, <2>2, <2>3
    DEF Next, vars, Measure, timeoutToWorkRelay, Acknowledge, EnableRelays, Override
<1>2. Spec => [][Kept]_vars
  BY <1>1, Inductive, PTL DEF Spec
<1> QED
  BY <1>2 DEF HysteresisHolds

-----------------------------------------------------------------------------
(***************************************************************************)
(* The list of setpoints.  What may go wrong with it is told by what it    *)
(* holds: an object twice, or one that nobody has connected.               *)
(***************************************************************************)

LEMMA ListIsSeq ==
  ASSUME NEW S, NEW n \in Nat, NEW s \in Lists(S, n)
  PROVE  /\ s \in Seq(S) /\ Len(s) = n /\ DOMAIN s = 1 .. n /\ \A i \in 1 .. n : s[i] \in S
         /\ \A i, j \in 1 .. n : s[i] = s[j] => i = j
<1>1. s \in [1 .. n -> S] /\ IsInjective(s)
  BY DEF Lists
<1>2. s \in Seq(S) /\ Len(s) = n
  BY <1>1
<1> QED BY <1>1, <1>2 DEF IsInjective

LEMMA SeqIsList ==
  ASSUME NEW S, NEW s \in Seq(S), \A i, j \in 1 .. Len(s) : s[i] = s[j] => i = j
  PROVE  s \in Lists(S, Len(s))
<1>1. s \in [1 .. Len(s) -> S] /\ DOMAIN s = 1 .. Len(s)
  BY LenProperties
<1> QED BY <1>1 DEF Lists, IsInjective

LEMMA InList ==
  ASSUME NEW S, NEW n \in Nat, NEW s \in Lists(S, n)
  PROVE  /\ \A i \in 1 .. n : s[i] \in ToSet(s)
         /\ \A x \in ToSet(s) : \E i \in 1 .. n : x = s[i]
<1>1. DOMAIN s = 1 .. n
  BY ListIsSeq
<1> QED BY <1>1 DEF ToSet

(* Two lists without an object in common. *)
LEMMA ConcatList ==
  ASSUME NEW S, NEW n \in Nat, NEW m \in Nat, NEW a \in Lists(S, n), NEW b \in Lists(S, m),
         ToSet(a) \cap ToSet(b) = {}
  PROVE  a \o b \in Lists(S, n + m) /\ ToSet(a \o b) = ToSet(a) \cup ToSet(b)
<1>1. /\ a \in Seq(S) /\ Len(a) = n /\ DOMAIN a = 1 .. n
      /\ \A i, j \in 1 .. n : a[i] = a[j] => i = j
      /\ b \in Seq(S) /\ Len(b) = m /\ DOMAIN b = 1 .. m
      /\ \A i, j \in 1 .. m : b[i] = b[j] => i = j
  BY ListIsSeq
<1> DEFINE t == a \o b
<1>2. /\ t \in Seq(S) /\ Len(t) = n + m
      /\ \A i \in 1 .. n + m : t[i] = IF i <= n THEN a[i] ELSE b[i - n]
  <2>1. /\ t \in Seq(S) /\ Len(t) = Len(a) + Len(b)
        /\ \A i \in 1 .. Len(a) + Len(b) : t[i] = IF i <= Len(a) THEN a[i] ELSE b[i - Len(a)]
    <3>1. a \in Seq(S) /\ b \in Seq(S)
      BY <1>1
    <3> QED BY <3>1, ConcatProperties
  <2> HIDE DEF t
  <2> QED BY <1>1, <2>1
<1> HIDE DEF t
<1>3. DOMAIN t = 1 .. n + m
  BY <1>2, LenProperties
<1>4. \A i \in 1 .. n + m : (i \in 1 .. n /\ t[i] = a[i]) \/ (i - n \in 1 .. m /\ t[i] = b[i - n])
  BY <1>2
<1>5. /\ \A i \in 1 .. n : i \in 1 .. n + m /\ t[i] = a[i]
      /\ \A i \in 1 .. m : i + n \in 1 .. n + m /\ t[i + n] = b[i]
  <2>1. \A i \in 1 .. n : i \in 1 .. n + m /\ i <= n
    OBVIOUS
  <2>2. \A i \in 1 .. m : i + n \in 1 .. n + m /\ ~(i + n <= n) /\ (i + n) - n = i
    OBVIOUS
  <2> QED BY <1>2, <2>1, <2>2
<1>6. \A i \in 1 .. n, j \in 1 .. m : a[i] # b[j]
  BY InList
<1>7. \A i, j \in 1 .. n + m : i - n = j - n => i = j
  OBVIOUS
<1>8. \A i, j \in 1 .. n + m : t[i] = t[j] => i = j
  BY <1>1, <1>4, <1>6, <1>7
<1>9. t \in Lists(S, n + m)
  BY <1>2, <1>8, SeqIsList
<1>10. ToSet(t) \subseteq ToSet(a) \cup ToSet(b)
  <2> SUFFICES ASSUME NEW x \in ToSet(t) PROVE x \in ToSet(a) \cup ToSet(b)
    OBVIOUS
  <2>1. PICK i \in 1 .. n + m : x = t[i]
    BY <1>9, InList
  <2> QED BY <1>4, <2>1, InList
<1>11. ToSet(a) \subseteq ToSet(t) /\ ToSet(b) \subseteq ToSet(t)
  <2>1. \A i \in 1 .. n + m : t[i] \in ToSet(t)
    BY <1>9, InList
  <2>2. \A x \in ToSet(a) : x \in ToSet(t)
    BY <1>5, <2>1, InList
  <2>3. \A x \in ToSet(b) : x \in ToSet(t)
    BY <1>5, <2>1, InList
  <2> QED BY <2>2, <2>3
<1> QED BY <1>9, <1>10, <1>11 DEF t

LEMMA OneList ==
  ASSUME NEW S, NEW u \in S
  PROVE  <<u>> \in Lists(S, 1) /\ ToSet(<<u>>) = {u}
<1>1. <<u>> \in Seq(S) /\ Len(<<u>>) = 1 /\ <<u>>[1] = u /\ DOMAIN <<u>> = {1}
  OBVIOUS
<1>2. <<u>> \in Lists(S, Len(<<u>>))
  <2>1. \A i, j \in 1 .. Len(<<u>>) : i = j
    BY <1>1
  <2> QED BY <1>1, <2>1, SeqIsList
<1> QED BY <1>1, <1>2 DEF ToSet

(* A part of a list. *)
LEMMA PartList ==
  ASSUME NEW S, NEW n \in Nat, NEW a \in Lists(S, n), NEW i \in 1 .. n + 1, NEW j \in 0 .. n
  PROVE  LET t == SubSeq(a, i, j)
         IN /\ t \in Lists(S, IF i <= j THEN j - i + 1 ELSE 0)
            /\ \A x \in ToSet(t) : \E k \in i .. j : k \in 1 .. n /\ x = a[k]
<1> DEFINE t == SubSeq(a, i, j)
           m == IF i <= j THEN j - i + 1 ELSE 0
<1>1. /\ a \in Seq(S) /\ Len(a) = n /\ \A k \in 1 .. n : a[k] \in S
      /\ \A k, l \in 1 .. n : a[k] = a[l] => k = l
  BY ListIsSeq
<1>2. \A k \in i .. j : k \in 1 .. n /\ a[k] \in S
  BY <1>1
<1>3. /\ t \in Seq(S) /\ Len(t) = m
      /\ \A k \in 1 .. j - i + 1 : t[k] = a[i + k - 1]
  BY <1>2, SubSeqProperties
<1>4. \A k \in 1 .. m : k \in 1 .. j - i + 1 /\ i + k - 1 \in i .. j
  OBVIOUS
<1> HIDE DEF t, m
<1>5. \A k \in 1 .. m : i + k - 1 \in i .. j /\ i + k - 1 \in 1 .. n /\ t[k] = a[i + k - 1]
  BY <1>2, <1>3, <1>4
<1>6. \A k, l \in 1 .. m : i + k - 1 = i + l - 1 => k = l
  BY <1>3
<1>7. \A k, l \in 1 .. Len(t) : t[k] = t[l] => k = l
  BY <1>1, <1>3, <1>5, <1>6
<1>8. t \in Lists(S, m)
  BY <1>3, <1>7, SeqIsList
<1>9. DOMAIN t = 1 .. m
  BY <1>3, LenProperties
<1>10. \A x \in ToSet(t) : \E k \in i .. j : k \in 1 .. n /\ x = a[k]
  BY <1>5, <1>9 DEF ToSet
<1> QED BY <1>8, <1>10 DEF t, m

LEMMA RemovedList ==
  ASSUME NEW S, NEW n \in Nat, NEW a \in Lists(S, n), NEW k \in 1 .. n
  PROVE  RemoveAt(a, k) \in Lists(S, n - 1) /\ ToSet(RemoveAt(a, k)) \subseteq ToSet(a)
<1> DEFINE b == SubSeq(a, 1, k - 1)
           c == SubSeq(a, k + 1, n)
<1>1. /\ Len(a) = n /\ DOMAIN a = 1 .. n
      /\ \A i, j \in 1 .. n : a[i] = a[j] => i = j
  BY ListIsSeq
<1>2. /\ b \in Lists(S, k - 1)
      /\ \A x \in ToSet(b) : \E i \in 1 .. k - 1 : i \in 1 .. n /\ x = a[i]
  <2>1. 1 \in 1 .. n + 1 /\ k - 1 \in 0 .. n /\ (IF 1 <= k - 1 THEN (k - 1) - 1 + 1 ELSE 0) = k - 1
    OBVIOUS
  <2>2. /\ b \in Lists(S, IF 1 <= k - 1 THEN (k - 1) - 1 + 1 ELSE 0)
        /\ \A x \in ToSet(b) : \E i \in 1 .. k - 1 : i \in 1 .. n /\ x = a[i]
    BY <2>1, PartList
  <2> QED BY <2>1, <2>2
<1>3. /\ c \in Lists(S, n - k)
      /\ \A x \in ToSet(c) : \E i \in k + 1 .. n : i \in 1 .. n /\ x = a[i]
  <2>1. k + 1 \in 1 .. n + 1 /\ n \in 0 .. n /\ (IF k + 1 <= n THEN n - (k + 1) + 1 ELSE 0) = n - k
    OBVIOUS
  <2>2. /\ c \in Lists(S, IF k + 1 <= n THEN n - (k + 1) + 1 ELSE 0)
        /\ \A x \in ToSet(c) : \E i \in k + 1 .. n : i \in 1 .. n /\ x = a[i]
    BY <2>1, PartList
  <2> QED BY <2>1, <2>2
<1>4. RemoveAt(a, k) = b \o c
  BY <1>1 DEF RemoveAt
<1> HIDE DEF b, c
<1>5. \A i \in 1 .. k - 1, j \in k + 1 .. n : i # j
  OBVIOUS
<1>6. ToSet(b) \cap ToSet(c) = {}
  BY <1>1, <1>2, <1>3, <1>5
<1>7. k - 1 \in Nat /\ n - k \in Nat /\ (k - 1) + (n - k) = n - 1
  OBVIOUS
<1>8. b \o c \in Lists(S, (k - 1) + (n - k)) /\ ToSet(b \o c) = ToSet(b) \cup ToSet(c)
  BY <1>2, <1>3, <1>6, <1>7, ConcatList
<1>9. ToSet(b) \subseteq ToSet(a) /\ ToSet(c) \subseteq ToSet(a)
  BY <1>2, <1>3, InList
<1> QED BY <1>4, <1>7, <1>8, <1>9

(***************************************************************************)
(* The invariant.  A page of a setpoint is opened on one only, so that     *)
(* deleting it reads the number of an object.                              *)
(***************************************************************************)
PageOfOne == page = "setpoint" => ustavka \in UstavkaObject

ListIInv == ListTypeOK /\ PageOfOne /\ AddedConnected /\ DialogOnListed

LEMMA ListLength ==
  ASSUME ListTypeOK
  PROVE  /\ Len(listUstavok) \in 0 .. MaxLen /\ Len(listUstavok) \in Nat
         /\ listUstavok \in Lists(UstavkaObject, Len(listUstavok))
         /\ listUstavok \in Seq(UstavkaObject) /\ Listed \subseteq UstavkaObject
         /\ listUstavok # <<>> => Len(listUstavok) # 0
<1>1. PICK n \in 0 .. MaxLen : listUstavok \in Lists(UstavkaObject, n)
  BY DEF ListTypeOK
<1>2. n \in Nat /\ MaxLen \in Nat
  BY ListAssumption
<1>3. Len(listUstavok) = n /\ listUstavok \in Seq(UstavkaObject)
      /\ \A i \in 1 .. n : listUstavok[i] \in UstavkaObject
  BY <1>1, <1>2, ListIsSeq
<1>4. Listed \subseteq UstavkaObject
  BY <1>1, <1>2, <1>3, InList DEF Listed
<1>5. listUstavok # <<>> => Len(listUstavok) # 0
  BY <1>3, EmptySeq
<1> QED BY <1>1, <1>2, <1>3, <1>4, <1>5

LEMMA ListInitOK == ListInit => ListIInv
<1> SUFFICES ASSUME ListInit PROVE ListIInv
  OBVIOUS
<1>1. PICK n \in 0 .. MaxLen : listUstavok \in Lists(UstavkaObject, n)
  BY DEF ListInit
<1>2. n \in Nat /\ MaxLen \in Nat /\ TotalUstavki \in Nat
  BY ListAssumption
<1>3. \A u \in Listed : \E i \in 0 .. MaxLen : listUstavok[i + 1] = u
  <2> SUFFICES ASSUME NEW u \in Listed PROVE \E i \in 0 .. MaxLen : listUstavok[i + 1] = u
    OBVIOUS
  <2>1. PICK i \in 1 .. n : u = listUstavok[i]
    BY <1>1, <1>2, InList DEF Listed
  <2>2. i - 1 \in 0 .. MaxLen /\ (i - 1) + 1 = i
    BY <1>2
  <2> QED BY <2>1, <2>2
<1>4. num \in [UstavkaObject -> 0 .. MaxLen]
  <2>1. \A u \in UstavkaObject :
          (IF u \in Listed THEN CHOOSE i \in 0 .. MaxLen : listUstavok[i + 1] = u ELSE 0) \in 0 .. MaxLen
    <3> SUFFICES ASSUME NEW u \in UstavkaObject
                 PROVE  (IF u \in Listed THEN CHOOSE i \in 0 .. MaxLen : listUstavok[i + 1] = u
                         ELSE 0) \in 0 .. MaxLen
      OBVIOUS
    <3>1. CASE u \in Listed
      <4>1. \E i \in 0 .. MaxLen : listUstavok[i + 1] = u
        BY <1>3, <3>1
      <4>2. (CHOOSE i \in 0 .. MaxLen : listUstavok[i + 1] = u) \in 0 .. MaxLen
        BY <4>1
      <4> QED BY <3>1, <4>2
    <3>2. CASE u \notin Listed
      BY <1>2, <3>2
    <3> QED BY <3>1, <3>2
  <2> QED BY <2>1 DEF ListInit
<1>5. Listed \subseteq UstavkaObject
  BY <1>1, <1>2, InList, ListIsSeq DEF Listed
<1>6. ListTypeOK
  BY <1>1, <1>2, <1>4, <1>5 DEF ListInit, ListTypeOK
<1>7. PageOfOne /\ AddedConnected /\ DialogOnListed
  BY DEF ListInit, PageOfOne, AddedConnected, DialogOnListed
<1> QED BY <1>6, <1>7 DEF ListIInv

LEMMA AddOK ==
  ASSUME ListIInv, AddUstavka
  PROVE  ListIInv'
<1>1. PICK u \in Free, n \in 0 .. MaxLen :
        /\ listUstavok' = Append(listUstavok, u)
        /\ num' = [num EXCEPT ![u] = n]
        /\ Connect({u})
  BY DEF AddUstavka
<1>2. /\ u \in UstavkaObject /\ u \notin Listed /\ Len(listUstavok) < MaxLen
      /\ page = "none" /\ MaxLen \in Nat
      /\ totalSetpoints' = totalSetpoints /\ page' = page /\ ustavka' = ustavka
  BY ListAssumption DEF AddUstavka, Free
<1>3. /\ Len(listUstavok) \in Nat /\ listUstavok \in Lists(UstavkaObject, Len(listUstavok))
      /\ listUstavok \in Seq(UstavkaObject) /\ ListTypeOK
  BY ListLength DEF ListIInv
<1>4. <<u>> \in Lists(UstavkaObject, 1) /\ ToSet(<<u>>) = {u}
  BY <1>2, OneList
<1>5. listUstavok' = listUstavok \o <<u>>
  BY <1>1, <1>2, <1>3, AppendIsConcat
<1>6. listUstavok' \in Lists(UstavkaObject, Len(listUstavok) + 1) /\ Listed' = Listed \cup {u}
  BY <1>2, <1>3, <1>4, <1>5, ConcatList DEF Listed
<1>7. Len(listUstavok) + 1 \in 0 .. MaxLen
  BY <1>2, <1>3
<1>8. ListTypeOK'
  BY <1>1, <1>2, <1>3, <1>6, <1>7 DEF ListTypeOK, Connect
<1>9. PageOfOne' /\ AddedConnected' /\ DialogOnListed'
  BY <1>1, <1>2, <1>6 DEF ListIInv, PageOfOne, AddedConnected, DialogOnListed, Connect
<1> QED BY <1>8, <1>9 DEF ListIInv

LEMMA OpenOK ==
  ASSUME ListIInv, NEW p \in {"channel", "setpoint"}, NEW k \in 1 .. MaxLen + NumChannel,
         OpenDialog(p, k)
  PROVE  ListIInv'
<1>1. /\ listUstavok' = listUstavok /\ num' = num /\ connected' = connected
      /\ totalSetpoints' = totalSetpoints /\ reread' = reread /\ page' = p /\ ListTypeOK
      /\ ustavka' = IF listUstavok = <<>> THEN NoUstavka
                    ELSE listUstavok[IF k <= Len(listUstavok) THEN k ELSE Len(listUstavok)]
  BY DEF OpenDialog, ListIInv
<1>2. /\ Len(listUstavok) \in Nat /\ listUstavok \in Lists(UstavkaObject, Len(listUstavok))
      /\ Listed \subseteq UstavkaObject /\ (listUstavok # <<>> => Len(listUstavok) # 0)
  BY <1>1, ListLength
<1>3. listUstavok # <<>> => ustavka' \in Listed
  <2> SUFFICES ASSUME listUstavok # <<>> PROVE ustavka' \in Listed
    OBVIOUS
  <2>1. (IF k <= Len(listUstavok) THEN k ELSE Len(listUstavok)) \in 1 .. Len(listUstavok)
    BY <1>2, ListAssumption
  <2> QED BY <1>1, <1>2, <2>1, InList DEF Listed
<1>4. Listed' = Listed
  BY <1>1 DEF Listed
<1>5. /\ listUstavok # <<>> => ustavka' \in UstavkaObject
      /\ listUstavok = <<>> => ustavka' = NoUstavka
  <2>1. listUstavok # <<>> => ustavka' \in UstavkaObject
    BY <1>2, <1>3
  <2>2. ASSUME listUstavok = <<>> PROVE ustavka' = NoUstavka
    BY <1>1, <2>2, Zenon
  <2> QED BY <2>1, <2>2
<1>6. PageOfOne'
  <2> SUFFICES ASSUME p = "setpoint" PROVE ustavka' \in UstavkaObject
    BY <1>1 DEF PageOfOne
  <2>1. 1 <= k /\ k <= Len(listUstavok)
    BY ListAssumption DEF OpenDialog
  <2>2. listUstavok # <<>>
    BY <1>2, <2>1, EmptySeq
  <2> QED BY <1>5, <2>2
<1>7. ListTypeOK'
  BY <1>1, <1>5 DEF ListTypeOK
<1>8. AddedConnected' /\ DialogOnListed'
  BY <1>1, <1>3, <1>4 DEF ListIInv, AddedConnected, DialogOnListed
<1> QED BY <1>6, <1>7, <1>8 DEF ListIInv

(* A list that only lost objects, and no dialog that is still open on it   *)
(* without the external interface having asked for a size.                 *)
LEMMA LessOK ==
  ASSUME ListIInv, NEW n \in 0 .. MaxLen, listUstavok' \in Lists(UstavkaObject, n),
         Listed' \subseteq Listed,
         UNCHANGED <<num, connected, totalSetpoints, reread>>,
         \/ page' = "none" /\ ustavka' = NoUstavka
         \/ page' = page /\ ustavka' = ustavka /\ totalSetpoints # -1
  PROVE  ListIInv'
<1>1. ListTypeOK'
  BY DEF ListIInv, ListTypeOK
<1>2. PageOfOne' /\ AddedConnected' /\ DialogOnListed'
  BY DEF ListIInv, PageOfOne, AddedConnected, DialogOnListed
<1> QED BY <1>1, <1>2 DEF ListIInv

LEMMA DeleteOK ==
  ASSUME ListIInv, DeleteUstavka
  PROVE  ListIInv'
<1> DEFINE n == Len(listUstavok)
<1>1. /\ page' = "none" /\ ustavka' = NoUstavka /\ UNCHANGED <<num, connected, totalSetpoints, reread>>
      /\ ListTypeOK /\ MaxLen \in Nat
  BY ListAssumption DEF DeleteUstavka, ListIInv
<1>2. /\ n \in Nat /\ n \in 0 .. MaxLen /\ listUstavok \in Lists(UstavkaObject, n)
  BY <1>1, ListLength
<1>3. CASE listUstavok' = listUstavok
  BY <1>1, <1>2, <1>3, LessOK DEF Listed
<1>4. CASE num[ustavka] < n /\ listUstavok' = RemoveAt(listUstavok, num[ustavka] + 1)
  <2>1. num[ustavka] + 1 \in 1 .. n
    <3>1. ustavka \in UstavkaObject
      BY DEF ListIInv, PageOfOne, DeleteUstavka
    <3>2. num[ustavka] \in 0 .. MaxLen
      BY <1>1, <3>1 DEF ListTypeOK
    <3> QED BY <1>2, <1>4, <3>2
  <2>2. listUstavok' \in Lists(UstavkaObject, n - 1) /\ Listed' \subseteq Listed
    BY <1>2, <1>4, <2>1, RemovedList DEF Listed
  <2>3. n - 1 \in 0 .. MaxLen
    BY <1>1, <1>2, <2>1
  <2> QED BY <1>1, <2>2, <2>3, LessOK
<1> QED BY <1>3, <1>4 DEF DeleteUstavka

LEMMA CloseOK ==
  ASSUME ListIInv, CloseDialog
  PROVE  ListIInv'
<1>1. PICK n \in 0 .. MaxLen : listUstavok \in Lists(UstavkaObject, n)
  BY DEF ListIInv, ListTypeOK
<1> QED BY <1>1, LessOK DEF CloseDialog, Listed

LEMMA SizeAskedOK ==
  ASSUME ListIInv, extSetTotalSetpoint
  PROVE  ListIInv'
<1>1. PICK n \in 0 .. TotalUstavki + 1 : totalSetpoints' = n
  BY DEF extSetTotalSetpoint
<1>2. totalSetpoints' \in -1 .. TotalUstavki + 1 /\ totalSetpoints' # -1
  BY <1>1, ListAssumption
<1>3. UNCHANGED <<listUstavok, num, connected, page, ustavka, reread, Listed>>
  BY DEF extSetTotalSetpoint, Listed
<1> QED BY <1>2, <1>3 DEF ListIInv, ListTypeOK, PageOfOne, AddedConnected, DialogOnListed

LEMMA ShrunkOK ==
  ASSUME ListIInv, updateObjectsOfMainThread, totalSetpoints < Len(listUstavok)
  PROVE  ListIInv'
<1> DEFINE n == Len(listUstavok)
<1>1. /\ n \in 0 .. MaxLen /\ n \in Nat /\ listUstavok \in Lists(UstavkaObject, n)
      /\ totalSetpoints \in Nat /\ totalSetpoints \in 0 .. n /\ totalSetpoints \in 0 .. MaxLen
  BY ListLength, ListAssumption DEF ListIInv, ListTypeOK, updateObjectsOfMainThread
<1>2. /\ listUstavok' = SubSeq(listUstavok, 1, totalSetpoints)
      /\ UNCHANGED <<num, connected, reread, totalSetpoints, page, ustavka>>
      /\ totalSetpoints # -1
  BY DEF updateObjectsOfMainThread, Shrunk
<1> HIDE DEF n
<1>3. (IF 1 <= totalSetpoints THEN totalSetpoints - 1 + 1 ELSE 0) = totalSetpoints /\ 1 \in 1 .. n + 1
  BY <1>1
<1>4. /\ listUstavok' \in Lists(UstavkaObject, IF 1 <= totalSetpoints THEN totalSetpoints - 1 + 1 ELSE 0)
      /\ \A x \in ToSet(listUstavok') : \E k \in 1 .. totalSetpoints : k \in 1 .. n /\ x = listUstavok[k]
  BY <1>1, <1>2, <1>3, PartList
<1>5. Listed' \subseteq Listed
  BY <1>1, <1>4, InList DEF Listed
<1> QED BY <1>1, <1>2, <1>3, <1>4, <1>5, LessOK

(* The last objects of the new list get their places as numbers.           *)
LEMMA GrownOK ==
  ASSUME ListIInv, updateObjectsOfMainThread, ~(totalSetpoints < Len(listUstavok))
  PROVE  ListIInv'
<1> DEFINE n == Len(listUstavok)
           m == totalSetpoints - n
<1>1. /\ n \in 0 .. MaxLen /\ n \in Nat /\ listUstavok \in Lists(UstavkaObject, n)
      /\ MaxLen \in Nat /\ ListTypeOK
      /\ totalSetpoints # -1 /\ totalSetpoints \in 0 .. MaxLen /\ m \in Nat /\ n + m = totalSetpoints
      /\ UNCHANGED <<totalSetpoints, page, ustavka>>
  BY ListLength, ListAssumption DEF ListIInv, ListTypeOK, updateObjectsOfMainThread
<1>2. PICK s \in Lists(Free, m) :
        /\ listUstavok' = listUstavok \o s
        /\ num' = [u \in UstavkaObject |-> IF u \in ToSet(s)
                     THEN n - 1 + CHOOSE i \in 1 .. Len(s) : s[i] = u ELSE num[u]]
        /\ Connect(ToSet(s))
  BY DEF updateObjectsOfMainThread
<1> HIDE DEF n, m
<1>3. /\ s \in Seq(Free) /\ Len(s) = m /\ \A i, j \in 1 .. m : s[i] = s[j] => i = j
      /\ \A i \in 1 .. m : s[i] \in Free
  BY <1>1, <1>2, ListIsSeq
<1>4. ToSet(s) \subseteq Free
  BY <1>1, <1>2, <1>3, InList
<1>5. s \in Lists(UstavkaObject, m)
  <2>1. s \in [1 .. m -> UstavkaObject]
    BY <1>2 DEF Lists, Free
  <2> QED BY <1>2, <2>1 DEF Lists
<1>6. ToSet(listUstavok) \cap ToSet(s) = {}
  BY <1>4 DEF Free, Listed
<1>7. listUstavok' \in Lists(UstavkaObject, totalSetpoints) /\ Listed' = Listed \cup ToSet(s)
  BY <1>1, <1>2, <1>5, <1>6, ConcatList DEF Listed
<1>8. num' \in [UstavkaObject -> 0 .. MaxLen]
  <2>1. \A u \in UstavkaObject :
          (IF u \in ToSet(s) THEN n - 1 + CHOOSE i \in 1 .. Len(s) : s[i] = u ELSE num[u]) \in 0 .. MaxLen
    <3> SUFFICES ASSUME NEW u \in UstavkaObject
                 PROVE  (IF u \in ToSet(s) THEN n - 1 + CHOOSE i \in 1 .. Len(s) : s[i] = u
                         ELSE num[u]) \in 0 .. MaxLen
      OBVIOUS
    <3>1. CASE u \in ToSet(s)
      <4> DEFINE c == CHOOSE i \in 1 .. Len(s) : s[i] = u
      <4>1. \E i \in 1 .. Len(s) : s[i] = u
        BY <1>1, <1>2, <1>3, <3>1, InList
      <4>2. c \in 1 .. Len(s)
        BY <4>1
      <4> HIDE DEF c
      <4>3. c \in 1 .. m
        BY <1>3, <4>2
      <4>4. n - 1 + c \in 0 .. MaxLen
        BY <1>1, <4>3
      <4> QED BY <3>1, <4>4 DEF c
    <3>2. CASE u \notin ToSet(s)
      BY <1>1, <3>2 DEF ListTypeOK
    <3> QED BY <3>1, <3>2
  <2> QED BY <1>2, <2>1
<1>9. connected' = connected \cup ToSet(s) /\ reread' = reread \ ToSet(s)
  BY <1>2 DEF Connect
<1>10. ListTypeOK'
  BY <1>1, <1>4, <1>7, <1>8, <1>9 DEF ListTypeOK, Free
<1>11. PageOfOne' /\ AddedConnected' /\ DialogOnListed'
  BY <1>1, <1>7, <1>9 DEF ListIInv, PageOfOne, AddedConnected, DialogOnListed
<1> QED BY <1>10, <1>11 DEF ListIInv

LEMMA RebuiltOK ==
  ASSUME ListIInv, ReadSettings
  PROVE  ListIInv'
<1>1. PICK n \in 1 .. MaxLen : Rebuilt(n)
  BY DEF ReadSettings
<1>2. /\ n \in Nat /\ n \in 0 .. MaxLen /\ MaxLen \in Nat /\ ListTypeOK
      /\ page = "none" /\ UNCHANGED <<totalSetpoints, page, ustavka>>
      /\ connected' = connected \ Listed' /\ reread' = reread \cup Listed'
  BY ListAssumption DEF ReadSettings, ListIInv, Listed
<1>3. PICK t \in Lists(UstavkaObject, n) :
        /\ listUstavok' = t
        /\ num' = [u \in UstavkaObject |-> IF u \in ToSet(t)
                     THEN CHOOSE i \in 0 .. n - 1 : t[i + 1] = u ELSE num[u]]
  BY <1>1 DEF Rebuilt
<1>4. Listed' = ToSet(t) /\ ToSet(t) \subseteq UstavkaObject
  BY <1>2, <1>3, InList, ListIsSeq DEF Listed
<1>5. num' \in [UstavkaObject -> 0 .. MaxLen]
  <2>1. \A u \in UstavkaObject :
          (IF u \in ToSet(t) THEN CHOOSE i \in 0 .. n - 1 : t[i + 1] = u ELSE num[u]) \in 0 .. MaxLen
    <3> SUFFICES ASSUME NEW u \in UstavkaObject
                 PROVE  (IF u \in ToSet(t) THEN CHOOSE i \in 0 .. n - 1 : t[i + 1] = u
                         ELSE num[u]) \in 0 .. MaxLen
      OBVIOUS
    <3>1. CASE u \in ToSet(t)
      <4>1. PICK j \in 1 .. n : u = t[j]
        BY <1>2, <3>1, InList
      <4>2. j - 1 \in 0 .. n - 1 /\ (j - 1) + 1 = j
        BY <1>2
      <4>3. \E i \in 0 .. n - 1 : t[i + 1] = u
        BY <4>1, <4>2
      <4>4. (CHOOSE i \in 0 .. n - 1 : t[i + 1] = u) \in 0 .. n - 1
        BY <4>3
      <4>5. \A i \in 0 .. n - 1 : i \in 0 .. MaxLen
        BY <1>2
      <4> QED BY <3>1, <4>4, <4>5
    <3>2. CASE u \notin ToSet(t)
      BY <1>2, <3>2 DEF ListTypeOK
    <3> QED BY <3>1, <3>2
  <2> QED BY <1>3, <2>1
<1>6. ListTypeOK'
  BY <1>2, <1>3, <1>4, <1>5 DEF ListTypeOK
<1>7. PageOfOne' /\ AddedConnected' /\ DialogOnListed'
  BY <1>2 DEF PageOfOne, AddedConnected, DialogOnListed
<1> QED BY <1>6, <1>7 DEF ListIInv

LEMMA ListStepOK == ListIInv /\ [ListNext]_listVars => ListIInv'
<1> SUFFICES ASSUME ListIInv, [ListNext]_listVars PROVE ListIInv'
  OBVIOUS
<1>1. CASE AddUstavka
  BY <1>1, AddOK
<1>2. CASE \E p \in {"channel", "setpoint"}, k \in 1 .. MaxLen + NumChannel : OpenDialog(p, k)
  BY <1>2, OpenOK
<1>3. CASE CloseDialog
  BY <1>3, CloseOK
<1>4. CASE DeleteUstavka
  BY <1>4, DeleteOK
<1>5. CASE extSetTotalSetpoint
  BY <1>5, SizeAskedOK
<1>6. CASE updateObjectsOfMainThread
  BY <1>6, ShrunkOK, GrownOK
<1>7. CASE ReadSettings
  BY <1>7, RebuiltOK
<1>8. CASE UNCHANGED listVars
  <2>1. Listed' = Listed
    BY <1>8 DEF listVars, Listed
  <2> QED BY <1>8, <2>1 DEF listVars, ListIInv, ListTypeOK, PageOfOne, AddedConnected, DialogOnListed
<1> QED BY <1>1, <1>2, <1>3, <1>4, <1>5, <1>6, <1>7, <1>8 DEF ListNext

LEMMA ListSpecInv == ListSpec => []ListIInv
<1> QED BY ListInitOK, ListStepOK, PTL DEF ListSpec

(* No object is ever listed twice, whoever changes the list: the menu, the *)
(* dialog, the external interface and reading settings (addUstavka,        *)
(* deleteUstavka, updateObjectsOfMainThread, readChannelsSettings).        *)
THEOREM ListTyped == ListSpec => []ListTypeOK
<1>1. ListIInv => ListTypeOK
  BY DEF ListIInv
<1> QED BY <1>1, ListSpecInv, PTL

(* Who adds a setpoint connects it, however the other parties change the   *)
(* list meanwhile (newUstavkaConnect, updateObjectsOfMainThread): only     *)
(* those that were read while the program runs may be unconnected.         *)
THEOREM ListConnected == ListSpec => []AddedConnected
<1>1. ListIInv => AddedConnected
  BY DEF ListIInv
<1> QED BY <1>1, ListSpecInv, PTL

(* As long as the external interface has asked for no size, the open       *)
(* dialog works on a setpoint of the list (dSettings::addChannel,          *)
(* saveParam).                                                             *)
THEOREM DialogWorksOnListed == ListSpec => []DialogOnListed
<1>1. ListIInv => DialogOnListed
  BY DEF ListIInv
<1> QED BY <1>1, ListSpecInv, PTL
=============================================================================
