----------------------------- MODULE Complect ------------------------------
(***************************************************************************)
(* The lists of channels, relays, frequency channels and steel inputs, and *)
(* updateDevicesComplect, which distributes the boards that are known      *)
(* (Device!Known, slot by slot) over them.  The update takes the locks of  *)
(* the lists one after the other, so that the thread of the external       *)
(* Modbus server sees it half done; answers and timers of the recorder are *)
(* in the same thread and do not.                                          *)
(***************************************************************************)
EXTENDS Naturals, FiniteSets

CONSTANTS
  NumSlot,  \* TOTAL_NUM_DEVICES
  Type,     \* the types of boards that occur: some of "8RP", "6DI6RO", "4AI", "STEEL"
  Width,    \* objects of a board of each type: [Type -> Nat]
  Total     \* the lengths of the four lists: [List -> Nat]

List == {"channel", "relay", "freq", "steel"}
Slot == 1 .. NumSlot
None == "none"

ASSUME ComplectAssumption ==
  /\ NumSlot \in Nat
  /\ Type \subseteq {"8RP", "6DI6RO", "4AI", "STEEL"}
  /\ Width \in [{"8RP", "6DI6RO", "4AI", "STEEL"} -> Nat \ {0}]
  /\ Total \in [List -> Nat]

VARIABLES
  known,    \* what each slot is taken for
  place,    \* <<slot, number on the board>> of each object of each list
  enable,   \* the objects of each list that are enabled
  pc,       \* the next section of the update, or "idle"
  plan,     \* the slots' types that the running update has read
  next      \* the next place of the 6DI6RO boards

complectVars == <<known, place, enable, pc, plan, next>>

Indices(k) == 0 .. Total[k] - 1

-----------------------------------------------------------------------------
Of(p, t) == {s \in Slot : p[s] = t}
Nth(S, n) == CHOOSE s \in S : Cardinality({t \in S : t < s}) = n
Size(p, t) == Width[t] * Cardinality(Of(p, t))

(* The i-th of the places on the boards of type t, in the order of slots. *)
Place(p, t, i) == <<Nth(Of(p, t), i \div Width[t]), i % Width[t]>>

RelayPlace(p, i) == IF i < Size(p, "8RP") THEN Place(p, "8RP", i)
                    ELSE Place(p, "6DI6RO", i - Size(p, "8RP"))
RelaySize(p) == Size(p, "8RP") + Size(p, "6DI6RO")

(* List k with the boards of type t from index o on. *)
Assigned(k, p, t, o) ==
  [i \in Indices(k) |-> IF i >= o /\ i - o < Size(p, t) THEN Place(p, t, i - o)
                                                        ELSE place[k][i]]

(* Faulty: the length of the list is not looked at. *)
BelowUnchecked(k, n) == 0 .. n - 1

(* The objects of list k that n places reach. *)
Below(k, n) == {i \in Indices(k) : i < n}

(* getIndexRelayBySlotAndCh and its like: the first that matches, enabled  *)
(* or not.                                                                 *)
IndexBySlotAndCh(k, pl) ==
  CHOOSE i \in Indices(k) : place[k][i] = pl /\ \A j \in Indices(k) : place[k][j] = pl => i <= j

(* cRelay(i), cSteel, InitChannels, InitFreq: slot 0 does not exist. *)
ComplectInit ==
  /\ known = [s \in Slot |-> None]
  /\ place = [k \in List |-> [i \in Indices(k) |-> <<0, i>>]]
  /\ enable = [k \in List |-> {}]
  /\ pc = "idle" /\ plan = known /\ next = 0

(* An answer or a timer of a slot changes what it is taken for. *)
StatusChanges(s) ==
  /\ pc = "idle"
  /\ \E t \in (Type \cup {None}) \ {known[s]} : known' = [known EXCEPT ![s] = t]
  /\ UNCHANGED <<place, enable, pc, plan, next>>

(* The devices are read under mListDev; then, under mListChannel, all      *)
(* channels are mapped or disabled.                                        *)
UpdateChannels ==
  /\ pc = "idle" /\ pc' = "8RP"
  /\ plan' = known
  /\ place' = [place EXCEPT !["channel"] = Assigned("channel", known, "4AI", 0)]
  /\ enable' = [enable EXCEPT !["channel"] = Below("channel", Size(known, "4AI"))]
  /\ UNCHANGED <<known, next>>

(* Under mListRelay: the relays of 8RP boards, and all others disabled,    *)
(* those of the 6DI6RO boards among them.                                  *)
Update8RP ==
  /\ pc = "8RP" /\ pc' = "6DI6RO"
  /\ place' = [place EXCEPT !["relay"] = Assigned("relay", plan, "8RP", 0)]
  /\ enable' = [enable EXCEPT !["relay"] = Below("relay", Size(plan, "8RP"))]
  /\ next' = 0
  /\ UNCHANGED <<known, plan>>

(* Faulty: the relays of the 6DI6RO boards start at the first relay. *)
FirstRelay6FromZero == 0

(* Faulty: they leave out the relay after those of the 8RP boards. *)
FirstRelay6Gap == Size(plan, "8RP") + 1

FirstRelay6 == Size(plan, "8RP")

(* One place of the 6DI6RO boards: a frequency channel under mListFreq and *)
(* a relay under mListRelay.                                               *)
Update6DI6RO ==
  LET r == FirstRelay6 + next
      pl == Place(plan, "6DI6RO", next)
  IN /\ pc = "6DI6RO" /\ next < Size(plan, "6DI6RO")
     /\ place' = [place EXCEPT
          !["freq"] = [i \in Indices("freq") |-> IF i = next THEN pl ELSE @[i]],
          !["relay"] = [i \in Indices("relay") |-> IF i = r THEN pl ELSE @[i]]]
     /\ enable' = [enable EXCEPT
          !["freq"] = @ \cup ({next} \cap Indices("freq")),
          !["relay"] = @ \cup ({r} \cap Indices("relay"))]
     /\ next' = next + 1
     /\ UNCHANGED <<known, pc, plan>>

(* Faulty: what is left over of the frequency channels stays enabled. *)
LeftOverFreqKept == enable["freq"]

LeftOverFreq == enable["freq"] \cap Below("freq", Size(plan, "6DI6RO"))

(* What is left over of frequency channels and relays is disabled; the     *)
(* steel inputs are mapped.                                                *)
UpdateRest ==
  /\ pc = "6DI6RO" /\ next >= Size(plan, "6DI6RO")
  /\ place' = [place EXCEPT !["steel"] = Assigned("steel", plan, "STEEL", 0)]
  /\ enable' = [enable EXCEPT
       !["freq"] = LeftOverFreq,
       !["relay"] = @ \cap Below("relay", RelaySize(plan)),
       !["steel"] = Below("steel", Size(plan, "STEEL"))]
  /\ pc' = "idle" /\ next' = 0
  /\ plan' = [s \in Slot |-> None]
  /\ UNCHANGED known

ComplectNext ==
  \/ \E s \in Slot : StatusChanges(s)
  \/ UpdateChannels \/ Update8RP \/ Update6DI6RO \/ UpdateRest

ComplectSpec == ComplectInit /\ [][ComplectNext]_complectVars

(* timerUpdateDevices runs for ever, and its slot to the end. *)
ComplectFairSpec ==
  /\ ComplectSpec
  /\ WF_complectVars(UpdateChannels) /\ WF_complectVars(Update8RP)
  /\ WF_complectVars(Update6DI6RO) /\ WF_complectVars(UpdateRest)

-----------------------------------------------------------------------------
Status == [Slot -> Type \cup {None}]
Places == (0 .. NumSlot) \X Nat

(* Every variable has its type. *)
ComplectTypeOK ==
  /\ known \in Status /\ plan \in Status
  /\ DOMAIN place = List /\ \A k \in List : place[k] \in [Indices(k) -> Places]
  /\ DOMAIN enable = List /\ \A k \in List : enable[k] \subseteq Indices(k)
  /\ pc \in {"idle", "8RP", "6DI6RO"} /\ next \in Nat

(* The objects keep the slot and number of a board that is gone, and the   *)
(* searches do not look at enable: still they find every enabled relay by  *)
(* its place, in the middle of an update too, and every enabled object of  *)
(* the other lists between updates (getIndexRelayBySlotAndCh and its like).*)
LookupExact ==
  \A k \in List : k = "relay" \/ pc = "idle" =>
    \A i \in enable[k] : IndexBySlotAndCh(k, place[k][i]) = i

(* Relays are numbered without gaps: the enabled objects of a list are the *)
(* first ones, whatever boards come and go (updateDevicesComplect).        *)
EnabledFirst ==
  \A k \in List : \A i \in enable[k] : \A j \in Indices(k) : j < i => j \in enable[k]

(* What the lists are to be for the boards that are known. *)
WantedPlace(k, i) ==
  CASE k = "channel" -> Place(known, "4AI", i)
    [] k = "freq"    -> Place(known, "6DI6RO", i)
    [] k = "steel"   -> Place(known, "STEEL", i)
    [] k = "relay"   -> RelayPlace(known, i)

WantedSize(k) ==
  CASE k = "channel" -> Size(known, "4AI")
    [] k = "freq"    -> Size(known, "6DI6RO")
    [] k = "steel"   -> Size(known, "STEEL")
    [] k = "relay"   -> RelaySize(known)

(* When the slots no longer change, the lists end up as if they had been   *)
(* made for these boards, as far as they are long enough; nothing of the   *)
(* boards before is left (updateDevicesComplect).                          *)
MappingSettles ==
  <>[][UNCHANGED known]_complectVars =>
    <>[](pc = "idle" =>
           \A k \in List :
             /\ enable[k] = Below(k, WantedSize(k))
             /\ \A i \in enable[k] : place[k][i] = WantedPlace(k, i))

=============================================================================
