--------------------------- MODULE SetpointList ----------------------------
(***************************************************************************)
(* The list of setpoints (listUstavok), which four parties change: the     *)
(* menu adds, the settings dialog saves and deletes, the external          *)
(* interface sets the size, and reading settings rebuilds the list.  Only  *)
(* a setpoint whose workReleSignal is connected switches relays.           *)
(* A new object may be any that is neither in the list nor in the dialog.  *)
(***************************************************************************)
EXTENDS Integers, SequencesExt

CONSTANTS
  UstavkaObject,  \* the objects
  MaxLen,         \* bound on the length of the list
  TotalUstavki,   \* TOTAL_NUM_USTAVKI
  NumChannel      \* the channels, whose pages open the settings dialog, too

ASSUME ListAssumption ==
  /\ MaxLen \in Nat /\ TotalUstavki \in 0 .. MaxLen /\ NumChannel \in Nat
  /\ IsFiniteSet(UstavkaObject) /\ Cardinality(UstavkaObject) > MaxLen

NoUstavka == "none"  \* the pointer of a dialog that was opened on an empty list

VARIABLES
  listUstavok,
  num,             \* the field of each object, perhaps uninitialized
  connected,       \* the objects connected to sendRelayStateToWorker
  totalSetpoints,  \* size asked for, or -1
  page, ustavka,   \* the page of the open dialog, and the setpoint it works on
  reread           \* ghost: objects made by reading settings while the program runs

listVars == <<listUstavok, num, connected, totalSetpoints, page, ustavka, reread>>

Listed == ToSet(listUstavok)
Lists(S, n) == {s \in [1 .. n -> S] : IsInjective(s)}
Free == UstavkaObject \ (Listed \cup {ustavka})

(* Faulty: the old list is not cleared. *)
RebuiltUncleared(n) ==
  \E s \in Lists(UstavkaObject, n) : listUstavok' = listUstavok \o s /\ UNCHANGED num

(* readChannelsSettings: an object for each setpoint of the file. *)
Rebuilt(n) ==
  /\ listUstavok' \in Lists(UstavkaObject, n)
  /\ num' = [u \in UstavkaObject |-> IF u \in ToSet(listUstavok')
                               THEN CHOOSE i \in 0 .. n - 1 : listUstavok'[i + 1] = u
                               ELSE num[u]]

(* At the start the list is read, then InitUstavka connects it. *)
ListInit ==
  /\ listUstavok \in UNION {Lists(UstavkaObject, n) : n \in 0 .. MaxLen}
  /\ num = [u \in UstavkaObject |-> IF u \in Listed
                              THEN CHOOSE i \in 0 .. MaxLen : listUstavok[i + 1] = u
                              ELSE 0]
  /\ connected = Listed
  /\ totalSetpoints = -1
  /\ page = "none" /\ ustavka = NoUstavka
  /\ reread = {}

-----------------------------------------------------------------------------
(* Faulty: what existed when the menu was opened is connected. *)
ConnectOld(S) ==
  /\ connected' = (connected \ S) \cup Listed
  /\ reread' = reread \ S

(* The new objects S are connected. *)
Connect(S) ==
  /\ connected' = connected \cup S
  /\ reread' = reread \ S

(* on_bAddUstavka_clicked and newUstavkaConnect.  num is not assigned:     *)
(* MaxLen stands for all values past the end of the list.                  *)
AddUstavka ==
  /\ page = "none"
  /\ Len(listUstavok) < MaxLen
  /\ \E u \in Free, n \in 0 .. MaxLen :
       /\ listUstavok' = Append(listUstavok, u)
       /\ num' = [num EXCEPT ![u] = n]
       /\ Connect({u})
  /\ UNCHANGED <<totalSetpoints, page, ustavka>>

(* openSettingsChannel and dSettings::addChannel.  The page of a channel   *)
(* works on the setpoint of that number, or the last.                      *)
OpenDialog(p, k) ==
  /\ page = "none" /\ page' = p
  /\ k <= IF p = "channel" THEN NumChannel ELSE Len(listUstavok)
  /\ ustavka' = IF listUstavok = <<>> THEN NoUstavka
                ELSE listUstavok[IF k <= Len(listUstavok) THEN k ELSE Len(listUstavok)]
  /\ UNCHANGED <<listUstavok, num, connected, totalSetpoints, reread>>

(* on_exitButton_clicked.  The button Save before it calls setUstavka of   *)
(* the object ustavka points to, if there is any setpoint, and writes the  *)
(* list to the file: it changes no variable of this module.                *)
CloseDialog ==
  /\ page # "none" /\ page' = "none"
  /\ ustavka' = NoUstavka
  /\ UNCHANGED <<listUstavok, num, connected, totalSetpoints, reread>>

(* Faulty: the dialog stays open on the setpoint that was removed. *)
DeleteUstavkaOpen ==
  /\ page = "setpoint"
  /\ listUstavok' = IF num[ustavka] < Len(listUstavok)
                    THEN RemoveAt(listUstavok, num[ustavka] + 1) ELSE listUstavok
  /\ UNCHANGED <<num, connected, totalSetpoints, page, ustavka, reread>>

(* on_bDeleteUstavka_clicked: QList::removeAt ignores an index that is out *)
(* of range.  The dialog saves and closes.                                 *)
DeleteUstavka ==
  /\ page = "setpoint" /\ page' = "none"
  /\ listUstavok' = IF num[ustavka] < Len(listUstavok)
                    THEN RemoveAt(listUstavok, num[ustavka] + 1) ELSE listUstavok
  /\ ustavka' = NoUstavka
  /\ UNCHANGED <<num, connected, totalSetpoints, reread>>

(* The external Modbus thread only stores the number; values above the     *)
(* limit are stored, too.                                                  *)
extSetTotalSetpoint ==
  /\ \E n \in 0 .. TotalUstavki + 1 : totalSetpoints' = n
  /\ UNCHANGED <<listUstavok, num, connected, page, ustavka, reread>>


Shrunk == SubSeq(listUstavok, 1, totalSetpoints)

(* updateObjectsOfMainThread, every half second, dialog or not. *)
updateObjectsOfMainThread ==
  /\ totalSetpoints # -1 /\ totalSetpoints <= TotalUstavki
  /\ totalSetpoints # Len(listUstavok)
  /\ LET size == Len(listUstavok)
     IN IF totalSetpoints < size
        THEN listUstavok' = Shrunk /\ UNCHANGED <<num, connected, reread>>
        ELSE \E s \in Lists(Free, totalSetpoints - size) :
               LET new == ToSet(s)
               IN /\ listUstavok' = listUstavok \o s
                  /\ num' = [u \in UstavkaObject |-> IF u \in new
                       THEN size - 1 + CHOOSE i \in 1 .. Len(s) : s[i] = u ELSE num[u]]
                  /\ Connect(new)
  /\ UNCHANGED <<totalSetpoints, page, ustavka>>

(* The menu resets the settings or reads them from a medium.  A file with  *)
(* no setpoint keeps the list, and blanks its setpoints.                   *)
ReadSettings ==
  /\ page = "none"
  /\ \E n \in 1 .. MaxLen : Rebuilt(n)
  /\ connected' = connected \ ToSet(listUstavok')
  /\ reread' = reread \cup ToSet(listUstavok')
  /\ UNCHANGED <<totalSetpoints, page, ustavka>>

ListNext ==
  \/ AddUstavka
  \/ \E p \in {"channel", "setpoint"}, k \in 1 .. MaxLen + NumChannel : OpenDialog(p, k)
  \/ CloseDialog \/ DeleteUstavka
  \/ extSetTotalSetpoint \/ updateObjectsOfMainThread
  \/ ReadSettings

ListSpec == ListInit /\ [][ListNext]_listVars

(* The timer runs as long as the program, modal dialogs included. *)
ListFairSpec == ListSpec /\ WF_listVars(updateObjectsOfMainThread)

-----------------------------------------------------------------------------
(* No setpoint is listed twice, and the dialog works on a setpoint or, if  *)
(* it was opened on an empty list, on nothing.                             *)
ListTypeOK ==
  /\ \E n \in 0 .. MaxLen : listUstavok \in Lists(UstavkaObject, n)
  /\ num \in [UstavkaObject -> 0 .. MaxLen]
  /\ connected \subseteq UstavkaObject
  /\ totalSetpoints \in -1 .. TotalUstavki + 1
  /\ page \in {"none", "channel", "setpoint"} /\ ustavka \in UstavkaObject \cup {NoUstavka}
  /\ reread \subseteq UstavkaObject

(* Who adds a setpoint connects it, also when several parties change the   *)
(* list at once (newUstavkaConnect, updateObjectsOfMainThread): only those *)
(* that were read while the program runs may be unconnected.               *)
AddedConnected == Listed \subseteq connected \cup reread


(* As long as the external interface has asked for no size, the open      *)
(* dialog works on a setpoint of the list: the button Save changes what it *)
(* saves to the file (saveParam, which writes through the pointer, tests   *)
(* only the size).                                                         *)
DialogOnListed ==
  page # "none" /\ listUstavok # <<>> /\ totalSetpoints = -1 => ustavka \in Listed
=============================================================================
