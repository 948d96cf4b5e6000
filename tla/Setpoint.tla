----------------------------- MODULE Setpoint ------------------------------
(***************************************************************************)
(* Setpoints and the relays they switch (ustavka.cpp; UpdUst and           *)
(* sendRelayStateToWorker of MainWindow).  A setpoint compares its channel *)
(* with a level and a hysteresis every half second; a change waits in a    *)
(* filter timer, then goes to the relay, and the operator may have to      *)
(* acknowledge it in a dialog while all the timers go on.  The menu and    *)
(* the external Modbus thread reconfigure a setpoint at any moment.        *)
(***************************************************************************)
EXTENDS Naturals, Sequences

CONSTANTS
  Ustavka,     \* the setpoints
  TotalRelay,  \* size of listRelais; relay 0 cannot be chosen: 0 is "none"
  Config,      \* what a setpoint may be configured to: channel or none (0),
               \* relay, and the states that the operator has to acknowledge
               \* ({typeFix} if kvitirEnUp, else none)
  Commanded,   \* the relays that others switch, too
  MaxEdits     \* bound on reconfigurations of setpoints

Relays == 0 .. TotalRelay - 1

ASSUME SetpointAssumption ==
  /\ TotalRelay \in Nat \ {0} /\ Commanded \subseteq Relays /\ MaxEdits \in Nat
  /\ Config \subseteq [channel : {0, 1}, relay : 0 .. TotalRelay, kvitir : SUBSET BOOLEAN]

Zones == {"over", "between", "under"}  \* the value against level +- hysteresis

VARIABLES
  zone, setUp, timeFilter, waitKvitirUp,             \* of each setpoint
  numChannel, numRelayUp, kvitir,  \* its configuration
  dialogs,    \* the setpoints whose dialogs are open, the innermost first
  enabled,    \* the relays that exist on a board
  newState,   \* the relays that are to be on
  edits,      \* reconfigurations so far
  lastBy      \* ghost: <<r, u>>, setpoint u put relay r where it is

settings == <<numChannel, numRelayUp, kvitir>>
relays == <<enabled, newState, lastBy>>
vars == <<zone, setUp, timeFilter, waitKvitirUp, settings, dialogs, relays, edits>>

(* The list is read from the file before any timer runs. *)
Init ==
  /\ zone = [u \in Ustavka |-> "between"]  \* NaN before the first answer
  /\ setUp = [u \in Ustavka |-> FALSE] /\ timeFilter = setUp /\ waitKvitirUp = setUp
  /\ \E c \in [Ustavka -> Config] :
       /\ numChannel = [u \in Ustavka |-> c[u].channel]
       /\ numRelayUp = [u \in Ustavka |-> c[u].relay]
       /\ kvitir = [u \in Ustavka |-> c[u].kvitir]
  /\ dialogs = <<>>
  /\ enabled = {} /\ newState = {} /\ lastBy = {}
  /\ edits = 0

-----------------------------------------------------------------------------
(* The measured value moves. *)
Measure(u) ==
  /\ \E z \in Zones \ {zone[u]} : zone' = [zone EXCEPT ![u] = z]
  /\ UNCHANGED <<setUp, timeFilter, waitKvitirUp, settings, dialogs, relays, edits>>

(* Faulty: a change back while the filter runs cancels both. *)
updateCancels(u) ==
  /\ numChannel[u] # 0
  /\ zone[u] # "between" /\ setUp[u] # (zone[u] = "over")
  /\ setUp' = [setUp EXCEPT ![u] = (zone[u] = "over")]
  /\ timeFilter' = [timeFilter EXCEPT ![u] = zone[u] = "over"]
  /\ UNCHANGED <<zone, waitKvitirUp, settings, dialogs, relays, edits>>

(* Ustavka::update, called by UpdUst for each setpoint with a channel. *)
update(u) ==
  /\ numChannel[u] # 0
  /\ zone[u] # "between" /\ setUp[u] # (zone[u] = "over")
  /\ setUp' = [setUp EXCEPT ![u] = (zone[u] = "over")]
  /\ timeFilter' = [timeFilter EXCEPT ![u] = TRUE]
  /\ UNCHANGED <<zone, waitKvitirUp, settings, dialogs, relays, edits>>

Switched(r, f) == IF f THEN newState \cup {r} ELSE newState \ {r}

Others(r) == {p \in lastBy : p[1] # r}

(* Faulty: relays are only switched on. *)
sendRelayStateToWorkerOn(u) ==
  LET r == numRelayUp[u]
  IN IF r # 0 /\ r \in enabled /\ setUp[u]
     THEN /\ newState' = Switched(r, setUp[u])
          /\ lastBy' = Others(r) \cup {<<r, u>>}
     ELSE UNCHANGED <<newState, lastBy>>

(* sendRelayStateToWorker and cRelay::setState: a relay that is not        *)
(* enabled, or not in the list, ignores the setpoint.                      *)
sendRelayStateToWorker(u) ==
  LET r == numRelayUp[u]
  IN IF r # 0 /\ r \in enabled
     THEN /\ newState' = Switched(r, setUp[u])
          /\ lastBy' = Others(r) \cup {<<r, u>>}
     ELSE /\ UNCHANGED newState
          /\ lastBy' = Others(r)

(* Faulty: a dialog that is open already is not noticed. *)
MustConfirmAgain(u) == setUp[u] \in kvitir[u]

MustConfirm(u) == setUp[u] \in kvitir[u] /\ ~waitKvitirUp[u]

(* Faulty: nothing is switched while the operator has to acknowledge. *)
timeoutToWorkRelayOnce(u) ==
  /\ timeFilter[u]
  /\ timeFilter' = [timeFilter EXCEPT ![u] = FALSE]
  /\ IF waitKvitirUp[u] THEN UNCHANGED <<newState, lastBy>> ELSE sendRelayStateToWorker(u)
  /\ IF MustConfirm(u)
     THEN /\ waitKvitirUp' = [waitKvitirUp EXCEPT ![u] = TRUE]
          /\ dialogs' = <<u>> \o dialogs
     ELSE UNCHANGED <<waitKvitirUp, dialogs>>
  /\ UNCHANGED <<zone, setUp, settings, enabled, edits>>

(* The filter has run off.  kv.exec() does not return before the dialog is *)
(* closed, and runs timers and slots meanwhile.                            *)
timeoutToWorkRelay(u) ==
  /\ timeFilter[u]
  /\ timeFilter' = [timeFilter EXCEPT ![u] = FALSE]
  /\ sendRelayStateToWorker(u)
  /\ IF MustConfirm(u)
     THEN /\ waitKvitirUp' = [waitKvitirUp EXCEPT ![u] = TRUE]
          /\ dialogs' = <<u>> \o dialogs
     ELSE UNCHANGED <<waitKvitirUp, dialogs>>
  /\ UNCHANGED <<zone, setUp, settings, enabled, edits>>

(* The operator closes the dialog on top, and its exec() returns. *)
Acknowledge ==
  /\ dialogs # <<>>
  /\ waitKvitirUp' = [waitKvitirUp EXCEPT ![Head(dialogs)] = FALSE]
  /\ dialogs' = Tail(dialogs)
  /\ UNCHANGED <<zone, setUp, timeFilter, settings, relays, edits>>

StopFilter(u) == timeFilter' = [timeFilter EXCEPT ![u] = FALSE]

(* From the settings dialog when no acknowledgement is on top of it, and   *)
(* from the external interface at any moment.  The new level and channel   *)
(* put the value anywhere.                                                 *)
setUstavka(u) ==
  /\ edits < MaxEdits /\ edits' = edits + 1
  /\ \E c \in Config, z \in Zones :
       /\ numChannel' = [numChannel EXCEPT ![u] = c.channel]
       /\ numRelayUp' = [numRelayUp EXCEPT ![u] = c.relay]
       /\ kvitir' = [kvitir EXCEPT ![u] = c.kvitir]
       /\ zone' = [zone EXCEPT ![u] = z]
  /\ setUp' = [setUp EXCEPT ![u] = FALSE]
  /\ StopFilter(u)
  /\ lastBy' = {p \in lastBy : p[2] # u}
  /\ UNCHANGED <<waitKvitirUp, dialogs, enabled, newState>>

(* A board appears or disappears: its relays become enabled or not. *)
EnableRelays ==
  /\ \E E \in SUBSET Relays \ {enabled} : enabled' = E
  /\ UNCHANGED <<zone, setUp, timeFilter, waitKvitirUp, settings, dialogs,
                 newState, lastBy, edits>>

(* The menu, the steel analysis or the external interface switches it. *)
Override(r) ==
  /\ r \in enabled
  /\ newState' = Switched(r, r \notin newState)
  /\ lastBy' = Others(r)
  /\ UNCHANGED <<zone, setUp, timeFilter, waitKvitirUp, settings, dialogs, enabled, edits>>

Next ==
  \/ \E u \in Ustavka :
       \/ Measure(u) \/ update(u) \/ timeoutToWorkRelay(u) \/ setUstavka(u)
  \/ Acknowledge
  \/ EnableRelays
  \/ \E r \in Commanded : Override(r)

Spec == Init /\ [][Next]_vars

(* The two timers run whatever dialogs are open; the operator may leave a  *)
(* dialog open for ever.                                                   *)
FairSpec ==
  /\ Spec
  /\ \A u \in Ustavka : WF_vars(update(u)) /\ WF_vars(timeoutToWorkRelay(u))

-----------------------------------------------------------------------------
(* Every variable has its type, for all setpoints and relays. *)
TypeOK ==
  /\ zone \in [Ustavka -> Zones]
  /\ setUp \in [Ustavka -> BOOLEAN] /\ timeFilter \in [Ustavka -> BOOLEAN]
  /\ waitKvitirUp \in [Ustavka -> BOOLEAN]
  /\ numChannel \in [Ustavka -> {0, 1}] /\ numRelayUp \in [Ustavka -> 0 .. TotalRelay]
  /\ kvitir \in [Ustavka -> SUBSET BOOLEAN]
  /\ dialogs \in Seq(Ustavka)
  /\ enabled \subseteq Relays /\ newState \subseteq Relays
  /\ lastBy \subseteq Relays \X Ustavka
  /\ edits \in 0 .. MaxEdits

(* A relay that a setpoint switched last, and that nothing disturbed, is   *)
(* on exactly when the setpoint is up, unless the filter of the setpoint   *)
(* is running: no change of a setpoint gets lost (ustavka.cpp update and   *)
(* timeoutToWorkRelay), whatever dialogs are open.                         *)
NoSwitchLost ==
  \A r \in Relays, u \in Ustavka :
    <<r, u>> \in lastBy /\ ~timeFilter[u] => ((r \in newState) <=> setUp[u])

(* The dialogs on the screen are those of the setpoints that wait for the  *)
(* operator, one each, however the nested event loops overlap              *)
(* (timeoutToWorkRelay, waitKvitirUp).                                     *)
OneDialogEach ==
  /\ \A i, j \in 1 .. Len(dialogs) : dialogs[i] = dialogs[j] => i = j
  /\ \A u \in Ustavka : waitKvitirUp[u] <=> \E i \in 1 .. Len(dialogs) : dialogs[i] = u

(* While a value stays inside the hysteresis and nobody reconfigures its   *)
(* setpoint, the setpoint keeps its state (Ustavka::update).               *)
HysteresisHolds ==
  [][\A u \in Ustavka : zone[u] = "between" /\ setUp'[u] # setUp[u] => edits' # edits]_vars

(* u alone is to switch relay r, and the last command of r got there. *)
Drives(u, r) ==
  /\ numChannel[u] # 0 /\ numRelayUp[u] = r
  /\ \A v \in Ustavka \ {u} : numRelayUp[v] # r
  /\ r # 0 /\ (<<r, u>> \in lastBy \/ ~setUp[u] \/ timeFilter[u])

(* A value that stays over its level ends up with its relay on, after any  *)
(* reconfiguration too, unless something else switches the relay or the    *)
(* relay did not exist when the filter ran off (UpdUst, timeoutToWorkRelay)*)
RelaySwitchedOn ==
  \A u \in Ustavka, r \in Relays :
    <>[](zone[u] = "over" /\ Drives(u, r)) => <>[](r \in newState)

(* Without reconfiguration and commands of others the relay is released:   *)
(* the last command of the setpoint (update, timeoutToWorkRelay) is "off". *)
ReleasedUnlessEdited ==
  \A u \in Ustavka, r \in Relays :
    <>[](zone[u] = "under" /\ numChannel[u] # 0 /\ <<r, u>> \in lastBy /\ edits = 0)
       => <>[](r \notin newState)
=============================================================================
