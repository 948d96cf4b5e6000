---------------------------- MODULE RequestLine ----------------------------
(***************************************************************************)
(* What the request line promises the threads that use it, without the     *)
(* loop, the locks and the flag that implement it: requests are carried    *)
(* out one at a time in the order they were accepted, every answer is      *)
(* handed over in that order, and an update request reserves the line - it *)
(* drops what is waiting, is the only request carried out from then on,    *)
(* and may lend the port to the flasher, during which nothing is sent.     *)
(***************************************************************************)
EXTENDS Naturals, Sequences

CONSTANT Transaction, IsUpdate(_), IsRead(_)

VARIABLES
  pending,   \* accepted, not yet on the wire
  busy,      \* <<t>> while t is on the wire, <<>> otherwise
  reserved,  \* an update was accepted and the line has not been given back
  lent,      \* the port belongs to the flasher (or was lost when reopened)
  answers    \* answers nobody has looked at yet

vars == <<pending, busy, reserved, lent, answers>>

Init ==
  /\ pending = <<>> /\ busy = <<>> /\ answers = <<>>
  /\ reserved = FALSE /\ lent = FALSE

Accept(t) ==
  /\ ~reserved /\ ~IsUpdate(t)
  /\ pending' = Append(pending, t)
  /\ UNCHANGED <<busy, reserved, lent, answers>>

Reserve(t) ==
  /\ ~reserved /\ IsUpdate(t)
  /\ pending' = <<t>>
  /\ reserved' = TRUE
  /\ UNCHANGED <<busy, lent, answers>>

Start ==
  /\ busy = <<>> /\ pending # <<>> /\ ~lent
  /\ reserved <=> IsUpdate(Head(pending))
  /\ busy' = <<Head(pending)>>
  /\ pending' = Tail(pending)
  /\ UNCHANGED <<reserved, lent, answers>>

(* Nobody is told of a request that failed. *)
Fail ==
  /\ busy # <<>>
  /\ busy' = <<>>
  /\ UNCHANGED <<pending, reserved, lent, answers>>

Succeed ==
  /\ busy # <<>> /\ ~lent
  /\ busy' = <<>>
  /\ answers' = IF IsRead(Head(busy)) THEN Append(answers, Head(busy)) ELSE answers
  /\ lent' = IsUpdate(Head(busy))
  /\ UNCHANGED <<pending, reserved>>

Look ==
  /\ answers # <<>>
  /\ answers' = Tail(answers)
  /\ UNCHANGED <<pending, busy, reserved, lent>>

(* Reopening the port may fail; only a line that was reopened is released. *)
Reopen ==
  /\ reserved /\ pending = <<>> /\ busy = <<>>
  /\ lent' \in BOOLEAN
  /\ UNCHANGED <<pending, busy, reserved, answers>>

Release ==
  /\ reserved /\ ~lent /\ pending = <<>> /\ busy = <<>>
  /\ reserved' = FALSE
  /\ UNCHANGED <<pending, busy, lent, answers>>

Next ==
  \/ \E t \in Transaction : Accept(t) \/ Reserve(t)
  \/ Start \/ Fail \/ Succeed \/ Look \/ Reopen \/ Release

Spec == Init /\ [][Next]_vars
=============================================================================
