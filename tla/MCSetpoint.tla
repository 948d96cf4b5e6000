---------------------------- MODULE MCSetpoint -----------------------------
(* Setpoints that share relay 1, with the acknowledgement of the state up, *)
(* of the state down or of none, one whose relay is not in the list, one   *)
(* that only asks the operator, and one without a channel.                 *)
EXTENDS Setpoint

MCConfig ==
  {[channel |-> 1, relay |-> 1, kvitir |-> k] : k \in {{}, {TRUE}, {FALSE}}}
  \cup {[channel |-> 1, relay |-> 0, kvitir |-> {TRUE}],
        [channel |-> 1, relay |-> TotalRelay, kvitir |-> {}],
        [channel |-> 0, relay |-> 1, kvitir |-> {}]}
=============================================================================
