----------------------------- MODULE MCComplect ----------------------------
(* Boards with one or two objects each, and lists too short for some of    *)
(* the boards that fit into the slots.                                     *)
EXTENDS Complect

MCWidth == [t \in {"8RP", "6DI6RO", "4AI", "STEEL"} |-> IF t \in {"8RP", "4AI"} THEN 2 ELSE 1]
MCTotal == [k \in List |-> CASE k = "relay" -> 3 [] k = "channel" -> 3 [] OTHER -> 2]
=============================================================================
