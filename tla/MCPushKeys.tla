----------------------------- MODULE MCPushKeys -----------------------------
(***************************************************************************)
(* An instance of PushKeys for TLC: characters that carry when they are    *)
(* counted up, and characters that cannot be.                              *)
(***************************************************************************)
EXTENDS PushKeysProperties, TLC

AtCarry == [n \in 1..12 |-> IF n = 12 THEN 63 ELSE 0]
AtEnd   == [n \in 1..12 |-> 63]

TwoDraws == {AtCarry, AtEnd}

(* Phones are interchangeable, and the properties are about single states. *)
Symmetry == Permutations(Devices)

=============================================================================
