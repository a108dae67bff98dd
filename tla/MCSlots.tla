------------------------------ MODULE MCSlots -------------------------------
(* Small instances of the two slots. *)
EXTENDS Slots

CONSTANTS a, b

NoAssignment == [i \in Slot |-> NoPad]
Pin(p, q) == [i \in Slot |-> IF i = 0 THEN p ELSE q]

OnlyJumpers == {NoAssignment}
PinA        == {NoAssignment, Pin(NoPad, a)}
PinSome     == {Pin(b, a), Pin(NoPad, a)}

=============================================================================
