------------------------- MODULE MCSlotReservation -------------------------
(* Constants for TLC: the periods are half-open, so that two of them touch *)
(* and the third overlaps both.                                            *)
EXTENDS SlotReservation, TLC

Period(a, b) == [from |-> a, to |-> b]

MCSlots == {Period(0, 2), Period(1, 3), Period(2, 4)}
MCTwoSlots == {Period(0, 2), Period(1, 3)}
MCOneSlot == {Period(0, 2)}

MCEquivalent == Devices \X Devices

MCSymmetry == Permutations(Workers) \union Permutations(Bookings)
=============================================================================
