------------------------------ MODULE MCListing ------------------------------
(* Two writers, and two digits of two values: a second has four instants, the *)
(* fractions none, .1, .01 and .11.  The clock shows three of one second, of  *)
(* which each text but the last is cut short where the next goes on, and the  *)
(* first of the next.  A CreatedAt that a caller gives is in their middle, so *)
(* that it lies before or after the clock.                                    *)
EXTENDS Listing, TLC

CONSTANTS w1, w2, k1, k2

At(second, tenths, hundredths) == [second |-> second, fraction |-> <<tenths, hundredths>>]
MCInstant == {At(0, 0, 0), At(0, 1, 0), At(0, 1, 1), At(1, 0, 0)}
MCGiven == {At(0, 1, 0)}

MCSymmetry == Permutations({w1, w2}) \cup Permutations({k1, k2})
=============================================================================
