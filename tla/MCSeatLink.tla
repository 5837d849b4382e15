------------------------------ MODULE MCSeatLink ------------------------------
(* Instances of SeatLink for TLC.  The connections are interchangeable.    *)
EXTENDS SeatLink, TLC

Symmetry == Permutations(Slots)
=============================================================================
