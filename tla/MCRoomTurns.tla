----------------------------- MODULE MCRoomTurns -----------------------------
(* Instances of RoomTurns for TLC.  Beings are interchangeable, and so are *)
(* rooms: no definition of RoomTurns tells one from another.               *)
EXTENDS RoomTurns, TLC

Symmetry == Permutations(Beings) \cup Permutations(Rooms)
=============================================================================
