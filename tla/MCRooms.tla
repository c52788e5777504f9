------------------------------ MODULE MCRooms ------------------------------
(* Instances of Rooms for TLC.                                             *)
EXTENDS Rooms

CONSTANTS alice, bob
=============================================================================
