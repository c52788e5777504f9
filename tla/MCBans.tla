------------------------------- MODULE MCBans -------------------------------
(* Instances of Bans for TLC.                                              *)
EXTENDS Bans

CONSTANTS alice, ip

TwoSteps == <<1, 2>>
=============================================================================
