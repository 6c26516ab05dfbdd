----------------------------- MODULE MCFrontEnd -----------------------------
(* The front end on a small instance, for TLC.                             *)
EXTENDS FrontEnd

NoFaults == {FALSE}
MayFault == BOOLEAN
=============================================================================
