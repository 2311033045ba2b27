------------------------------ MODULE MCSession ------------------------------
(* Two wizards and two mandates, for the run of Session.                   *)
EXTENDS Session

AllFaults == FaultKinds
=============================================================================
