------------------------------- MODULE MCSptsd -------------------------------
(* Two clients behind one connection, for the run of Sptsd. *)
EXTENDS Sptsd
=============================================================================
