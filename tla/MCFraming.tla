------------------------------ MODULE MCFraming ------------------------------
(* Connections for the runs of Framing.                                    *)
EXTENDS Framing

CONSTANTS c1, c2

OneConn == {c1}
TwoConns == {c1, c2}

=============================================================================
