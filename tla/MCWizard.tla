------------------------------ MODULE MCWizard ------------------------------
(* A printer the user may print on and one he may not, a card for all copies *)
(* and one for a single copy, for the runs of Wizard.                        *)
EXTENDS Wizard

CONSTANTS good, bad, one, all
Both == {good, bad}
Good == {good}
AllOrOne == {one, all}
Copies == [c \in AllOrOne |-> IF c = one THEN "first copy" ELSE "all copies"]
Full == {all}
\* Of two copies the base says different things.
Known == {[n \in {"all copies", "first copy"} |->
            IF n = "first copy" THEN said[1] ELSE said[2]] :
          said \in {<<"spoilt", "absent">>, <<"kept", "spoilt">>}}
=============================================================================
