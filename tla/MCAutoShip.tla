----------------------------- MODULE MCAutoShip -----------------------------
(* Small instances of AutoShip: runs of the hook alone in the checkout, or    *)
(* overlapping, with a smaller budget.                                        *)
EXTENDS AutoShip

BothModes == BOOLEAN
Overlapping == {FALSE}
Small == [edits |-> 1, arms |-> 1, skills |-> 1, crashes |-> 0]
Large == [edits |-> 2, arms |-> 2, skills |-> 1, crashes |-> 1]
SomeBudget == [m \in Modes |-> IF m THEN Large ELSE Small]
=============================================================================
