------------------------- MODULE MCFleetReservation -------------------------
(* Small instances of FleetReservation: a directory, a file in it and a     *)
(* sibling, two windows.                                                    *)
EXTENDS FleetReservation, TLC

MCBeneath == {<<"eval/config", "eval">>}
MCClaim == {{"eval"}, {"api", "eval/config"}, {"api"}}
SmallClaim == {{"eval"}, {"eval/config"}}

\* Any process may issue any window's call (--window).
ServesAny == [p \in Proc |-> Window]

\* One process per window.
ServesOne == ("p1" :> {"w1"}) @@ ("p2" :> {"w2"})
=============================================================================
