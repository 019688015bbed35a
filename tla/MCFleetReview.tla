--------------------------- MODULE MCFleetReview ---------------------------
(* A small instance of FleetReview: either process may review either window, *)
(* so that reviews of one window overlap, too.                               *)
EXTENDS FleetReview

MCAnswer == {"clear", "private"}
=============================================================================
