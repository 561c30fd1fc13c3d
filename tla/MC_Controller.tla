--------------------------- MODULE MC_Controller ---------------------------
(* Instantiates the ticketing engine for TLC: one plate on two roads (the  *)
(* ticketed days of a plate are shared across roads), four timestamps of   *)
(* which the last crosses midnight, and miles that give pairs below, at,   *)
(* and far above the 60 mph limit.                                         *)
EXTENDS Controller

MCTimestamps == {0, 86380, 86440, 86470}
MCMiles == {0, 1, 2000}
MCRoads == {1, 2}
MCLimits == [r \in MCRoads |-> 60]
=============================================================================
