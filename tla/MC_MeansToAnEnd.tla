-------------------------- MODULE MC_MeansToAnEnd --------------------------
(* Negative timestamps and prices, means that are not whole (-7/2, -4/3)  *)
(* and a query bound past the last timestamp.                              *)
EXTENDS MeansToAnEnd

MCTimestamps == {-1, 0, 1}
MCPrices == {-5, -2, 3}
MCQueryTimes == {-1, 0, 1, 2}
=============================================================================
