---------------------------- MODULE MCChangeFeed ----------------------------
(* Values for the constants of ChangeFeed. *)
EXTENDS ChangeFeed

CONSTANTS w1, w2, s1, ssp, poam

OneFilters == [p \in Pollers |-> IF p = "filtering" THEN {ssp} ELSE {}]
=============================================================================
