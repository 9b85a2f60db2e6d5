------------------------ MODULE MCChangeSubscriptions ------------------------
(* Values for the constants of ChangeSubscriptions. *)
EXTENDS ChangeSubscriptions, TLC

CONSTANTS x1, x2, k1, t1, t2, ssp, poam

All == {{}}
OnlySsp == {{ssp}}
OneEvent == {{ssp}}
TwoEvents == {{ssp, poam}, {poam}}
Interchangeable == Permutations(Tasks)
=============================================================================
