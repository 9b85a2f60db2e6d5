--------------------------- MODULE MCCustomDomain ---------------------------
(* Values for the constants of CustomDomain: two tabs and two host names.  *)
EXTENDS CustomDomain

CONSTANTS t1, t2, trust, status
=============================================================================
