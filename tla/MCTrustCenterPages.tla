------------------------ MODULE MCTrustCenterPages ------------------------
(* One trust center, two tabs of its console and one visitor, who has      *)
(* asked once already.                                                     *)
EXTENDS TrustCenterPages, TLC

CONSTANTS t1, t2

MCTabs == {t1, t2}
Symmetry == Permutations(MCTabs)
=============================================================================
