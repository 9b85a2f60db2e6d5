---------------------------- MODULE MCAccessKeys ----------------------------
(***************************************************************************)
(* Values for the constants of AccessKeys.  Two artifacts and a list that  *)
(* names one of them tell a limit kept from one widened.  Of the policies  *)
(* one asks for the NDA and lets the agent release, which approves of the  *)
(* contract, the other releases a buyer found in the CRM.                  *)
(***************************************************************************)
EXTENDS AccessKeys, TLC

CONSTANTS a1, a2, o1, o2, k1, k2

AllOrOne == {{}, {a1}}

Form(c, l, listed, contract, nda) ==
  [contact |-> c, limit |-> l, listed |-> listed, contract |-> contract, nda |-> nda]

Buyers == {Form("pat", {}, FALSE, TRUE, TRUE), Form("sam", {a1}, FALSE, FALSE, FALSE)}
OneBuyer == {Form("pat", {a1}, FALSE, FALSE, FALSE)}

Setting(n, t, c, g) == [nda |-> n, onContract |-> t, onCrm |-> c, agent |-> g]

NoRule == {Setting(FALSE, FALSE, FALSE, FALSE)}
TwoPolicies == {Setting(TRUE, FALSE, FALSE, TRUE), Setting(FALSE, FALSE, TRUE, FALSE)}

KeysInterchangeable == Permutations(Keys)
=============================================================================
