----------------------------- MODULE MCWorkspace -----------------------------
(* Values for the constants of Workspace: a team of two owners and a       *)
(* member of the legacy role, or of an owner, such a member and somebody   *)
(* outside; and a workspace not yet created.                               *)
EXTENDS Workspace, TLC

CONSTANTS u1, u2, u3, w1, w2, g1, h1, google, github, d1, d2, i1, i2, v1, c1, c2

TwoTeams == {(w1 :> (u1 :> "owner" @@ u2 :> "member" @@ u3 :> r)) @@
             (w2 :> (u1 :> None @@ u2 :> None @@ u3 :> None)) : r \in {"owner", None}}
Providers == g1 :> google @@ h1 :> github
TwoLinks == {g1 :> u1 @@ h1 :> u1}
OneDomain == u1 :> d1 @@ u2 :> d1 @@ u3 :> d2
Interchangeable == Permutations(Calls)
=============================================================================
