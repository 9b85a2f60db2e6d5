-------------------------------- MODULE Roles --------------------------------
(***************************************************************************)
(* The role model of a workspace (apps/web/src/lib/roles.ts): pure         *)
(* functions of the role stored on a membership row.  "none" is the role   *)
(* of somebody who has no row; "member" is the legacy name of "viewer".    *)
(***************************************************************************)
EXTENDS Naturals

Real == {"owner", "admin", "reviewer", "viewer"}
Assignable == {"admin", "reviewer", "viewer"}
Stored == Real \cup {"member"}
None == "none"

normalizeRole(r) == IF r \in Real THEN r ELSE "viewer"

canManage(r) == normalizeRole(r) \in {"owner", "admin"}

(* Mutant of canReviewRequests: a reviewer reviews nothing. *)
canReviewManaging(r) == normalizeRole(r) \in {"owner", "admin"}

canReviewRequests(r) == normalizeRole(r) \in {"owner", "admin", "reviewer"}

canManageTeam(r) == normalizeRole(r) \in {"owner", "admin"}

roleRank(r) ==
  CASE r = "owner" -> 4
    [] r = "admin" -> 3
    [] r = "reviewer" -> 2
    [] r \in {"viewer", "member"} -> 1
    [] OTHER -> 0

(* Mutant of outranks: the comparison is the other way round. *)
ranksBelow(a, b) == roleRank(a) < roleRank(b)

outranks(a, b) == roleRank(a) > roleRank(b)
=============================================================================
