-------------------------- MODULE WorkspaceProofs --------------------------
(***************************************************************************)
(* Type correctness and the action properties of Workspace, for any number *)
(* of users, organizations, invitations, domains, trust centers, provider  *)
(* accounts and overlapping calls.                                         *)
(***************************************************************************)
EXTENDS Workspace, FiniteSetTheorems, TLAPS

tables == <<users, orgs, role, linked, invite, allowed, joinRole, center>>

LEMMA RolesAreStored == Assignable \subseteq Stored /\ None \notin Stored
  BY DEF Assignable, Stored, Real, None

(* What an idle call holds binds nobody. *)
LEMMA IdleRecord == Idle \in CallRecords /\ Idle.pc = "idle"
  BY DEF Idle, CallRecords, Pcs, Things, Stored

LEMMA IdleHolds == \A k : k = Idle => CallOK(k) /\ Fresh(k)
  <1> SUFFICES ASSUME NEW k, k = Idle PROVE CallOK(k) /\ Fresh(k)
    OBVIOUS
  <1>1. k.pc = "idle"
    BY IdleRecord
  <1>2. CallOK(k)
    BY <1>1 DEF CallOK, Merging
  <1>3. Fresh(k)
    BY <1>1 DEF Fresh, DecisionHolds, MergeHolds, Merging
  <1> QED BY <1>2, <1>3

(* What holds of a record that is kept, while the tables stay, still holds. *)
LEMMA TablesKept ==
  ASSUME UNCHANGED tables, NEW k, CallOK(k), Fresh(k)
  PROVE  CallOK(k)' /\ Fresh(k)'
  <1>1. CallOK(k)'
    BY DEF tables, CallOK
  <1>2. Fresh(k)'
    BY DEF tables, Fresh, DecisionHolds, MergeHolds, HandedOver, MayRemove, IsOlder, NewList,
       MayUnlink, MayLeave, Own, Owners, Members
  <1> QED BY <1>1, <1>2

(* A step of call c that writes no table leaves the invariant if it holds  *)
(* of what c holds next.                                                   *)
LEMMA ReadStep ==
  ASSUME WorkspaceInv, NEW c \in Calls, NEW k \in CallRecords, CallOK(k), Fresh(k),
         call' = [call EXCEPT ![c] = k], UNCHANGED tables,
         begun' \in 0 .. MaxCalls, stops' \in 0 .. MaxStops
  PROVE  WorkspaceInv'
  <1>1. call \in [Calls -> CallRecords]
    BY DEF WorkspaceInv, TablesOK, TypeOK
  <1>2. TablesOK'
    BY <1>1 DEF WorkspaceInv, TablesOK, TypeOK, tables
  <1>3. ASSUME NEW d \in Calls
        PROVE  CallOK(call'[d]) /\ Fresh(call'[d])
    BY <1>1 DEF WorkspaceInv
  <1>4. ASSUME NEW d \in Calls
        PROVE  CallOK(call[d])' /\ Fresh(call[d])'
    <2> PICK m : m = call'[d]
      OBVIOUS
    <2>1. CallOK(m)' /\ Fresh(m)'
      BY <1>3, TablesKept
    <2> QED BY <2>1
  <1> QED BY <1>2, <1>4 DEF WorkspaceInv

(* A step of call c that writes leaves every other call stale, so that the *)
(* invariant remains if organizations and invitations stay, memberships    *)
(* that go are gone for all, and it holds of what c holds next.            *)
LEMMA WriteStep ==
  ASSUME WorkspaceInv, NEW c \in Calls, NEW k \in CallRecords, NEW gone, Wrote(c, k, gone),
         call' \in [Calls -> CallRecords] => TablesOK',
         orgs \subseteq orgs',
         \A i \in Invites : invite[i].role \in Given => invite'[i].role \in Given,
         \A o \in Orgs, u \in Users :
           role[o][u] # None /\ role'[o][u] = None => <<o, u>> \in gone,
         CallOK(k)', Fresh(k)'
  PROVE  WorkspaceInv'
  <1>1. call \in [Calls -> CallRecords] /\ orgs \subseteq Orgs
    BY DEF WorkspaceInv, TablesOK, TypeOK
  <1>2. call' \in [Calls -> CallRecords]
    BY <1>1, ZenonT(40) DEF Wrote, CallRecords
  <1>3. call'[c] = k
    BY <1>1 DEF Wrote
  <1>4. ASSUME NEW d \in Calls, d # c, NEW m, m = call'[d]
        PROVE  CallOK(m)' /\ Fresh(m)'
    <2>1. CallOK(call[d])
      BY DEF WorkspaceInv
    <2>2. CASE call[d].pc = "idle"
      <3>1. m.pc = "idle"
        BY <1>1, <1>4, <2>2 DEF Wrote
      <3> QED BY <3>1 DEF CallOK, Fresh, DecisionHolds, MergeHolds, Merging
    <2>3. CASE call[d].pc # "idle"
      <3>1. m = [call[d] EXCEPT !.raced = TRUE,
                   !.row = @ /\ <<call[d].org, call[d].who>> \notin gone]
        BY <1>1, <1>4, <2>3 DEF Wrote
      <3>2. /\ m.pc = call[d].pc /\ m.by = call[d].by /\ m.org = call[d].org
            /\ m.who = call[d].who /\ m.what = call[d].what /\ m.seen = call[d].seen
            /\ m.raced /\ (m.row => call[d].row /\ <<m.org, m.who>> \notin gone)
        BY <3>1, <1>1 DEF CallRecords
      <3>3. Fresh(m)'
        BY <3>2 DEF Fresh
      <3>4. CallOK(m)'
        BY <1>1, <2>1, <3>2 DEF CallOK, Merging
      <3> QED BY <3>3, <3>4
    <2> QED BY <2>2, <2>3
  <1>5. ASSUME NEW d \in Calls
        PROVE  CallOK(call[d])' /\ Fresh(call[d])'
    <2> PICK m : m = call'[d]
      OBVIOUS
    <2>1. CallOK(m)' /\ Fresh(m)'
      BY <1>3, <1>4
    <2> QED BY <2>1
  <1> QED BY <1>2, <1>5 DEF WorkspaceInv

LEMMA InitHolds == Init => WorkspaceInv
  <1> SUFFICES ASSUME Init PROVE WorkspaceInv
    OBVIOUS
  <1>1. call \in [Calls -> CallRecords] /\ \A c \in Calls : call[c] = Idle
    BY IdleRecord DEF Init
  <1>2. invite \in [Invites -> InviteRecords] /\ \A i \in Invites : invite[i].org = None
                                            /\ invite[i].status = "unsent"
    BY DEF Init, Unsent, InviteRecords
  <1>3. center \in [Centers -> CenterRecords]
    BY DEF Init, Missing, CenterRecords
  <1>4. /\ role \in [Orgs -> [Users -> Stored \cup {None}]]
        /\ \A o \in Orgs, u \in Users : role[o][u] # None => u \in users /\ o \in orgs
    BY TeamsAssumption DEF Init
  <1>5. TypeOK
    BY <1>1, <1>2, <1>3, <1>4, LinksAssumption, BoundsAssumption
    DEF Init, TypeOK, Assignable
  <1>6. TablesOK
    BY <1>2, <1>5 DEF Init, TablesOK
  <1> QED BY <1>1, <1>6, IdleHolds DEF WorkspaceInv

-----------------------------------------------------------------------------
(* A call that begins holds Idle with the fields it fills in. *)
LEMMA BeginHolds ==
  ASSUME WorkspaceInv, NEW c \in Calls, NEW k \in CallRecords, CallOK(k), Fresh(k), Begin(c, k)
  PROVE  WorkspaceInv'
  <1>1. begun' \in 0 .. MaxCalls /\ stops' \in 0 .. MaxStops
    BY BoundsAssumption DEF Begin, WorkspaceInv, TablesOK, TypeOK
  <1> QED BY <1>1, ReadStep DEF Begin, tables

LEMMA ThrowsHolds ==
  ASSUME WorkspaceInv, NEW c \in Calls, Throws(c)
  PROVE  WorkspaceInv'
  <1>1. begun' \in 0 .. MaxCalls /\ stops' \in 0 .. MaxStops
    BY DEF Throws, WorkspaceInv, TablesOK, TypeOK
  <1> QED BY <1>1, ReadStep, IdleRecord, IdleHolds DEF Throws, tables

LEMMA StopHolds ==
  ASSUME WorkspaceInv, NEW c \in Calls, Stop(c)
  PROVE  WorkspaceInv'
  <1>1. begun' \in 0 .. MaxCalls /\ stops' \in 0 .. MaxStops
    BY BoundsAssumption DEF Stop, WorkspaceInv, TablesOK, TypeOK
  <1> QED BY <1>1, ReadStep, IdleRecord, IdleHolds DEF Stop, tables

(* Whoever manages a workspace is a member, so the workspace was created. *)
LEMMA ManagersAreMembers ==
  ASSUME WorkspaceInv, NEW u \in Users, NEW o \in Orgs, manageCtx(u, o)
  PROVE  o \in orgs
  BY DEF manageCtx, WorkspaceInv, TablesOK, TypeOK

LEMMA BeginRemoveHolds ==
  ASSUME WorkspaceInv, NEW c \in Calls, NEW u \in Users, NEW o \in Orgs, NEW v \in Users,
         BeginRemove(c, u, o, v)
  PROVE  WorkspaceInv'
  <1> PICK k : k = [Idle EXCEPT !.pc = "remove", !.org = o, !.who = v]
    OBVIOUS
  <1>1. k \in CallRecords
    BY IdleRecord DEF CallRecords, Pcs
  <1>2. k.pc = "remove" /\ k.org = o /\ k.who = v
    BY IdleRecord DEF CallRecords
  <1>3. o \in orgs /\ MayRemove(o, v) /\ role[o][v] # None
    BY ManagersAreMembers DEF BeginRemove, MayRemove
  <1>4. CallOK(k)
    BY <1>2, <1>3 DEF CallOK, Merging
  <1>5. Fresh(k)
    BY <1>2, <1>3 DEF Fresh, DecisionHolds, MergeHolds, Merging
  <1> QED BY <1>1, <1>4, <1>5, BeginHolds DEF BeginRemove

LEMMA BeginChangeHolds ==
  ASSUME WorkspaceInv, NEW c \in Calls, NEW u \in Users, NEW o \in Orgs, NEW v \in Users,
         NEW r \in Given, BeginChange(c, u, o, v, r)
  PROVE  WorkspaceInv'
  <1> PICK k : k = [Idle EXCEPT !.pc = "change", !.org = o, !.who = v, !.what = r]
    OBVIOUS
  <1>1. k \in CallRecords
    BY IdleRecord, GivenAssumption, RolesAreStored DEF CallRecords, Pcs, Things
  <1>2. k.pc = "change" /\ k.org = o /\ k.who = v /\ k.what = r
    BY IdleRecord DEF CallRecords
  <1>3. o \in orgs /\ role[o][v] \notin {None, "owner"}
    BY ManagersAreMembers DEF BeginChange
  <1>4. CallOK(k)
    BY <1>2, <1>3 DEF CallOK, Merging
  <1>5. Fresh(k)
    BY <1>2, <1>3 DEF Fresh, DecisionHolds, MergeHolds, Merging
  <1> QED BY <1>1, <1>4, <1>5, BeginHolds DEF BeginChange

LEMMA BeginInviteHolds ==
  ASSUME WorkspaceInv, NEW c \in Calls, NEW u \in Users, NEW o \in Orgs, NEW v \in Users,
         NEW r \in Given, BeginInvite(c, u, o, v, r)
  PROVE  WorkspaceInv'
  <1> PICK k : k = [Idle EXCEPT !.pc = "supersede", !.org = o, !.who = v, !.what = r]
    OBVIOUS
  <1>1. k \in CallRecords
    BY IdleRecord, GivenAssumption, RolesAreStored DEF CallRecords, Pcs, Things
  <1>2. k.pc = "supersede" /\ k.org = o /\ k.who = v /\ k.what = r
    BY IdleRecord DEF CallRecords
  <1>3. o \in orgs
    BY ManagersAreMembers DEF BeginInvite
  <1>4. CallOK(k)
    BY <1>2, <1>3 DEF CallOK, Merging
  <1>5. Fresh(k)
    BY <1>2 DEF Fresh, DecisionHolds, MergeHolds, Merging
  <1> QED BY <1>1, <1>4, <1>5, BeginHolds DEF BeginInvite

(* Whoever holds a pending invitation is asked into a workspace there is. *)
LEMMA BeginAcceptHolds ==
  ASSUME WorkspaceInv, NEW c \in Calls, NEW u \in Users, NEW i \in Invites,
         BeginAccept(c, u, i)
  PROVE  WorkspaceInv'
  <1> PICK k : k = [Idle EXCEPT !.by = u, !.org = invite[i].org, !.who = u, !.what = i,
                      !.pc = IF invite[i].expired THEN "void"
                             ELSE IF role[invite[i].org][u] # None THEN "accept" ELSE "admit"]
    OBVIOUS
  <1>0. /\ invite[i].status = "pending" /\ invite[i].org \in orgs
        /\ invite[i].role \in Given /\ orgs \subseteq Orgs
    BY DEF BeginAccept, WorkspaceInv, TablesOK, TypeOK
  <1>1. k \in CallRecords
    BY <1>0, IdleRecord, ZenonT(40) DEF CallRecords, Pcs, Things
  <1>2. /\ k.pc \in {"void", "accept", "admit"} /\ k.org = invite[i].org /\ k.who = u
        /\ k.by = u /\ k.what = i
    BY IdleRecord DEF CallRecords
  <1>4. CallOK(k)
    BY <1>0, <1>2 DEF CallOK, Merging
  <1>5. Fresh(k)
    BY <1>0, <1>2 DEF Fresh, DecisionHolds, MergeHolds, Merging
  <1> QED BY <1>1, <1>4, <1>5, BeginHolds DEF BeginAccept

LEMMA BeginRevokeHolds ==
  ASSUME WorkspaceInv, NEW c \in Calls, NEW u \in Users, NEW o \in Orgs, NEW i \in Invites,
         BeginRevoke(c, u, o, i)
  PROVE  WorkspaceInv'
  <1> PICK k : k = [Idle EXCEPT !.pc = "void", !.org = o, !.what = i]
    OBVIOUS
  <1>1. k \in CallRecords
    BY IdleRecord DEF CallRecords, Pcs, Things
  <1>2. k.pc = "void" /\ k.what = i
    BY IdleRecord DEF CallRecords
  <1>4. CallOK(k)
    BY <1>2 DEF CallOK, Merging
  <1>5. Fresh(k)
    BY <1>2 DEF Fresh, DecisionHolds, MergeHolds, Merging
  <1> QED BY <1>1, <1>4, <1>5, BeginHolds DEF BeginRevoke

LEMMA BeginDomainHolds ==
  ASSUME WorkspaceInv, NEW c \in Calls, NEW u \in Users, NEW o \in Orgs, NEW d \in Domains,
         NEW adds \in BOOLEAN, BeginDomain(c, u, o, d, adds)
  PROVE  WorkspaceInv'
  <1> PICK k : k = [Idle EXCEPT !.pc = "domains", !.org = o, !.what = d,
                      !.seen = NewList(o, d, adds)]
    OBVIOUS
  <1>0. NewList(o, d, adds) \in SUBSET Domains /\ o \in orgs
    BY ManagersAreMembers DEF NewList, BeginDomain, WorkspaceInv, TablesOK, TypeOK
  <1>1. k \in CallRecords
    BY <1>0, IdleRecord DEF CallRecords, Pcs, Things
  <1>2. k.pc = "domains" /\ k.org = o /\ k.what = d /\ k.seen = NewList(o, d, adds)
    BY IdleRecord DEF CallRecords
  <1>4. CallOK(k)
    BY <1>0, <1>2 DEF CallOK, Merging
  <1>5. Fresh(k)
    BY <1>2 DEF Fresh, DecisionHolds, MergeHolds, Merging
  <1> QED BY <1>1, <1>4, <1>5, BeginHolds DEF BeginDomain

LEMMA BeginJoinRoleHolds ==
  ASSUME WorkspaceInv, NEW c \in Calls, NEW u \in Users, NEW o \in Orgs, NEW r \in Given,
         BeginJoinRole(c, u, o, r)
  PROVE  WorkspaceInv'
  <1> PICK k : k = [Idle EXCEPT !.pc = "joinrole", !.org = o, !.what = r]
    OBVIOUS
  <1>1. k \in CallRecords
    BY IdleRecord, GivenAssumption, RolesAreStored DEF CallRecords, Pcs, Things
  <1>2. k.pc = "joinrole" /\ k.what = r
    BY IdleRecord DEF CallRecords
  <1>4. CallOK(k)
    BY <1>2 DEF CallOK, Merging
  <1>5. Fresh(k)
    BY <1>2 DEF Fresh, DecisionHolds, MergeHolds, Merging
  <1> QED BY <1>1, <1>4, <1>5, BeginHolds DEF BeginJoinRole

LEMMA BeginSignInHolds ==
  ASSUME WorkspaceInv, NEW c \in Calls, NEW u \in Users, BeginSignIn(c, u)
  PROVE  WorkspaceInv'
  <1> DEFINE hosts == {o \in Orgs : DomainOf[u] \in allowed[o]}
             seen == {<<o, joinRole[o]>> : o \in hosts}
  <1> PICK k : k = [Idle EXCEPT !.pc = "join", !.by = u, !.who = u, !.seen = seen]
    OBVIOUS
  <1>0. seen \subseteq orgs \X Assignable /\ orgs \subseteq Orgs
    BY DEF WorkspaceInv, TablesOK, TypeOK
  <1> HIDE DEF hosts
  <1>a. Begin(c, k)
    BY DEF BeginSignIn, hosts
  <1> HIDE DEF seen
  <1>b. seen \in SUBSET (Domains \cup Accounts \cup (Orgs \X Stored))
    BY <1>0, RolesAreStored
  <1>1. k \in CallRecords
    BY <1>b, IdleRecord DEF CallRecords, Pcs
  <1>2. k.pc = "join" /\ k.by = u /\ k.seen = seen
    BY IdleRecord DEF CallRecords
  <1>4. CallOK(k)
    BY <1>0, <1>2 DEF CallOK, Merging
  <1>5. Fresh(k)
    BY <1>2 DEF Fresh, DecisionHolds, MergeHolds, Merging
  <1> QED BY <1>1, <1>4, <1>5, <1>a, BeginHolds

LEMMA BeginVisitHolds ==
  ASSUME WorkspaceInv, NEW c \in Calls, NEW u \in Users, BeginVisit(c, u)
  PROVE  WorkspaceInv'
  <1> PICK k : k = [Idle EXCEPT !.pc = "found", !.by = u, !.who = u]
    OBVIOUS
  <1>1. k \in CallRecords
    BY IdleRecord DEF CallRecords, Pcs
  <1>2. k.pc = "found" /\ k.by = u
    BY IdleRecord DEF CallRecords
  <1>4. CallOK(k)
    BY <1>2 DEF CallOK, Merging
  <1>5. Fresh(k)
    BY <1>2 DEF Fresh, DecisionHolds, MergeHolds, Merging
  <1> QED BY <1>1, <1>4, <1>5, BeginHolds DEF BeginVisit

LEMMA BeginCreateHolds ==
  ASSUME WorkspaceInv, NEW c \in Calls, NEW u \in Users, NEW o \in Orgs, BeginCreate(c, u, o)
  PROVE  WorkspaceInv'
  <1> PICK k : k = [Idle EXCEPT !.pc = "vendor", !.by = u, !.org = o]
    OBVIOUS
  <1>1. k \in CallRecords
    BY IdleRecord DEF CallRecords, Pcs
  <1>2. k.pc = "vendor" /\ k.by = u
    BY IdleRecord DEF CallRecords
  <1>4. CallOK(k)
    BY <1>2 DEF CallOK, Merging
  <1>5. Fresh(k)
    BY <1>2 DEF Fresh, DecisionHolds, MergeHolds, Merging
  <1> QED BY <1>1, <1>4, <1>5, BeginHolds DEF BeginCreate

LEMMA BeginUnlinkHolds ==
  ASSUME WorkspaceInv, NEW c \in Calls, NEW u \in Users, NEW a \in Accounts,
         BeginUnlink(c, u, ProviderOf[a])
  PROVE  WorkspaceInv'
  <1> PICK k : k = [Idle EXCEPT !.pc = "unlink", !.by = u, !.what = ProviderOf[a]]
    OBVIOUS
  <1>1. k \in CallRecords
    BY IdleRecord DEF CallRecords, Pcs, Things
  <1>2. k.pc = "unlink" /\ k.by = u /\ k.what = ProviderOf[a]
    BY IdleRecord DEF CallRecords
  <1>4. CallOK(k)
    BY <1>2 DEF CallOK, Merging
  <1>5. Fresh(k)
    BY <1>2 DEF Fresh, DecisionHolds, MergeHolds, Merging, BeginUnlink
  <1> QED BY <1>1, <1>4, <1>5, BeginHolds DEF BeginUnlink

LEMMA BeginDeleteHolds ==
  ASSUME WorkspaceInv, NEW c \in Calls, NEW u \in Users, BeginDelete(c, u)
  PROVE  WorkspaceInv'
  <1> PICK k : k = [Idle EXCEPT !.pc = "delete", !.by = u]
    OBVIOUS
  <1>1. k \in CallRecords
    BY IdleRecord DEF CallRecords, Pcs
  <1>2. k.pc = "delete" /\ k.by = u
    BY IdleRecord DEF CallRecords
  <1>4. CallOK(k)
    BY <1>2 DEF CallOK, Merging
  <1>5. Fresh(k)
    BY <1>2 DEF Fresh, DecisionHolds, MergeHolds, Merging, BeginDelete
  <1> QED BY <1>1, <1>4, <1>5, BeginHolds DEF BeginDelete

(* The rank of a stored role is positive, that of no membership zero. *)
LEMMA RankOf ==
  /\ \A r : roleRank(r) \in 0 .. 4
  /\ \A r \in Stored : roleRank(r) > 0
  /\ \A r : roleRank(r) = 4 <=> r = "owner"
  /\ roleRank(None) = 0
  BY DEF roleRank, Stored, Real, None

(* The memberships a merge reads are all of the source's. *)
LEMMA BeginMergeHolds ==
  ASSUME WorkspaceInv, NEW c \in Calls, NEW s \in Users, NEW t \in Users, BeginMerge(c, s, t)
  PROVE  WorkspaceInv'
  <1> DEFINE seen == {<<o, role[o][s]>> : o \in {o \in Orgs : role[o][s] # None}}
  <1> PICK k : k = [Idle EXCEPT !.pc = "merge", !.by = s, !.who = t, !.seen = seen]
    OBVIOUS
  <1>a. Begin(c, k) /\ s \in users /\ s # t
    BY DEF BeginMerge
  <1>0. /\ orgs \subseteq Orgs /\ role \in [Orgs -> [Users -> Stored \cup {None}]]
        /\ \A o \in Orgs : role[o][s] # None => o \in orgs
    BY DEF WorkspaceInv, TablesOK, TypeOK
  <1>b. seen \subseteq orgs \X Stored
    BY <1>0
  <1>c. \A x \in seen : x[2] = role[x[1]][s]
    OBVIOUS
  <1>d. \A o \in Orgs : role[o][s] # None => <<o, role[o][s]>> \in seen
    OBVIOUS
  <1>e. \A o \in Orgs : \/ <<o, role[o][s]>> \in seen
                        \/ roleRank(role[o][s]) <= roleRank(role[o][t])
    <2> HIDE DEF seen
    <2> QED BY <1>d, RankOf
  <1> HIDE DEF seen
  <1>f. seen \in SUBSET (Domains \cup Accounts \cup (Orgs \X Stored))
    BY <1>0, <1>b
  <1>1. k \in CallRecords
    BY <1>f, IdleRecord DEF CallRecords, Pcs, Merging
  <1>2. k.pc = "merge" /\ k.by = s /\ k.who = t /\ k.seen = seen
    BY IdleRecord DEF CallRecords
  <1>4. CallOK(k)
    BY <1>a, <1>b, <1>2 DEF CallOK, Merging
  <1>5. Fresh(k)
    BY <1>a, <1>c, <1>e, <1>2 DEF Fresh, DecisionHolds, MergeHolds, Merging
  <1> QED BY <1>1, <1>4, <1>5, <1>a, BeginHolds

-----------------------------------------------------------------------------
(* A write that ends its call. *)
LEMMA LastWrite ==
  ASSUME WorkspaceInv, NEW c \in Calls, NEW gone, Wrote(c, Idle, gone),
         call' \in [Calls -> CallRecords] => TablesOK',
         orgs \subseteq orgs',
         \A i \in Invites : invite[i].role \in Given => invite'[i].role \in Given,
         \A o \in Orgs, u \in Users :
           role[o][u] # None /\ role'[o][u] = None => <<o, u>> \in gone
  PROVE  WorkspaceInv'
  <1> PICK k : k = Idle
    OBVIOUS
  <1>1. k \in CallRecords /\ k.pc = "idle"
    BY IdleRecord
  <1>2. CallOK(k)' /\ Fresh(k)'
    BY <1>1 DEF CallOK, Fresh, DecisionHolds, MergeHolds, Merging
  <1> QED BY <1>1, <1>2, WriteStep

(* What is known of a call in flight, and of the tables. *)
LEMMA CallInFlight ==
  ASSUME WorkspaceInv, NEW c \in Calls
  PROVE  /\ TypeOK /\ TablesOK
         /\ CallOK(call[c]) /\ Fresh(call[c]) /\ call[c] \in CallRecords
         /\ orgs \subseteq Orgs /\ begun \in 0 .. MaxCalls /\ stops \in 0 .. MaxStops
  BY DEF WorkspaceInv, TablesOK, TypeOK

(* One membership set or cleared: the tables stay well typed, if whoever   *)
(* becomes a member is a user and joins an organization there is.          *)
LEMMA OneRole ==
  ASSUME WorkspaceInv, NEW o \in Orgs, NEW v \in Users, NEW r \in Stored \cup {None},
         role' = [role EXCEPT ![o][v] = r],
         r # None => v \in users /\ o \in orgs,
         UNCHANGED <<users, orgs, linked, invite, allowed, joinRole, center, begun, stops>>,
         call' \in [Calls -> CallRecords]
  PROVE  TablesOK'
  <1>1. role' \in [Orgs -> [Users -> Stored \cup {None}]]
    BY DEF WorkspaceInv, TablesOK, TypeOK
  <1>2. \A p \in Orgs, u \in Users :
          role'[p][u] = IF p = o /\ u = v THEN r ELSE role[p][u]
    BY DEF WorkspaceInv, TablesOK, TypeOK
  <1>3. \A p \in Orgs, u \in Users : role'[p][u] # None => u \in users /\ p \in orgs
    BY <1>2 DEF WorkspaceInv, TablesOK, TypeOK
  <1>4. TypeOK'
    BY <1>1, <1>3 DEF WorkspaceInv, TablesOK, TypeOK
  <1> QED BY <1>4 DEF WorkspaceInv, TablesOK

LEMMA RemoveHolds ==
  ASSUME WorkspaceInv, NEW c \in Calls, Remove(c)
  PROVE  WorkspaceInv'
  <1> DEFINE o == call[c].org
             v == call[c].who
  <1>1. CASE Throws(c)
    BY <1>1, ThrowsHolds
  <1>2. CASE call[c].row
    <2>1. o \in Orgs /\ v \in Users
      BY CallInFlight DEF Remove, At, CallOK
    <2>2. /\ role' = [role EXCEPT ![o][v] = None] /\ Wrote(c, Idle, {<<o, v>>})
          /\ UNCHANGED <<users, orgs, linked, invite, allowed, joinRole, center, begun, stops>>
      BY <1>2 DEF Remove, Wrote
    <2> HIDE DEF o, v
    <2>3. call' \in [Calls -> CallRecords] => TablesOK'
      BY <2>1, <2>2, OneRole
    <2>4. \A p \in Orgs, u \in Users :
            role[p][u] # None /\ role'[p][u] = None => <<p, u>> \in {<<o, v>>}
      BY <2>1, <2>2 DEF WorkspaceInv, TablesOK, TypeOK
    <2> QED BY <2>2, <2>3, <2>4, LastWrite
  <1> QED BY <1>1, <1>2 DEF Remove

LEMMA ChangeHolds ==
  ASSUME WorkspaceInv, NEW c \in Calls, Change(c)
  PROVE  WorkspaceInv'
  <1> DEFINE o == call[c].org
             v == call[c].who
             r == call[c].what
  <1>1. CASE Throws(c)
    BY <1>1, ThrowsHolds
  <1>2. CASE call[c].row
    <2>1. o \in Orgs /\ v \in Users /\ r \in Stored /\ r # None /\ role[o][v] # None
      BY <1>2, CallInFlight, GivenAssumption, RolesAreStored DEF Change, At, CallOK
    <2>2. /\ role' = [role EXCEPT ![o][v] = r] /\ Wrote(c, Idle, {})
          /\ UNCHANGED <<users, orgs, linked, invite, allowed, joinRole, center, begun, stops>>
      BY <1>2 DEF Change, Wrote
    <2> HIDE DEF o, v, r
    <2>a. v \in users /\ o \in orgs
      BY <2>1, CallInFlight DEF TypeOK, WorkspaceInv, TablesOK
    <2>3. call' \in [Calls -> CallRecords] => TablesOK'
      BY <2>1, <2>2, <2>a, OneRole
    <2>4. \A p \in Orgs, u \in Users :
            role[p][u] # None /\ role'[p][u] = None => <<p, u>> \in {}
      BY <2>1, <2>2 DEF WorkspaceInv, TablesOK, TypeOK
    <2> QED BY <2>2, <2>3, <2>4, LastWrite
  <1> QED BY <1>1, <1>2 DEF Change

(* A statement that leaves users, organizations and roles alone, and keeps *)
(* the other tables well typed.                                            *)
LEMMA SideTables ==
  ASSUME WorkspaceInv, UNCHANGED <<users, orgs, role, begun, stops>>,
         linked' \in [Accounts -> users \cup {Nobody}],
         invite' \in [Invites -> InviteRecords],
         \A i \in Invites :
           invite'[i].org # None => invite'[i].org \in orgs /\ invite'[i].role \in Given,
         \A i \in Invites : invite'[i].status = "pending" => invite'[i].org # None,
         allowed' \in [Orgs -> SUBSET Domains], \A o \in Orgs : allowed'[o] # {} => o \in orgs,
         joinRole' \in [Orgs -> Assignable],
         center' \in [Centers -> CenterRecords],
         call' \in [Calls -> CallRecords]
  PROVE  TablesOK'
  <1>1. TypeOK'
    BY DEF WorkspaceInv, TablesOK, TypeOK
  <1> QED BY <1>1 DEF TablesOK

(* The facts about the tables a statement does not write. *)
LEMMA TablesAre ==
  ASSUME WorkspaceInv
  PROVE  /\ linked \in [Accounts -> users \cup {Nobody}]
         /\ invite \in [Invites -> InviteRecords]
         /\ \A i \in Invites :
              invite[i].org # None => invite[i].org \in orgs /\ invite[i].role \in Given
         /\ \A i \in Invites : invite[i].status = "pending" => invite[i].org # None
         /\ allowed \in [Orgs -> SUBSET Domains] /\ \A o \in Orgs : allowed[o] # {} => o \in orgs
         /\ joinRole \in [Orgs -> Assignable]
         /\ center \in [Centers -> CenterRecords]
         /\ role \in [Orgs -> [Users -> Stored \cup {None}]]
         /\ \A o \in Orgs, u \in Users : role[o][u] # None => u \in users /\ o \in orgs
  BY DEF WorkspaceInv, TablesOK, TypeOK

LEMMA SendHolds ==
  ASSUME WorkspaceInv, NEW c \in Calls, NEW i \in Invites, Send(c, i)
  PROVE  WorkspaceInv'
  <1> DEFINE new == [status |-> "pending", org |-> call[c].org, role |-> call[c].what,
                     to |-> call[c].who, expired |-> FALSE]
  <1>1. /\ call[c].org \in orgs /\ call[c].who \in Users /\ call[c].what \in Given
        /\ orgs \subseteq Orgs
    BY CallInFlight DEF Send, At, CallOK
  <1>2. new \in InviteRecords /\ new.org \in orgs /\ new.org # None /\ new.role \in Given
    BY <1>1, OrgsAssumption DEF InviteRecords
  <1>3. /\ invite' = [invite EXCEPT ![i] = new] /\ Wrote(c, Idle, {})
        /\ UNCHANGED <<users, orgs, role, linked, allowed, joinRole, center, begun, stops>>
    BY DEF Send, Wrote
  <1> HIDE DEF new
  <1>4. /\ invite' \in [Invites -> InviteRecords]
        /\ \A j \in Invites : invite'[j] = IF j = i THEN new ELSE invite[j]
    BY <1>2, <1>3, TablesAre
  <1>5. call' \in [Calls -> CallRecords] => TablesOK'
    BY <1>2, <1>3, <1>4, TablesAre, SideTables
  <1>6. \A j \in Invites : invite[j].role \in Given => invite'[j].role \in Given
    BY <1>2, <1>4
  <1> QED BY <1>3, <1>5, <1>6, LastWrite

(* A status set leaves who was invited where, and as what. *)
LEMMA StatusSet ==
  ASSUME NEW r \in InviteRecords, NEW st \in {"accepted", "revoked"},
         NEW e, e = [r EXCEPT !.status = st]
  PROVE  /\ e \in InviteRecords /\ e.org = r.org /\ e.role = r.role /\ e.to = r.to
         /\ e.status = st
  BY DEF InviteRecords

LEMMA SettleHolds ==
  ASSUME WorkspaceInv, NEW c \in Calls, Settle(c)
  PROVE  WorkspaceInv'
  <1> DEFINE i == call[c].what
  <1>1. i \in Invites
    BY CallInFlight DEF Settle, CallOK
  <1> PICK st \in {"accepted", "revoked"} : invite' = [invite EXCEPT ![i].status = st]
    BY DEF Settle
  <1>3. /\ Wrote(c, Idle, {})
        /\ UNCHANGED <<users, orgs, role, linked, allowed, joinRole, center, begun, stops>>
    BY DEF Settle, Wrote
  <1> HIDE DEF i
  <1>4. /\ \A j \in Invites : j # i => invite'[j] = invite[j]
        /\ invite'[i] = [invite[i] EXCEPT !.status = st]
        /\ invite' = [j \in Invites |-> invite'[j]]
    BY <1>1, TablesAre
  <1>5. /\ invite'[i] \in InviteRecords /\ invite'[i].org = invite[i].org
        /\ invite'[i].role = invite[i].role /\ invite'[i].status = st
    BY <1>1, <1>4, StatusSet, TablesAre
  <1>6. invite' \in [Invites -> InviteRecords]
    BY <1>1, <1>4, <1>5, TablesAre
  <1>7. call' \in [Calls -> CallRecords] => TablesOK'
    BY <1>3, <1>4, <1>5, <1>6, TablesAre, SideTables
  <1>8. \A j \in Invites : invite[j].role \in Given => invite'[j].role \in Given
    BY <1>4, <1>5
  <1> QED BY <1>3, <1>7, <1>8, LastWrite

(* Writes that go on: what the call holds next is what its next statement  *)
(* needs.                                                                  *)
LEMMA SupersedeHolds ==
  ASSUME WorkspaceInv, NEW c \in Calls, Supersede(c)
  PROVE  WorkspaceInv'
  <1> PICK k : k = Goes(c, "send")
    OBVIOUS
  <1> DEFINE older(i) == IsOlder(i, call[c].org, call[c].who)
  <1>1. k \in CallRecords /\ k.pc = "send" /\ k.org = call[c].org /\ k.who = call[c].who
        /\ k.what = call[c].what
    BY CallInFlight DEF Goes, CallRecords, Pcs
  <1>2. k.org \in orgs /\ k.who \in Users /\ k.what \in Given
    BY <1>1, CallInFlight DEF Supersede, At, CallOK
  <1>3. /\ Wrote(c, k, {})
        /\ UNCHANGED <<users, orgs, role, linked, allowed, joinRole, center, begun, stops>>
        /\ invite' = [i \in Invites |-> IF older(i) THEN [invite[i] EXCEPT !.status = "revoked"]
                                        ELSE invite[i]]
    BY DEF Supersede, Wrote
  <1>4. ASSUME NEW i \in Invites
        PROVE  /\ invite'[i] \in InviteRecords /\ invite'[i].org = invite[i].org
               /\ invite'[i].role = invite[i].role /\ invite'[i].to = invite[i].to
               /\ older(i) => invite'[i].status = "revoked"
               /\ ~older(i) => invite'[i].status = invite[i].status
    <2> HIDE DEF older
    <2>1. CASE older(i)
      BY <1>3, <2>1, StatusSet, TablesAre
    <2>2. CASE ~older(i)
      BY <1>3, <2>2, TablesAre
    <2> QED BY <2>1, <2>2
  <1>5. invite' \in [Invites -> InviteRecords]
    BY <1>3, <1>4
  <1>6. \A i \in Invites : invite'[i].status = "pending" => invite'[i].org # None
    BY <1>4, TablesAre
  <1>7. call' \in [Calls -> CallRecords] => TablesOK'
    BY <1>3, <1>4, <1>5, <1>6, TablesAre, SideTables
  <1>8. CallOK(k)'
    BY <1>1, <1>2, <1>3 DEF CallOK, Merging
  <1>9. \A i \in Invites : ~IsOlder(i, k.org, k.who)'
    BY <1>1, <1>4 DEF IsOlder
  <1>10. Fresh(k)'
    BY <1>1, <1>9 DEF Fresh, DecisionHolds, MergeHolds, Merging
  <1>11. \A i \in Invites : invite[i].role \in Given => invite'[i].role \in Given
    BY <1>4
  <1> QED BY <1>1, <1>3, <1>7, <1>8, <1>10, <1>11, WriteStep

LEMMA AdmitHolds ==
  ASSUME WorkspaceInv, NEW c \in Calls, Admit(c)
  PROVE  WorkspaceInv'
  <1> DEFINE o == call[c].org
             u == call[c].by
             r == invite[call[c].what].role
  <1>1. CASE Throws(c)
    BY <1>1, ThrowsHolds
  <1>2. CASE u \in users /\ role[o][u] = None
    <2> PICK k : k = Goes(c, "accept")
      OBVIOUS
    <2>1. /\ o \in Orgs /\ o \in orgs /\ u \in Users /\ r \in Stored /\ r # None
          /\ call[c].what \in Invites
      BY CallInFlight, GivenAssumption, RolesAreStored DEF Admit, At, CallOK
    <2>2. /\ role' = [role EXCEPT ![o][u] = r] /\ Wrote(c, k, {})
          /\ UNCHANGED <<users, orgs, linked, invite, allowed, joinRole, center, begun, stops>>
      BY <1>2 DEF Admit, Wrote
    <2>a. k \in CallRecords /\ k.pc = "accept" /\ k.what = call[c].what
      BY CallInFlight DEF Goes, CallRecords, Pcs
    <2>b. CallOK(k)' /\ Fresh(k)'
      BY <2>1, <2>a DEF CallOK, Merging, Fresh, DecisionHolds, MergeHolds
    <2> HIDE DEF o, u, r
    <2>3. call' \in [Calls -> CallRecords] => TablesOK'
      BY <1>2, <2>1, <2>2, OneRole
    <2>4. \A p \in Orgs, w \in Users :
            role[p][w] # None /\ role'[p][w] = None => <<p, w>> \in {}
      BY <2>1, <2>2, TablesAre
    <2> QED BY <2>2, <2>3, <2>4, <2>a, <2>b, WriteStep
  <1> QED BY <1>1, <1>2 DEF Admit

LEMMA ExpireHolds ==
  ASSUME WorkspaceInv, NEW i \in Invites, Expire(i)
  PROVE  WorkspaceInv'
  <1>1. ASSUME NEW j \in Invites
        PROVE  /\ invite'[j] \in InviteRecords /\ invite'[j].org = invite[j].org
               /\ invite'[j].role = invite[j].role /\ invite'[j].to = invite[j].to
               /\ invite'[j].status = invite[j].status
    BY TablesAre DEF Expire, InviteRecords
  <1>2. /\ invite' \in [Invites -> InviteRecords]
        /\ UNCHANGED <<users, orgs, role, linked, allowed, joinRole, center, call, begun, stops>>
    BY <1>1, TablesAre DEF Expire
  <1>3. TablesOK'
    BY <1>1, <1>2, TablesAre, SideTables DEF WorkspaceInv, TablesOK, TypeOK
  <1>4. ASSUME NEW c \in Calls
        PROVE  CallOK(call[c])' /\ Fresh(call[c])'
    <2>1. CallOK(call[c])'
      BY <1>1, <1>2, CallInFlight DEF CallOK
    <2>2. Fresh(call[c]) => Fresh(call[c])'
      <3>1. call[c].pc = "admit" => call[c].what \in Invites
        BY CallInFlight DEF CallOK
      <3>2. DecisionHolds(call[c]) => DecisionHolds(call[c])'
        BY <1>1, <1>2, <3>1, ZenonT(40) DEF DecisionHolds, MayRemove, IsOlder, NewList, MayUnlink, MayLeave, Own,
           Owners, Members
      <3>3. MergeHolds(call[c]) => MergeHolds(call[c])'
        BY <1>2 DEF MergeHolds, HandedOver, Own
      <3> QED BY <1>2, <3>2, <3>3 DEF Fresh
    <2> QED BY <2>1, <2>2, CallInFlight
  <1> QED BY <1>3, <1>4 DEF WorkspaceInv

-----------------------------------------------------------------------------
LEMMA WriteDomainsHolds ==
  ASSUME WorkspaceInv, NEW c \in Calls, WriteDomains(c)
  PROVE  WorkspaceInv'
  <1>1. call[c].org \in orgs /\ call[c].seen \subseteq Domains
    BY CallInFlight DEF WriteDomains, At, CallOK
  <1>2. /\ allowed' = [allowed EXCEPT ![call[c].org] = call[c].seen] /\ Wrote(c, Idle, {})
        /\ UNCHANGED <<users, orgs, role, linked, invite, joinRole, center, begun, stops>>
    BY DEF WriteDomains, Wrote
  <1>3. call' \in [Calls -> CallRecords] => TablesOK'
    BY <1>1, <1>2, TablesAre, SideTables
  <1> QED BY <1>2, <1>3, LastWrite

LEMMA WriteJoinRoleHolds ==
  ASSUME WorkspaceInv, NEW c \in Calls, WriteJoinRole(c)
  PROVE  WorkspaceInv'
  <1>1. call[c].what \in Assignable
    BY CallInFlight, GivenAssumption DEF WriteJoinRole, At, CallOK
  <1>2. /\ joinRole' = [joinRole EXCEPT ![call[c].org] = call[c].what] /\ Wrote(c, Idle, {})
        /\ UNCHANGED <<users, orgs, role, linked, invite, allowed, center, begun, stops>>
    BY DEF WriteJoinRole, Wrote
  <1>3. call' \in [Calls -> CallRecords] => TablesOK'
    BY <1>1, <1>2, TablesAre, SideTables
  <1> QED BY <1>2, <1>3, LastWrite

LEMMA JoinHolds ==
  ASSUME WorkspaceInv, NEW c \in Calls, NEW o \in Orgs, NEW r \in Assignable, Join(c, o, r)
  PROVE  WorkspaceInv'
  <1> DEFINE u == call[c].by
             rest == call[c].seen \ {<<o, r>>}
             k == IF rest = {} THEN Idle ELSE [call[c] EXCEPT !.seen = rest]
  <1>1. CASE Throws(c)
    BY <1>1, ThrowsHolds
  <1>2. CASE ~(role[o][u] = None /\ u \notin users)
    <2>1. /\ o \in orgs /\ u \in Users /\ rest \subseteq orgs \X Assignable
          /\ rest \in SUBSET (Domains \cup Accounts \cup (Orgs \X Stored))
      <3>1. call[c].seen \subseteq orgs \X Assignable /\ u \in Users /\ <<o, r>> \in call[c].seen
        BY CallInFlight DEF Join, At, CallOK
      <3> QED BY <3>1, CallInFlight, RolesAreStored
    <2>2. /\ role' = IF role[o][u] = None THEN [role EXCEPT ![o][u] = r] ELSE role
          /\ Wrote(c, k, {})
          /\ UNCHANGED <<users, orgs, linked, invite, allowed, joinRole, center, begun, stops>>
      BY <1>2 DEF Join, Wrote
    <2> PICK m : m = k
      OBVIOUS
    <2>3. \/ m = Idle
          \/ /\ m \in CallRecords /\ m.pc = "join" /\ m.by = u /\ m.seen = rest
      BY <2>1, CallInFlight DEF CallRecords, Join, At
    <2>4. m \in CallRecords /\ Wrote(c, m, {})
      BY <2>2, <2>3, IdleRecord
    <2> HIDE DEF k, rest
    <2>5. CallOK(m)' /\ Fresh(m)'
      <3>1. CASE m = Idle
        <4>1. m.pc = "idle"
          BY <3>1, IdleRecord
        <4> QED BY <4>1 DEF CallOK, Fresh, DecisionHolds, MergeHolds, Merging
      <3>2. CASE m.pc = "join" /\ m.by = u /\ m.seen = rest
        BY <3>2, <2>1, <2>2 DEF CallOK, Fresh, DecisionHolds, MergeHolds, Merging
      <3> QED BY <2>3, <3>1, <3>2
    <2>6. r \in Stored /\ r # None
      BY RolesAreStored
    <2> HIDE DEF u
    <2>7. call' \in [Calls -> CallRecords] => TablesOK'
      <3>1. CASE role[o][u] = None
        BY <1>2, <2>1, <2>2, <2>6, <3>1, OneRole DEF u
      <3>2. CASE role' = role
        BY <2>2, <3>2, TablesAre, SideTables
      <3> QED BY <2>2, <3>1, <3>2
    <2>8. \A p \in Orgs, w \in Users :
            role[p][w] # None /\ role'[p][w] = None => <<p, w>> \in {}
      BY <2>1, <2>2, <2>6, TablesAre
    <2> QED BY <2>2, <2>4, <2>5, <2>7, <2>8, WriteStep
  <1> QED BY <1>1, <1>2 DEF Join

LEMMA FoundHolds ==
  ASSUME WorkspaceInv, NEW c \in Calls, NEW o \in Orgs, Found(c, o)
  PROVE  WorkspaceInv'
  <1> DEFINE u == call[c].by
  <1>1. u \in Users /\ u \in users
    BY CallInFlight DEF Found, At, CallOK
  <1>2. /\ role' = [role EXCEPT ![o][u] = "owner"] /\ Wrote(c, Idle, {})
        /\ orgs' = orgs \cup {o}
        /\ UNCHANGED <<users, linked, invite, allowed, joinRole, center, begun, stops>>
    BY DEF Found, Wrote
  <1>3. "owner" \in Stored /\ "owner" # None
    BY DEF Stored, Real, None
  <1> HIDE DEF u
  <1>4. /\ role' \in [Orgs -> [Users -> Stored \cup {None}]]
        /\ \A p \in Orgs, w \in Users :
             role'[p][w] = IF p = o /\ w = u THEN "owner" ELSE role[p][w]
    BY <1>1, <1>2, <1>3, TablesAre
  <1>5. \A p \in Orgs, w \in Users : role'[p][w] # None => w \in users' /\ p \in orgs'
    BY <1>1, <1>2, <1>4, TablesAre
  <1>6. call' \in [Calls -> CallRecords] => TypeOK'
    BY <1>2, <1>4, <1>5, CallInFlight DEF TypeOK
  <1>7. call' \in [Calls -> CallRecords] => TablesOK'
    BY <1>2, <1>6, TablesAre DEF TablesOK
  <1>8. \A p \in Orgs, w \in Users :
          role[p][w] # None /\ role'[p][w] = None => <<p, w>> \in {}
    BY <1>3, <1>4
  <1> QED BY <1>2, <1>7, <1>8, LastWrite

LEMMA CreateVendorHolds ==
  ASSUME WorkspaceInv, NEW c \in Calls, NEW v \in Centers, CreateVendor(c, v)
  PROVE  WorkspaceInv'
  <1> PICK k : k = [Goes(c, "row") EXCEPT !.what = v]
    OBVIOUS
  <1>1. k \in CallRecords /\ k.pc = "row" /\ k.by = call[c].by /\ k.what = v
    BY CallInFlight, ZenonT(40) DEF Goes, CallRecords, Pcs, Things
  <1>2. /\ center' = [center EXCEPT ![v].state = "vendor"] /\ Wrote(c, k, {})
        /\ UNCHANGED <<users, orgs, role, linked, invite, allowed, joinRole, begun, stops>>
    BY DEF CreateVendor, Wrote
  <1>3. center' \in [Centers -> CenterRecords]
    BY <1>2, TablesAre, ZenonT(40) DEF CenterRecords
  <1>4. call' \in [Calls -> CallRecords] => TablesOK'
    BY <1>2, <1>3, TablesAre, SideTables
  <1>5. call[c].by \in Users
    BY CallInFlight DEF CreateVendor, At, CallOK
  <1>6. CallOK(k)' /\ Fresh(k)'
    BY <1>1, <1>5 DEF CallOK, Merging, Fresh, DecisionHolds, MergeHolds
  <1> QED BY <1>1, <1>2, <1>4, <1>6, WriteStep

LEMMA CreateRowHolds ==
  ASSUME WorkspaceInv, NEW c \in Calls, CreateRow(c)
  PROVE  WorkspaceInv'
  <1> DEFINE new == [state |-> "kept", org |-> call[c].org, creator |-> call[c].by]
  <1>1. new \in CenterRecords
    BY CallInFlight DEF CenterRecords, CallRecords
  <1>2. /\ center' = [center EXCEPT ![call[c].what] = new] /\ Wrote(c, Idle, {})
        /\ UNCHANGED <<users, orgs, role, linked, invite, allowed, joinRole, begun, stops>>
    BY DEF CreateRow, Wrote
  <1> HIDE DEF new
  <1>3. call' \in [Calls -> CallRecords] => TablesOK'
    BY <1>1, <1>2, TablesAre, SideTables
  <1> QED BY <1>2, <1>3, LastWrite

LEMMA UnlinkHolds ==
  ASSUME WorkspaceInv, NEW c \in Calls, Unlink(c)
  PROVE  WorkspaceInv'
  <1>2. /\ linked' \in [Accounts -> users \cup {Nobody}] /\ Wrote(c, Idle, {})
        /\ UNCHANGED <<users, orgs, role, invite, allowed, joinRole, center, begun, stops>>
    BY TablesAre DEF Unlink, Wrote
  <1>3. call' \in [Calls -> CallRecords] => TablesOK'
    BY <1>2, TablesAre, SideTables
  <1> QED BY <1>2, <1>3, LastWrite

(* A user deleted with its memberships and its provider accounts. *)
LEMMA CascadeHolds ==
  ASSUME WorkspaceInv, NEW c \in Calls, NEW u \in Users, Cascade(u),
         Wrote(c, Idle, Orgs \X {u})
  PROVE  WorkspaceInv'
  <1>1. \A p \in Orgs, w \in Users : role'[p][w] = IF w = u THEN None ELSE role[p][w]
    BY TablesAre DEF Cascade
  <1>2. role' \in [Orgs -> [Users -> Stored \cup {None}]]
    BY TablesAre DEF Cascade
  <1>3. linked' \in [Accounts -> users' \cup {Nobody}]
    BY TablesAre DEF Cascade
  <1>4. \A p \in Orgs, w \in Users : role'[p][w] # None => w \in users' /\ p \in orgs'
    BY <1>1, TablesAre DEF Cascade
  <1>5. call' \in [Calls -> CallRecords] => TypeOK'
    BY <1>2, <1>3, <1>4, CallInFlight DEF Cascade, TypeOK, Wrote
  <1>6. call' \in [Calls -> CallRecords] => TablesOK'
    BY <1>5, TablesAre DEF TablesOK, Cascade
  <1>7. \A p \in Orgs, w \in Users :
          role[p][w] # None /\ role'[p][w] = None => <<p, w>> \in Orgs \X {u}
    BY <1>1
  <1>8. orgs \subseteq orgs' /\ invite' = invite
    BY DEF Cascade
  <1> QED BY <1>6, <1>7, <1>8, LastWrite

LEMMA DeleteHolds ==
  ASSUME WorkspaceInv, NEW c \in Calls, Delete(c)
  PROVE  WorkspaceInv'
  <1>1. call[c].by \in Users
    BY CallInFlight DEF Delete, At, CallOK
  <1> QED BY <1>1, ThrowsHolds, CascadeHolds DEF Delete

LEMMA MergeDeleteHolds ==
  ASSUME WorkspaceInv, NEW c \in Calls, MergeDelete(c)
  PROVE  WorkspaceInv'
  <1>1. call[c].by \in Users
    BY CallInFlight DEF MergeDelete, At, CallOK, Merging
  <1> QED BY <1>1, ThrowsHolds, CascadeHolds DEF MergeDelete

-----------------------------------------------------------------------------
(* A merge keeps by and who of the call to its end. *)
LEMMA MergeFindHolds ==
  ASSUME WorkspaceInv, NEW c \in Calls, NEW o \in Orgs, NEW r \in Stored, MergeFind(c, o, r)
  PROVE  WorkspaceInv'
  <1> DEFINE s == call[c].by
             t == call[c].who
             had == role[o][t]
  <1>1. /\ call[c].pc = "merge" /\ <<o, r>> \in call[c].seen
        /\ call[c].seen \subseteq orgs \X Stored /\ s \in Users /\ t \in Users /\ s # t
        /\ o \in orgs /\ had \in Stored \cup {None}
    BY CallInFlight, TablesAre DEF MergeFind, At, CallOK, Merging
  <1>2. UNCHANGED tables /\ UNCHANGED <<begun, stops>>
    BY DEF MergeFind, tables
  <1>3. CASE outranks(r, had)
    <2> PICK k : k = [call[c] EXCEPT !.pc = "raise", !.org = o, !.what = had, !.row = TRUE]
      OBVIOUS
    <2>1. k \in CallRecords
      <3>1. "raise" \in Pcs /\ had \in Things /\ o \in Orgs /\ call[c] \in CallRecords
        BY <1>1, CallInFlight DEF Pcs, Merging, Things
      <3> HIDE DEF had
      <3> QED BY <3>1 DEF CallRecords
    <2>2. /\ k.pc = "raise" /\ k.org = o /\ k.what = had /\ k.by = s /\ k.who = t
          /\ k.seen = call[c].seen /\ k.raced = call[c].raced
      BY CallInFlight DEF CallRecords
    <2>3. CallOK(k)
      BY <1>1, <2>2 DEF CallOK, Merging
    <2>4. Fresh(k)
      <3> SUFFICES ASSUME ~k.raced PROVE DecisionHolds(k) /\ MergeHolds(k)
        BY DEF Fresh
      <3>1. MergeHolds(call[c])
        BY <2>2, CallInFlight DEF Fresh
      <3>2. r = role[o][s]
        BY <3>1, <1>1 DEF MergeHolds
      <3> HIDE DEF had, s, t
      <3>3. MergeHolds(k)
        BY <3>1, <3>2, <1>1, <1>3, <2>2 DEF MergeHolds, Merging, had, s, t
      <3>4. DecisionHolds(k)
        BY <2>2 DEF DecisionHolds
      <3> QED BY <3>3, <3>4
    <2> QED BY <1>2, <1>3, <2>1, <2>3, <2>4, CallInFlight, ReadStep DEF MergeFind
  <1>4. CASE ~outranks(r, had)
    <2> PICK k : k = [call[c] EXCEPT !.seen = @ \ {<<o, r>>}]
      OBVIOUS
    <2>1. k \in CallRecords
      BY CallInFlight DEF CallRecords
    <2>2. /\ k.pc = "merge" /\ k.by = s /\ k.who = t /\ k.seen = call[c].seen \ {<<o, r>>}
          /\ k.raced = call[c].raced
      BY <1>1, CallInFlight DEF CallRecords
    <2>3. CallOK(k)
      BY <1>1, <2>2 DEF CallOK, Merging
    <2>4. Fresh(k)
      <3> SUFFICES ASSUME ~k.raced PROVE DecisionHolds(k) /\ MergeHolds(k)
        BY DEF Fresh
      <3>1. MergeHolds(call[c])
        BY <2>2, CallInFlight DEF Fresh
      <3>2. r = role[o][s] /\ s \in users
        BY <3>1, <1>1 DEF MergeHolds, Merging
      <3>3. roleRank(role[o][s]) <= roleRank(role[o][t])
        BY <1>4, <3>2, RankOf DEF outranks
      <3>4. \A p \in Orgs : \/ <<p, role[p][s]>> \in k.seen
                            \/ roleRank(role[p][s]) <= roleRank(role[p][t])
        <4> SUFFICES ASSUME NEW p \in Orgs, <<p, role[p][s]>> \notin k.seen
                     PROVE  roleRank(role[p][s]) <= roleRank(role[p][t])
          OBVIOUS
        <4>1. CASE p = o
          BY <4>1, <3>3
        <4>2. CASE p # o
          BY <4>2, <3>1, <1>1, <2>2 DEF MergeHolds
        <4> QED BY <4>1, <4>2
      <3>5. \A x \in k.seen : x[2] = role[x[1]][s]
        BY <3>1, <1>1, <2>2 DEF MergeHolds
      <3> HIDE DEF s, t
      <3>6. MergeHolds(k)
        BY <3>2, <3>4, <3>5, <2>2 DEF MergeHolds
      <3>7. DecisionHolds(k)
        BY <2>2 DEF DecisionHolds
      <3> QED BY <3>6, <3>7
    <2> QED BY <1>2, <1>4, <2>1, <2>3, <2>4, CallInFlight, ReadStep DEF MergeFind
  <1> QED BY <1>3, <1>4

LEMMA MergeRaiseHolds ==
  ASSUME WorkspaceInv, NEW c \in Calls, NEW r \in Stored, MergeRaise(c, r)
  PROVE  WorkspaceInv'
  <1> DEFINE o == call[c].org
             s == call[c].by
             t == call[c].who
             may == \/ call[c].what = None /\ role[o][t] = None /\ t \in users
                    \/ call[c].what # None /\ call[c].row
  <1>1. CASE Throws(c)
    BY <1>1, ThrowsHolds
  <1>2. CASE may
    <2> PICK k : k = [Goes(c, "merge") EXCEPT !.seen = @ \ {<<o, r>>}]
      OBVIOUS
    <2>1. /\ call[c].pc = "raise" /\ <<o, r>> \in call[c].seen
          /\ call[c].seen \subseteq orgs \X Stored /\ s \in Users /\ t \in Users /\ s # t
          /\ o \in orgs /\ o \in Orgs
      BY CallInFlight DEF MergeRaise, At, CallOK, Merging
    <2>2. t \in users
      BY <1>2, <2>1, CallInFlight, TablesAre DEF CallOK
    <2>3. /\ role' = [role EXCEPT ![o][t] = r] /\ Wrote(c, k, {})
          /\ UNCHANGED <<users, orgs, linked, invite, allowed, joinRole, center, begun, stops>>
      BY <1>2 DEF MergeRaise, Wrote
    <2>4. /\ k \in CallRecords
          /\ k.pc = "merge" /\ k.by = s /\ k.who = t /\ k.seen = call[c].seen \ {<<o, r>>}
          /\ k.raced = call[c].raced
      BY CallInFlight, ZenonT(40) DEF Goes, CallRecords, Pcs, Merging
    <2>f. Fresh(call[c])
      BY CallInFlight
    <2> HIDE DEF o, s, t, may
    <2>5. \A p \in Orgs, w \in Users :
            role'[p][w] = IF p = o /\ w = t THEN r ELSE role[p][w]
      BY <2>1, <2>3, TablesAre
    <2>6. r \in Stored \cup {None} /\ r # None
      BY RolesAreStored
    <2>7. call' \in [Calls -> CallRecords] => TablesOK'
      BY <2>1, <2>2, <2>3, <2>6, OneRole
    <2>8. \A p \in Orgs, w \in Users :
            role[p][w] # None /\ role'[p][w] = None => <<p, w>> \in {}
      BY <2>5, <2>6
    <2>9. CallOK(k)'
      BY <2>1, <2>3, <2>4 DEF CallOK, Merging
    <2>10. Fresh(k)'
      <3> SUFFICES ASSUME ~k.raced PROVE DecisionHolds(k)' /\ MergeHolds(k)'
        BY DEF Fresh
      <3>1. MergeHolds(call[c])
        BY <2>f, <2>4 DEF Fresh
      <3>2. /\ r = role[o][s] /\ s \in users
            /\ \A x \in call[c].seen : x[2] = role[x[1]][s]
            /\ \A p \in Orgs : \/ <<p, role[p][s]>> \in call[c].seen
                               \/ roleRank(role[p][s]) <= roleRank(role[p][t])
        BY <3>1, <2>1 DEF MergeHolds, Merging, o, s, t
      <3>3. \A p \in Orgs : role'[p][s] = role[p][s]
        BY <2>1, <2>5
      <3>4. \A p \in Orgs : \/ <<p, role'[p][s]>> \in k.seen
                            \/ roleRank(role'[p][s]) <= roleRank(role'[p][t])
        <4> SUFFICES ASSUME NEW p \in Orgs, <<p, role'[p][s]>> \notin k.seen
                     PROVE  roleRank(role'[p][s]) <= roleRank(role'[p][t])
          OBVIOUS
        <4>1. CASE p = o
          <5>1. role'[p][s] = r /\ role'[p][t] = r
            BY <4>1, <2>1, <2>5, <3>2, <3>3
          <5> QED BY <5>1, RankOf
        <4>2. CASE p # o
          <5>1. role'[p][t] = role[p][t] /\ <<p, role[p][s]>> \notin call[c].seen
            BY <4>2, <2>1, <2>4, <2>5, <3>3
          <5> QED BY <5>1, <3>2, <3>3
        <4> QED BY <4>1, <4>2
      <3>5. \A x \in k.seen : x[2] = role'[x[1]][s]
        BY <2>1, <2>4, <3>2, <3>3, CallInFlight
      <3>6. MergeHolds(k)'
        BY <2>3, <2>4, <3>2, <3>4, <3>5 DEF MergeHolds
      <3>7. DecisionHolds(k)'
        BY <2>4 DEF DecisionHolds
      <3> QED BY <3>6, <3>7
    <2> QED BY <2>3, <2>4, <2>7, <2>8, <2>9, <2>10, WriteStep
  <1> QED BY <1>1, <1>2 DEF MergeRaise

LEMMA MergeCentersHolds ==
  ASSUME WorkspaceInv, NEW c \in Calls, MergeCenters(c)
  PROVE  WorkspaceInv'
  <1> DEFINE s == call[c].by
             t == call[c].who
  <1> PICK k : k = [Goes(c, "accounts") EXCEPT !.org = None, !.what = None]
    OBVIOUS
  <1>1. /\ call[c].pc = "merge" /\ call[c].seen = {} /\ s \in Users /\ t \in Users /\ s # t
    BY CallInFlight DEF MergeCenters, At, CallOK, Merging
  <1>2. /\ center' = [v \in Centers |->
             IF center[v].creator = s THEN [center[v] EXCEPT !.creator = t] ELSE center[v]]
        /\ Wrote(c, k, {})
        /\ UNCHANGED <<users, orgs, role, linked, invite, allowed, joinRole, begun, stops>>
    BY DEF MergeCenters, Wrote
  <1>3. /\ k \in CallRecords /\ k.pc = "accounts" /\ k.by = s /\ k.who = t
        /\ k.raced = call[c].raced
    BY CallInFlight, ZenonT(40) DEF Goes, CallRecords, Pcs, Merging, Things
  <1>f. Fresh(call[c])
    BY CallInFlight
  <1>m. MergeHolds(call[c]) => s \in users /\ HandedOver(s, t)
    BY <1>1 DEF MergeHolds, Merging, HandedOver
  <1> HIDE DEF s, t
  <1>4. \A v \in Centers : center'[v] \in CenterRecords /\ center'[v].creator # s
    BY <1>1, <1>2, TablesAre, ZenonT(40) DEF CenterRecords
  <1>5. call' \in [Calls -> CallRecords] => TablesOK'
    BY <1>2, <1>4, TablesAre, SideTables
  <1>6. CallOK(k)'
    BY <1>1, <1>3 DEF CallOK, Merging
  <1>7. Fresh(k)'
    <2> SUFFICES ASSUME ~k.raced PROVE DecisionHolds(k)' /\ MergeHolds(k)'
      BY DEF Fresh
    <2>1. s \in users /\ HandedOver(s, t)
      BY <1>3, <1>f, <1>m DEF Fresh
    <2>2. k.by \in users' /\ HandedOver(k.by, k.who)'
      BY <2>1, <1>2, <1>3 DEF HandedOver
    <2>3. MergeHolds(k)'
      BY <2>2, <1>3, <1>4 DEF MergeHolds, Merging
    <2>4. DecisionHolds(k)'
      BY <1>3 DEF DecisionHolds
    <2> QED BY <2>3, <2>4
  <1> QED BY <1>2, <1>3, <1>5, <1>6, <1>7, WriteStep

LEMMA MergeAccountsHolds ==
  ASSUME WorkspaceInv, NEW c \in Calls, MergeAccounts(c)
  PROVE  WorkspaceInv'
  <1> PICK k : k = [call[c] EXCEPT !.pc = "move", !.seen = Own(call[c].by)]
    OBVIOUS
  <1>1. Own(call[c].by) \subseteq Accounts
    BY DEF Own
  <1> DEFINE own == Own(call[c].by)
  <1>2. call[c].pc = "accounts" /\ call[c].by \in Users /\ call[c].who \in Users
        /\ call[c].by # call[c].who
    BY CallInFlight DEF MergeAccounts, At, CallOK, Merging
  <1>3. call' = [call EXCEPT ![c] = k] /\ UNCHANGED tables /\ UNCHANGED <<begun, stops>>
    BY DEF MergeAccounts, tables
  <1>4. k = [call[c] EXCEPT !.pc = "move", !.seen = own]
    OBVIOUS
  <1> HIDE DEF own
  <1>5. /\ k \in CallRecords /\ k.pc = "move" /\ k.by = call[c].by /\ k.who = call[c].who
        /\ k.seen = own /\ k.raced = call[c].raced
    BY <1>1, <1>4, CallInFlight, ZenonT(40) DEF CallRecords, Pcs, Merging, own
  <1>6. CallOK(k)
    BY <1>1, <1>2, <1>5 DEF CallOK, Merging, own
  <1>7. Fresh(k)
    <2> SUFFICES ASSUME ~k.raced PROVE DecisionHolds(k) /\ MergeHolds(k)
      BY DEF Fresh
    <2>1. MergeHolds(call[c])
      BY <1>5, CallInFlight DEF Fresh
    <2>2. MergeHolds(k)
      BY <2>1, <1>2, <1>5 DEF MergeHolds, Merging, own
    <2>3. DecisionHolds(k)
      BY <1>5 DEF DecisionHolds
    <2> QED BY <2>2, <2>3
  <1> QED BY <1>3, <1>5, <1>6, <1>7, CallInFlight, ReadStep

LEMMA MergeClashHolds ==
  ASSUME WorkspaceInv, NEW c \in Calls, NEW a \in Accounts, MergeClash(c, a)
  PROVE  WorkspaceInv'
  <1>1. /\ call[c].pc = "move" /\ a \in call[c].seen /\ call[c].seen \subseteq Accounts
        /\ call[c].by \in Users /\ call[c].who \in Users /\ call[c].by # call[c].who
    BY CallInFlight DEF MergeClash, At, CallOK, Merging
  <1> PICK k : k = IF linked[a] \in {call[c].by, Nobody}
                   THEN [call[c] EXCEPT !.pc = "link", !.what = a]
                   ELSE [call[c] EXCEPT !.seen = @ \ {a}]
    OBVIOUS
  <1>2. call' = [call EXCEPT ![c] = k] /\ UNCHANGED tables /\ UNCHANGED <<begun, stops>>
    BY DEF MergeClash, tables
  <1>3. /\ k \in CallRecords /\ k.by = call[c].by /\ k.who = call[c].who
        /\ k.raced = call[c].raced
        /\ \/ /\ k.pc = "link" /\ k.what = a /\ linked[a] \in {k.by, Nobody}
              /\ k.seen = call[c].seen
           \/ k.pc = "move" /\ linked[a] # k.by /\ k.seen = call[c].seen \ {a}
    BY <1>1, CallInFlight, ZenonT(40) DEF CallRecords, Pcs, Merging, Things
  <1>4. CallOK(k)
    BY <1>1, <1>3 DEF CallOK, Merging
  <1>5. Fresh(k)
    <2> SUFFICES ASSUME ~k.raced PROVE DecisionHolds(k) /\ MergeHolds(k)
      BY DEF Fresh
    <2>1. MergeHolds(call[c])
      BY <1>3, CallInFlight DEF Fresh
    <2>2. Own(k.by) \subseteq call[c].seen
      BY <2>1, <1>1, <1>3 DEF MergeHolds
    <2>3. Own(k.by) \subseteq k.seen
      BY <2>2, <1>3 DEF Own
    <2>4. /\ k.by \in users /\ HandedOver(k.by, k.who)
          /\ \A v \in Centers : center[v].creator # k.by
      BY <2>1, <1>1, <1>3 DEF MergeHolds, Merging
    <2>5. MergeHolds(k)
      BY <2>3, <2>4, <1>3 DEF MergeHolds
    <2>6. DecisionHolds(k)
      BY <1>3 DEF DecisionHolds
    <2> QED BY <2>5, <2>6
  <1> QED BY <1>2, <1>3, <1>4, <1>5, CallInFlight, ReadStep

LEMMA MergeLinkHolds ==
  ASSUME WorkspaceInv, NEW c \in Calls, MergeLink(c)
  PROVE  WorkspaceInv'
  <1> DEFINE a == call[c].what
             t == call[c].who
  <1>1. CASE Throws(c)
    BY <1>1, ThrowsHolds
  <1>2. CASE linked[a] # Nobody /\ t \in users
    <2> PICK k : k = [Goes(c, "move") EXCEPT !.seen = @ \ {a}, !.what = None]
      OBVIOUS
    <2>1. /\ call[c].pc = "link" /\ call[c].seen \subseteq Accounts /\ a \in Accounts
          /\ call[c].by \in Users /\ t \in Users /\ call[c].by # t
      BY CallInFlight DEF MergeLink, At, CallOK, Merging
    <2>2. /\ linked' = [linked EXCEPT ![a] = t] /\ Wrote(c, k, {})
          /\ UNCHANGED <<users, orgs, role, invite, allowed, joinRole, center, begun, stops>>
      BY <1>2 DEF MergeLink, Wrote
    <2>3. /\ k \in CallRecords /\ k.pc = "move" /\ k.by = call[c].by /\ k.who = t
          /\ k.raced = call[c].raced /\ k.seen = call[c].seen \ {a}
      BY CallInFlight, ZenonT(40) DEF Goes, CallRecords, Pcs, Merging, Things
    <2>f. Fresh(call[c])
      BY CallInFlight
    <2>m. MergeHolds(call[c]) => /\ call[c].by \in users /\ HandedOver(call[c].by, t)
                                 /\ \A v \in Centers : center[v].creator # call[c].by
                                 /\ Own(call[c].by) \subseteq call[c].seen
      BY <2>1 DEF MergeHolds, Merging
    <2> HIDE DEF a, t
    <2>4. call' \in [Calls -> CallRecords] => TablesOK'
      BY <1>2, <2>1, <2>2, TablesAre, SideTables
    <2>5. CallOK(k)'
      BY <2>1, <2>3 DEF CallOK, Merging
    <2>6. Fresh(k)'
      <3> SUFFICES ASSUME ~k.raced PROVE DecisionHolds(k)' /\ MergeHolds(k)'
        BY DEF Fresh
      <3>1. /\ k.by \in users' /\ HandedOver(k.by, k.who)'
            /\ \A v \in Centers : center'[v].creator # k.by
            /\ Own(k.by) \subseteq call[c].seen
        BY <2>2, <2>3, <2>f, <2>m DEF Fresh, HandedOver
      <3>2. Own(k.by)' \subseteq k.seen
        BY <3>1, <2>1, <2>2, <2>3, TablesAre DEF Own
      <3>3. MergeHolds(k)'
        BY <3>1, <3>2, <2>3 DEF MergeHolds
      <3>4. DecisionHolds(k)'
        BY <2>3 DEF DecisionHolds
      <3> QED BY <3>3, <3>4
    <2> QED BY <2>2, <2>3, <2>4, <2>5, <2>6, WriteStep
  <1> QED BY <1>1, <1>2 DEF MergeLink

-----------------------------------------------------------------------------
(* The steps of each kind of call, and all of them. *)
LEMMA TeamStepHolds ==
  ASSUME WorkspaceInv, NEW c \in Calls, TeamStep(c)
  PROVE  WorkspaceInv'
  <1>1. ASSUME NEW u \in Users, NEW v \in Users, NEW o \in Orgs,
               \/ BeginRemove(c, u, o, v)
               \/ \E r \in Given : BeginChange(c, u, o, v, r) \/ BeginInvite(c, u, o, v, r)
        PROVE  WorkspaceInv'
    BY <1>1, BeginRemoveHolds, BeginChangeHolds, BeginInviteHolds
  <1>2. ASSUME NEW u \in Users, NEW i \in Invites,
               BeginAccept(c, u, i) \/ \E o \in Orgs : BeginRevoke(c, u, o, i)
        PROVE  WorkspaceInv'
    BY <1>2, BeginAcceptHolds, BeginRevokeHolds
  <1> QED BY <1>1, <1>2, SendHolds, RemoveHolds, ChangeHolds, SupersedeHolds, AdmitHolds,
             SettleHolds DEF TeamStep

LEMMA DomainStepHolds ==
  ASSUME WorkspaceInv, NEW c \in Calls, DomainStep(c)
  PROVE  WorkspaceInv'
  <1>1. ASSUME NEW u \in Users, NEW o \in Orgs,
               \/ \E d \in Domains, adds \in BOOLEAN : BeginDomain(c, u, o, d, adds)
               \/ \E r \in Given : BeginJoinRole(c, u, o, r)
        PROVE  WorkspaceInv'
    BY <1>1, BeginDomainHolds, BeginJoinRoleHolds
  <1>2. ASSUME JoinFails(c)
        PROVE  WorkspaceInv'
    BY <1>2, ThrowsHolds DEF JoinFails
  <1> QED BY <1>1, <1>2, BeginSignInHolds, JoinHolds, WriteDomainsHolds, WriteJoinRoleHolds
          DEF DomainStep

LEMMA CenterStepHolds ==
  ASSUME WorkspaceInv, NEW c \in Calls, CenterStep(c)
  PROVE  WorkspaceInv'
  BY BeginVisitHolds, BeginCreateHolds, FoundHolds, CreateVendorHolds, CreateRowHolds
  DEF CenterStep

LEMMA AccountStepHolds ==
  ASSUME WorkspaceInv, NEW c \in Calls, AccountStep(c)
  PROVE  WorkspaceInv'
  <1>1. ASSUME NEW u \in Users,
               \/ BeginDelete(c, u)
               \/ \E a \in Accounts : BeginUnlink(c, u, ProviderOf[a])
               \/ \E t \in Users : BeginMerge(c, u, t)
        PROVE  WorkspaceInv'
    BY <1>1, BeginDeleteHolds, BeginUnlinkHolds, BeginMergeHolds
  <1>2. ASSUME NEW o \in Orgs, NEW r \in Stored, MergeFind(c, o, r) \/ MergeRaise(c, r)
        PROVE  WorkspaceInv'
    BY <1>2, MergeFindHolds, MergeRaiseHolds
  <1> QED BY <1>1, <1>2, MergeClashHolds, MergeLinkHolds, UnlinkHolds, DeleteHolds,
             MergeCentersHolds, MergeAccountsHolds, MergeDeleteHolds DEF AccountStep

LEMMA NextHolds == WorkspaceInv /\ [Next]_vars => WorkspaceInv'
  <1> SUFFICES ASSUME WorkspaceInv, [Next]_vars PROVE WorkspaceInv'
    OBVIOUS
  <1>1. CASE UNCHANGED vars
    <2>1. TablesOK'
      BY <1>1 DEF vars, WorkspaceInv, TablesOK, TypeOK
    <2>2. ASSUME NEW c \in Calls
          PROVE  CallOK(call[c])' /\ Fresh(call[c])'
      <3> PICK k : k = call[c]
        OBVIOUS
      <3>1. CallOK(k)' /\ Fresh(k)'
        BY <1>1, CallInFlight, TablesKept DEF vars, tables
      <3> QED BY <1>1, <3>1 DEF vars
    <2> QED BY <2>1, <2>2 DEF WorkspaceInv
  <1>2. CASE Next
    BY <1>2, TeamStepHolds, DomainStepHolds, CenterStepHolds, AccountStepHolds, StopHolds,
       ExpireHolds DEF Next
  <1> QED BY <1>1, <1>2

(* WorkspaceInv holds of every reachable state. *)
THEOREM WorkspaceInvariance == Spec => []WorkspaceInv
  BY InitHolds, NextHolds, PTL DEF Spec

(***************************************************************************)
(* The tables and the calls are well typed; only users there are have      *)
(* memberships, in organizations there are, however server actions overlap *)
(* or stop midway (schema.prisma, team.ts, account.ts).                    *)
(***************************************************************************)
THEOREM TypeCorrect == Spec => []TypeOK
  <1>1. WorkspaceInv => TypeOK
    BY DEF WorkspaceInv, TablesOK
  <1> QED BY WorkspaceInvariance, <1>1, PTL

-----------------------------------------------------------------------------
(* A set counted as more than one has another element; as one, no other. *)
LEMMA AnotherElement ==
  ASSUME NEW S, IsFiniteSet(S), NEW v \in S
  PROVE  /\ Cardinality(S) > 1 => \E w \in S : w # v
         /\ Cardinality(S) <= 1 => S = {v}
  <1>1. Cardinality(S) \in Nat
    BY FS_CardinalityType
  <1>2. Cardinality(S) > 1 => \E w \in S : w # v
    <2>1. S = {v} => Cardinality(S) = 1
      BY FS_Singleton
    <2> QED BY <1>1, <2>1
  <1>3. IsFiniteSet(S \ {v}) /\ Cardinality(S \ {v}) = Cardinality(S) - 1
    BY FS_RemoveElement
  <1>4. Cardinality(S \ {v}) = 0 <=> S \ {v} = {}
    BY <1>3, FS_EmptySet
  <1>5. Cardinality(S \ {v}) \in Nat
    BY <1>3, FS_CardinalityType
  <1>6. Cardinality(S) <= 1 => Cardinality(S \ {v}) = 0
    BY <1>1, <1>3, <1>5
  <1>7. Cardinality(S) <= 1 => S = {v}
    BY <1>4, <1>6
  <1> QED BY <1>2, <1>7

LEMMA TeamsAreFinite == \A o : IsFiniteSet(Owners(o)) /\ IsFiniteSet(Members(o))
  BY UsersAssumption, FS_Subset DEF Owners, Members

(* The call that wrote is the one that acts. *)
LEMMA WriterActs ==
  ASSUME WorkspaceInv, NEW c \in Calls, NEW k, NEW gone, Wrote(c, k, gone),
         call[c].pc # "idle", k.pc # call[c].pc
  PROVE  Acts(c)
  BY CallInFlight DEF Acts, Wrote

LEMMA RemoverActs ==
  ASSUME WorkspaceInv, NEW c \in Calls, NEW gone, Wrote(c, Idle, gone), call[c].pc # "idle"
  PROVE  Acts(c)
  BY IdleRecord, WriterActs

(* Only these steps write memberships. *)
LEMMA RoleWriters ==
  ASSUME Next, role' # role
  PROVE  \E c \in Calls :
           \/ Remove(c) \/ Change(c) \/ Admit(c) \/ Delete(c) \/ MergeDelete(c)
           \/ \E o \in Orgs : Found(c, o)
           \/ \E o \in Orgs, r \in Assignable : Join(c, o, r)
           \/ \E r \in Stored : MergeRaise(c, r)
  <1>1. ASSUME NEW c \in Calls, TeamStep(c)
        PROVE  Remove(c) \/ Change(c) \/ Admit(c)
    BY <1>1, ZenonT(40) DEF TeamStep, Begin, BeginRemove, BeginChange, BeginInvite, BeginAccept,
       BeginRevoke, Send, Supersede, Settle
  <1>2. ASSUME NEW c \in Calls, DomainStep(c)
        PROVE  \E o \in Orgs, r \in Assignable : Join(c, o, r)
    BY <1>2, ZenonT(40) DEF DomainStep, Begin, BeginDomain, BeginJoinRole, BeginSignIn, WriteDomains,
       WriteJoinRole, JoinFails, Throws
  <1>3. ASSUME NEW c \in Calls, CenterStep(c)
        PROVE  \E o \in Orgs : Found(c, o)
    BY <1>3, ZenonT(40) DEF CenterStep, Begin, BeginVisit, BeginCreate, CreateVendor, CreateRow
  <1>4. ASSUME NEW c \in Calls, AccountStep(c)
        PROVE  Delete(c) \/ MergeDelete(c) \/ \E r \in Stored : MergeRaise(c, r)
    BY <1>4 DEF AccountStep, Begin, BeginDelete, BeginUnlink, BeginMerge, MergeFind,
       MergeClash, MergeLink, Unlink, MergeCenters, MergeAccounts, Throws
  <1>5. ASSUME NEW c \in Calls, Stop(c)
        PROVE  FALSE
    BY <1>5 DEF Stop
  <1>6. ASSUME NEW i \in Invites, Expire(i)
        PROVE  FALSE
    BY <1>6 DEF Expire
  <1> QED BY <1>1, <1>2, <1>3, <1>4, <1>5, <1>6 DEF Next

(* A step that leaves every owner's role takes no workspace its last owner. *)
LEMMA OwnersUntouched ==
  ASSUME NEW o \in Orgs, \A u \in Users : role[o][u] = "owner" => role'[o][u] = "owner",
         Owners(o) # {}
  PROVE  Owners(o)' # {}
  BY DEF Owners

(* A user deleted: no other membership changes. *)
LEMMA CascadeRoles ==
  ASSUME WorkspaceInv, NEW v \in Users, Cascade(v), NEW o \in Orgs
  PROVE  \A u \in Users : role'[o][u] = IF u = v THEN None ELSE role[o][u]
  BY TablesAre DEF Cascade

LEMMA LastOwnerStep ==
  ASSUME WorkspaceInv, Next, NEW o \in Orgs,
         Owners(o) # {}, Owners(o)' = {}, Members(o)' # {}
  PROVE  \E c \in Calls : Acts(c) /\ call[c].raced
  <1> SUFFICES ASSUME \A c \in Calls : Acts(c) => ~call[c].raced
               PROVE  FALSE
    OBVIOUS
  <1>0. role' # role
    BY DEF Owners
  <1>1. PICK c \in Calls :
          \/ Remove(c) \/ Change(c) \/ Admit(c) \/ Delete(c) \/ MergeDelete(c)
          \/ \E p \in Orgs : Found(c, p)
          \/ \E p \in Orgs, r \in Assignable : Join(c, p, r)
          \/ \E r \in Stored : MergeRaise(c, r)
    BY <1>0, RoleWriters
  <1>2. ~Throws(c)
    BY <1>0 DEF Throws
  <1>3. CASE Remove(c)
    <2> DEFINE p == call[c].org
               v == call[c].who
    <2>1. /\ role' = [role EXCEPT ![p][v] = None] /\ Wrote(c, Idle, {<<p, v>>})
          /\ call[c].pc = "remove" /\ p \in Orgs /\ v \in Users
      BY <1>2, <1>3, CallInFlight DEF Remove, At, CallOK
    <2>2. Acts(c)
      BY <2>1, RemoverActs
    <2>3. MayRemove(p, v)
      BY <2>1, <2>2, CallInFlight DEF Fresh, DecisionHolds
    <2> HIDE DEF p, v
    <2>4. \A u \in Users : role'[o][u] = IF o = p /\ u = v THEN None ELSE role[o][u]
      BY <2>1, TablesAre
    <2>5. o = p /\ role[p][v] = "owner"
      BY <2>4, OwnersUntouched
    <2>6. v \in Owners(p) /\ Cardinality(Owners(p)) > 1
      BY <2>1, <2>3, <2>5 DEF MayRemove, Owners
    <2>7. PICK w \in Owners(p) : w # v
      BY <2>6, TeamsAreFinite, AnotherElement
    <2>8. w \in Owners(o)'
      BY <2>4, <2>5, <2>7 DEF Owners
    <2> QED BY <2>8
  <1>4. CASE Change(c)
    <2> DEFINE p == call[c].org
               v == call[c].who
               r == call[c].what
    <2>1. /\ role' = [role EXCEPT ![p][v] = r] /\ Wrote(c, Idle, {})
          /\ call[c].pc = "change" /\ p \in Orgs /\ v \in Users
      BY <1>2, <1>4, CallInFlight DEF Change, At, CallOK
    <2>2. Acts(c)
      BY <2>1, RemoverActs
    <2>3. role[p][v] # "owner"
      BY <2>1, <2>2, CallInFlight DEF Fresh, DecisionHolds
    <2> HIDE DEF p, v, r
    <2>4. \A u \in Users : role'[o][u] = IF o = p /\ u = v THEN r ELSE role[o][u]
      BY <2>1, TablesAre
    <2> QED BY <2>3, <2>4, OwnersUntouched
  <1>5. CASE Admit(c)
    <2> DEFINE p == call[c].org
               v == call[c].by
               r == invite[call[c].what].role
    <2>1. /\ role' = [role EXCEPT ![p][v] = r] /\ role[p][v] = None
          /\ p \in Orgs /\ v \in Users
      BY <1>2, <1>5, CallInFlight DEF Admit, At, CallOK
    <2> HIDE DEF p, v, r
    <2>2. \A u \in Users : role'[o][u] = IF o = p /\ u = v THEN r ELSE role[o][u]
      BY <2>1, TablesAre
    <2> QED BY <2>1, <2>2, OwnersUntouched DEF None
  <1>6. ASSUME NEW p \in Orgs, NEW r \in Assignable, Join(c, p, r)
        PROVE  FALSE
    <2> DEFINE v == call[c].by
    <2>1. /\ role' = [role EXCEPT ![p][v] = r] /\ role[p][v] = None /\ v \in Users
      BY <1>0, <1>2, <1>6, CallInFlight DEF Join, At, CallOK
    <2> HIDE DEF v
    <2>2. \A u \in Users : role'[o][u] = IF o = p /\ u = v THEN r ELSE role[o][u]
      BY <2>1, TablesAre
    <2> QED BY <2>1, <2>2, OwnersUntouched DEF None
  <1>7. ASSUME NEW p \in Orgs, Found(c, p)
        PROVE  FALSE
    <2> DEFINE v == call[c].by
    <2>1. role' = [role EXCEPT ![p][v] = "owner"] /\ v \in Users
      BY <1>7, CallInFlight DEF Found, At, CallOK
    <2> HIDE DEF v
    <2>2. \A u \in Users : role'[o][u] = IF o = p /\ u = v THEN "owner" ELSE role[o][u]
      BY <2>1, TablesAre
    <2> QED BY <2>2, OwnersUntouched
  <1>8. CASE Delete(c)
    <2> DEFINE v == call[c].by
    <2>1. /\ Cascade(v) /\ Wrote(c, Idle, Orgs \X {v}) /\ call[c].pc = "delete" /\ v \in Users
      BY <1>2, <1>8, CallInFlight DEF Delete, At, CallOK
    <2>2. Acts(c)
      BY <2>1, RemoverActs
    <2>3. MayLeave(v)
      BY <2>1, <2>2, CallInFlight DEF Fresh, DecisionHolds
    <2> HIDE DEF v
    <2>4. \A u \in Users : role'[o][u] = IF u = v THEN None ELSE role[o][u]
      BY <2>1, CascadeRoles
    <2>5. role[o][v] = "owner"
      BY <2>4, OwnersUntouched
    <2>6. v \in Owners(o) /\ v \in Members(o)
      BY <2>1, <2>5 DEF Owners, Members, None
    <2>7. Cardinality(Owners(o)) <= 1
      <3>1. \A w \in Owners(o) : w = v
        BY <2>4 DEF Owners
      <3>2. ~(Cardinality(Owners(o)) > 1)
        BY <2>6, <3>1, TeamsAreFinite, AnotherElement
      <3> QED BY <3>2, TeamsAreFinite, FS_CardinalityType
    <2>8. Cardinality(Members(o)) <= 1
      BY <2>3, <2>5, <2>7, TeamsAreFinite, FS_CardinalityType DEF MayLeave
    <2>9. Members(o) = {v}
      BY <2>6, <2>8, TeamsAreFinite, AnotherElement
    <2>10. Members(o)' = {}
      BY <2>4, <2>9 DEF Members
    <2> QED BY <2>10
  <1>9. ASSUME NEW r \in Stored, MergeRaise(c, r)
        PROVE  FALSE
    <2> DEFINE p == call[c].org
               t == call[c].who
               s == call[c].by
    <2> PICK k : k = [Goes(c, "merge") EXCEPT !.seen = @ \ {<<p, r>>}]
      OBVIOUS
    <2>1. /\ role' = [role EXCEPT ![p][t] = r] /\ Wrote(c, k, {})
          /\ call[c].pc = "raise" /\ p \in Orgs /\ t \in Users /\ <<p, r>> \in call[c].seen
      BY <1>2, <1>9, CallInFlight DEF MergeRaise, At, CallOK, Merging
    <2>2. k.pc = "merge"
      BY CallInFlight DEF Goes, CallRecords
    <2>3. MergeHolds(call[c])
      BY <2>1, <2>2, CallInFlight, WriterActs DEF Fresh
    <2>4. r = role[p][s] /\ outranks(role[p][s], role[p][t])
      BY <2>1, <2>3 DEF MergeHolds
    <2> HIDE DEF p, s, t
    <2>5. role[p][t] # "owner"
      BY <2>4, RankOf DEF outranks
    <2>6. \A u \in Users : role'[o][u] = IF o = p /\ u = t THEN r ELSE role[o][u]
      BY <2>1, TablesAre
    <2> QED BY <2>5, <2>6, OwnersUntouched
  <1>10. CASE MergeDelete(c)
    <2> DEFINE s == call[c].by
               t == call[c].who
    <2>1. /\ Cascade(s) /\ Wrote(c, Idle, Orgs \X {s}) /\ call[c].pc = "move"
          /\ s \in Users /\ t \in Users /\ s # t
      BY <1>2, <1>10, CallInFlight DEF MergeDelete, At, CallOK, Merging
    <2>2. HandedOver(s, t)
      BY <2>1, RemoverActs, CallInFlight DEF Fresh, MergeHolds
    <2> HIDE DEF s, t
    <2>4. \A u \in Users : role'[o][u] = IF u = s THEN None ELSE role[o][u]
      BY <2>1, CascadeRoles
    <2>5. role[o][s] = "owner"
      BY <2>4, OwnersUntouched
    <2>6. role[o][t] = "owner"
      <3>1. roleRank(role[o][s]) = 4 /\ roleRank(role[o][s]) <= roleRank(role[o][t])
        BY <2>2, <2>5, RankOf DEF HandedOver
      <3> QED BY <3>1, RankOf
    <2>7. t \in Owners(o)'
      BY <2>1, <2>4, <2>6 DEF Owners
    <2> QED BY <2>7
  <1> QED BY <1>1, <1>3, <1>4, <1>5, <1>6, <1>7, <1>8, <1>9, <1>10

(***************************************************************************)
(* "The last owner can't be removed" (teams-and-roles/page.mdx:23): only a *)
(* call that decided on what another has since overwritten takes a         *)
(* workspace that keeps members its last owner (team.ts, account.ts:15-16, *)
(* 79-140), with any number of overlapping and stopped calls.              *)
(***************************************************************************)
THEOREM LastOwnerIsKept == Spec => LastOwnerStays
  <1>1. WorkspaceInv /\ [Next]_vars =>
          [\A o \in Orgs :
             Owners(o) # {} /\ Owners(o)' = {} /\ Members(o)' # {}
               => \E c \in Calls : Acts(c) /\ call[c].raced]_vars
    BY LastOwnerStep
  <1> QED BY WorkspaceInvariance, <1>1, PTL DEF Spec, LastOwnerStays

-----------------------------------------------------------------------------
(* Only a merge's end deletes its source while the merge moves accounts. *)
LEMMA MergeEnds ==
  ASSUME WorkspaceInv, Next, NEW c \in Calls, At(c, "move"), Acts(c),
         call[c].by \notin users', call[c].by \in users
  PROVE  MergeDelete(c) /\ ~Throws(c)
  <1>1. PICK d \in Calls : Delete(d) \/ MergeDelete(d)
    <2>1. ASSUME NEW d \in Calls, TeamStep(d)
          PROVE  UNCHANGED users
      BY <2>1, ZenonT(40) DEF TeamStep, Begin, BeginRemove, BeginChange, BeginInvite, BeginAccept,
         BeginRevoke, Send, Supersede, Settle, Remove, Change, Admit, Throws
    <2>2. ASSUME NEW d \in Calls, DomainStep(d)
          PROVE  UNCHANGED users
      BY <2>2, ZenonT(40) DEF DomainStep, Begin, BeginDomain, BeginJoinRole, BeginSignIn, WriteDomains,
         WriteJoinRole, JoinFails, Join, Throws
    <2>3. ASSUME NEW d \in Calls, CenterStep(d)
          PROVE  UNCHANGED users
      BY <2>3, ZenonT(40) DEF CenterStep, Begin, BeginVisit, BeginCreate, CreateVendor, CreateRow, Found
    <2>4. ASSUME NEW d \in Calls, AccountStep(d)
          PROVE  Delete(d) \/ MergeDelete(d) \/ UNCHANGED users
      BY <2>4, Zenon DEF AccountStep, Begin, BeginDelete, BeginUnlink, BeginMerge, MergeFind,
         MergeRaise, MergeClash, MergeLink, Unlink, MergeCenters, MergeAccounts, Throws
    <2>5. ASSUME NEW d \in Calls, Stop(d)
          PROVE  UNCHANGED users
      BY <2>5 DEF Stop
    <2>6. ASSUME NEW i \in Invites, Expire(i)
          PROVE  UNCHANGED users
      BY <2>6 DEF Expire
    <2> QED BY <2>1, <2>2, <2>3, <2>4, <2>5, <2>6 DEF Next
  <1>2. ~Throws(d)
    BY DEF Throws
  <1>3. PICK gone : Wrote(d, Idle, gone)
    BY <1>1, <1>2 DEF Delete, MergeDelete
  <1>4. d = c
    <2> SUFFICES ASSUME d # c PROVE FALSE
      OBVIOUS
    <2>1. call'[c].pc = call[c].pc /\ call'[c].seen = call[c].seen
      BY <1>3, CallInFlight DEF Wrote, CallRecords
    <2> QED BY <2>1 DEF Acts
  <1> QED BY <1>1, <1>2, <1>4 DEF Delete, At

LEMMA MergeStep ==
  ASSUME WorkspaceInv, Next, NEW c \in Calls,
         At(c, "move"), Acts(c), call[c].by \notin users', ~call[c].raced
  PROVE  /\ \A o \in Orgs : roleRank(role[o][call[c].by]) <= roleRank(role'[o][call[c].who])
         /\ \A v \in Centers : center[v].creator # call[c].by
         /\ Own(call[c].by) = {}
  <1> DEFINE s == call[c].by
             t == call[c].who
  <1>1. /\ call[c].pc = "move" /\ s \in Users /\ t \in Users /\ s # t
    BY CallInFlight DEF At, CallOK, Merging
  <1>2. /\ s \in users /\ HandedOver(s, t) /\ \A v \in Centers : center[v].creator # s
        /\ Own(s) \subseteq call[c].seen
    BY <1>1, CallInFlight DEF Fresh, MergeHolds, Merging
  <1>3. MergeDelete(c) /\ ~Throws(c)
    BY <1>2, MergeEnds
  <1>4. Cascade(s) /\ call[c].seen = {}
    BY <1>3 DEF MergeDelete
  <1> HIDE DEF s, t
  <1>5. \A o \in Orgs : role'[o][t] = role[o][t]
    BY <1>1, <1>4, CascadeRoles
  <1>6. \A o \in Orgs : roleRank(role[o][s]) <= roleRank(role'[o][t])
    BY <1>2, <1>5 DEF HandedOver
  <1>7. Own(s) = {}
    BY <1>2, <1>4
  <1> QED BY <1>2, <1>6, <1>7 DEF s, t

-----------------------------------------------------------------------------
(* Only these steps take provider accounts from users. *)
LEMMA LinkWriters ==
  ASSUME Next, linked' # linked
  PROVE  \E c \in Calls : Unlink(c) \/ MergeLink(c) \/ Delete(c) \/ MergeDelete(c)
  <1>1. ASSUME NEW c \in Calls, TeamStep(c)
        PROVE  UNCHANGED linked
    BY <1>1, ZenonT(40) DEF TeamStep, Begin, BeginRemove, BeginChange, BeginInvite, BeginAccept,
       BeginRevoke, Send, Supersede, Settle, Remove, Change, Admit, Throws
  <1>2. ASSUME NEW c \in Calls, DomainStep(c)
        PROVE  UNCHANGED linked
    BY <1>2, ZenonT(40) DEF DomainStep, Begin, BeginDomain, BeginJoinRole, BeginSignIn, WriteDomains,
       WriteJoinRole, JoinFails, Join, Throws
  <1>3. ASSUME NEW c \in Calls, CenterStep(c)
        PROVE  UNCHANGED linked
    BY <1>3, ZenonT(40) DEF CenterStep, Begin, BeginVisit, BeginCreate, CreateVendor, CreateRow, Found
  <1>4. ASSUME NEW c \in Calls, AccountStep(c)
        PROVE  Unlink(c) \/ MergeLink(c) \/ Delete(c) \/ MergeDelete(c) \/ UNCHANGED linked
    BY <1>4, Zenon DEF AccountStep, Begin, BeginDelete, BeginUnlink, BeginMerge, MergeFind,
       MergeRaise, MergeClash, MergeCenters, MergeAccounts, Throws
  <1>5. ASSUME NEW c \in Calls, Stop(c)
        PROVE  UNCHANGED linked
    BY <1>5 DEF Stop
  <1>6. ASSUME NEW i \in Invites, Expire(i)
        PROVE  UNCHANGED linked
    BY <1>6 DEF Expire
  <1> QED BY <1>1, <1>2, <1>3, <1>4, <1>5, <1>6 DEF Next

LEMMA SignInStep ==
  ASSUME WorkspaceInv, Next, NEW u \in users', Own(u) # {}, Own(u)' = {}, ~EmailSignIn
  PROVE  \E c \in Calls : \/ Acts(c) /\ call[c].raced
                          \/ At(c, "link") /\ call[c].by = u
  <1> SUFFICES ASSUME \A c \in Calls : Acts(c) => ~call[c].raced,
                      \A c \in Calls : ~(At(c, "link") /\ call[c].by = u)
               PROVE  FALSE
    OBVIOUS
  <1>0. linked' # linked
    BY DEF Own
  <1>1. PICK c \in Calls : Unlink(c) \/ MergeLink(c) \/ Delete(c) \/ MergeDelete(c)
    BY <1>0, LinkWriters
  <1>2. ~Throws(c)
    BY <1>0 DEF Throws
  <1>3. ASSUME NEW a \in Accounts, linked[a] = u, linked'[a] = u
        PROVE  FALSE
    BY <1>3 DEF Own
  <1>4. PICK a \in Accounts : linked[a] = u
    BY DEF Own
  <1>5. CASE Unlink(c)
    <2>1. call[c].pc = "unlink" /\ Wrote(c, Idle, {})
      BY <1>5 DEF Unlink, At
    <2>2. MayUnlink(call[c].by, call[c].what)
      BY <2>1, RemoverActs, CallInFlight DEF Fresh, DecisionHolds
    <2>3. PICK b \in Accounts : linked[b] = call[c].by /\ ProviderOf[b] # call[c].what
      BY <2>2 DEF MayUnlink, Own
    <2>4. linked'[b] = linked[b]
      BY <1>5, <2>3 DEF Unlink
    <2>5. u # call[c].by => linked'[a] = linked[a]
      BY <1>4, <1>5 DEF Unlink
    <2> QED BY <1>3, <1>4, <2>3, <2>4, <2>5
  <1>6. CASE Delete(c) \/ MergeDelete(c)
    <2>1. Cascade(call[c].by)
      BY <1>2, <1>6 DEF Delete, MergeDelete
    <2>2. u # call[c].by
      BY <2>1 DEF Cascade
    <2>3. linked'[a] = linked[a]
      BY <1>4, <2>1, <2>2 DEF Cascade
    <2> QED BY <1>3, <1>4, <2>3
  <1>7. CASE MergeLink(c)
    <2> DEFINE b == call[c].what
               t == call[c].who
    <2> PICK k : k = [Goes(c, "move") EXCEPT !.seen = @ \ {b}, !.what = None]
      OBVIOUS
    <2>1. /\ linked' = [linked EXCEPT ![b] = t] /\ Wrote(c, k, {}) /\ linked[b] # Nobody
          /\ call[c].pc = "link" /\ b \in Accounts
      BY <1>2, <1>7, CallInFlight DEF MergeLink, At, CallOK
    <2>2. k.pc = "move"
      BY CallInFlight DEF Goes, CallRecords
    <2>3. linked[b] \in {call[c].by, Nobody}
      BY <2>1, <2>2, WriterActs, CallInFlight DEF Fresh, MergeHolds
    <2>4. u # call[c].by
      BY <2>1 DEF At
    <2> HIDE DEF b, t
    <2>5. a # b /\ linked'[a] = linked[a]
      BY <1>4, <2>1, <2>3, <2>4, TablesAre
    <2> QED BY <1>3, <1>4, <2>5
  <1> QED BY <1>1, <1>5, <1>6, <1>7

(***************************************************************************)
(* A merge that no other call overtook loses nothing of its source when it *)
(* deletes it (account.ts:79-140), and nobody loses the last way to sign   *)
(* in but by a decision overtaken or as the source of a merge              *)
(* (account.ts:142-170), however often merges stopped midway before.       *)
(***************************************************************************)
THEOREM AccountsAreKept == Spec => AccountsHold
  <1>1. WorkspaceInv /\ [Next]_vars =>
          [\A c \in Calls :
             At(c, "move") /\ Acts(c) /\ call[c].by \notin users' /\ ~call[c].raced
               => /\ \A o \in Orgs :
                       roleRank(role[o][call[c].by]) <= roleRank(role'[o][call[c].who])
                  /\ \A v \in Centers : center[v].creator # call[c].by
                  /\ Own(call[c].by) = {}]_vars
    BY MergeStep
  <1>2. WorkspaceInv /\ [Next]_vars =>
          [\A u \in users' : Own(u) # {} /\ Own(u)' = {} /\ ~EmailSignIn
             => \E c \in Calls : \/ (Acts(c) /\ call[c].raced)
                                  \/ (At(c, "link") /\ call[c].by = u)]_vars
    <2> SUFFICES ASSUME WorkspaceInv, Next, NEW u \in users',
                        Own(u) # {}, Own(u)' = {}, ~EmailSignIn
                 PROVE  \E c \in Calls : \/ (Acts(c) /\ call[c].raced)
                                         \/ (At(c, "link") /\ call[c].by = u)
      OBVIOUS
    <2> QED BY SignInStep
  <1>3. Spec => MergeLosesNothing
    BY WorkspaceInvariance, <1>1, PTL DEF Spec, MergeLosesNothing
  <1>4. Spec => SignInStays
    BY WorkspaceInvariance, <1>2, PTL DEF Spec, SignInStays
  <1> QED BY <1>3, <1>4 DEF AccountsHold

-----------------------------------------------------------------------------
(* Only these steps write invitations, and only a sending makes one pending. *)
LEMMA InviteWriters ==
  ASSUME Next, invite' # invite
  PROVE  \/ \E c \in Calls : Supersede(c) \/ Settle(c) \/ \E i \in Invites : Send(c, i)
         \/ \E i \in Invites : Expire(i)
  <1>1. ASSUME NEW c \in Calls, TeamStep(c)
        PROVE  Supersede(c) \/ Settle(c) \/ (\E i \in Invites : Send(c, i)) \/ UNCHANGED invite
    BY <1>1, ZenonT(40) DEF TeamStep, Begin, BeginRemove, BeginChange, BeginInvite, BeginAccept,
       BeginRevoke, Remove, Change, Admit, Throws
  <1>2. ASSUME NEW c \in Calls, DomainStep(c)
        PROVE  UNCHANGED invite
    BY <1>2, ZenonT(40) DEF DomainStep, Begin, BeginDomain, BeginJoinRole, BeginSignIn, WriteDomains,
       WriteJoinRole, JoinFails, Join, Throws
  <1>3. ASSUME NEW c \in Calls, CenterStep(c)
        PROVE  UNCHANGED invite
    BY <1>3, ZenonT(40) DEF CenterStep, Begin, BeginVisit, BeginCreate, CreateVendor, CreateRow, Found
  <1>4. ASSUME NEW c \in Calls, AccountStep(c)
        PROVE  UNCHANGED invite
    BY <1>4, Zenon DEF AccountStep, Begin, BeginDelete, BeginUnlink, BeginMerge, MergeFind, Cascade,
       MergeRaise, MergeClash, MergeCenters, MergeAccounts, Throws, Unlink, MergeLink, Delete,
       MergeDelete
  <1>5. ASSUME NEW c \in Calls, Stop(c)
        PROVE  UNCHANGED invite
    BY <1>5 DEF Stop
  <1> QED BY <1>1, <1>2, <1>3, <1>4, <1>5 DEF Next

(* An invitation that was not pending and is was sent by this step. *)
LEMMA PendingWasSent ==
  ASSUME WorkspaceInv, Next, NEW i \in Invites,
         invite[i].status # "pending", invite'[i].status = "pending"
  PROVE  \E c \in Calls : Send(c, i)
  <1>0. invite' # invite
    OBVIOUS
  <1>1. ASSUME NEW c \in Calls, Supersede(c)
        PROVE  FALSE
    <2>1. CASE IsOlder(i, call[c].org, call[c].who)
      BY <2>1 DEF IsOlder
    <2>2. CASE ~IsOlder(i, call[c].org, call[c].who)
      BY <1>1, <2>2 DEF Supersede
    <2> QED BY <2>1, <2>2
  <1>2. ASSUME NEW c \in Calls, Settle(c)
        PROVE  FALSE
    BY <1>2, TablesAre DEF Settle, InviteRecords
  <1>3. ASSUME NEW j \in Invites, Expire(j)
        PROVE  FALSE
    BY <1>3, TablesAre DEF Expire, InviteRecords
  <1>4. ASSUME NEW c \in Calls, NEW j \in Invites, Send(c, j), j # i
        PROVE  FALSE
    BY <1>4, TablesAre DEF Send
  <1> QED BY <1>0, <1>1, <1>2, <1>3, <1>4, InviteWriters

(* Two become pending for one address only by a sending overtaken. *)
LEMMA TwoPending ==
  ASSUME WorkspaceInv, Next, NEW i \in Invites, NEW j \in Invites, i # j,
         invite'[i].status = "pending", invite'[j].status = "pending",
         invite'[i].org = invite'[j].org, invite'[i].to = invite'[j].to,
         invite[i].status # "pending"
  PROVE  \E c \in Calls : Acts(c) /\ call[c].raced
  <1>1. PICK c \in Calls : Send(c, i)
    BY PendingWasSent
  <1>2. /\ call[c].pc = "send" /\ Wrote(c, Idle, {})
        /\ invite'[i].org = call[c].org /\ invite'[i].to = call[c].who
        /\ invite'[j] = invite[j]
    BY <1>1, TablesAre DEF Send, At
  <1>3. Acts(c)
    BY <1>2, RemoverActs
  <1>4. IsOlder(j, call[c].org, call[c].who)
    BY <1>2 DEF IsOlder
  <1>5. call[c].raced
    BY <1>2, <1>4, CallInFlight DEF Fresh, DecisionHolds
  <1> QED BY <1>3, <1>5

(* Whoever is admitted undisturbed is admitted on a pending invitation. *)
LEMMA AdmittedOnPending ==
  ASSUME WorkspaceInv, NEW c \in Calls, At(c, "admit"), ~call[c].raced
  PROVE  invite[call[c].what].status = "pending"
  BY CallInFlight DEF At, Fresh, DecisionHolds

-----------------------------------------------------------------------------
(* The list of allowed domains changes only as a call writes it whole. *)
LEMMA DomainWriters ==
  ASSUME Next, allowed' # allowed
  PROVE  \E c \in Calls : WriteDomains(c)
  <1>1. ASSUME NEW c \in Calls, TeamStep(c)
        PROVE  UNCHANGED allowed
    BY <1>1, ZenonT(40) DEF TeamStep, Begin, BeginRemove, BeginChange, BeginInvite, BeginAccept,
       BeginRevoke, Remove, Change, Admit, Throws, Send, Supersede, Settle
  <1>2. ASSUME NEW c \in Calls, DomainStep(c)
        PROVE  WriteDomains(c) \/ UNCHANGED allowed
    BY <1>2, ZenonT(40) DEF DomainStep, Begin, BeginDomain, BeginJoinRole, BeginSignIn,
       WriteJoinRole, JoinFails, Join, Throws
  <1>3. ASSUME NEW c \in Calls, CenterStep(c)
        PROVE  UNCHANGED allowed
    BY <1>3, ZenonT(40) DEF CenterStep, Begin, BeginVisit, BeginCreate, CreateVendor, CreateRow, Found
  <1>4. ASSUME NEW c \in Calls, AccountStep(c)
        PROVE  UNCHANGED allowed
    BY <1>4, Zenon DEF AccountStep, Begin, BeginDelete, BeginUnlink, BeginMerge, MergeFind, Cascade,
       MergeRaise, MergeClash, MergeCenters, MergeAccounts, Throws, Unlink, MergeLink, Delete,
       MergeDelete
  <1>5. ASSUME NEW c \in Calls, Stop(c)
        PROVE  UNCHANGED allowed
    BY <1>5 DEF Stop
  <1>6. ASSUME NEW i \in Invites, Expire(i)
        PROVE  UNCHANGED allowed
    BY <1>6 DEF Expire
  <1> QED BY <1>1, <1>2, <1>3, <1>4, <1>5, <1>6 DEF Next

LEMMA DomainsStep ==
  ASSUME WorkspaceInv, Next, NEW o \in Orgs, NEW d \in Domains,
         (d \in allowed[o]) # (d \in allowed'[o])
  PROVE  \E c \in Calls : Acts(c) /\ (call[c].what = d \/ call[c].raced)
  <1>1. PICK c \in Calls : WriteDomains(c)
    BY DomainWriters
  <1>2. /\ call[c].pc = "domains" /\ Wrote(c, Idle, {})
        /\ allowed' = [allowed EXCEPT ![call[c].org] = call[c].seen]
    BY <1>1 DEF WriteDomains, At
  <1>3. Acts(c)
    BY <1>2, RemoverActs
  <1>4. o = call[c].org /\ allowed'[o] = call[c].seen
    BY <1>2, TablesAre
  <1>5. CASE ~call[c].raced
    <2>1. PICK adds \in BOOLEAN : call[c].seen = NewList(o, call[c].what, adds)
      BY <1>2, <1>4, <1>5, CallInFlight DEF Fresh, DecisionHolds
    <2>2. call[c].what = d
      BY <1>4, <2>1 DEF NewList
    <2> QED BY <1>3, <2>2
  <1> QED BY <1>3, <1>5

(***************************************************************************)
(* Somebody joins on a pending invitation only, only the newest to an      *)
(* address is pending (team.ts:99-178), and a domain whose users join by   *)
(* themselves comes and goes only as it is added or removed                *)
(* (team.ts:180-206), but for calls that others overtook.                  *)
(***************************************************************************)
THEOREM JoiningIsHeld == Spec => JoiningHolds
  <1>1. WorkspaceInv /\ [Next]_vars =>
          [/\ \A c \in Calls :
                At(c, "admit") /\ call'[c].pc = "accept" /\ invite[call[c].what].status # "pending"
                  => call[c].raced
           /\ \A i, j \in Invites :
                i # j /\ invite'[i].status = "pending" /\ invite'[j].status = "pending"
                /\ invite'[i].org = invite'[j].org /\ invite'[i].to = invite'[j].to
                /\ ~(invite[i].status = "pending" /\ invite[j].status = "pending")
                  => \E c \in Calls : Acts(c) /\ call[c].raced]_vars
    <2>1. ASSUME WorkspaceInv, Next, NEW i \in Invites, NEW j \in Invites, i # j,
                 invite'[i].status = "pending", invite'[j].status = "pending",
                 invite'[i].org = invite'[j].org, invite'[i].to = invite'[j].to,
                 ~(invite[i].status = "pending" /\ invite[j].status = "pending")
          PROVE  \E c \in Calls : Acts(c) /\ call[c].raced
      BY <2>1, TwoPending
    <2> QED BY <2>1, AdmittedOnPending
  <1>2. WorkspaceInv /\ [Next]_vars =>
          [\A o \in Orgs, d \in Domains :
             (d \in allowed[o]) # (d \in allowed'[o])
               => \E c \in Calls : Acts(c) /\ (call[c].what = d \/ call[c].raced)]_vars
    BY DomainsStep
  <1>3. Spec => InvitationsHold
    BY WorkspaceInvariance, <1>1, PTL DEF Spec, InvitationsHold
  <1>4. Spec => DomainsHold
    BY WorkspaceInvariance, <1>2, PTL DEF Spec, DomainsHold
  <1> QED BY <1>3, <1>4 DEF JoiningHolds
=============================================================================
