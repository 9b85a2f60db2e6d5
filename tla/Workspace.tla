------------------------------ MODULE Workspace ------------------------------
(***************************************************************************)
(* The workspaces of the web application: accounts and the providers they  *)
(* sign in with, memberships and their roles, invitations, the domains     *)
(* whose users join by themselves, and the trust centers a workspace owns. *)
(*                                                                         *)
(* A server action is a sequence of statements, each a transaction of its  *)
(* own; nothing is locked in between.  An action of this module is one     *)
(* statement that writes, with the reads that follow the statement before  *)
(* it.  Calls on behalf of any users overlap, and any may stop midway.     *)
(***************************************************************************)
EXTENDS Roles, FiniteSets

CONSTANTS
  Users,        \* people with an account, each with an address of their own
  Orgs,         \* organizations, created or not
  Accounts,     \* provider accounts: one sign-in identity at one provider
  ProviderOf,   \* the provider an account is at
  Invites,      \* invitations, sent or not
  Domains, DomainOf,  \* mail domains, and the domain of a user's address
  Centers,      \* vendors of the network, created or not
  EmailSignIn,  \* whether a sign-in link by mail is configured
  Given,        \* the assignable roles that are given
  Teams,        \* memberships to begin with
  Links,        \* owners of the provider accounts to begin with
  Calls,        \* server actions that may run at once
  MaxCalls,     \* bound: calls ever begun
  MaxStops      \* bound: calls that stop midway

Nobody == "nobody"

ASSUME UsersAssumption == Nobody \notin Users /\ IsFiniteSet(Users)
ASSUME OrgsAssumption == None \notin Orgs
ASSUME DomainAssumption == DomainOf \in [Users -> Domains]
ASSUME EmailAssumption == EmailSignIn \in BOOLEAN
ASSUME GivenAssumption == Given \subseteq Assignable
ASSUME TeamsAssumption == Teams \subseteq [Orgs -> [Users -> Stored \cup {None}]]
ASSUME LinksAssumption == Links \subseteq [Accounts -> Users \cup {Nobody}]
ASSUME BoundsAssumption == MaxCalls \in Nat /\ MaxStops \in Nat

VARIABLES
  users,    \* table User
  orgs,     \* table Organization
  role,     \* table Membership: the role of a user in an organization
  linked,   \* table Account: the user a provider account signs in
  invite,   \* table Invitation
  allowed,  \* Organization.allowedDomains
  joinRole, \* Organization.domainJoinRole
  center,   \* table TrustCenter, and vendors of the network without a row
  call,     \* the server actions in flight
  begun, stops

vars == <<users, orgs, role, linked, invite, allowed, joinRole, center, call, begun, stops>>

Unsent == [status |-> "unsent", org |-> None, role |-> None, to |-> Nobody, expired |-> FALSE]
Missing == [state |-> "missing", org |-> None, creator |-> Nobody]

(* org, who, what: what the call is about; seen: what it read; row: its    *)
(* membership row still exists; raced: another call wrote since it began.  *)
Idle == [pc |-> "idle", by |-> Nobody, org |-> None, who |-> Nobody, what |-> None,
         seen |-> {}, row |-> TRUE, raced |-> FALSE]

Init ==
  /\ users = Users
  /\ role \in Teams
  /\ orgs = {o \in Orgs : \E u \in Users : role[o][u] # None}
  /\ linked \in Links
  /\ invite = [i \in Invites |-> Unsent]
  /\ allowed = [o \in Orgs |-> {}]
  /\ joinRole = [o \in Orgs |-> "viewer"]
  /\ center = [v \in Centers |-> Missing]
  /\ call = [c \in Calls |-> Idle]
  /\ begun = 0
  /\ stops = 0

Members(o) == {u \in Users : role[o][u] # None}
Owners(o) == {u \in Users : role[o][u] = "owner"}
Own(u) == {a \in Accounts : linked[a] = u}

-----------------------------------------------------------------------------
(* A call begins: it reads, and holds what it read until it writes. *)
Begin(c, rec) ==
  /\ call[c].pc = "idle"
  /\ begun < MaxCalls
  /\ begun' = begun + 1
  /\ call' = [call EXCEPT ![c] = rec]
  /\ UNCHANGED <<users, orgs, role, linked, invite, allowed, joinRole, center, stops>>

(* A call wrote, and goes on as rec; gone are the membership rows deleted. *)
Wrote(c, rec, gone) ==
  /\ call' = [d \in Calls |->
       IF d = c THEN rec
       ELSE IF call[d].pc = "idle" THEN call[d]
       ELSE [call[d] EXCEPT !.raced = TRUE,
               !.row = @ /\ <<call[d].org, call[d].who>> \notin gone]]
  /\ UNCHANGED <<begun, stops>>

At(c, pc) == call[c].pc = pc
Goes(c, pc) == [call[c] EXCEPT !.pc = pc]

(* A statement that finds its row gone, or breaks a constraint, throws. *)
Throws(c) ==
  /\ call' = [call EXCEPT ![c] = Idle]
  /\ UNCHANGED <<users, orgs, role, linked, invite, allowed, joinRole, center, begun, stops>>

(* The process stops, or the database does, between two statements. *)
Stop(c) ==
  /\ call[c].pc # "idle"
  /\ stops < MaxStops
  /\ stops' = stops + 1
  /\ call' = [call EXCEPT ![c] = Idle]
  /\ UNCHANGED <<users, orgs, role, linked, invite, allowed, joinRole, center, begun>>

(* manageCtx: a signed-in user, a workspace of theirs, a role to manage it. *)
manageCtx(u, o) == u \in users /\ role[o][u] # None /\ canManageTeam(role[o][u])

-----------------------------------------------------------------------------
(* Members: removeMember and changeMemberRole. *)

(* Mutant of MayRemove: an owner is a member like another. *)
MayRemoveAnybody(o, v) == role[o][v] # None

MayRemove(o, v) ==
  /\ role[o][v] # None
  /\ role[o][v] = "owner" => Cardinality(Owners(o)) > 1

BeginRemove(c, u, o, v) ==
  /\ manageCtx(u, o)
  /\ MayRemove(o, v)
  /\ Begin(c, [Idle EXCEPT !.pc = "remove", !.org = o, !.who = v])

Remove(c) ==
  LET o == call[c].org  v == call[c].who IN
  /\ At(c, "remove")
  /\ IF call[c].row
     THEN /\ role' = [role EXCEPT ![o][v] = None]
          /\ Wrote(c, Idle, {<<o, v>>})
          /\ UNCHANGED <<users, orgs, linked, invite, allowed, joinRole, center>>
     ELSE Throws(c)

BeginChange(c, u, o, v, r) ==
  /\ manageCtx(u, o)
  /\ role[o][v] \notin {None, "owner"}
  /\ Begin(c, [Idle EXCEPT !.pc = "change", !.org = o, !.who = v, !.what = r])

Change(c) ==
  LET o == call[c].org  v == call[c].who IN
  /\ At(c, "change")
  /\ IF call[c].row
     THEN /\ role' = [role EXCEPT ![o][v] = call[c].what]
          /\ Wrote(c, Idle, {})
          /\ UNCHANGED <<users, orgs, linked, invite, allowed, joinRole, center>>
     ELSE Throws(c)

-----------------------------------------------------------------------------
(* Invitations: inviteMember, acceptInvitation, revokeInvite. *)

isMemberByEmail(o, v) == v \in users /\ role[o][v] # None

BeginInvite(c, u, o, v, r) ==
  /\ manageCtx(u, o)
  /\ ~isMemberByEmail(o, v)
  /\ Begin(c, [Idle EXCEPT !.pc = "supersede", !.org = o, !.who = v, !.what = r])

(* Mutant of IsOlder: earlier invitations stay pending. *)
IsNoOlder(i, o, v) == FALSE

IsOlder(i, o, v) == invite[i].status = "pending" /\ invite[i].org = o /\ invite[i].to = v

Supersede(c) ==
  /\ At(c, "supersede")
  /\ invite' = [i \in Invites |->
       IF IsOlder(i, call[c].org, call[c].who)
       THEN [invite[i] EXCEPT !.status = "revoked"] ELSE invite[i]]
  /\ Wrote(c, Goes(c, "send"), {})
  /\ UNCHANGED <<users, orgs, role, linked, allowed, joinRole, center>>

Send(c, i) ==
  /\ At(c, "send")
  /\ invite[i].status = "unsent"
  /\ invite' = [invite EXCEPT ![i] =
       [status |-> "pending", org |-> call[c].org, role |-> call[c].what,
        to |-> call[c].who, expired |-> FALSE]]
  /\ Wrote(c, Idle, {})
  /\ UNCHANGED <<users, orgs, role, linked, allowed, joinRole, center>>

(* Fourteen days pass. *)
Expire(i) ==
  /\ invite[i].status = "pending"
  /\ ~invite[i].expired
  /\ invite' = [invite EXCEPT ![i].expired = TRUE]
  /\ UNCHANGED <<users, orgs, role, linked, allowed, joinRole, center, call, begun, stops>>

(* Whoever holds the link accepts: the address is not compared. *)
BeginAccept(c, u, i) ==
  LET o == invite[i].org IN
  /\ u \in users
  /\ invite[i].status = "pending"
  /\ Begin(c, [Idle EXCEPT !.by = u, !.org = o, !.who = u, !.what = i,
       !.pc = IF invite[i].expired THEN "void"
              ELSE IF role[o][u] # None THEN "accept" ELSE "admit"])

Admit(c) ==
  LET i == call[c].what  o == call[c].org  u == call[c].by IN
  /\ At(c, "admit")
  /\ IF u \in users /\ role[o][u] = None
     THEN /\ role' = [role EXCEPT ![o][u] = invite[i].role]
          /\ Wrote(c, Goes(c, "accept"), {})
          /\ UNCHANGED <<users, orgs, linked, invite, allowed, joinRole, center>>
     ELSE Throws(c)

(* The status is set whatever it has become. *)
Settle(c) ==
  /\ call[c].pc \in {"accept", "void"}
  /\ invite' = [invite EXCEPT ![call[c].what].status =
       IF At(c, "accept") THEN "accepted" ELSE "revoked"]
  /\ Wrote(c, Idle, {})
  /\ UNCHANGED <<users, orgs, role, linked, allowed, joinRole, center>>

BeginRevoke(c, u, o, i) ==
  /\ manageCtx(u, o)
  /\ invite[i].org = o
  /\ Begin(c, [Idle EXCEPT !.pc = "void", !.org = o, !.what = i])

-----------------------------------------------------------------------------
(* Allowed domains: the list is read, and written whole. *)

(* Mutant of NewList: the domain added replaces the list. *)
NewListOfOne(o, d, adds) == IF adds THEN {d} ELSE allowed[o] \ {d}

NewList(o, d, adds) == IF adds THEN allowed[o] \cup {d} ELSE allowed[o] \ {d}

BeginDomain(c, u, o, d, adds) ==
  /\ manageCtx(u, o)
  /\ adds => d \notin allowed[o]
  /\ Begin(c, [Idle EXCEPT !.pc = "domains", !.org = o, !.what = d,
       !.seen = NewList(o, d, adds)])

WriteDomains(c) ==
  /\ At(c, "domains")
  /\ allowed' = [allowed EXCEPT ![call[c].org] = call[c].seen]
  /\ Wrote(c, Idle, {})
  /\ UNCHANGED <<users, orgs, role, linked, invite, joinRole, center>>

BeginJoinRole(c, u, o, r) ==
  /\ manageCtx(u, o)
  /\ Begin(c, [Idle EXCEPT !.pc = "joinrole", !.org = o, !.what = r])

WriteJoinRole(c) ==
  /\ At(c, "joinrole")
  /\ joinRole' = [joinRole EXCEPT ![call[c].org] = call[c].what]
  /\ Wrote(c, Idle, {})
  /\ UNCHANGED <<users, orgs, role, linked, invite, allowed, center>>

(* autoJoinByDomain, on a sign-in: organizations are read once, with the   *)
(* role each gives, then joined one by one.                                *)
BeginSignIn(c, u) ==
  LET hosts == {o \in Orgs : DomainOf[u] \in allowed[o]} IN
  /\ u \in users
  /\ hosts # {}
  /\ Begin(c, [Idle EXCEPT !.pc = "join", !.by = u, !.who = u,
       !.seen = {<<o, joinRole[o]>> : o \in hosts}])

Join(c, o, r) ==
  LET u == call[c].by  rest == call[c].seen \ {<<o, r>>} IN
  /\ At(c, "join")
  /\ <<o, r>> \in call[c].seen
  /\ IF role[o][u] = None /\ u \notin users THEN Throws(c)
     ELSE /\ role' = IF role[o][u] = None THEN [role EXCEPT ![o][u] = r] ELSE role
          /\ Wrote(c, IF rest = {} THEN Idle ELSE [call[c] EXCEPT !.seen = rest], {})
          /\ UNCHANGED <<users, orgs, linked, invite, allowed, joinRole, center>>

(* The membership was created since it was looked for: the sign-in goes on *)
(* without the organizations that are left.                                *)
JoinFails(c) ==
  /\ At(c, "join")
  /\ \E s \in call[c].seen : role[s[1]][call[c].by] # None
  /\ Throws(c)

-----------------------------------------------------------------------------
(* A first visit: ensureOrg finds no membership and creates a workspace. *)
BeginVisit(c, u) ==
  /\ u \in users
  /\ \A o \in Orgs : role[o][u] = None
  /\ Begin(c, [Idle EXCEPT !.pc = "found", !.by = u, !.who = u])

Found(c, o) ==
  /\ At(c, "found")
  /\ o \notin orgs
  /\ call[c].by \in users
  /\ orgs' = orgs \cup {o}
  /\ role' = [role EXCEPT ![o][call[c].by] = "owner"]
  /\ Wrote(c, Idle, {})
  /\ UNCHANGED <<users, linked, invite, allowed, joinRole, center>>

(* createTrustCenter: a vendor on the network first, then the row here.    *)
(* Any member of the workspace may.                                        *)
BeginCreate(c, u, o) ==
  /\ u \in users
  /\ role[o][u] # None
  /\ Begin(c, [Idle EXCEPT !.pc = "vendor", !.by = u, !.org = o])

CreateVendor(c, v) ==
  /\ At(c, "vendor")
  /\ center[v].state = "missing"
  /\ center' = [center EXCEPT ![v].state = "vendor"]
  /\ Wrote(c, [Goes(c, "row") EXCEPT !.what = v], {})
  /\ UNCHANGED <<users, orgs, role, linked, invite, allowed, joinRole>>

CreateRow(c) ==
  /\ At(c, "row")
  /\ center' = [center EXCEPT ![call[c].what] =
       [state |-> "kept", org |-> call[c].org, creator |-> call[c].by]]
  /\ Wrote(c, Idle, {})
  /\ UNCHANGED <<users, orgs, role, linked, invite, allowed, joinRole>>

-----------------------------------------------------------------------------
(* Accounts: unlinkProvider, deleteAccount, mergeAccounts. *)

(* Mutant of MayUnlink: the last provider goes too. *)
MayUnlinkAny(u, p) == \E a \in Own(u) : ProviderOf[a] = p

MayUnlink(u, p) ==
  /\ \E a \in Own(u) : ProviderOf[a] = p
  /\ EmailSignIn \/ \E a \in Own(u) : ProviderOf[a] # p

BeginUnlink(c, u, p) ==
  /\ u \in users
  /\ MayUnlink(u, p)
  /\ Begin(c, [Idle EXCEPT !.pc = "unlink", !.by = u, !.what = p])

Unlink(c) ==
  /\ At(c, "unlink")
  /\ linked' = [a \in Accounts |->
       IF linked[a] = call[c].by /\ ProviderOf[a] = call[c].what THEN Nobody ELSE linked[a]]
  /\ Wrote(c, Idle, {})
  /\ UNCHANGED <<users, orgs, role, invite, allowed, joinRole, center>>

(* Mutant of MayLeave: owners are not counted. *)
MayLeaveAlways(u) == TRUE

(* getAccountOverview's blockingOrgs: workspaces whose only owner this is, *)
(* and which have other members.                                           *)
MayLeave(u) ==
  \A o \in Orgs : role[o][u] = "owner" =>
    Cardinality(Owners(o)) > 1 \/ Cardinality(Members(o)) <= 1

BeginDelete(c, u) ==
  /\ u \in users
  /\ MayLeave(u)
  /\ Begin(c, [Idle EXCEPT !.pc = "delete", !.by = u])

(* Deleting a user deletes its memberships and provider accounts with it;  *)
(* a trust center keeps the bare id.                                       *)
Cascade(u) ==
  /\ users' = users \ {u}
  /\ role' = [o \in Orgs |-> [role[o] EXCEPT ![u] = None]]
  /\ linked' = [a \in Accounts |-> IF linked[a] = u THEN Nobody ELSE linked[a]]
  /\ UNCHANGED <<orgs, invite, allowed, joinRole, center>>

Delete(c) ==
  /\ At(c, "delete")
  /\ IF call[c].by \in users
     THEN Cascade(call[c].by) /\ Wrote(c, Idle, Orgs \X {call[c].by})
     ELSE Throws(c)

(* A sign-in as s in a browser that was to connect t: the source's         *)
(* memberships are read once ... *)
BeginMerge(c, s, t) ==
  /\ s \in users /\ t \in users /\ s # t
  /\ Begin(c, [Idle EXCEPT !.pc = "merge", !.by = s, !.who = t,
       !.seen = {<<o, role[o][s]>> : o \in {o \in Orgs : role[o][s] # None}}])

(* ... and for each the target's is looked up ... *)
MergeFind(c, o, r) ==
  LET had == role[o][call[c].who] IN
  /\ At(c, "merge")
  /\ <<o, r>> \in call[c].seen
  /\ call' = [call EXCEPT ![c] =
       IF outranks(r, had)
       THEN [call[c] EXCEPT !.pc = "raise", !.org = o, !.what = had, !.row = TRUE]
       ELSE [call[c] EXCEPT !.seen = @ \ {<<o, r>>}]]
  /\ UNCHANGED <<users, orgs, role, linked, invite, allowed, joinRole, center, begun, stops>>

(* ... and created, or raised to the higher role. *)
MergeRaise(c, r) ==
  LET o == call[c].org  t == call[c].who IN
  /\ At(c, "raise")
  /\ <<o, r>> \in call[c].seen
  /\ IF (call[c].what = None /\ role[o][t] = None /\ t \in users)
        \/ (call[c].what # None /\ call[c].row)
     THEN /\ role' = [role EXCEPT ![o][t] = r]
          /\ Wrote(c, [Goes(c, "merge") EXCEPT !.seen = @ \ {<<o, r>>}], {})
          /\ UNCHANGED <<users, orgs, linked, invite, allowed, joinRole, center>>
     ELSE Throws(c)

(* Trust centers are re-pointed, then the provider accounts are read ... *)
MergeCenters(c) ==
  LET s == call[c].by  t == call[c].who IN
  /\ At(c, "merge")
  /\ call[c].seen = {}
  /\ center' = [v \in Centers |->
       IF center[v].creator = s THEN [center[v] EXCEPT !.creator = t] ELSE center[v]]
  /\ Wrote(c, [Goes(c, "accounts") EXCEPT !.org = None, !.what = None], {})
  /\ UNCHANGED <<users, orgs, role, linked, invite, allowed, joinRole>>

MergeAccounts(c) ==
  /\ At(c, "accounts")
  /\ call' = [call EXCEPT ![c] = [call[c] EXCEPT !.pc = "move", !.seen = Own(call[c].by)]]
  /\ UNCHANGED <<users, orgs, role, linked, invite, allowed, joinRole, center, begun, stops>>

(* ... each looked for at another user, and skipped if it is there ... *)
MergeClash(c, a) ==
  /\ At(c, "move")
  /\ a \in call[c].seen
  /\ call' = [call EXCEPT ![c] =
       IF linked[a] \in {call[c].by, Nobody}
       THEN [call[c] EXCEPT !.pc = "link", !.what = a]
       ELSE [call[c] EXCEPT !.seen = @ \ {a}]]
  /\ UNCHANGED <<users, orgs, role, linked, invite, allowed, joinRole, center, begun, stops>>

(* ... or moved ... *)
MergeLink(c) ==
  LET a == call[c].what  t == call[c].who IN
  /\ At(c, "link")
  /\ IF linked[a] # Nobody /\ t \in users
     THEN /\ linked' = [linked EXCEPT ![a] = t]
          /\ Wrote(c, [Goes(c, "move") EXCEPT !.seen = @ \ {a}, !.what = None], {})
          /\ UNCHANGED <<users, orgs, role, invite, allowed, joinRole, center>>
     ELSE Throws(c)

(* ... and the source is deleted, with whatever is left of it. *)
MergeDelete(c) ==
  /\ At(c, "move")
  /\ call[c].seen = {}
  /\ IF call[c].by \in users
     THEN Cascade(call[c].by) /\ Wrote(c, Idle, Orgs \X {call[c].by})
     ELSE Throws(c)

-----------------------------------------------------------------------------
TeamStep(c) ==
  \/ \E u, v \in Users, o \in Orgs :
       \/ BeginRemove(c, u, o, v)
       \/ \E r \in Given : BeginChange(c, u, o, v, r) \/ BeginInvite(c, u, o, v, r)
  \/ \E u \in Users, i \in Invites :
       BeginAccept(c, u, i) \/ \E o \in Orgs : BeginRevoke(c, u, o, i)
  \/ \E i \in Invites : Send(c, i)
  \/ Remove(c) \/ Change(c) \/ Supersede(c) \/ Admit(c) \/ Settle(c)

DomainStep(c) ==
  \/ \E u \in Users, o \in Orgs :
       \/ \E d \in Domains, adds \in BOOLEAN : BeginDomain(c, u, o, d, adds)
       \/ \E r \in Given : BeginJoinRole(c, u, o, r)
  \/ \E u \in Users : BeginSignIn(c, u)
  \/ \E o \in Orgs, r \in Assignable : Join(c, o, r)
  \/ WriteDomains(c) \/ WriteJoinRole(c) \/ JoinFails(c)

CenterStep(c) ==
  \/ \E u \in Users : BeginVisit(c, u) \/ \E o \in Orgs : BeginCreate(c, u, o)
  \/ \E o \in Orgs : Found(c, o)
  \/ \E v \in Centers : CreateVendor(c, v)
  \/ CreateRow(c)

AccountStep(c) ==
  \/ \E u \in Users :
       \/ BeginDelete(c, u)
       \/ \E a \in Accounts : BeginUnlink(c, u, ProviderOf[a])
       \/ \E t \in Users : BeginMerge(c, u, t)
  \/ \E o \in Orgs, r \in Stored : MergeFind(c, o, r) \/ MergeRaise(c, r)
  \/ \E a \in Accounts : MergeClash(c, a)
  \/ MergeLink(c) \/ Unlink(c) \/ Delete(c) \/ MergeCenters(c) \/ MergeAccounts(c) \/ MergeDelete(c)

Next ==
  \/ \E c \in Calls : TeamStep(c) \/ DomainStep(c) \/ CenterStep(c) \/ AccountStep(c) \/ Stop(c)
  \/ \E i \in Invites : Expire(i)

Spec == Init /\ [][Next]_vars

-----------------------------------------------------------------------------
(* The tables and the calls in flight hold values of their type, and only  *)
(* users there are have memberships, in organizations there are.           *)
Things == Invites \cup Domains \cup Accounts \cup Centers \cup Stored \cup {None}
            \cup {ProviderOf[a] : a \in Accounts}

Merging == {"merge", "raise", "accounts", "move", "link"}
Pcs == Merging \cup {"idle", "remove", "change", "supersede", "send", "accept", "void",
         "admit", "domains", "joinrole", "join", "found", "vendor", "row", "unlink", "delete"}

CallRecords ==
  [pc : Pcs, by : Users \cup {Nobody}, org : Orgs \cup {None}, who : Users \cup {Nobody},
   what : Things, seen : SUBSET (Domains \cup Accounts \cup (Orgs \X Stored)),
   row : BOOLEAN, raced : BOOLEAN]
InviteRecords ==
  [status : {"unsent", "pending", "accepted", "revoked"}, org : Orgs \cup {None},
   role : Given \cup {None}, to : Users \cup {Nobody}, expired : BOOLEAN]
CenterRecords ==
  [state : {"missing", "vendor", "kept"}, org : Orgs \cup {None}, creator : Users \cup {Nobody}]

TypeOK ==
  /\ users \subseteq Users
  /\ orgs \subseteq Orgs
  /\ role \in [Orgs -> [Users -> Stored \cup {None}]]
  /\ \A o \in Orgs, u \in Users : role[o][u] # None => u \in users /\ o \in orgs
  /\ linked \in [Accounts -> users \cup {Nobody}]
  /\ invite \in [Invites -> InviteRecords]
  /\ allowed \in [Orgs -> SUBSET Domains]
  /\ joinRole \in [Orgs -> Assignable]
  /\ center \in [Centers -> CenterRecords]
  /\ call \in [Calls -> CallRecords]
  /\ begun \in 0 .. MaxCalls /\ stops \in 0 .. MaxStops

(* The call that takes a step, among those in flight. *)
Acts(c) ==
  /\ call[c].pc # "idle"
  /\ call[c].pc # call'[c].pc \/ call[c].seen # call'[c].seen

(***************************************************************************)
(* "The last owner can't be removed" (teams-and-roles/page.mdx:23), nor    *)
(* demoted, nor may the last owner of others leave (account.ts:15-16):     *)
(* whatever removes the last owner of a workspace with members decided on  *)
(* what another call has since overwritten.  removeMember, changeMemberRole*)
(* and deleteAccount each read first; mergeAccounts hands ownership over   *)
(* before it deletes, also when one stopped midway before.                 *)
(***************************************************************************)
LastOwnerStays ==
  [][\A o \in Orgs :
       Owners(o) # {} /\ Owners(o)' = {} /\ Members(o)' # {}
         => \E c \in Calls : Acts(c) /\ call[c].raced]_vars

(***************************************************************************)
(* "everything tied to that account ... is joined into the account they're *)
(* signed into" (account.ts:79-83): when the source of a merge is deleted, *)
(* the target has each of its workspaces at no lower role, its trust       *)
(* centers and its providers, unless another call wrote meanwhile; however *)
(* many merges of the same account stopped midway before.                  *)
(***************************************************************************)
MergeLosesNothing ==
  [][\A c \in Calls :
       At(c, "move") /\ Acts(c) /\ call[c].by \notin users' /\ ~call[c].raced
         => /\ \A o \in Orgs : roleRank(role[o][call[c].by]) <= roleRank(role'[o][call[c].who])
            /\ \A v \in Centers : center[v].creator # call[c].by
            /\ Own(call[c].by) = {}]_vars

(***************************************************************************)
(* "a user can't lock themselves out" (account.ts:147): without sign-in by *)
(* mail, a user loses the last provider only to a call that decided on a   *)
(* list since changed, or as the source of a merge.                        *)
(***************************************************************************)
SignInStays ==
  [][\A u \in users' : Own(u) # {} /\ Own(u)' = {} /\ ~EmailSignIn
       => \E c \in Calls : \/ (Acts(c) /\ call[c].raced)
                            \/ (At(c, "link") /\ call[c].by = u)]_vars

(***************************************************************************)
(* What an account has, its workspaces, its trust centers and its ways to  *)
(* sign in, outlasts merges and unlinked providers: both of the above.     *)
(***************************************************************************)
AccountsHold == MergeLosesNothing /\ SignInStays

(***************************************************************************)
(* An invitation admits while it is pending, and "only the newest link"    *)
(* to an address is (team.ts:99-100): somebody joins on one that was       *)
(* revoked, superseded or used before, or two are pending, only if calls   *)
(* overlapped.                                                             *)
(***************************************************************************)
InvitationsHold ==
  [][/\ \A c \in Calls :
          At(c, "admit") /\ call'[c].pc = "accept" /\ invite[call[c].what].status # "pending"
            => call[c].raced
     /\ \A i, j \in Invites :
          i # j /\ invite'[i].status = "pending" /\ invite'[j].status = "pending"
          /\ invite'[i].org = invite'[j].org /\ invite'[i].to = invite'[j].to
          /\ ~(invite[i].status = "pending" /\ invite[j].status = "pending")
            => \E c \in Calls : Acts(c) /\ call[c].raced]_vars

(***************************************************************************)
(* A domain whose users join by themselves comes and goes only as somebody *)
(* adds or removes it, unless two calls wrote the list.  team.ts:180-206.  *)
(***************************************************************************)
DomainsHold ==
  [][\A o \in Orgs, d \in Domains :
       (d \in allowed[o]) # (d \in allowed'[o])
         => \E c \in Calls : Acts(c) /\ (call[c].what = d \/ call[c].raced)]_vars

(***************************************************************************)
(* Whoever joins was let in: both of the above.                            *)
(***************************************************************************)
JoiningHolds == InvitationsHold /\ DomainsHold

(***************************************************************************)
(* A workspace with members has an owner: what the checks above are for.   *)
(* It does not hold, without any overlap: the sole owner and only member   *)
(* may leave while an invitation is pending, and whoever accepts it is     *)
(* alone with a role that cannot become owner.                             *)
(***************************************************************************)
TeamHasOwner == \A o \in Orgs : Members(o) # {} => Owners(o) # {}
-----------------------------------------------------------------------------
(***************************************************************************)
(* The inductive invariant behind the three properties.  First what the    *)
(* tables and the calls hold, beyond their types; orgs only grows, so what *)
(* a call holds of an organization stays good.                             *)
(***************************************************************************)
TablesOK ==
  /\ TypeOK
  /\ \A i \in Invites : invite[i].org # None => invite[i].org \in orgs /\ invite[i].role \in Given
  /\ \A i \in Invites : invite[i].status = "pending" => invite[i].org # None
  /\ \A o \in Orgs : allowed[o] # {} => o \in orgs

(* What a call k holds is what its later statements will need. *)
CallOK(k) ==
  LET in(pcs) == k.pc \in pcs
      created == k.org \in orgs
  IN
  /\ in({"remove", "change", "supersede", "send", "domains", "raise"}) => created
  /\ in({"remove", "change", "supersede", "send"}) => k.who \in Users
  /\ in({"change", "supersede", "send", "joinrole"}) => k.what \in Given
  /\ in({"admit", "accept", "void"}) => k.what \in Invites
  /\ in({"admit"}) => created /\ invite[k.what].role \in Given
  /\ in({"domains"}) => k.seen \subseteq Domains
  /\ in({"admit", "join", "found", "vendor", "row", "unlink", "delete"} \cup Merging)
       => k.by \in Users
  /\ in({"join"}) => k.seen \subseteq orgs \X Assignable
  /\ in({"merge", "raise"}) => k.seen \subseteq orgs \X Stored
  /\ in({"move", "link"}) => k.seen \subseteq Accounts
  /\ in({"link"}) => k.what \in Accounts
  /\ in({"row"}) => k.what \in Centers
  /\ in(Merging) => k.who \in Users /\ k.by # k.who
  /\ in({"remove", "change"}) /\ k.row => role[k.org][k.who] # None
  /\ in({"raise"}) /\ k.row /\ k.what # None => role[k.org][k.who] # None

(* What a call decided on still holds ... *)
DecisionHolds(k) ==
  /\ k.pc = "remove" => MayRemove(k.org, k.who)
  /\ k.pc = "change" => role[k.org][k.who] \notin {None, "owner"}
  /\ k.pc = "send" => \A i \in Invites : ~IsOlder(i, k.org, k.who)
  /\ k.pc = "admit" => invite[k.what].status = "pending"
  /\ k.pc = "domains" => \E adds \in BOOLEAN : k.seen = NewList(k.org, k.what, adds)
  /\ k.pc = "unlink" => MayUnlink(k.by, k.what)
  /\ k.pc = "delete" => MayLeave(k.by)

(* ... a merge's snapshots are what they were taken of, and what it has    *)
(* passed over or handed on is the target's ...                            *)
HandedOver(s, t) == \A o \in Orgs : roleRank(role[o][s]) <= roleRank(role[o][t])
MergeHolds(k) ==
  LET s == k.by  t == k.who  in(pcs) == k.pc \in pcs IN
  /\ in(Merging) => s \in users
  /\ in({"merge", "raise"}) =>
       /\ \A x \in k.seen : x[2] = role[x[1]][s]
       /\ \A o \in Orgs : \/ <<o, role[o][s]>> \in k.seen
                          \/ roleRank(role[o][s]) <= roleRank(role[o][t])
  /\ in({"raise"}) => k.what = role[k.org][t] /\ outranks(role[k.org][s], k.what)
  /\ in({"accounts", "move", "link"}) =>
       HandedOver(s, t) /\ \A v \in Centers : center[v].creator # s
  /\ in({"move", "link"}) => Own(s) \subseteq k.seen
  /\ in({"link"}) => linked[k.what] \in {s, Nobody}

(* ... unless another call has written since it began. *)
Fresh(k) == ~k.raced => DecisionHolds(k) /\ MergeHolds(k)

WorkspaceInv == TablesOK /\ \A c \in Calls : CallOK(call[c]) /\ Fresh(call[c])
=============================================================================
