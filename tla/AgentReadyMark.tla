--------------------------- MODULE AgentReadyMark ---------------------------
(***************************************************************************)
(* The agent-ready mark of one vendor: the owner adds domains, proves      *)
(* control of them and removes them; the operator revokes and reinstates   *)
(* the mark.                                                               *)
(*                                                                         *)
(* Every call loads the vendor's row first and decides on what it loaded;  *)
(* its commit writes the columns whose value it changed.  Calls run        *)
(* concurrently under READ COMMITTED: a column nobody wrote in the call is *)
(* left to the others, a row written by an open transaction is waited for. *)
(***************************************************************************)
EXTENDS Naturals, FiniteSets

CONSTANTS
  Domains,  \* domains the owner may add
  MaxRows,  \* bound: rows of domain_verifications ever inserted
  Calls     \* slots for concurrent calls

ASSUME MaxRowsAssumption == MaxRows \in Nat

VARIABLES
  mark,       \* vendors.mark_status
  domains,    \* vendors.domains, the public list
  rows,       \* table domain_verifications
  published,  \* rows whose challenge is to be found at their domain now
  proven,     \* history: rows whose challenge a verify call has found
  handler,    \* the calls in flight
  overlapped  \* history: two calls have been in flight at once

markVars == <<mark, domains, rows, published, proven, handler, overlapped>>

(***************************************************************************)
(* Row i is the i-th inserted.  Its challenge token is drawn for it alone, *)
(* so i stands for the token too.                                          *)
(***************************************************************************)
RowIds == 1 .. MaxRows
Marks == {"unverified", "agent-ready", "revoked"}

RowsType ==
  [RowIds -> [state : {"none", "added", "deleted"},
              domain : SUBSET Domains, verified : BOOLEAN]]

(***************************************************************************)
(* What a call in flight holds: how far it is, the row and domain it is    *)
(* about, the vendor's columns as it loaded them and the mark it will      *)
(* write.                                                                  *)
(***************************************************************************)
HandlerRecords ==
  [Calls -> [op : {"idle", "entered", "adding", "verifying", "proved", "removing",
                   "flushed", "reinstating"},
             row : 0 .. MaxRows, domain : SUBSET Domains,
             mark : Marks, domains : SUBSET Domains, new : Marks]]

NoHandler == [op |-> "idle", row |-> 0, domain |-> {}, mark |-> "unverified",
              domains |-> {}, new |-> "unverified"]

MarkInit ==
  /\ mark = "unverified"
  /\ domains = {}
  /\ rows = [i \in RowIds |-> [state |-> "none", domain |-> {}, verified |-> FALSE]]
  /\ published = {}
  /\ proven = {}
  /\ handler = [c \in Calls |-> NoHandler]
  /\ overlapped = FALSE

-----------------------------------------------------------------------------
Added(i) == i \in RowIds /\ rows[i].state = "added"
RowsOf(d) == {i \in RowIds : Added(i) /\ rows[i].domain = d}
(* Mutant of Verified: rows count before they are verified. *)
VerifiedOrNot == {i \in RowIds : Added(i)}

VerifiedRows == {i \in RowIds : Added(i) /\ rows[i].verified}

(* Mutant of RecomputeMark: the revoked state is not sticky. *)
RecomputeMarkAnyway(seen, left) == IF left # {} THEN "agent-ready" ELSE "unverified"

(* recompute_mark: what the verified domains left in the table earn. *)
RecomputeMark(seen, left) ==
  CASE seen = "revoked" -> "revoked"
    [] seen # "revoked" /\ left # {} -> "agent-ready"
    [] OTHER -> "unverified"

(***************************************************************************)
(* A removal flushes before it recomputes: from there to its commit it has *)
(* deleted its row and, if it dropped the domain from the list, written    *)
(* the vendor's row.  Others who write those rows wait.                    *)
(***************************************************************************)
VendorHeld(c) ==
  \E x \in Calls \ {c} : handler[x].op = "flushed" /\ handler[x].domain \subseteq handler[x].domains
RowHeld(c, i) ==
  \E x \in Calls \ {c} : handler[x].op = "flushed" /\ handler[x].row = i

(* The commit of a call that loaded old and assigned new to a column. *)
Written(old, new, current) == IF new = old THEN current ELSE new

CommitVendor(c, newMark, newDomains) ==
  /\ VendorHeld(c) => newMark = handler[c].mark /\ newDomains = handler[c].domains
  /\ mark' = Written(handler[c].mark, newMark, mark)
  /\ domains' = Written(handler[c].domains, newDomains, domains)

Finish(c) == handler' = [handler EXCEPT ![c] = NoHandler]

(* A call goes on, with the vendor's columns as it loaded them. *)
GoOn(c, op, row, domain, new) ==
  handler' = [handler EXCEPT ![c] =
             [op |-> op, row |-> row, domain |-> domain,
              mark |-> handler[c].mark, domains |-> handler[c].domains, new |-> new]]
InFlight(c) == handler[c].op # "idle"
Overlap == \E c, d \in Calls : c # d /\ InFlight(c) /\ InFlight(d)
Watch == overlapped' = (overlapped \/ Overlap')
-----------------------------------------------------------------------------
(* require_owner, or db.get in an operator's call: the vendor's row is loaded. *)
Enter(c) ==
  /\ handler[c].op = "idle"
  /\ handler' = [handler EXCEPT ![c] =
       [op |-> "entered", row |-> 0, domain |-> {},
        mark |-> mark, domains |-> domains, new |-> "unverified"]]
  /\ UNCHANGED <<mark, domains, rows, published, proven>>
  /\ Watch

(* Refused: 404 for a domain never added, 401, or nothing to do. *)
Leave(c) ==
  /\ handler[c].op = "entered"
  /\ Finish(c)
  /\ UNCHANGED <<mark, domains, rows, published, proven>>
  /\ Watch

(* add_domain: no row for the domain yet, and none is there to prevent a   *)
(* second one, since no constraint makes the domain unique.                *)
StartAdd(c, d) ==
  /\ handler[c].op = "entered"
  /\ RowsOf({d}) = {}
  /\ GoOn(c, "adding", 0, {d}, "unverified")
  /\ UNCHANGED <<mark, domains, rows, published, proven>>
  /\ Watch

CommitAdd(c, i) ==
  /\ handler[c].op = "adding"
  /\ rows[i].state = "none"
  /\ \A j \in RowIds : j < i => rows[j].state # "none"
  /\ rows' = [rows EXCEPT ![i] =
       [state |-> "added", domain |-> handler[c].domain, verified |-> FALSE]]
  /\ Finish(c)
  /\ UNCHANGED <<mark, domains, published, proven>>
  /\ Watch

(* The vendor puts the challenge into DNS or under .well-known, or takes it away. *)
Publish(i) ==
  /\ Added(i)
  /\ published' = published \cup {i}
  /\ UNCHANGED <<mark, domains, rows, proven, handler>>
  /\ Watch

Withdraw(i) ==
  /\ published' = published \ {i}
  /\ UNCHANGED <<mark, domains, rows, proven, handler>>
  /\ Watch

(* verify_domain_endpoint selects the row, then looks its token up. *)
StartVerify(c, i) ==
  /\ handler[c].op = "entered"
  /\ Added(i)
  /\ GoOn(c, "verifying", i, rows[i].domain, "unverified")
  /\ UNCHANGED <<mark, domains, rows, published, proven>>
  /\ Watch

FindChallenge(c) ==
  /\ handler[c].op = "verifying"
  /\ handler[c].row \in published
  /\ proven' = proven \cup {handler[c].row}
  /\ GoOn(c, "proved", handler[c].row, handler[c].domain, "unverified")
  /\ UNCHANGED <<mark, domains, rows, published>>
  /\ Watch

MissChallenge(c) ==
  /\ handler[c].op = "verifying"
  /\ handler[c].row \notin published
  /\ Finish(c)
  /\ UNCHANGED <<mark, domains, rows, published, proven>>
  /\ Watch

(* Mutants of CommitVerify: it verifies every row of the domain; it does   *)
(* not ask whether the mark is revoked.                                    *)
CommitVerifyByName(c) ==
  LET i == handler[c].row IN
  /\ handler[c].op = "proved"
  /\ Added(i) /\ ~RowHeld(c, i)
  /\ rows' = [j \in RowIds |-> IF j \in RowsOf(handler[c].domain)
                               THEN [rows[j] EXCEPT !.verified = TRUE] ELSE rows[j]]
  /\ CommitVendor(c, IF handler[c].mark = "revoked" THEN "revoked" ELSE "agent-ready",
                  handler[c].domains \cup handler[c].domain)
  /\ Finish(c)
  /\ UNCHANGED <<published, proven>>
  /\ Watch

CommitVerifyAnyway(c) ==
  LET i == handler[c].row IN
  /\ handler[c].op = "proved"
  /\ Added(i) /\ ~RowHeld(c, i)
  /\ rows' = [rows EXCEPT ![i].verified = TRUE]
  /\ CommitVendor(c, "agent-ready", handler[c].domains \cup handler[c].domain)
  /\ Finish(c)
  /\ UNCHANGED <<published, proven>>
  /\ Watch

(* The mark this call decides on is the one it loaded before the lookup. *)
CommitVerify(c) ==
  LET i == handler[c].row IN
  /\ handler[c].op = "proved"
  /\ Added(i) /\ ~RowHeld(c, i)
  /\ rows' = [rows EXCEPT ![i].verified = TRUE]
  /\ CommitVendor(c, IF handler[c].mark = "revoked" THEN "revoked" ELSE "agent-ready",
                  handler[c].domains \cup handler[c].domain)
  /\ Finish(c)
  /\ UNCHANGED <<published, proven>>
  /\ Watch

(* The row was removed meanwhile: the update matches no row, the call fails. *)
VerifyTooLate(c) ==
  /\ handler[c].op = "proved"
  /\ ~Added(handler[c].row)
  /\ Finish(c)
  /\ UNCHANGED <<mark, domains, rows, published, proven>>
  /\ Watch

(* remove_domain selects a row of the domain, if there is one ... *)
StartRemove(c, d) ==
  /\ handler[c].op = "entered"
  /\ \/ RowsOf({d}) = {} /\ GoOn(c, "removing", 0, {d}, "unverified")
     \/ \E i \in RowsOf({d}) : GoOn(c, "removing", i, {d}, "unverified")
  /\ UNCHANGED <<mark, domains, rows, published, proven>>
  /\ Watch

(* Mutant of FlushRemove: without the flush it still sees its own row. *)
RecomputeBeforeFlush(c) ==
  /\ handler[c].op = "removing"
  /\ GoOn(c, "flushed", handler[c].row, handler[c].domain,
          RecomputeMark(handler[c].mark, VerifiedRows))
  /\ UNCHANGED <<mark, domains, rows, published, proven>>
  /\ Watch

(* ... flushes its deletion and the shortened list, and recomputes the mark *)
(* from the rows it can see: its own deletion, but no other open one ...    *)
FlushRemove(c) ==
  /\ handler[c].op = "removing"
  /\ handler[c].domain \subseteq handler[c].domains => ~VendorHeld(c)
  /\ handler[c].row # 0 => ~RowHeld(c, handler[c].row)
  /\ GoOn(c, "flushed", handler[c].row, handler[c].domain,
          RecomputeMark(handler[c].mark, VerifiedRows \ {handler[c].row}))
  /\ UNCHANGED <<mark, domains, rows, published, proven>>
  /\ Watch

(* ... and commits. *)
CommitRemove(c) ==
  LET i == handler[c].row IN
  /\ handler[c].op = "flushed"
  /\ rows' = [j \in RowIds |-> IF j = i THEN [rows[j] EXCEPT !.state = "deleted"] ELSE rows[j]]
  /\ CommitVendor(c, handler[c].new, handler[c].domains \ handler[c].domain)
  /\ Finish(c)
  /\ UNCHANGED <<published, proven>>
  /\ Watch

(* update_profile replaces the public list, whatever is verified. *)
UpdateProfile(c, list) ==
  /\ handler[c].op = "entered"
  /\ CommitVendor(c, handler[c].mark, list)
  /\ Finish(c)
  /\ UNCHANGED <<rows, published, proven>>
  /\ Watch

(* revoke_mark, the operator's. *)
RevokeMark(c) ==
  /\ handler[c].op = "entered"
  /\ CommitVendor(c, "revoked", handler[c].domains)
  /\ Finish(c)
  /\ UNCHANGED <<rows, published, proven>>
  /\ Watch

(* reinstate_mark clears the mark, recomputes it, and commits. *)
StartReinstate(c) ==
  /\ handler[c].op = "entered"
  /\ GoOn(c, "reinstating", 0, {}, RecomputeMark("unverified", VerifiedRows))
  /\ UNCHANGED <<mark, domains, rows, published, proven>>
  /\ Watch

CommitReinstate(c) ==
  /\ handler[c].op = "reinstating"
  /\ CommitVendor(c, handler[c].new, handler[c].domains)
  /\ Finish(c)
  /\ UNCHANGED <<rows, published, proven>>
  /\ Watch

-----------------------------------------------------------------------------
MarkNext ==
  \/ \E c \in Calls :
       \/ Enter(c) \/ Leave(c) \/ FindChallenge(c) \/ MissChallenge(c)
       \/ CommitVerify(c) \/ VerifyTooLate(c) \/ FlushRemove(c) \/ CommitRemove(c)
       \/ RevokeMark(c) \/ StartReinstate(c) \/ CommitReinstate(c)
  \/ \E c \in Calls, d \in Domains : StartAdd(c, d) \/ StartRemove(c, d)
  \/ \E c \in Calls, i \in RowIds : CommitAdd(c, i) \/ StartVerify(c, i)
  \/ \E c \in Calls, list \in SUBSET Domains : UpdateProfile(c, list)
  \/ \E i \in RowIds : Publish(i) \/ Withdraw(i)


MarkSpec == MarkInit /\ [][MarkNext]_markVars
-----------------------------------------------------------------------------
(* The vendor's row, the domain rows and the calls hold values of their type. *)
MarkTypeOK ==
  /\ mark \in Marks
  /\ domains \subseteq Domains
  /\ rows \in RowsType
  /\ published \subseteq RowIds
  /\ proven \subseteq RowIds
  /\ handler \in HandlerRecords
  /\ overlapped \in BOOLEAN

(***************************************************************************)
(* A domain row reads verified only if the challenge drawn for that very   *)
(* row was found at its domain: a verification overtaken by a removal and  *)
(* a new addition of the domain does not verify the new row, whose token   *)
(* nobody has published.  manage.py:1148-1164.                             *)
(***************************************************************************)
VerifiedWasProven == \A i \in RowIds : rows[i].verified => i \in proven

(***************************************************************************)
(* However verifications, removals, revocations and reinstatements         *)
(* overlap, a vendor that never proved control of any domain never bears   *)
(* the mark.  manage.py:1166-1172, services.py:44-62.                      *)
(***************************************************************************)
MarkWasEarned == mark = "agent-ready" => proven # {}

(***************************************************************************)
(* "Sticky `revoked` state" (CHANGELOG.md:93): only the operator lifts a   *)
(* revocation, or a call that loaded the vendor before it.  No call that   *)
(* saw the mark revoked writes another.  manage.py:1169-1172,              *)
(* services.py:50-51.                                                      *)
(***************************************************************************)
Lifts(c) == handler[c].op = "reinstating" \/ handler[c].mark # "revoked"
RevocationHolds ==
  [][mark = "revoked" /\ mark' # "revoked" =>
       \E c \in Calls : handler[c].op # "idle" /\ handler'[c].op = "idle" /\ Lifts(c)]_markVars

(***************************************************************************)
(* The mark falls back when no verified domain remains "unless the vendor  *)
(* is operator-revoked" (manage.py:1185-1187).  A removal that loaded the  *)
(* vendor while it was still unverified breaks it: its recomputed mark     *)
(* equals the one it loaded, so nothing is written and the mark a          *)
(* verification granted meanwhile stays.                                   *)
(***************************************************************************)
Quiet == \A c \in Calls : handler[c].op \in {"idle", "entered"}
MarkNeedsDomain == Quiet /\ mark = "agent-ready" => VerifiedRows # {}

(***************************************************************************)
(* Mark and verified domains agree between calls, in both directions       *)
(* ("Verifying any domain grants the agent-ready mark", manage.py:1166),   *)
(* through any sequence of additions, verifications, removals, revocations *)
(* and reinstatements of which no two overlapped.  Those that overlap may  *)
(* lose the mark as well: a verification that loaded the vendor before a   *)
(* removal took the mark away writes none, and nothing recomputes it.      *)
(***************************************************************************)
MarkFollowsDomains ==
  Quiet /\ ~overlapped =>
    /\ mark = "agent-ready" => VerifiedRows # {}
    /\ VerifiedRows # {} => mark # "unverified"
-----------------------------------------------------------------------------
(* What a call has loaded, found or decided to write is itself accounted for. *)
HandlersInv ==
  \A c \in Calls :
    /\ handler[c].op = "proved" => handler[c].row \in proven
    /\ handler[c].mark = "agent-ready" => proven # {}
    /\ handler[c].new = "agent-ready" => proven # {}
    /\ handler[c].op = "flushed" /\ handler[c].mark = "revoked" => handler[c].new = "revoked"

MarkInv == MarkTypeOK /\ VerifiedWasProven /\ MarkWasEarned /\ HandlersInv

(* Mark and verified domains agree, in both directions. *)
Agree ==
  /\ mark = "agent-ready" => VerifiedRows # {}
  /\ VerifiedRows # {} => mark # "unverified"

(* A call in flight alone loaded the vendor as it still is, and the mark it *)
(* has recomputed is the one the rows will earn at its commit.              *)
LoneCall(c) ==
  InFlight(c) =>
    /\ handler[c].mark = mark
    /\ handler[c].op = "flushed" =>
         handler[c].new = RecomputeMark(mark, VerifiedRows \ {handler[c].row})
    /\ handler[c].op = "reinstating" =>
         handler[c].new = RecomputeMark("unverified", VerifiedRows)

AloneInv == ~overlapped => ~Overlap /\ Agree /\ \A c \in Calls : LoneCall(c)
=============================================================================
