----------------------------- MODULE AccessKeys -----------------------------
(***************************************************************************)
(* The access-key component of the network API: a buyer files a request,   *)
(* the network grants it automatically or leaves it to the vendor's owner, *)
(* who approves or denies it; the owner revokes keys; a buyer reads        *)
(* artifacts with a key or reclaims a lost one by e-mail.                  *)
(*                                                                         *)
(* Every HTTP call runs in a thread of its own, with a database session of *)
(* its own.  No row is locked and none carries a version, so a call acts   *)
(* on the rows it loaded, whatever was committed since; its commit writes  *)
(* the columns whose value it changed and no other (db.py, autoflush and   *)
(* expire_on_commit both off).  A call is therefore two or more steps: it  *)
(* loads, then it commits.  What it holds in between is its record in      *)
(* intake, owner, reclaim or reader.                                       *)
(***************************************************************************)
EXTENDS Naturals, FiniteSets

CONSTANTS
  MaxRequests,   \* bound: requests ever filed; request r is the r-th filed
  Keys,          \* bound: key ids the network can mint
  Artifacts,     \* the vendor's artifacts
  Limits,        \* artifact lists a request or an approval may name
  Forms,         \* what a buyer may submit
  Policies,      \* auto-release settings the vendor may have
  OwnerCalls,    \* slots for concurrent approve and deny calls
  ReclaimCalls,  \* slots for concurrent reclaim calls
  ReaderCalls,   \* slots for concurrent reads with a key
  MaxTime,       \* bound on the clock
  KeyTtl,        \* life of a key
  UrlTtl,        \* life of a signed download URL
  MaxUrls,       \* bound: signed URLs ever handed out
  NoKey          \* access_key_id is NULL

ASSUME BoundsAssumption ==
  /\ MaxRequests \in Nat /\ MaxTime \in Nat /\ MaxUrls \in Nat
  /\ KeyTtl \in Nat /\ UrlTtl \in Nat
ASSUME LimitsAssumption == Limits \subseteq SUBSET Artifacts

(***************************************************************************)
(* A form: who asks (by e-mail), which artifacts (none named means all of  *)
(* them), and the evidence the auto-release rules look at: whether the     *)
(* domain is on the vendor's allowlist, whether a contract came along (its *)
(* route takes no list) and whether the NDA was accepted.                  *)
(***************************************************************************)
ASSUME FormsAssumption ==
  \A f \in Forms :
    /\ DOMAIN f = {"contact", "limit", "listed", "contract", "nda"}
    /\ f.limit \in Limits
    /\ f.contract => f.limit = {}
    /\ f.listed \in BOOLEAN /\ f.contract \in BOOLEAN /\ f.nda \in BOOLEAN
ASSUME NoKeyAssumption == NoKey \notin Keys
ASSUME PoliciesAssumption ==
  Policies \subseteq
    [nda : BOOLEAN, onContract : BOOLEAN, onCrm : BOOLEAN, agent : BOOLEAN]

VARIABLES
  policy,    \* the vendor's settings
  requests,  \* table key_requests
  keys,      \* table access_keys
  intake,    \* the call that filed each request
  owner,     \* approve and deny calls in flight
  reclaim,   \* reclaim calls in flight
  reader,    \* reads with a key in flight
  trail,     \* audit rows "read.artifact": pairs of a key and an artifact
  urls,      \* signed URLs handed to buyers
  now        \* the clock

vars == <<policy, requests, keys, intake, owner, reclaim, reader, trail, urls, now>>

RequestIds == 1 .. MaxRequests

NoForm == [contact |-> "nobody"]

Requests ==
  [status : {"unfiled", "pending", "granted", "denied"},
   form : Forms \cup {NoForm}, key : Keys \cup {NoKey}, auto : BOOLEAN]

(***************************************************************************)
(* origin, how and revokedAt are history: the request a key was minted     *)
(* for, the path it was minted on, and when it was first revoked.          *)
(***************************************************************************)
KeyRows ==
  [status : {"unminted", "granted", "revoked"}, limit : SUBSET Artifacts,
   expires : Nat, used : BOOLEAN,
   origin : 0 .. MaxRequests, revokedAt : Nat,
   how : {"none", "auto", "approved", "overridden", "reclaimed"}]

Unminted ==
  [status |-> "unminted", limit |-> {}, expires |-> 0, used |-> FALSE,
   origin |-> 0, how |-> "none", revokedAt |-> 0]

(* The artifacts a list lets a key read: an empty list restricts nothing. *)
Reach(limit) == IF limit = {} THEN Artifacts ELSE limit

-----------------------------------------------------------------------------
(***************************************************************************)
(* The auto-release decision.  crm is the answer of the vendor's CRM:      *)
(* "found", "absent" or, not configured or failing, "unknown".  The agent  *)
(* asks the CRM a second time and may get another answer.                  *)
(***************************************************************************)
CrmAnswers == {"found", "absent", "unknown"}

AutoReleaseReason(f, crm) ==
  \/ f.listed
  \/ policy.onContract /\ f.contract
  \/ policy.onCrm /\ crm = "found"

Positives(f, crm) ==
  (IF f.listed THEN 2 ELSE 0) + (IF f.contract THEN 1 ELSE 0)
    + (IF policy.nda /\ f.nda THEN 1 ELSE 0) + (IF crm = "found" THEN 2 ELSE 0)

Recommend(f, crm) ==
  CASE crm = "absent" /\ Positives(f, crm) = 0 -> "caution"
    [] Positives(f, crm) >= 2                  -> "approve"
    [] OTHER                                   -> "review"

ReleasedAutomatically(f, crm, crm2) ==
  AutoReleaseReason(f, crm) \/ (policy.agent /\ Recommend(f, crm2) = "approve")

(***************************************************************************)
(* mint_key: a fresh row, granted, expiring KeyTtl from now.               *)
(***************************************************************************)
MintKey(k, r, limit, how) ==
  /\ keys[k].status = "unminted"
  /\ keys' = [keys EXCEPT ![k] =
       [status |-> "granted", limit |-> limit, expires |-> now + KeyTtl,
        used |-> FALSE, origin |-> r, how |-> how, revokedAt |-> 0]]

(* Mutant of GrantTo: access_key_id left out. *)
GrantToNoKey(row, k) == [row EXCEPT !.status = "granted"]

(* The columns a grant writes to the request's row, in the same commit. *)
GrantTo(row, k) == [row EXCEPT !.status = "granted", !.key = k]

-----------------------------------------------------------------------------
Idle == [op |-> "idle", req |-> 0, seen |-> "unfiled"]
NotReading == [pc |-> "idle", key |-> NoKey, artifact |-> {}, since |-> 0]

Init ==
  /\ policy \in Policies
  /\ requests = [r \in RequestIds |->
       [status |-> "unfiled", form |-> NoForm, key |-> NoKey, auto |-> FALSE]]
  /\ keys = [k \in Keys |-> Unminted]
  /\ intake = [r \in RequestIds |-> "idle"]
  /\ owner = [o \in OwnerCalls |-> Idle]
  /\ reclaim = [c \in ReclaimCalls |-> 0]
  /\ reader = [b \in ReaderCalls |-> NotReading]
  /\ trail = {}
  /\ urls = {}
  /\ now = 0

-----------------------------------------------------------------------------
(* Mutant of FileRequest: no NDA gate. *)
FileRequestNoNda(r, f) ==
  /\ requests[r].status = "unfiled"
  /\ \A q \in RequestIds : q < r => requests[q].status # "unfiled"
  /\ requests' = [requests EXCEPT ![r] =
       [status |-> "pending", form |-> f, key |-> NoKey, auto |-> FALSE]]
  /\ intake' = [intake EXCEPT ![r] = "deciding"]
  /\ UNCHANGED <<policy, keys, owner, reclaim, reader, trail, urls, now>>

(***************************************************************************)
(* POST /keys/request and /keys/request-with-contract: past the NDA gate,  *)
(* the pending row is committed first; the auto-release decision, which    *)
(* waits for the CRM, comes after, in the same call.                       *)
(***************************************************************************)
FileRequest(r, f) ==
  /\ requests[r].status = "unfiled"
  /\ \A q \in RequestIds : q < r => requests[q].status # "unfiled"
  /\ policy.nda => f.nda
  /\ requests' = [requests EXCEPT ![r] =
       [status |-> "pending", form |-> f, key |-> NoKey, auto |-> FALSE]]
  /\ intake' = [intake EXCEPT ![r] = "deciding"]
  /\ UNCHANGED <<policy, keys, owner, reclaim, reader, trail, urls, now>>

(* The row it filed is still "pending" to this session: the commit writes  *)
(* "granted" and the new key over whatever the owner decided meanwhile.    *)
AutoGrant(r, k) ==
  /\ intake[r] = "deciding"
  /\ \E crm, crm2 \in CrmAnswers : ReleasedAutomatically(requests[r].form, crm, crm2)
  /\ MintKey(k, r, requests[r].form.limit, "auto")
  /\ requests' = [requests EXCEPT ![r] = [GrantTo(@, k) EXCEPT !.auto = TRUE]]
  /\ intake' = [intake EXCEPT ![r] = "done"]
  /\ UNCHANGED <<policy, owner, reclaim, reader, trail, urls, now>>

(* No rule released it, or the process stopped between the two commits. *)
LeavePending(r) ==
  /\ intake[r] = "deciding"
  /\ intake' = [intake EXCEPT ![r] = "done"]
  /\ UNCHANGED <<policy, requests, keys, owner, reclaim, reader, trail, urls, now>>

-----------------------------------------------------------------------------
(* Mutant of LoadApproval: no 409. *)
LoadApprovalOfAny(o, r) ==
  /\ owner[o].op = "idle"
  /\ requests[r].status # "unfiled"
  /\ owner' = [owner EXCEPT ![o] =
       [op |-> "approving", req |-> r, seen |-> requests[r].status]]
  /\ UNCHANGED <<policy, requests, keys, intake, reclaim, reader, trail, urls, now>>

(* approve_key_request loads the row; one that is not pending is a 409. *)
LoadApproval(o, r) ==
  /\ owner[o].op = "idle"
  /\ requests[r].status = "pending"
  /\ owner' = [owner EXCEPT ![o] = [op |-> "approving", req |-> r, seen |-> "pending"]]
  /\ UNCHANGED <<policy, requests, keys, intake, reclaim, reader, trail, urls, now>>

(* Mutant of GrantedLimit: the request's list is not inherited. *)
GrantedLimitOwn(r, own) == own

(* The owner may name a list of their own; an empty one inherits the       *)
(* request's list, so that a limited request is not silently widened.      *)
GrantedLimit(r, own) == IF own # {} THEN own ELSE requests[r].form.limit

CommitApproval(o, k, own) ==
  LET r == owner[o].req IN
  /\ owner[o].op = "approving"
  /\ MintKey(k, r, GrantedLimit(r, own), IF own # {} THEN "overridden" ELSE "approved")
  /\ requests' = [requests EXCEPT ![r] = GrantTo(@, k)]
  /\ owner' = [owner EXCEPT ![o] = Idle]
  /\ UNCHANGED <<policy, intake, reclaim, reader, trail, urls, now>>

(* deny_key_request loads the row and does not look at its status. *)
LoadDenial(o, r) ==
  /\ owner[o].op = "idle"
  /\ requests[r].status # "unfiled"
  /\ owner' = [owner EXCEPT ![o] =
       [op |-> "denying", req |-> r, seen |-> requests[r].status]]
  /\ UNCHANGED <<policy, requests, keys, intake, reclaim, reader, trail, urls, now>>

(* Assigning the status the row was loaded with writes no column. *)
CommitDenial(o) ==
  LET r == owner[o].req IN
  /\ owner[o].op = "denying"
  /\ requests' = IF owner[o].seen = "denied" THEN requests
                 ELSE [requests EXCEPT ![r].status = "denied"]
  /\ owner' = [owner EXCEPT ![o] = Idle]
  /\ UNCHANGED <<policy, keys, intake, reclaim, reader, trail, urls, now>>

(* revoke_key: nothing else writes the status of a minted key, so loading  *)
(* the row and committing it are one step.  Revoking a key again only      *)
(* moves its revoked_at, which nothing reads.                              *)
Revoked(row) == [row EXCEPT !.status = "revoked", !.revokedAt = now]

Revoke(k) ==
  /\ keys[k].status = "granted"
  /\ keys' = [keys EXCEPT ![k] = Revoked(@)]
  /\ UNCHANGED <<policy, requests, intake, owner, reclaim, reader, trail, urls, now>>

-----------------------------------------------------------------------------
(* reclaim_access picks the newest granted request with the e-mail given ... *)
Granted(c) ==
  {r \in RequestIds : requests[r].status = "granted" /\ requests[r].form.contact = c}

LoadReclaim(i, r) ==
  /\ reclaim[i] = 0
  /\ requests[r].status = "granted"
  /\ \A q \in Granted(requests[r].form.contact) : q <= r
  /\ reclaim' = [reclaim EXCEPT ![i] = r]
  /\ UNCHANGED <<policy, requests, keys, intake, owner, reader, trail, urls, now>>

(* Mutant of CommitReclaim: the new key carries no list. *)
CommitReclaimUnlimited(i, k) ==
  /\ reclaim[i] # 0
  /\ MintKey(k, reclaim[i], {}, "reclaimed")
  /\ reclaim' = [reclaim EXCEPT ![i] = 0]
  /\ UNCHANGED <<policy, requests, intake, owner, reader, trail, urls, now>>

(* ... and mints a key with that request's list, linking it to nothing. *)
CommitReclaim(i, k) ==
  /\ reclaim[i] # 0
  /\ MintKey(k, reclaim[i], requests[reclaim[i]].form.limit, "reclaimed")
  /\ reclaim' = [reclaim EXCEPT ![i] = 0]
  /\ UNCHANGED <<policy, requests, intake, owner, reader, trail, urls, now>>

-----------------------------------------------------------------------------
(* Mutant of Authenticate: the status is not looked at. *)
AuthenticateRevoked(b, k) ==
  /\ reader[b].pc = "idle"
  /\ keys[k].status # "unminted"
  /\ now <= keys[k].expires
  /\ reader' = [reader EXCEPT ![b] =
       [pc |-> "authenticated", key |-> k, artifact |-> {}, since |-> now]]
  /\ UNCHANGED <<policy, requests, keys, intake, owner, reclaim, trail, urls, now>>

(* authenticate_key: the key exists, is not revoked and has not expired. *)
Authenticate(b, k) ==
  /\ reader[b].pc = "idle"
  /\ keys[k].status = "granted"
  /\ now <= keys[k].expires
  /\ reader' = [reader EXCEPT ![b] =
       [pc |-> "authenticated", key |-> k, artifact |-> {}, since |-> now]]
  /\ UNCHANGED <<policy, requests, keys, intake, owner, reclaim, trail, urls, now>>

(* Mutant of TouchKey: the row is written back as it was loaded. *)
TouchKeyWholeRow(b) ==
  LET k == reader[b].key IN
  /\ reader[b].pc = "authenticated"
  /\ keys' = [keys EXCEPT ![k].used = TRUE, ![k].status = "granted"]
  /\ reader' = [reader EXCEPT ![b].pc = "scoped"]
  /\ UNCHANGED <<policy, requests, intake, owner, reclaim, trail, urls, now>>

(* require_scope commits last_used_at, and that column only. *)
TouchKey(b) ==
  LET k == reader[b].key IN
  /\ reader[b].pc = "authenticated"
  /\ keys' = [keys EXCEPT ![k].used = TRUE]
  /\ reader' = [reader EXCEPT ![b].pc = "scoped"]
  /\ UNCHANGED <<policy, requests, intake, owner, reclaim, trail, urls, now>>

(* 403 for a key without the scope or an artifact off its list, 404, 409. *)
Refuse(b) ==
  /\ reader[b].pc \in {"authenticated", "scoped"}
  /\ reader' = [reader EXCEPT ![b] = NotReading]
  /\ UNCHANGED <<policy, requests, keys, intake, owner, reclaim, trail, urls, now>>

(* Mutant of LogRead: the read is not logged. *)
LogReadSilently(b, a) ==
  LET k == reader[b].key IN
  /\ reader[b].pc = "scoped"
  /\ a \in Reach(keys[k].limit)
  /\ reader' = [reader EXCEPT ![b].pc = "logged", ![b].artifact = {a}]
  /\ UNCHANGED <<policy, requests, keys, intake, owner, reclaim, trail, urls, now>>

(* get_artifact: the key's list allows the artifact; the read is logged ... *)
LogRead(b, a) ==
  LET k == reader[b].key IN
  /\ reader[b].pc = "scoped"
  /\ a \in Reach(keys[k].limit)
  /\ trail' = trail \cup {<<k, a>>}
  /\ reader' = [reader EXCEPT ![b].pc = "logged", ![b].artifact = {a}]
  /\ UNCHANGED <<policy, requests, keys, intake, owner, reclaim, urls, now>>

(* ... and the answer carries a URL good for UrlTtl from now, whatever     *)
(* became of the key while the call ran.                                   *)
SignUrl(b) ==
  /\ reader[b].pc = "logged"
  /\ Cardinality(urls) < MaxUrls
  /\ urls' = urls \cup {[key |-> reader[b].key, artifact |-> a,
                         since |-> reader[b].since, exp |-> now + UrlTtl] :
                        a \in reader[b].artifact}
  /\ reader' = [reader EXCEPT ![b] = NotReading]
  /\ UNCHANGED <<policy, requests, keys, intake, owner, reclaim, trail, now>>

(* verify_local refuses a token past its exp: the URL is dead. *)
ExpireUrl(u) ==
  /\ u.exp < now
  /\ urls' = urls \ {u}
  /\ UNCHANGED <<policy, requests, keys, intake, owner, reclaim, reader, trail, now>>

Tick ==
  /\ now < MaxTime
  /\ now' = now + 1
  /\ UNCHANGED <<policy, requests, keys, intake, owner, reclaim, reader, trail, urls>>

-----------------------------------------------------------------------------
Next ==
  \/ \E r \in RequestIds, f \in Forms : FileRequest(r, f)
  \/ \E r \in RequestIds, k \in Keys : AutoGrant(r, k)
  \/ \E r \in RequestIds : LeavePending(r)
  \/ \E o \in OwnerCalls, r \in RequestIds : LoadApproval(o, r) \/ LoadDenial(o, r)
  \/ \E o \in OwnerCalls, k \in Keys, own \in Limits : CommitApproval(o, k, own)
  \/ \E o \in OwnerCalls : CommitDenial(o)
  \/ \E k \in Keys : Revoke(k)
  \/ \E i \in ReclaimCalls, r \in RequestIds : LoadReclaim(i, r)
  \/ \E i \in ReclaimCalls, k \in Keys : CommitReclaim(i, k)
  \/ \E b \in ReaderCalls, k \in Keys : Authenticate(b, k)
  \/ \E b \in ReaderCalls : TouchKey(b) \/ Refuse(b) \/ SignUrl(b)
  \/ \E b \in ReaderCalls, a \in Artifacts : LogRead(b, a)
  \/ \E u \in urls : ExpireUrl(u)
  \/ Tick

Spec == Init /\ [][Next]_vars
-----------------------------------------------------------------------------
OwnerRecords ==
  [OwnerCalls ->
     [op : {"idle", "approving", "denying"}, req : 0 .. MaxRequests,
      seen : {"unfiled", "pending", "granted", "denied"}]]

ReaderRecords ==
  [ReaderCalls ->
     [pc : {"idle", "authenticated", "scoped", "logged"}, key : Keys \cup {NoKey},
      artifact : SUBSET Artifacts, since : Nat]]

(* Every row and every call in flight holds values of its type. *)
TypeOK ==
  /\ policy \in Policies
  /\ requests \in [RequestIds -> Requests]
  /\ keys \in [Keys -> KeyRows]
  /\ intake \in [RequestIds -> {"idle", "deciding", "done"}]
  /\ owner \in OwnerRecords
  /\ reclaim \in [ReclaimCalls -> 0 .. MaxRequests]
  /\ reader \in ReaderRecords
  /\ trail \subseteq Keys \X Artifacts
  /\ urls \subseteq [key : Keys, artifact : Artifacts, since : Nat, exp : Nat]
  /\ now \in Nat

Minted(k) == keys[k].status # "unminted"

(***************************************************************************)
(* A request that reads "granted" names a key that exists and was minted   *)
(* for that very request, whichever of two approvals, an automatic grant   *)
(* and a denial committed last: status and key are always committed        *)
(* together.  keys.py:107-112, manage.py:1650-1654.                        *)
(***************************************************************************)
GrantIsBacked ==
  \A r \in RequestIds : requests[r].status = "granted" =>
    /\ requests[r].key \in Keys
    /\ Minted(requests[r].key)
    /\ keys[requests[r].key].origin = r

(***************************************************************************)
(* Where the vendor requires an NDA, no key exists without one: on every   *)
(* path, reclaim included, the key goes back to a request that accepted    *)
(* it.  keys.py:54-64.                                                     *)
(***************************************************************************)
NdaBeforeKey ==
  policy.nda => \A k \in Keys : Minted(k) =>
    /\ keys[k].origin \in RequestIds
    /\ requests[keys[k].origin].form \in Forms
    /\ requests[keys[k].origin].form.nda

(***************************************************************************)
(* "A limited request is NOT silently widened" (manage.py:1635-1639):      *)
(* unless the owner named a list, every URL ever signed is for an artifact *)
(* the buyer's request asked for, on the automatic, the manual and the     *)
(* reclaim path alike.                                                     *)
(***************************************************************************)
LimitKept ==
  \A u \in urls : keys[u.key].how # "overridden" =>
    u.artifact \in Reach(requests[keys[u.key].origin].form.limit)

(***************************************************************************)
(* Revocation and expiry cut reads off (security.py:84-90): a URL that     *)
(* exists was asked for before its key expired and before it was revoked;  *)
(* a read that was already past authentication may still be answered.      *)
(***************************************************************************)
ReadsStopAtTheCut ==
  \A u \in urls :
    /\ u.since <= keys[u.key].expires
    /\ keys[u.key].status = "revoked" => u.since <= keys[u.key].revokedAt

(***************************************************************************)
(* Every read is logged (docs/vendor-guide.md:79): a buyer holds a URL     *)
(* only if the audit trail names the key and the artifact, even if the     *)
(* call that signed it was overtaken by others.                            *)
(***************************************************************************)
EveryReadIsLogged == \A u \in urls : <<u.key, u.artifact>> \in trail

(***************************************************************************)
(* A revoked key is never granted again, although a read in flight holds   *)
(* the row as it was before and commits it (security.py:108-110).          *)
(***************************************************************************)
RevokedStaysRevoked ==
  [][\A k \in Keys : keys[k].status = "revoked" =>
       keys[k]'.status = "revoked" /\ keys[k]'.revokedAt = keys[k].revokedAt]_vars

(***************************************************************************)
(* "request already denied" is a 409 (manage.py:1631-1632): a denial is    *)
(* overwritten only by a call that was under way and had seen the request  *)
(* pending, an approval or the intake that filed it.                       *)
(***************************************************************************)
DenialHolds ==
  [][\A r \in RequestIds :
       requests[r].status = "denied" /\ requests'[r].status # "denied" =>
         \/ intake[r] = "deciding"
         \/ \E o \in OwnerCalls :
              owner[o].op = "approving" /\ owner[o].req = r /\ owner[o].seen = "pending"]_vars

(***************************************************************************)
(* "You can revoke any key at any time; reads stop immediately"            *)
(* (docs/private-public-docs.md:28): once the key of a request is revoked, *)
(* the buyer who made the request reads nothing more on the strength of    *)
(* it.  The code breaks it: reclaim does not ask what became of the key a  *)
(* granted request got, and mints its buyer another.                       *)
(***************************************************************************)
RevokingEndsAccess ==
  \A k \in Keys, u \in urls :
    keys[k].status = "revoked" /\ keys[k].origin = keys[u.key].origin
      => u.since <= keys[k].revokedAt
-----------------------------------------------------------------------------
(***************************************************************************)
(* The inductive invariant.  What a URL may show depends on what the read  *)
(* that signed it had established, that on how its key was minted, and     *)
(* that on the request the minting call was about: Inv follows the chain   *)
(* backwards.                                                              *)
(***************************************************************************)
(* A request that was filed carries a form, and the NDA where one is due. *)
RequestsInv ==
  \A r \in RequestIds : requests[r].status # "unfiled" =>
    /\ requests[r].form \in Forms
    /\ policy.nda => requests[r].form.nda

Filed(r) == r \in RequestIds /\ requests[r].status # "unfiled"

(* A call in flight is about a request that was filed; an approval saw it  *)
(* pending.                                                                *)
CallsInv ==
  /\ \A r \in RequestIds : intake[r] = "deciding" => Filed(r)
  /\ \A o \in OwnerCalls :
       /\ owner[o].op # "idle" => Filed(owner[o].req)
       /\ owner[o].op = "approving" => owner[o].seen = "pending"
  /\ \A i \in ReclaimCalls : reclaim[i] # 0 => Filed(reclaim[i])

(* A key goes back to a filed request and, unless the owner named a list,  *)
(* carries that request's list.                                            *)
KeysInv ==
  \A k \in Keys : Minted(k) =>
    /\ Filed(keys[k].origin)
    /\ keys[k].how # "overridden" => keys[k].limit = requests[keys[k].origin].form.limit

(* Using key k at time t was right: t is not past its expiry or revocation. *)
LiveAt(k, t) ==
  /\ Minted(k)
  /\ t <= keys[k].expires
  /\ keys[k].status = "revoked" => t <= keys[k].revokedAt

(* A read in flight authenticated while its key was live, and has logged   *)
(* an artifact on the key's list before it signs a URL for it.             *)
ReadersInv ==
  \A b \in ReaderCalls : reader[b].pc # "idle" =>
    /\ reader[b].key \in Keys
    /\ LiveAt(reader[b].key, reader[b].since)
    /\ reader[b].since <= now
    /\ reader[b].pc = "logged" => \A a \in reader[b].artifact :
         <<reader[b].key, a>> \in trail /\ a \in Reach(keys[reader[b].key].limit)

UrlsInv ==
  \A u \in urls :
    /\ LiveAt(u.key, u.since)
    /\ u.since <= now
    /\ <<u.key, u.artifact>> \in trail
    /\ u.artifact \in Reach(keys[u.key].limit)

Inv ==
  /\ TypeOK /\ RequestsInv /\ CallsInv /\ KeysInv
  /\ GrantIsBacked /\ ReadersInv /\ UrlsInv
=============================================================================
