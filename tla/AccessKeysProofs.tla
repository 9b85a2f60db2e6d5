-------------------------- MODULE AccessKeysProofs --------------------------
(***************************************************************************)
(* Type correctness and the safety invariants of AccessKeys, for every     *)
(* value of its constants, from the inductive invariant Inv.               *)
(***************************************************************************)
EXTENDS AccessKeys, TLAPS

(* A grant keeps a request's row a request's row. *)
LEMMA GrantToType ==
  ASSUME NEW row \in Requests, NEW k \in Keys
  PROVE  GrantTo(row, k) \in Requests /\ [GrantTo(row, k) EXCEPT !.auto = TRUE] \in Requests
  <1>1. GrantTo(row, k) \in Requests
    BY DEF GrantTo, Requests
  <1> QED BY <1>1 DEF Requests

(* So does a revocation a key's row a key's row. *)
LEMMA RevokedType ==
  ASSUME NEW row \in KeyRows, now \in Nat
  PROVE  Revoked(row) \in KeyRows
  BY DEF Revoked, KeyRows

(* Minting adds one well-typed row. *)
LEMMA MintType ==
  ASSUME keys \in [Keys -> KeyRows], now \in Nat,
         NEW k \in Keys, NEW r \in RequestIds, NEW limit \in SUBSET Artifacts,
         NEW how \in {"auto", "approved", "overridden", "reclaimed"},
         MintKey(k, r, limit, how)
  PROVE  keys' \in [Keys -> KeyRows]
  <1>1. [status |-> "granted", limit |-> limit, expires |-> now + KeyTtl,
         used |-> FALSE, origin |-> r, how |-> how, revokedAt |-> 0] \in KeyRows
    BY BoundsAssumption DEF KeyRows, RequestIds
  <1> QED BY <1>1 DEF MintKey

-----------------------------------------------------------------------------
(* No key, no call and no read exists at the start. *)
LEMMA InitInv == Init => Inv
  <1> SUFFICES ASSUME Init PROVE Inv
    OBVIOUS
  <1> USE DEF Init, RequestIds
  <1>1. TypeOK
    BY BoundsAssumption DEF TypeOK, Requests, KeyRows, Unminted, Idle, NotReading,
       OwnerRecords, ReaderRecords
  <1>2. RequestsInv /\ CallsInv /\ KeysInv /\ GrantIsBacked /\ ReadersInv /\ UrlsInv
    BY DEF RequestsInv, CallsInv, KeysInv, GrantIsBacked, ReadersInv, UrlsInv,
           Minted, Unminted, Idle, NotReading, OwnerRecords, ReaderRecords
  <1> QED BY <1>1, <1>2 DEF Inv

(* What a form names is a set of artifacts. *)
LEMMA FormLimit ==
  ASSUME Inv, NEW r, Filed(r)
  PROVE  requests[r].form.limit \in SUBSET Artifacts
  BY LimitsAssumption, FormsAssumption DEF Inv, RequestsInv, Filed

(* A step of a call leaves every table and every record well typed. *)
LEMMA NextType == Inv /\ [Next]_vars => TypeOK'
  <1> SUFFICES ASSUME Inv, [Next]_vars PROVE TypeOK'
    OBVIOUS
  <1> USE DEF Inv
  <1>1. ASSUME NEW r \in RequestIds, NEW f \in Forms, FileRequest(r, f)
        PROVE  TypeOK'
    <2>1. requests' \in [RequestIds -> Requests]
      BY <1>1, BoundsAssumption DEF FileRequest, TypeOK, Requests
    <2>2. intake' \in [RequestIds -> {"idle", "deciding", "done"}]
      BY <1>1, BoundsAssumption DEF FileRequest, TypeOK
    <2> QED BY <1>1, <2>1, <2>2 DEF FileRequest, TypeOK
  <1>2. ASSUME NEW r \in RequestIds, NEW k \in Keys, AutoGrant(r, k)
        PROVE  TypeOK'
    <2>1. requests' \in [RequestIds -> Requests]
      BY <1>2, BoundsAssumption, GrantToType DEF AutoGrant, MintKey, TypeOK, CallsInv,
         Filed
    <2>2. keys' \in [Keys -> KeyRows]
      <3>1. Filed(r)
        BY <1>2 DEF AutoGrant, CallsInv
      <3> QED
        BY <1>2, <3>1, FormLimit, MintType DEF AutoGrant, TypeOK
    <2>3. intake' \in [RequestIds -> {"idle", "deciding", "done"}]
      BY <1>2, BoundsAssumption DEF AutoGrant, MintKey, TypeOK
    <2> QED BY <1>2, <2>1, <2>2, <2>3 DEF AutoGrant, TypeOK
  <1>3. ASSUME NEW r \in RequestIds, LeavePending(r)
        PROVE  TypeOK'
    <2>1. intake' \in [RequestIds -> {"idle", "deciding", "done"}]
      BY <1>3, BoundsAssumption DEF LeavePending, TypeOK
    <2> QED BY <1>3, <2>1 DEF LeavePending, TypeOK
  <1>4. ASSUME NEW o \in OwnerCalls, NEW r \in RequestIds, LoadApproval(o, r)
        PROVE  TypeOK'
    <2>1. (owner \in OwnerRecords)'
      BY <1>4, BoundsAssumption DEF LoadApproval, TypeOK, OwnerRecords, RequestIds
    <2> QED BY <1>4, <2>1 DEF LoadApproval, TypeOK
  <1>5. ASSUME NEW o \in OwnerCalls, NEW r \in RequestIds, LoadDenial(o, r)
        PROVE  TypeOK'
    <2>1. (owner \in OwnerRecords)'
      BY <1>5, BoundsAssumption DEF LoadDenial, TypeOK, OwnerRecords, RequestIds,
         Requests
    <2> QED BY <1>5, <2>1 DEF LoadDenial, TypeOK
  <1>6. ASSUME NEW o \in OwnerCalls, NEW k \in Keys, NEW own \in Limits, CommitApproval(o, k, own)
        PROVE  TypeOK'
    <2>1. requests' \in [RequestIds -> Requests]
      BY <1>6, BoundsAssumption, GrantToType DEF CommitApproval, MintKey,
         GrantedLimit, Idle, TypeOK, CallsInv, Filed
    <2>2. keys' \in [Keys -> KeyRows]
      <3>1. Filed(owner[o].req)
        BY <1>6 DEF CommitApproval, CallsInv
      <3>2. GrantedLimit(owner[o].req, own) \in SUBSET Artifacts
        BY <3>1, FormLimit, LimitsAssumption DEF GrantedLimit
      <3> QED
        BY <1>6, <3>1, <3>2, MintType DEF CommitApproval, TypeOK, Filed
    <2>3. (owner \in OwnerRecords)'
      BY <1>6, BoundsAssumption DEF CommitApproval, MintKey, GrantedLimit, Idle,
         TypeOK, OwnerRecords, RequestIds
    <2> QED BY <1>6, <2>1, <2>2, <2>3 DEF CommitApproval, TypeOK
  <1>7. ASSUME NEW o \in OwnerCalls, CommitDenial(o)
        PROVE  TypeOK'
    <2>1. requests' \in [RequestIds -> Requests]
      BY <1>7, BoundsAssumption, ZenonT(40) DEF CommitDenial, Idle, TypeOK, Requests
    <2>2. (owner \in OwnerRecords)'
      BY <1>7, BoundsAssumption DEF CommitDenial, Idle, TypeOK, OwnerRecords, RequestIds
    <2> QED BY <1>7, <2>1, <2>2 DEF CommitDenial, TypeOK
  <1>8. ASSUME NEW k \in Keys, Revoke(k)
        PROVE  TypeOK'
    <2>1. keys' \in [Keys -> KeyRows]
      BY <1>8, RevokedType DEF Revoke, TypeOK
    <2> QED BY <1>8, <2>1 DEF Revoke, TypeOK
  <1>9. ASSUME NEW i \in ReclaimCalls, NEW r \in RequestIds, LoadReclaim(i, r)
        PROVE  TypeOK'
    <2>1. reclaim' \in [ReclaimCalls -> 0 .. MaxRequests]
      BY <1>9, BoundsAssumption DEF LoadReclaim, TypeOK, RequestIds
    <2> QED BY <1>9, <2>1 DEF LoadReclaim, TypeOK
  <1>10. ASSUME NEW i \in ReclaimCalls, NEW k \in Keys, CommitReclaim(i, k)
        PROVE  TypeOK'
    <2>1. keys' \in [Keys -> KeyRows]
      BY <1>10, FormLimit, MintType DEF CommitReclaim, TypeOK, CallsInv, Filed
    <2>2. reclaim' \in [ReclaimCalls -> 0 .. MaxRequests]
      BY <1>10, BoundsAssumption DEF CommitReclaim, MintKey, TypeOK, RequestIds
    <2> QED BY <1>10, <2>1, <2>2 DEF CommitReclaim, TypeOK
  <1>11. ASSUME NEW b \in ReaderCalls, NEW k \in Keys, Authenticate(b, k)
        PROVE  TypeOK'
    <2>1. (reader \in ReaderRecords)'
      BY <1>11, BoundsAssumption DEF Authenticate, TypeOK, ReaderRecords, ReadersInv
    <2> QED BY <1>11, <2>1 DEF Authenticate, TypeOK
  <1>12. ASSUME NEW b \in ReaderCalls, TouchKey(b)
        PROVE  TypeOK'
    <2>1. keys' \in [Keys -> KeyRows]
      BY <1>12, BoundsAssumption, ZenonT(40) DEF TouchKey, TypeOK, KeyRows, RequestIds
    <2>2. (reader \in ReaderRecords)'
      BY <1>12, BoundsAssumption DEF TouchKey, TypeOK, ReaderRecords, ReadersInv
    <2> QED BY <1>12, <2>1, <2>2 DEF TouchKey, TypeOK
  <1>13. ASSUME NEW b \in ReaderCalls, Refuse(b)
        PROVE  TypeOK'
    <2>1. (reader \in ReaderRecords)'
      BY <1>13, BoundsAssumption DEF Refuse, NotReading, TypeOK, ReaderRecords,
         ReadersInv
    <2> QED BY <1>13, <2>1 DEF Refuse, TypeOK
  <1>14. ASSUME NEW b \in ReaderCalls, SignUrl(b)
        PROVE  TypeOK'
    <2>1. (urls \subseteq [key : Keys, artifact : Artifacts, since : Nat, exp : Nat])'
      <3> SUFFICES ASSUME NEW u \in urls'
                   PROVE  u \in [key : Keys, artifact : Artifacts, since : Nat, exp : Nat]
        OBVIOUS
      <3>1. CASE u \in urls
        BY <3>1 DEF TypeOK
      <3>2. CASE u \notin urls
        <4>1. PICK a \in reader[b].artifact :
                u = [key |-> reader[b].key, artifact |-> a,
                     since |-> reader[b].since, exp |-> now + UrlTtl]
          BY <1>14, <3>2 DEF SignUrl
        <4> QED
          BY <1>14, <4>1, BoundsAssumption DEF SignUrl, TypeOK, ReaderRecords,
             ReadersInv
      <3> QED BY <3>1, <3>2
    <2>2. (reader \in ReaderRecords)'
      BY <1>14, BoundsAssumption DEF SignUrl, NotReading, TypeOK, ReaderRecords,
         ReadersInv
    <2> QED BY <1>14, <2>1, <2>2 DEF SignUrl, TypeOK
  <1>15. ASSUME NEW b \in ReaderCalls, NEW a \in Artifacts, LogRead(b, a)
        PROVE  TypeOK'
    <2>1. trail' \subseteq Keys \X Artifacts
      BY <1>15, BoundsAssumption DEF LogRead, TypeOK, ReadersInv
    <2>2. (reader \in ReaderRecords)'
      BY <1>15, BoundsAssumption, ZenonT(40) DEF LogRead, TypeOK, ReaderRecords, ReadersInv
    <2> QED BY <1>15, <2>1, <2>2 DEF LogRead, TypeOK
  <1>16. ASSUME NEW u \in urls, ExpireUrl(u)
        PROVE  TypeOK'
    <2>1. (urls \subseteq [key : Keys, artifact : Artifacts, since : Nat, exp : Nat])'
      BY <1>16, BoundsAssumption DEF ExpireUrl, TypeOK, ReadersInv
    <2> QED BY <1>16, <2>1 DEF ExpireUrl, TypeOK
  <1>17. CASE Tick
    BY <1>17 DEF Tick, TypeOK
  <1>18. CASE UNCHANGED vars
    BY <1>18 DEF vars, TypeOK
  <1> QED
    BY <1>1, <1>2, <1>3, <1>4, <1>5, <1>6, <1>7, <1>8, <1>9, <1>10, <1>11, <1>12,
       <1>13, <1>14, <1>15, <1>16, <1>17, <1>18 DEF Next

(* A step of a call keeps the chain from URL to read to key to request. *)
LEMMA NextInv == Inv /\ [Next]_vars => Inv'
  <1> SUFFICES ASSUME Inv, [Next]_vars PROVE Inv'
    OBVIOUS
  <1> USE DEF Inv
  <1>0. TypeOK'
    BY NextType
  <1>1. ASSUME NEW r \in RequestIds, NEW f \in Forms, FileRequest(r, f)
        PROVE  Inv'
    <2>1. RequestsInv'
      BY <1>1, <1>0 DEF FileRequest, TypeOK, OwnerRecords, RequestsInv, Requests, NoForm
    <2>2. CallsInv'
      BY <1>1, <1>0 DEF FileRequest, TypeOK, OwnerRecords, CallsInv, Filed, Idle
    <2>3. KeysInv'
      BY <1>1, <1>0 DEF FileRequest, TypeOK, Requests, KeyRows, KeysInv, Minted, Filed
    <2>4. GrantIsBacked'
      BY <1>1, <1>0 DEF FileRequest, TypeOK, Requests, KeyRows, GrantIsBacked, Minted
    <2> QED BY <1>1, <1>0, <2>1, <2>2, <2>3, <2>4 DEF FileRequest, ReadersInv, LiveAt,
               Minted, Reach, UrlsInv
  <1>2. ASSUME NEW r \in RequestIds, NEW k \in Keys, AutoGrant(r, k)
        PROVE  Inv'
    <2>1. RequestsInv'
      BY <1>2, <1>0 DEF AutoGrant, MintKey, GrantTo, TypeOK, RequestsInv, CallsInv,
         Filed, Requests
    <2>2. CallsInv'
      BY <1>2, <1>0 DEF AutoGrant, MintKey, GrantTo, TypeOK, OwnerRecords, CallsInv,
         Filed, Idle
    <2>3. KeysInv'
      BY <1>2, <1>0 DEF AutoGrant, MintKey, GrantTo, TypeOK, Requests, KeyRows,
         KeysInv, Minted, Filed
    <2>4. GrantIsBacked'
      BY <1>2, <1>0 DEF AutoGrant, MintKey, GrantTo, TypeOK, Requests, KeyRows,
         GrantIsBacked, Minted
    <2>5. ReadersInv'
      BY <1>2, <1>0 DEF AutoGrant, MintKey, GrantTo, TypeOK, KeyRows, ReaderRecords,
         ReadersInv, LiveAt, Minted, Reach, NotReading
    <2>6. UrlsInv'
      BY <1>2, <1>0, ZenonT(40) DEF AutoGrant, MintKey, GrantTo, TypeOK, KeyRows, ReaderRecords,
         UrlsInv, LiveAt, Minted, Reach
    <2> QED BY <1>2, <1>0, <2>1, <2>2, <2>3, <2>4, <2>5, <2>6 DEF AutoGrant
  <1>3. ASSUME NEW r \in RequestIds, LeavePending(r)
        PROVE  Inv'
    <2>1. CallsInv'
      BY <1>3, <1>0 DEF LeavePending, TypeOK, OwnerRecords, CallsInv, Filed, Idle
    <2> QED BY <1>3, <1>0, <2>1 DEF LeavePending, RequestsInv, KeysInv, Minted, Filed,
               GrantIsBacked, ReadersInv, LiveAt, Reach, UrlsInv
  <1>4. ASSUME NEW o \in OwnerCalls, NEW r \in RequestIds, LoadApproval(o, r)
        PROVE  Inv'
    <2>1. CallsInv'
      BY <1>4, <1>0 DEF LoadApproval, TypeOK, OwnerRecords, CallsInv, Filed, Idle
    <2> QED BY <1>4, <1>0, <2>1 DEF LoadApproval, RequestsInv, KeysInv, Minted, Filed,
               GrantIsBacked, ReadersInv, LiveAt, Reach, UrlsInv
  <1>5. ASSUME NEW o \in OwnerCalls, NEW r \in RequestIds, LoadDenial(o, r)
        PROVE  Inv'
    <2>1. CallsInv'
      BY <1>5, <1>0 DEF LoadDenial, TypeOK, OwnerRecords, CallsInv, Filed, Idle
    <2> QED BY <1>5, <1>0, <2>1 DEF LoadDenial, RequestsInv, KeysInv, Minted, Filed,
               GrantIsBacked, ReadersInv, LiveAt, Reach, UrlsInv
  <1>6. ASSUME NEW o \in OwnerCalls, NEW k \in Keys, NEW own \in Limits, CommitApproval(o, k, own)
        PROVE  Inv'
    <2>1. RequestsInv'
      BY <1>6, <1>0 DEF CommitApproval, MintKey, GrantTo, GrantedLimit, TypeOK,
         RequestsInv, CallsInv, Filed, Requests
    <2>2. CallsInv'
      BY <1>6, <1>0 DEF CommitApproval, MintKey, GrantTo, GrantedLimit, TypeOK,
         OwnerRecords, CallsInv, Filed, Idle
    <2>3. KeysInv'
      BY <1>6, <1>0 DEF CommitApproval, MintKey, GrantTo, GrantedLimit, TypeOK,
         Requests, KeyRows, KeysInv, Minted, Filed
    <2>4. GrantIsBacked'
      BY <1>6, <1>0 DEF CommitApproval, MintKey, GrantTo, GrantedLimit, TypeOK,
         Requests, KeyRows, GrantIsBacked, Minted
    <2>5. ReadersInv'
      BY <1>6, <1>0 DEF CommitApproval, MintKey, GrantTo, GrantedLimit, TypeOK,
         KeyRows, ReaderRecords, ReadersInv, LiveAt, Minted, Reach, NotReading
    <2>6. UrlsInv'
      BY <1>6, <1>0, ZenonT(40) DEF CommitApproval, MintKey, GrantTo, GrantedLimit, TypeOK,
         KeyRows, ReaderRecords, UrlsInv, LiveAt, Minted, Reach
    <2> QED BY <1>6, <1>0, <2>1, <2>2, <2>3, <2>4, <2>5, <2>6 DEF CommitApproval
  <1>7. ASSUME NEW o \in OwnerCalls, CommitDenial(o)
        PROVE  Inv'
    <2>1. RequestsInv'
      BY <1>7, <1>0 DEF CommitDenial, TypeOK, RequestsInv, CallsInv, Filed, Requests
    <2>2. CallsInv'
      BY <1>7, <1>0 DEF CommitDenial, TypeOK, OwnerRecords, CallsInv, Filed, Idle
    <2>3. KeysInv'
      BY <1>7, <1>0 DEF CommitDenial, TypeOK, Requests, KeyRows, KeysInv, Minted, Filed
    <2>4. GrantIsBacked'
      BY <1>7, <1>0 DEF CommitDenial, TypeOK, Requests, KeyRows, GrantIsBacked, Minted
    <2> QED BY <1>7, <1>0, <2>1, <2>2, <2>3, <2>4 DEF CommitDenial, ReadersInv,
               LiveAt, Minted, Reach, UrlsInv
  <1>8. ASSUME NEW k \in Keys, Revoke(k)
        PROVE  Inv'
    <2>1. KeysInv'
      BY <1>8, <1>0 DEF Revoke, Revoked, TypeOK, Requests, KeyRows, KeysInv, Minted,
         Filed
    <2>2. GrantIsBacked'
      BY <1>8, <1>0 DEF Revoke, Revoked, TypeOK, Requests, KeyRows, GrantIsBacked,
         Minted
    <2>3. ReadersInv'
      BY <1>8, <1>0 DEF Revoke, Revoked, TypeOK, KeyRows, ReaderRecords, ReadersInv,
         LiveAt, Minted, Reach, NotReading
    <2>4. UrlsInv'
      <3> SUFFICES ASSUME NEW u \in urls
                   PROVE  (LiveAt(u.key, u.since) /\ u.since <= now
                             /\ u.artifact \in Reach(keys[u.key].limit))'
        BY <1>8 DEF Revoke, UrlsInv
      <3>1. u.key \in Keys /\ u.since \in Nat
        BY DEF TypeOK
      <3>2. LiveAt(u.key, u.since) /\ u.since <= now
              /\ u.artifact \in Reach(keys[u.key].limit)
        BY DEF UrlsInv
      <3> QED BY <1>8, <1>0, <3>1, <3>2 DEF Revoke, Revoked, TypeOK, KeyRows, LiveAt,
                 Minted, Reach
    <2> QED BY <1>8, <1>0, <2>1, <2>2, <2>3, <2>4 DEF Revoke, RequestsInv, CallsInv,
               Filed
  <1>9. ASSUME NEW i \in ReclaimCalls, NEW r \in RequestIds, LoadReclaim(i, r)
        PROVE  Inv'
    <2>1. CallsInv'
      BY <1>9, <1>0 DEF LoadReclaim, TypeOK, OwnerRecords, CallsInv, Filed, Idle
    <2> QED BY <1>9, <1>0, <2>1 DEF LoadReclaim, RequestsInv, KeysInv, Minted, Filed,
               GrantIsBacked, ReadersInv, LiveAt, Reach, UrlsInv
  <1>10. ASSUME NEW i \in ReclaimCalls, NEW k \in Keys, CommitReclaim(i, k)
        PROVE  Inv'
    <2>1. CallsInv'
      BY <1>10, <1>0 DEF CommitReclaim, MintKey, TypeOK, OwnerRecords, CallsInv,
         Filed, Idle
    <2>2. KeysInv'
      BY <1>10, <1>0 DEF CommitReclaim, MintKey, TypeOK, CallsInv, Requests, KeyRows,
         KeysInv, Minted, Filed
    <2>3. GrantIsBacked'
      BY <1>10, <1>0 DEF CommitReclaim, MintKey, TypeOK, Requests, KeyRows,
         GrantIsBacked, Minted
    <2>4. ReadersInv'
      BY <1>10, <1>0 DEF CommitReclaim, MintKey, TypeOK, KeyRows, ReaderRecords,
         ReadersInv, LiveAt, Minted, Reach, NotReading
    <2>5. UrlsInv'
      BY <1>10, <1>0 DEF CommitReclaim, MintKey, TypeOK, KeyRows, ReaderRecords,
         UrlsInv, LiveAt, Minted, Reach
    <2> QED BY <1>10, <1>0, <2>1, <2>2, <2>3, <2>4, <2>5 DEF CommitReclaim, RequestsInv
  <1>11. ASSUME NEW b \in ReaderCalls, NEW k \in Keys, Authenticate(b, k)
        PROVE  Inv'
    <2>1. ReadersInv'
      BY <1>11, <1>0 DEF Authenticate, TypeOK, KeyRows, ReaderRecords, ReadersInv,
         LiveAt, Minted, Reach, NotReading
    <2> QED BY <1>11, <1>0, <2>1 DEF Authenticate, RequestsInv, CallsInv, Filed,
               KeysInv, Minted, GrantIsBacked, UrlsInv, LiveAt, Reach
  <1>12. ASSUME NEW b \in ReaderCalls, TouchKey(b)
        PROVE  Inv'
    <2>1. KeysInv'
      BY <1>12, <1>0 DEF TouchKey, TypeOK, Requests, KeyRows, KeysInv, Minted, Filed
    <2>2. GrantIsBacked'
      BY <1>12, <1>0 DEF TouchKey, TypeOK, Requests, KeyRows, GrantIsBacked, Minted
    <2>3. ReadersInv'
      BY <1>12, <1>0 DEF TouchKey, TypeOK, KeyRows, ReaderRecords, ReadersInv, LiveAt,
         Minted, Reach, NotReading
    <2>4. UrlsInv'
      <3> SUFFICES ASSUME NEW u \in urls
                   PROVE  (LiveAt(u.key, u.since) /\ u.since <= now
                             /\ u.artifact \in Reach(keys[u.key].limit))'
        BY <1>12 DEF TouchKey, UrlsInv
      <3>1. u.key \in Keys /\ u.since \in Nat
        BY DEF TypeOK
      <3>2. LiveAt(u.key, u.since) /\ u.since <= now
              /\ u.artifact \in Reach(keys[u.key].limit)
        BY DEF UrlsInv
      <3> QED BY <1>12, <1>0, <3>1, <3>2 DEF TouchKey, TypeOK, KeyRows, LiveAt,
                 Minted, Reach
    <2> QED BY <1>12, <1>0, <2>1, <2>2, <2>3, <2>4 DEF TouchKey, RequestsInv,
               CallsInv, Filed
  <1>13. ASSUME NEW b \in ReaderCalls, Refuse(b)
        PROVE  Inv'
    <2>1. ReadersInv'
      BY <1>13, <1>0 DEF Refuse, TypeOK, KeyRows, ReaderRecords, ReadersInv, LiveAt,
         Minted, Reach, NotReading
    <2> QED BY <1>13, <1>0, <2>1 DEF Refuse, RequestsInv, CallsInv, Filed, KeysInv,
               Minted, GrantIsBacked, UrlsInv, LiveAt, Reach
  <1>14. ASSUME NEW b \in ReaderCalls, SignUrl(b)
        PROVE  Inv'
    <2>1. ReadersInv'
      BY <1>14, <1>0 DEF SignUrl, TypeOK, KeyRows, ReaderRecords, ReadersInv, LiveAt,
         Minted, Reach, NotReading
    <2>2. UrlsInv'
      <3> SUFFICES ASSUME NEW u \in urls'
                   PROVE  (LiveAt(u.key, u.since) /\ u.since <= now
                             /\ <<u.key, u.artifact>> \in trail /\ u.artifact \in Reach(keys[u.key].limit))'
        BY DEF UrlsInv
      <3>1. CASE u \in urls
        BY <1>14, <3>1 DEF SignUrl, UrlsInv, LiveAt, Minted, Reach
      <3>2. CASE u \notin urls
        <4>1. PICK a \in reader[b].artifact :
                u = [key |-> reader[b].key, artifact |-> a,
                     since |-> reader[b].since, exp |-> now + UrlTtl]
          BY <1>14, <3>2 DEF SignUrl
        <4> QED
          BY <1>14, <4>1 DEF SignUrl, ReadersInv, LiveAt, Minted, Reach
      <3> QED BY <3>1, <3>2
    <2> QED BY <1>14, <1>0, <2>1, <2>2 DEF SignUrl, RequestsInv, CallsInv, Filed,
               KeysInv, Minted, GrantIsBacked
  <1>15. ASSUME NEW b \in ReaderCalls, NEW a \in Artifacts, LogRead(b, a)
        PROVE  Inv'
    <2>1. ReadersInv'
      BY <1>15, <1>0 DEF LogRead, TypeOK, KeyRows, ReaderRecords, ReadersInv, LiveAt,
         Minted, Reach, NotReading
    <2>2. UrlsInv'
      BY <1>15, <1>0 DEF LogRead, TypeOK, KeyRows, ReaderRecords, UrlsInv, LiveAt,
         Minted, Reach
    <2> QED BY <1>15, <1>0, <2>1, <2>2 DEF LogRead, RequestsInv, CallsInv, Filed,
               KeysInv, Minted, GrantIsBacked
  <1>16. ASSUME NEW u \in urls, ExpireUrl(u)
        PROVE  Inv'
    <2>1. UrlsInv'
      BY <1>16, <1>0 DEF ExpireUrl, TypeOK, KeyRows, ReaderRecords, UrlsInv, LiveAt,
         Minted, Reach
    <2> QED BY <1>16, <1>0, <2>1 DEF ExpireUrl, RequestsInv, CallsInv, Filed, KeysInv,
               Minted, GrantIsBacked, ReadersInv, LiveAt, Reach
  <1>17. CASE Tick
    <2>1. ReadersInv'
      BY <1>17, <1>0 DEF Tick, TypeOK, KeyRows, ReaderRecords, ReadersInv, LiveAt,
         Minted, Reach, NotReading
    <2>2. UrlsInv'
      <3> SUFFICES ASSUME NEW u \in urls PROVE (u.since <= now)'
        BY <1>17 DEF Tick, UrlsInv, LiveAt, Minted, Reach
      <3>1. u.since \in Nat /\ now \in Nat
        BY DEF TypeOK
      <3>2. u.since <= now
        BY DEF UrlsInv
      <3> QED BY <1>17, <3>1, <3>2 DEF Tick
    <2> QED BY <1>17, <1>0, <2>1, <2>2 DEF Tick, RequestsInv, CallsInv, Filed,
               KeysInv, Minted, GrantIsBacked
  <1>18. CASE UNCHANGED vars
    BY <1>18 DEF vars, TypeOK, RequestsInv, CallsInv, KeysInv, GrantIsBacked,
                 ReadersInv, UrlsInv, Filed, Minted, LiveAt, Reach
  <1> QED
    BY <1>1, <1>2, <1>3, <1>4, <1>5, <1>6, <1>7, <1>8, <1>9, <1>10, <1>11, <1>12,
       <1>13, <1>14, <1>15, <1>16, <1>17, <1>18 DEF Next

-----------------------------------------------------------------------------
(* Inv holds of every reachable state. *)
THEOREM Invariance == Spec => []Inv
  BY InitInv, NextInv, PTL DEF Spec

(***************************************************************************)
(* Every row of the tables and every record of a call in flight holds      *)
(* values of its type (models.py, KeyRequest and AccessKey).               *)
(***************************************************************************)
THEOREM TypeCorrect == Spec => []TypeOK
  <1>1. Inv => TypeOK
    BY DEF Inv
  <1> QED BY Invariance, <1>1, PTL

(***************************************************************************)
(* A granted request names the key minted for it, however approvals,       *)
(* denials and the automatic grant interleave (keys.py:107-112,            *)
(* manage.py:1650-1654).                                                   *)
(***************************************************************************)
THEOREM GrantsAreBacked == Spec => []GrantIsBacked
  <1>1. Inv => GrantIsBacked
    BY DEF Inv
  <1> QED BY Invariance, <1>1, PTL

(***************************************************************************)
(* Where an NDA is required, no key exists without one, on any of the      *)
(* paths that mint one (keys.py:54-64).                                    *)
(***************************************************************************)
THEOREM NdaPrecedesKeys == Spec => []NdaBeforeKey
  <1>1. Inv => NdaBeforeKey
    BY DEF Inv, RequestsInv, KeysInv, Filed, NdaBeforeKey
  <1> QED BY Invariance, <1>1, PTL

(***************************************************************************)
(* No signed URL is for an artifact outside the request's list unless the  *)
(* owner named a list (manage.py:1635-1639).                               *)
(***************************************************************************)
THEOREM LimitsAreKept == Spec => []LimitKept
  <1>1. Inv => LimitKept
    BY DEF Inv, TypeOK, KeysInv, UrlsInv, LiveAt, LimitKept
  <1> QED BY Invariance, <1>1, PTL

(***************************************************************************)
(* Every signed URL was asked for before its key expired or was revoked    *)
(* (security.py:84-90), with any number of reads in flight.                *)
(***************************************************************************)
THEOREM CutsHold == Spec => []ReadsStopAtTheCut
  <1>1. Inv => ReadsStopAtTheCut
    BY DEF Inv, UrlsInv, LiveAt, ReadsStopAtTheCut
  <1> QED BY Invariance, <1>1, PTL

(***************************************************************************)
(* No buyer holds a URL the audit trail does not name                      *)
(* (docs/vendor-guide.md:79).                                              *)
(***************************************************************************)
THEOREM ReadsAreLogged == Spec => []EveryReadIsLogged
  <1>1. Inv => EveryReadIsLogged
    BY DEF Inv, UrlsInv, EveryReadIsLogged
  <1> QED BY Invariance, <1>1, PTL

(***************************************************************************)
(* No step un-revokes a key (security.py:108-110).                         *)
(***************************************************************************)
THEOREM RevocationIsFinal == Spec => RevokedStaysRevoked
  <1>1. Inv /\ [Next]_vars =>
          [\A k \in Keys : keys[k].status = "revoked" =>
             keys[k]'.status = "revoked" /\ keys[k]'.revokedAt = keys[k].revokedAt]_vars
    <2> SUFFICES ASSUME Inv, Next, NEW k \in Keys, keys[k].status = "revoked"
                 PROVE  keys[k]'.status = "revoked" /\ keys[k]'.revokedAt = keys[k].revokedAt
      OBVIOUS
    <2>1. keys \in [Keys -> KeyRows]
      BY DEF Inv, TypeOK
    <2>2. ASSUME NEW j, NEW r, NEW limit, NEW how, MintKey(j, r, limit, how)
          PROVE  keys[k]' = keys[k]
      BY <2>1, <2>2 DEF MintKey
    <2>3. ASSUME NEW j \in Keys, Revoke(j)
          PROVE  keys[k]' = keys[k]
      BY <2>1, <2>3 DEF Revoke
    <2>4. ASSUME NEW b \in ReaderCalls, TouchKey(b)
          PROVE  keys[k]'.status = "revoked" /\ keys[k]'.revokedAt = keys[k].revokedAt
      BY <2>1, <2>4 DEF TouchKey, KeyRows
    <2> QED
      BY <2>2, <2>3, <2>4
      DEF Next, FileRequest, AutoGrant, LeavePending, LoadApproval, LoadDenial,
          CommitApproval, CommitDenial, LoadReclaim, CommitReclaim, Authenticate,
          Refuse, SignUrl, LogRead, ExpireUrl, Tick
  <1> QED BY Invariance, <1>1, PTL DEF Spec, RevokedStaysRevoked

(***************************************************************************)
(* A denial is overwritten only by a call under way that had seen the      *)
(* request pending (manage.py:1631-1632), with any number of calls.        *)
(***************************************************************************)
THEOREM DenialsHold == Spec => DenialHolds
  <1> DEFINE Excused(r) ==
        \/ intake[r] = "deciding"
        \/ \E o \in OwnerCalls :
             owner[o].op = "approving" /\ owner[o].req = r /\ owner[o].seen = "pending"
  <1>1. Inv /\ [Next]_vars =>
          [\A r \in RequestIds :
             requests[r].status = "denied" /\ requests'[r].status # "denied" => Excused(r)]_vars
    <2> SUFFICES ASSUME Inv, Next, NEW r \in RequestIds, requests[r].status = "denied",
                        requests'[r].status # "denied"
                 PROVE  Excused(r)
      OBVIOUS
    <2>1. requests \in [RequestIds -> Requests]
      BY DEF Inv, TypeOK
    <2>2. ASSUME NEW q \in RequestIds, NEW f \in Forms, FileRequest(q, f)
          PROVE  FALSE
      BY <2>1, <2>2 DEF FileRequest
    <2>3. ASSUME NEW q \in RequestIds, NEW k \in Keys, AutoGrant(q, k)
          PROVE  Excused(r)
      BY <2>1, <2>3 DEF AutoGrant
    <2>4. ASSUME NEW o \in OwnerCalls, NEW k \in Keys, NEW own \in Limits,
                 CommitApproval(o, k, own)
          PROVE  Excused(r)
      BY <2>1, <2>4 DEF CommitApproval, Inv, CallsInv
    <2>5. ASSUME NEW o \in OwnerCalls, CommitDenial(o)
          PROVE  FALSE
      BY <2>1, <2>5 DEF CommitDenial, Requests
    <2> HIDE DEF Excused
    <2> QED
      BY <2>2, <2>3, <2>4, <2>5
      DEF Next, LeavePending, LoadApproval, LoadDenial, Revoke, LoadReclaim,
          CommitReclaim, Authenticate, TouchKey, Refuse, SignUrl, LogRead, ExpireUrl, Tick
  <1> QED BY Invariance, <1>1, PTL DEF Spec, DenialHolds
=============================================================================
