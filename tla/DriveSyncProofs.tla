--------------------------- MODULE DriveSyncProofs ---------------------------
(***************************************************************************)
(* Theorems of DriveSync, for any folder, any rules and any number of      *)
(* concurrent calls.                                                       *)
(***************************************************************************)
EXTENDS DriveSync, TLAPS

(* The sets the values of the variables are taken from. *)
LEMMA IdleType == Idle \in CallType
  BY BoundsAssumption
  DEF Idle, CallType, NoRow, RowType, NoBase, BaseType, Revisions

LEMMA RowConstants == NoRow \in RowType /\ GoneRow \in RowType
  BY BoundsAssumption DEF NoRow, GoneRow, RowType, Revisions

LEMMA ArtifactConstants == NoArtifact \in ArtifactType /\ GoneArtifact \in ArtifactType
  <1>1. <<>> \in Seq(Versions)
    OBVIOUS
  <1>2. 0 \in 0 .. MaxVersion /\ 0 \in Revisions
    BY BoundsAssumption DEF Revisions
  <1> QED BY <1>1, <1>2 DEF NoArtifact, GoneArtifact, ArtifactType

(* What an action makes of the call it is a step of. *)
LEMMA UpdateType ==
  ASSUME TypeOK, NEW c \in Calls, NEW call \in CallType, Update(c, call)
  PROVE  (calls \in [Calls -> CallType])'
  BY DEF TypeOK, Update

LEMMA FinishType ==
  ASSUME TypeOK, NEW c \in Calls, Finish(c)
  PROVE  (calls \in [Calls -> CallType])'
  BY IdleType, UpdateType DEF Finish

LEMMA BeginType ==
  ASSUME TypeOK, NEW c \in Calls, NEW call \in CallType, Begin(c, call)
  PROVE  (calls \in [Calls -> CallType] /\ begun \in Nat)'
  BY UpdateType DEF Begin, TypeOK

LEMMA ListFolderType ==
  ASSUME TypeOK, NEW c \in Calls, NEW present \in SUBSET Files, ListFolder(c, present)
  PROVE  TypeOK'
  <1> DEFINE listing == [f \in Files |-> IF f \in present THEN revision[f] ELSE 0]
             call == [Idle EXCEPT !.op = "sync", !.at = "listed", !.link = link.number,
                                  !.auto = link.auto, !.listing = listing]
  <1>1. listing \in [Files -> Revisions]
    BY BoundsAssumption DEF TypeOK, Revisions
  <1>2. link.number \in 0 .. MaxLinks /\ link.auto \in BOOLEAN
    BY DEF TypeOK
  <1> HIDE DEF listing
  <1>3. call \in CallType
    BY <1>1, <1>2, IdleType DEF CallType
  <1>4. Begin(c, call)
    BY DEF ListFolder, listing
  <1>5. (calls \in [Calls -> CallType] /\ begun \in Nat)'
    BY <1>3, <1>4, BeginType
  <1> QED BY <1>5 DEF ListFolder, TypeOK, data, Watch, Overlap

LEMMA LoadRowsType ==
  ASSUME TypeOK, NEW c \in Calls, LoadRows(c)
  PROVE  TypeOK'
  <1> DEFINE mine(known) ==
        [f \in Files |-> IF known[f] = 0 THEN NoRow ELSE rows[<<f, known[f]>>]]
  <1>1. PICK known \in [Files -> 0 .. MaxRows] :
          Update(c, [calls[c] EXCEPT !.at = "loaded", !.known = known, !.mine = mine(known)])
    BY DEF LoadRows
  <1>2. mine(known) \in [Files -> RowType]
    BY RowConstants, BoundsAssumption DEF TypeOK, RowIds
  <1> HIDE DEF mine
  <1>c. calls[c] \in CallType
    BY DEF TypeOK
  <1>3. [calls[c] EXCEPT !.at = "loaded", !.known = known, !.mine = mine(known)] \in CallType
    BY <1>c, <1>2 DEF CallType
  <1>4. (calls \in [Calls -> CallType])'
    BY <1>1, <1>3, UpdateType
  <1> QED BY <1>4 DEF LoadRows, TypeOK, data, Watch, Overlap

LEMMA CommitDiscoverType ==
  ASSUME TypeOK, NEW c \in Calls, CommitDiscover(c)
  PROVE  TypeOK'
  <1> DEFINE listed == {f \in Files : calls[c].listing[f] # 0}
             mine == [f \in Files |->
                       IF f \in listed THEN Reconciled(c, f) ELSE calls[c].mine[f]]
             todo == {f \in listed : Publishable(mine[f], calls[c].listing[f])}
  <1>c. calls[c] \in CallType
    BY DEF TypeOK
  <1>1. PICK index \in [Files -> 0 .. MaxRows] :
          /\ rows' = [r \in RowIds |->
               IF r[1] \in listed /\ r[2] = index[r[1]]
               THEN RowWritten(c, r[1], rows[r], mine[r[1]]) ELSE rows[r]]
          /\ Update(c, [calls[c] EXCEPT
               !.at = "publishing", !.auto = FALSE, !.known = index, !.mine = mine,
               !.todo = todo])
    BY Zenon DEF CommitDiscover
  <1>2. ASSUME NEW f \in Files
        PROVE  Reconciled(c, f) \in RowType
    <2>1. [NoRow EXCEPT !.state = "there", !.seen = calls[c].listing[f],
                        !.decision = FirstDecision(f, calls[c].auto)] \in RowType
      BY <1>c, RowConstants DEF CallType, RowType, FirstDecision
    <2>2. [calls[c].mine[f] EXCEPT !.seen = calls[c].listing[f]] \in RowType
      BY <1>c DEF CallType, RowType
    <2> QED BY <2>1, <2>2 DEF Reconciled
  <1>3. mine \in [Files -> RowType]
    BY <1>c, <1>2 DEF CallType
  <1>4. todo \subseteq Files
    OBVIOUS
  <1>5. (rows \in [RowIds -> RowType])'
    <2>1. ASSUME NEW r \in RowIds
          PROVE  rows'[r] \in RowType
      <3>1. r[1] \in Files /\ rows[r] \in RowType
        BY DEF RowIds, TypeOK
      <3>2. mine[r[1]] \in RowType
        BY <1>3, <3>1
      <3> HIDE DEF mine
      <3>3. RowWritten(c, r[1], rows[r], mine[r[1]]) \in RowType
        BY <3>1, <3>2 DEF RowType, RowWritten, Written
      <3> HIDE DEF mine
      <3> QED BY <1>1, <3>1, <3>2, <3>3
    <2> HIDE DEF mine
    <2> QED BY <1>1, <2>1
  <1> HIDE DEF mine, todo
  <1>6. [calls[c] EXCEPT !.at = "publishing", !.auto = FALSE, !.known = index, !.mine = mine,
                         !.todo = todo] \in CallType
    BY <1>c, <1>3, <1>4 DEF CallType
  <1>7. (calls \in [Calls -> CallType])'
    BY <1>1, <1>6, UpdateType
  <1>8. (approved \subseteq RowIds)'
    BY DEF CommitDiscover, TypeOK
  <1> QED BY <1>5, <1>7, <1>8 DEF CommitDiscover, TypeOK, Watch, Overlap

LEMMA LoadDecisionType ==
  ASSUME TypeOK, NEW c \in Calls, NEW f \in Files, NEW i \in 1 .. MaxRows,
         NEW op \in {"include", "exclude"}, LoadDecision(c, f, i, op)
  PROVE  TypeOK'
  <1> DEFINE known == [Idle.known EXCEPT ![f] = i]
             mine == [Idle.mine EXCEPT ![f] = rows[<<f, i>>]]
             listing == [Idle.listing EXCEPT ![f] = rows[<<f, i>>].seen]
             call == [Idle EXCEPT !.op = op, !.at = "deciding", !.link = link.number,
                                  !.known[f] = i, !.mine[f] = rows[<<f, i>>],
                                  !.listing[f] = rows[<<f, i>>].seen, !.todo = {f}]
  <1>1. rows[<<f, i>>] \in RowType /\ link.number \in 0 .. MaxLinks
    BY DEF TypeOK, RowIds
  <1>2. known \in [Files -> 0 .. MaxRows] /\ mine \in [Files -> RowType]
          /\ listing \in [Files -> Revisions]
    BY <1>1, RowConstants, BoundsAssumption DEF Idle, RowType, Revisions
  <1>3. call = [Idle EXCEPT !.op = op, !.at = "deciding", !.link = link.number,
                            !.known = known, !.mine = mine, !.listing = listing, !.todo = {f}]
    BY DEF Idle
  <1>4. Begin(c, call)
    BY DEF LoadDecision
  <1> HIDE DEF known, mine, listing, call
  <1>5. call \in CallType
    BY <1>1, <1>2, <1>3, IdleType DEF CallType
  <1>6. (calls \in [Calls -> CallType] /\ begun \in Nat)'
    BY <1>4, <1>5, BeginType
  <1> QED BY <1>6 DEF LoadDecision, TypeOK, data, Watch, Overlap

LEMMA DecisionType ==
  ASSUME TypeOK, NEW r \in RowIds, NEW decision \in {"pending", "included", "excluded"},
         NEW loaded, rows' = [rows EXCEPT ![r].decision = Written(loaded, decision, @)]
  PROVE  (rows \in [RowIds -> RowType])'
  <1>1. rows[r] \in RowType
    BY DEF TypeOK
  <1>2. [rows[r] EXCEPT !.decision = Written(loaded, decision, @)] \in RowType
    BY <1>1 DEF RowType, Written
  <1>3. rows' = [rows EXCEPT ![r] = [rows[r] EXCEPT !.decision = Written(loaded, decision, @)]]
    OBVIOUS
  <1> QED BY <1>2, <1>3 DEF TypeOK

(* The row a call is about to write is one. *)
LEMMA KnownRow ==
  ASSUME TypeOK, NEW c \in Calls, NEW f \in Files, calls[c].known[f] # 0
  PROVE  <<f, calls[c].known[f]>> \in RowIds
  <1>1. calls[c].known \in [Files -> 0 .. MaxRows] /\ MaxRows \in Nat
    BY BoundsAssumption DEF TypeOK, CallType
  <1> QED BY <1>1 DEF RowIds

LEMMA CommitIncludeType ==
  ASSUME TypeOK, CallsInv, NEW c \in Calls, NEW f \in Files, CommitInclude(c, f)
  PROVE  TypeOK'
  <1> DEFINE r == <<f, calls[c].known[f]>>
             mine == [calls[c].mine EXCEPT ![f].decision = "included"]
  <1>c. calls[c] \in CallType
    BY DEF TypeOK
  <1>0. r \in RowIds
    BY KnownRow DEF CommitInclude, CallsInv, CallOK
  <1>1. mine \in [Files -> RowType]
    BY <1>c DEF CallType, RowType
  <1>2. (rows \in [RowIds -> RowType])'
    BY <1>0, DecisionType DEF CommitInclude
  <1>3. Update(c, [calls[c] EXCEPT !.at = "publishing", !.mine = mine])
    BY DEF CommitInclude
  <1> HIDE DEF mine
  <1>4. [calls[c] EXCEPT !.at = "publishing", !.mine = mine] \in CallType
    BY <1>c, <1>1 DEF CallType
  <1>5. (calls \in [Calls -> CallType])'
    BY <1>3, <1>4, UpdateType
  <1> QED BY <1>0, <1>2, <1>5 DEF CommitInclude, TypeOK, Watch, Overlap

LEMMA CommitExcludeType ==
  ASSUME TypeOK, CallsInv, NEW c \in Calls, NEW f \in Files, CommitExclude(c, f)
  PROVE  TypeOK'
  <1>1. (rows \in [RowIds -> RowType])'
    BY KnownRow, DecisionType DEF CommitExclude, CallsInv, CallOK
  <1>2. ASSUME NEW d \in Calls
        PROVE  calls'[d] \in CallType
    <2>1. calls[d] \in CallType
      BY DEF TypeOK
    <2>2. [calls[d] EXCEPT !.overtaken = @ \cup {f}] \in CallType
      BY <2>1 DEF CallType
    <2> QED BY <2>1, <2>2, IdleType DEF CommitExclude
  <1>3. (calls \in [Calls -> CallType])'
    BY <1>2 DEF CommitExclude
  <1> QED BY <1>1, <1>3 DEF CommitExclude, TypeOK, Watch, Overlap

LEMMA DownloadType ==
  ASSUME TypeOK, NEW c \in Calls, NEW f \in Files, Download(c, f)
  PROVE  TypeOK'
  <1>c. calls[c] \in CallType /\ revision[f] \in Revisions
    BY DEF TypeOK, Revisions
  <1>1. [calls[c] EXCEPT !.at = "fetched", !.todo = @ \ {f}, !.file = {f},
                         !.content = revision[f]] \in CallType
    BY <1>c DEF CallType
  <1>2. (calls \in [Calls -> CallType])'
    BY <1>1, UpdateType DEF Download
  <1> QED BY <1>2 DEF Download, TypeOK, data, Watch, Overlap

LEMMA FailDownloadType ==
  ASSUME TypeOK, NEW c \in Calls, NEW f \in Files, FailDownload(c, f)
  PROVE  TypeOK'
  <1>c. calls[c] \in CallType
    BY DEF TypeOK
  <1>1. [calls[c] EXCEPT !.todo = @ \ {f}, !.failed = @ \cup {f}] \in CallType
    BY <1>c DEF CallType
  <1>2. (calls \in [Calls -> CallType])'
    BY <1>1, UpdateType, FinishType DEF FailDownload
  <1> QED BY <1>2 DEF FailDownload, TypeOK, data, Watch, Overlap

LEMMA BaseOfArtifact ==
  ASSUME TypeOK, NEW a \in ArtifactIds, artifacts[a].state # "deleted"
  PROVE  Base(a) \in BaseType
  <1>1. artifacts[a] \in ArtifactType
    BY DEF TypeOK
  <1> QED BY <1>1 DEF Base, BaseType, ArtifactType

LEMMA PutContentType ==
  ASSUME TypeOK, NEW c \in Calls, NEW f \in Files, NEW i \in 1 .. MaxArtifacts,
         PutContent(c, f, i)
  PROVE  TypeOK'
  <1> DEFINE a == <<f, i>>
  <1>c. calls[c] \in CallType /\ a \in ArtifactIds /\ artifacts[a] \in ArtifactType
    BY DEF TypeOK, ArtifactIds
  <1>1. artifacts[a].state # "deleted"
    BY DEF PutContent, Target, LiveOf
  <1>2. Base(a) \in BaseType
    BY <1>c, <1>1, BaseOfArtifact
  <1>3. i \in 0 .. MaxArtifacts
    BY BoundsAssumption
  <1>4. [calls[c] EXCEPT !.at = "stored", !.artifact = i, !.base = Base(a)] \in CallType
    BY <1>c, <1>2, <1>3 DEF CallType
  <1>5. (calls \in [Calls -> CallType])'
    BY <1>4, UpdateType DEF PutContent
  <1>6. calls[c].content \in Revisions
    BY <1>c DEF CallType
  <1>7. (blobs \in [ArtifactIds -> [1 .. MaxVersion -> Revisions]])'
    BY <1>c, <1>6 DEF PutContent, TypeOK
  <1> QED BY <1>5, <1>7 DEF PutContent, TypeOK, Watch, Overlap

LEMMA ArtifactUpdateType ==
  ASSUME TypeOK, NEW a \in ArtifactIds, NEW art \in ArtifactType,
         artifacts' = [artifacts EXCEPT ![a] = art]
  PROVE  (artifacts \in [ArtifactIds -> ArtifactType])'
  BY DEF TypeOK

(* A commit of a publication or a hand upload is to an artifact that is one, *)
(* and its version is not over the bound.                                    *)
LEMMA CommitTarget ==
  ASSUME TypeOK, CallsInv, NEW c \in Calls, NEW f \in Files,
         calls[c].at \in {"stored", "uploading"},
         calls[c].base.version < MaxVersion
  PROVE  /\ <<f, calls[c].artifact>> \in ArtifactIds
         /\ calls[c].base.version \in 0 .. MaxVersion
         /\ calls[c].base.version + 1 \in 1 .. MaxVersion
         /\ Archived(calls[c].base) \in Versions
  <1>1. calls[c] \in CallType
    BY DEF TypeOK
  <1>2. calls[c].artifact \in 0 .. MaxArtifacts /\ calls[c].base \in BaseType
    BY <1>1 DEF CallType
  <1>3. calls[c].artifact # 0
    BY DEF CallsInv, CallOK
  <1> QED BY <1>2, <1>3, BoundsAssumption DEF ArtifactIds, BaseType, Archived, Versions

LEMMA NewVersionType ==
  ASSUME NEW current \in ArtifactType, NEW base \in BaseType, NEW sha \in Revisions,
         NEW key \in 0 .. MaxVersion, base.version + 1 \in 1 .. MaxVersion,
         Archived(base) \in Versions
  PROVE  NewVersion(current, base, key, sha) \in ArtifactType
  <1> DEFINE archive == Append(current.archive, Archived(base))
  <1>1. current.archive \in Seq(Versions) /\ <<>> \in Seq(Versions)
    BY DEF ArtifactType
  <1>2. archive \in Seq(Versions)
    BY <1>1
  <1>3. 1 \in 0 .. MaxVersion /\ base.version + 1 \in 0 .. MaxVersion
    BY BoundsAssumption DEF BaseType
  <1>4. Written(base.sha, sha, current.sha) \in Revisions
    BY DEF Written, ArtifactType
  <1> HIDE DEF archive
  <1>5. CASE base.state = "none"
    <2>1. [state |-> "live", version |-> 1, key |-> key, sha |-> sha, archive |-> <<>>]
            \in ArtifactType
      BY <1>1, <1>3 DEF ArtifactType
    <2> QED BY <2>1, <1>5 DEF NewVersion
  <1>6. CASE base.state # "none"
    <2>1. [current EXCEPT !.version = base.version + 1, !.key = key,
             !.sha = Written(base.sha, sha, current.sha), !.archive = archive] \in ArtifactType
      BY <1>2, <1>3, <1>4 DEF ArtifactType
    <2> QED BY <2>1, <1>6 DEF NewVersion, archive
  <1> QED BY <1>5, <1>6

LEMMA CommitPublishType ==
  ASSUME TypeOK, CallsInv, NEW c \in Calls, NEW f \in Files, CommitPublish(c, f)
  PROVE  TypeOK'
  <1>0. calls[c].known[f] # 0
    BY DEF CommitPublish, CallsInv, CallOK
  <1>r. <<f, calls[c].known[f]>> \in RowIds
    BY <1>0, KnownRow
  <1> DEFINE a == <<f, calls[c].artifact>>
             base == calls[c].base
             r == <<f, calls[c].known[f]>>
             art == NewVersion(artifacts[a], base, base.version + 1, calls[c].content)
             row == Published(rows[r], calls[c].mine[f], calls[c].artifact,
                              calls[c].listing[f])
  <1>c. calls[c] \in CallType
    BY DEF TypeOK
  <1>b. base \in BaseType /\ base.version < MaxVersion /\ calls[c].content \in Revisions
    BY <1>c DEF CallType, CommitPublish, CallsInv, CallOK
  <1>a. /\ a \in ArtifactIds /\ base.version + 1 \in 1 .. MaxVersion
        /\ Archived(base) \in Versions
    BY <1>b, CommitTarget DEF CommitPublish
  <1>k. base.version + 1 \in 0 .. MaxVersion
    BY <1>a
  <1>n. artifacts[a] \in ArtifactType
    BY <1>a DEF TypeOK
  <1>1. art \in ArtifactType
    BY <1>b, <1>a, <1>k, <1>n, NewVersionType
  <1>2. artifacts' = [artifacts EXCEPT ![a] = art]
    BY DEF CommitPublish
  <1>3. (artifacts \in [ArtifactIds -> ArtifactType])'
    BY <1>a, <1>1, <1>2, ArtifactUpdateType
  <1>4. row \in RowType
    <2>1. rows[r] \in RowType
      BY <1>r DEF TypeOK
    <2>2. calls[c].artifact \in 0 .. MaxArtifacts /\ calls[c].listing[f] \in Revisions
      BY <1>c DEF CallType
    <2> QED BY <2>1, <2>2 DEF RowType, Published, Written
  <1>5. rows' = [rows EXCEPT ![r] = row]
    BY DEF CommitPublish
  <1>6. (rows \in [RowIds -> RowType])'
    BY <1>r, <1>4, <1>5 DEF TypeOK
  <1>7. [calls[c] EXCEPT !.at = "publishing", !.file = {}] \in CallType
    BY <1>c DEF CallType
  <1>8. (calls \in [Calls -> CallType])'
    BY <1>7, UpdateType, FinishType DEF CommitPublish
  <1> QED BY <1>3, <1>6, <1>8 DEF CommitPublish, TypeOK, Watch, Overlap

LEMMA LoadUploadType ==
  ASSUME TypeOK, NEW c \in Calls, NEW f \in Files, NEW i \in 1 .. MaxArtifacts,
         LoadUpload(c, f, i)
  PROVE  TypeOK'
  <1> DEFINE call == [Idle EXCEPT !.op = "upload", !.at = "uploading", !.file = {f},
                                  !.artifact = i, !.base = Base(<<f, i>>)]
  <1>1. <<f, i>> \in ArtifactIds /\ artifacts[<<f, i>>].state = "live"
    BY DEF ArtifactIds, LoadUpload, LiveOf
  <1>2. Base(<<f, i>>) \in BaseType /\ i \in 0 .. MaxArtifacts
    BY <1>1, BaseOfArtifact, BoundsAssumption
  <1>3. call \in CallType
    BY <1>2, IdleType DEF CallType
  <1>4. (calls \in [Calls -> CallType] /\ begun \in Nat)'
    BY <1>3, BeginType DEF LoadUpload
  <1> QED BY <1>4 DEF LoadUpload, TypeOK, data, Watch, Overlap

LEMMA ByHandType ==
  ASSUME NEW current \in ArtifactType, NEW base \in BaseType,
         base.version + 1 \in 1 .. MaxVersion, Archived(base) \in Versions
  PROVE  ByHand(current, base) \in ArtifactType
  <1> DEFINE archive == Append(current.archive, Archived(base))
  <1>1. archive \in Seq(Versions)
    BY DEF ArtifactType
  <1>2. 0 \in 0 .. MaxVersion /\ 0 \in Revisions /\ base.version + 1 \in 0 .. MaxVersion
    BY BoundsAssumption DEF Revisions
  <1> HIDE DEF archive
  <1>3. [current EXCEPT !.version = base.version + 1, !.key = 0, !.sha = 0,
                        !.archive = archive] \in ArtifactType
    BY <1>1, <1>2 DEF ArtifactType
  <1> QED BY <1>3 DEF ByHand, archive

LEMMA CommitUploadType ==
  ASSUME TypeOK, CallsInv, NEW c \in Calls, NEW f \in Files, CommitUpload(c, f)
  PROVE  TypeOK'
  <1> DEFINE a == <<f, calls[c].artifact>>
             base == calls[c].base
  <1>b. base \in BaseType
    BY DEF TypeOK, CallType
  <1>a. /\ a \in ArtifactIds /\ base.version + 1 \in 1 .. MaxVersion
        /\ Archived(base) \in Versions
    BY CommitTarget DEF CommitUpload
  <1>n. artifacts[a] \in ArtifactType
    BY <1>a DEF TypeOK
  <1>3. ByHand(artifacts[a], base) \in ArtifactType
    BY <1>n, <1>a, <1>b, ByHandType
  <1>4. artifacts' = [artifacts EXCEPT ![a] = ByHand(artifacts[a], base)]
    BY DEF CommitUpload
  <1>5. (artifacts \in [ArtifactIds -> ArtifactType])'
    BY <1>a, <1>3, <1>4, ArtifactUpdateType
  <1>6. (calls \in [Calls -> CallType])'
    BY FinishType DEF CommitUpload
  <1> QED BY <1>5, <1>6 DEF CommitUpload, TypeOK, Watch, Overlap

(* The steps that leave the calls alone, and those that only end one. *)
LEMMA EnvironmentType ==
  ASSUME TypeOK, Environment
  PROVE  TypeOK'
  <1>1. ASSUME NEW f \in Files, Revise(f)
        PROVE  TypeOK'
    BY <1>1, BoundsAssumption DEF Revise, TypeOK, Watch, Overlap
  <1>2. ASSUME NEW b \in BOOLEAN, Connect(b)
        PROVE  TypeOK'
    BY <1>2, BoundsAssumption DEF Connect, TypeOK, Watch, Overlap
  <1>3. ASSUME NEW b \in BOOLEAN, UpdateConnection(b)
        PROVE  TypeOK'
    BY <1>3 DEF UpdateConnection, TypeOK, Watch, Overlap
  <1>4. ASSUME NEW b \in BOOLEAN, Disconnect(b)
        PROVE  TypeOK'
    <2>1. (rows \in [RowIds -> RowType])'
      BY <1>4, RowConstants DEF Disconnect, TypeOK
    <2>2. (artifacts \in [ArtifactIds -> ArtifactType])'
      BY <1>4, ArtifactConstants DEF Disconnect, TypeOK
    <2> QED BY <1>4, <2>1, <2>2 DEF Disconnect, TypeOK, Watch, Overlap
  <1>5. ASSUME NEW a \in ArtifactIds, DeleteArtifact(a)
        PROVE  TypeOK'
    <2>1. (artifacts \in [ArtifactIds -> ArtifactType])'
      BY <1>5, ArtifactConstants DEF DeleteArtifact, TypeOK
    <2> QED BY <1>5, <2>1 DEF DeleteArtifact, TypeOK, Watch, Overlap
  <1> QED BY <1>1, <1>2, <1>3, <1>4, <1>5 DEF Environment

LEMMA EndType ==
  ASSUME TypeOK, NEW c \in Calls,
         \/ FailDiscover(c) \/ EndSync(c) \/ FailDecision(c) \/ Stop(c)
         \/ \E f \in Files : FailPublish(c, f)
  PROVE  TypeOK'
  <1>1. (calls \in [Calls -> CallType])'
    BY FinishType DEF FailDiscover, EndSync, FailDecision, Stop, FailPublish
  <1> QED
    BY <1>1 DEF FailDiscover, EndSync, FailDecision, Stop, FailPublish, data, TypeOK,
                Watch, Overlap

LEMMA NextType == TypeOK /\ CallsInv /\ [Next]_vars => TypeOK'
  <1> SUFFICES ASSUME TypeOK, CallsInv, [Next]_vars
               PROVE  TypeOK'
    OBVIOUS
  <1>1. CASE UNCHANGED vars
    BY <1>1 DEF vars, TypeOK
  <1>2. CASE Environment
    BY <1>2, EnvironmentType
  <1>3. ASSUME NEW c \in Calls, Step(c)
        PROVE  TypeOK'
    <2>1. CASE \/ FailDiscover(c) \/ EndSync(c) \/ FailDecision(c) \/ Stop(c)
               \/ \E f \in Files : FailPublish(c, f)
      BY <2>1, EndType
    <2>2. CASE \/ \E present \in SUBSET Files : ListFolder(c, present)
               \/ LoadRows(c) \/ CommitDiscover(c)
      BY <2>2, ListFolderType, LoadRowsType, CommitDiscoverType
    <2>3. CASE \E f \in Files : \/ CommitInclude(c, f) \/ CommitExclude(c, f)
                                \/ Download(c, f) \/ FailDownload(c, f)
                                \/ CommitPublish(c, f) \/ CommitUpload(c, f)
      BY <2>3, CommitIncludeType, CommitExcludeType, DownloadType, FailDownloadType,
         CommitPublishType, CommitUploadType
    <2>4. CASE \E f \in Files :
                 \/ \E i \in 1 .. MaxRows, op \in {"include", "exclude"} :
                      LoadDecision(c, f, i, op)
                 \/ \E i \in 1 .. MaxArtifacts : PutContent(c, f, i) \/ LoadUpload(c, f, i)
      BY <2>4, LoadDecisionType, PutContentType, LoadUploadType
    <2> QED BY <1>3, <2>1, <2>2, <2>3, <2>4 DEF Step
  <1> QED BY <1>1, <1>2, <1>3 DEF Next
-----------------------------------------------------------------------------
(* The calls that take no part in a step keep their invariant, if the rows   *)
(* of a connection that lasts stay, and stay included and approved.          *)
RowsKept ==
  \A r \in RowIds :
    /\ rows[r].state = "there" => rows'[r].state = "there"
    /\ rows[r].decision = "included" => rows'[r].decision = "included"
    /\ r \in approved => r \in approved'

CallInv(c) == CallOK(c) /\ \A f \in Files : KnownOK(c, f)

LEMMA KeptCall ==
  ASSUME TypeOK, TypeOK', NEW d \in Calls, CallInv(d), calls'[d] = calls[d],
         link.number <= link'.number, Linked(d)' => Linked(d) /\ RowsKept
  PROVE  CallInv(d)'
  <1>1. /\ calls[d].link \in Nat /\ link.number \in Nat /\ link'.number \in Nat
    BY BoundsAssumption DEF TypeOK, CallType
  <1>2. CallOK(d)'
    BY <1>1 DEF CallInv, CallOK
  <1>3. ASSUME NEW f \in Files, Linked(d)', calls[d].known[f] # 0
        PROVE  KnownOK(d, f)'
    <2>1. <<f, calls[d].known[f]>> \in RowIds
      BY <1>3, KnownRow
    <2> QED BY <1>3, <2>1 DEF KnownOK, CallInv, RowsKept
  <1>4. ASSUME NEW f \in Files
        PROVE  KnownOK(d, f)'
    BY <1>3, <1>4 DEF KnownOK
  <1> QED BY <1>2, <1>4 DEF CallInv

LEMMA IdleCall ==
  ASSUME TypeOK', NEW d \in Calls, calls'[d] = Idle
  PROVE  CallInv(d)'
  <1>1. link'.number \in Nat
    BY BoundsAssumption DEF TypeOK
  <1> QED BY <1>1 DEF CallInv, CallOK, KnownOK, Idle

LEMMA OneCall ==
  ASSUME TypeOK, TypeOK', CallsInv, NEW c \in Calls, UNCHANGED link, RowsKept,
         \A d \in Calls \ {c} : calls'[d] = calls[d], CallInv(c)'
  PROVE  CallsInv'
  <1>1. ASSUME NEW d \in Calls \ {c}
        PROVE  CallInv(d)'
    <2>1. link.number <= link'.number
      BY BoundsAssumption DEF TypeOK
    <2>2. CallInv(d) /\ calls'[d] = calls[d]
      BY DEF CallsInv, CallInv
    <2> QED BY <2>1, <2>2, KeptCall DEF Linked
  <1> QED BY <1>1 DEF CallsInv, CallInv

(* A call whose step only changes what it holds. *)
LEMMA OwnCall ==
  ASSUME TypeOK, TypeOK', CallsInv, RowsInv, ArtifactsInv, NEW c \in Calls, NEW call,
         Update(c, call), UNCHANGED <<data, approved>>, CallInv(c)'
  PROVE  RowsInv' /\ ArtifactsInv' /\ CallsInv'
  <1>1. RowsKept
    BY DEF RowsKept, data
  <1>2. \A d \in Calls \ {c} : calls'[d] = calls[d]
    BY DEF Update, TypeOK
  <1>3. CallsInv'
    BY <1>1, <1>2, OneCall DEF data
  <1> QED BY <1>3 DEF data, RowsInv, ArtifactsInv

LEMMA OwnEnd ==
  ASSUME TypeOK, TypeOK', CallsInv, RowsInv, ArtifactsInv, NEW c \in Calls,
         Finish(c), UNCHANGED <<data, approved>>
  PROVE  RowsInv' /\ ArtifactsInv' /\ CallsInv'
  <1>1. CallInv(c)'
    BY IdleCall DEF Finish, Update, TypeOK
  <1> QED BY <1>1, OwnCall DEF Finish

ConsentInv == RowsInv /\ ArtifactsInv /\ CallsInv

LEMMA EnvironmentConsent ==
  ASSUME TypeOK, TypeOK', ConsentInv, Environment
  PROVE  ConsentInv'
  <1> USE DEF ConsentInv
  <1>l. link.number \in Nat /\ link'.number \in Nat
    BY BoundsAssumption DEF TypeOK
  <1>k. ASSUME UNCHANGED calls, link.number <= link'.number,
               \A d \in Calls : Linked(d)' => Linked(d) /\ RowsKept
        PROVE  CallsInv'
    BY <1>k, KeptCall DEF CallsInv, CallInv
  <1>1. ASSUME NEW f \in Files, Revise(f)
        PROVE  ConsentInv'
    BY <1>1, <1>k, <1>l DEF Revise, RowsInv, ArtifactsInv, Linked, RowsKept
  <1>2. ASSUME NEW b \in BOOLEAN, Connect(b)
        PROVE  ConsentInv'
    <2>1. link'.number = link.number + 1 /\ UNCHANGED <<rows, artifacts, calls, approved>>
      BY <1>2 DEF Connect
    <2>2. ASSUME NEW d \in Calls
          PROVE  ~Linked(d)'
      <3>1. calls[d].link <= link.number /\ calls[d].link \in Nat
        BY BoundsAssumption DEF CallsInv, CallOK, TypeOK, CallType
      <3> QED BY <2>1, <3>1, <1>l DEF Linked
    <2> QED BY <2>1, <2>2, <1>k, <1>l DEF RowsInv, ArtifactsInv
  <1>3. ASSUME NEW b \in BOOLEAN, UpdateConnection(b)
        PROVE  ConsentInv'
    <2>1. link'.number = link.number /\ link'.open = link.open
      BY <1>3 DEF UpdateConnection, TypeOK
    <2> QED BY <1>3, <2>1, <1>k, <1>l
            DEF UpdateConnection, RowsInv, ArtifactsInv, Linked, RowsKept
  <1>4. ASSUME NEW b \in BOOLEAN, Disconnect(b)
        PROVE  ConsentInv'
    <2>1. RowsInv'
      BY <1>4 DEF Disconnect, RowsInv, GoneRow, NoRow
    <2>2. ArtifactsInv'
      BY <1>4 DEF Disconnect, ArtifactsInv, GoneArtifact, NoArtifact
    <2> QED BY <1>4, <2>1, <2>2, <1>k, <1>l DEF Disconnect, Linked
  <1>5. ASSUME NEW a \in ArtifactIds, DeleteArtifact(a)
        PROVE  ConsentInv'
    <2>1. ArtifactsInv'
      BY <1>5 DEF DeleteArtifact, ArtifactsInv, GoneArtifact, NoArtifact, TypeOK
    <2> QED BY <1>5, <2>1, <1>k, <1>l DEF DeleteArtifact, RowsInv, Linked, RowsKept
  <1> QED BY <1>1, <1>2, <1>3, <1>4, <1>5 DEF Environment

LEMMA EndConsent ==
  ASSUME TypeOK, TypeOK', ConsentInv, NEW c \in Calls,
         \/ FailDiscover(c) \/ EndSync(c) \/ FailDecision(c) \/ Stop(c)
         \/ \E f \in Files : FailPublish(c, f)
  PROVE  ConsentInv'
  BY OwnEnd DEF ConsentInv, FailDiscover, EndSync, FailDecision, Stop, FailPublish

LEMMA ListFolderConsent ==
  ASSUME TypeOK, TypeOK', ConsentInv, NEW c \in Calls, NEW present \in SUBSET Files,
         ListFolder(c, present)
  PROVE  ConsentInv'
  <1>1. /\ calls'[c].op = "sync" /\ calls'[c].at = "listed" /\ calls'[c].link = link.number
        /\ calls'[c].known = [f \in Files |-> 0] /\ calls'[c].file = {}
        /\ calls'[c].todo = {}
    BY DEF ListFolder, Begin, Update, TypeOK, Idle
  <1>2. link.number \in Nat /\ link' = link
    BY BoundsAssumption DEF TypeOK, ListFolder, data
  <1>3. CallInv(c)'
    BY <1>1, <1>2 DEF CallInv, CallOK, KnownOK
  <1> QED BY <1>3, OwnCall DEF ConsentInv, ListFolder, Begin

LEMMA LoadRowsConsent ==
  ASSUME TypeOK, TypeOK', ConsentInv, NEW c \in Calls, LoadRows(c)
  PROVE  ConsentInv'
  <1>1. PICK known \in [Files -> 0 .. MaxRows] :
          /\ \A f \in Files : IF Linked(c) /\ RowsOf(f) # {} THEN known[f] \in RowsOf(f)
                                                             ELSE known[f] = 0
          /\ Update(c, [calls[c] EXCEPT !.at = "loaded", !.known = known,
               !.mine = [f \in Files |->
                           IF known[f] = 0 THEN NoRow ELSE rows[<<f, known[f]>>]]])
    BY DEF LoadRows
  <1>2. calls[c] \in CallType
    BY DEF TypeOK
  <1>3. /\ calls'[c].at = "loaded" /\ calls'[c].known = known
        /\ calls'[c].mine = [f \in Files |->
              IF known[f] = 0 THEN NoRow ELSE rows[<<f, known[f]>>]]
        /\ calls'[c].op = calls[c].op /\ calls'[c].link = calls[c].link
        /\ calls'[c].file = calls[c].file /\ calls'[c].todo = calls[c].todo
    BY <1>1, <1>2 DEF Update, CallType, TypeOK
  <1>4. UNCHANGED <<link, rows, approved>> /\ calls[c].op = "sync" /\ calls[c].file = {}
    BY DEF LoadRows, data, ConsentInv, CallsInv, CallOK
  <1>5. CallOK(c)'
    BY <1>3, <1>4 DEF CallOK, ConsentInv, CallsInv
  <1>6. ASSUME NEW f \in Files, Linked(c), known[f] # 0
        PROVE  KnownOK(c, f)'
    <2>1. known[f] \in RowsOf(f) /\ calls'[c].mine[f] = rows[<<f, known[f]>>]
      BY <1>1, <1>3, <1>6
    <2>2. rows[<<f, known[f]>>].state = "there" /\ <<f, known[f]>> \in RowIds
      BY <2>1 DEF RowsOf, RowIds
    <2> QED BY <1>3, <1>4, <2>1, <2>2 DEF KnownOK, ConsentInv, RowsInv
  <1>7. CallInv(c)'
    BY <1>3, <1>4, <1>5, <1>6 DEF CallInv, KnownOK, Linked
  <1> QED BY <1>7, <1>1, OwnCall DEF ConsentInv, LoadRows

LEMMA CommitDiscoverConsent ==
  ASSUME TypeOK, TypeOK', ConsentInv, NEW c \in Calls, CommitDiscover(c)
  PROVE  ConsentInv'
  <1> DEFINE listed == {f \in Files : calls[c].listing[f] # 0}
             mine == [f \in Files |->
                       IF f \in listed THEN Reconciled(c, f) ELSE calls[c].mine[f]]
             todo == {f \in listed : Publishable(mine[f], calls[c].listing[f])}
             added(index) ==
               {r \in RowIds : /\ r[1] \in listed /\ r[2] = index[r[1]]
                               /\ rows[r].state = "none"
                               /\ Verdict[r[1]] = "include" /\ calls[c].auto}
  <1>1. PICK index \in [Files -> 0 .. MaxRows] :
          /\ \A f \in Files :
               IF f \in listed /\ calls[c].known[f] = 0
               THEN index[f] # 0 /\ NextRow(f, index[f]) ELSE index[f] = calls[c].known[f]
          /\ rows' = [r \in RowIds |->
               IF r[1] \in listed /\ r[2] = index[r[1]]
               THEN RowWritten(c, r[1], rows[r], mine[r[1]]) ELSE rows[r]]
          /\ Update(c, [calls[c] EXCEPT
               !.at = "publishing", !.auto = FALSE, !.known = index, !.mine = mine,
               !.todo = todo])
          /\ approved' = approved \cup added(index)
    BY ZenonT(40) DEF CommitDiscover
  <1>2. calls[c] \in CallType
    BY DEF TypeOK
  <1>3. Linked(c) /\ calls[c].at = "loaded" /\ calls[c].op = "sync" /\ UNCHANGED link
    BY DEF CommitDiscover, ConsentInv, CallsInv, CallOK
  <1>m. \A f \in Files : mine[f] = IF f \in listed THEN Reconciled(c, f) ELSE calls[c].mine[f]
    OBVIOUS
  <1>t. \A f \in todo : f \in listed /\ mine[f].decision = "included"
    BY DEF Publishable
  <1>f. \A f \in listed : calls[c].known[f] = 0 =>
          /\ mine[f].state = "there"
          /\ mine[f].decision = FirstDecision(f, calls[c].auto)
          /\ index[f] # 0 /\ rows[<<f, index[f]>>].state = "none"
    BY <1>1, <1>m, Zenon DEF Reconciled, NextRow, NoRow
  <1>g. \A f \in Files : f \notin listed \/ calls[c].known[f] # 0 =>
          index[f] = calls[c].known[f] /\ mine[f].decision = calls[c].mine[f].decision
    <2>1. ASSUME NEW f \in Files, f \notin listed \/ calls[c].known[f] # 0
          PROVE  index[f] = calls[c].known[f]
      BY <1>1, <2>1
    <2>2. ASSUME NEW f \in Files, f \in listed, calls[c].known[f] # 0
          PROVE  mine[f].decision = calls[c].mine[f].decision
      <3>1. calls[c].mine[f] \in RowType
        BY <1>2 DEF CallType
      <3> QED BY <1>m, <2>2, <3>1 DEF Reconciled, RowType
    <2> QED BY <1>m, <2>1, <2>2
  <1>r. ASSUME NEW r \in RowIds
        PROVE  rows'[r] = IF r[1] \in listed /\ r[2] = index[r[1]]
                          THEN RowWritten(c, r[1], rows[r], mine[r[1]]) ELSE rows[r]
    <2> HIDE DEF mine, listed, todo, added
    <2> QED BY <1>1
  <1>u. ASSUME NEW f \in todo
        PROVE  index[f] # 0 /\ mine[f].decision = "included"
    <2> HIDE DEF mine, todo, listed
    <2>1. f \in Files /\ f \in listed /\ mine[f].decision = "included"
      BY <1>t DEF listed
    <2> QED BY <2>1, <1>f, <1>g
  <1> HIDE DEF mine, todo, added
  <1>4. ASSUME NEW r \in RowIds, rows[r].state = "none", rows'[r] # rows[r]
        PROVE  /\ r[1] \in listed /\ r[2] = index[r[1]] /\ calls[c].known[r[1]] = 0
               /\ rows'[r] = mine[r[1]]
    <2>1. r[1] \in Files /\ r = <<r[1], r[2]>> /\ r[2] # 0
      BY DEF RowIds
    <2>2. r[1] \in listed /\ r[2] = index[r[1]] /\ rows'[r] = mine[r[1]]
      BY <1>r, <1>4 DEF RowWritten
    <2>3. calls[c].known[r[1]] = 0
      <3> SUFFICES ASSUME calls[c].known[r[1]] # 0
                   PROVE  FALSE
        OBVIOUS
      <3>1. calls[c].known[r[1]] = r[2]
        BY <1>g, <2>1, <2>2
      <3>2. rows[r].state = "there"
        BY <1>3, <2>1, <3>1 DEF ConsentInv, CallsInv, KnownOK
      <3> QED BY <1>4, <3>2
    <2> QED BY <2>2, <2>3
  <1>5. ASSUME NEW r \in RowIds, rows[r].state # "none"
        PROVE  rows'[r].state = rows[r].state /\ rows'[r].decision = rows[r].decision
    <2>1. rows[r] \in RowType
      BY DEF TypeOK
    <2> QED BY <1>r, <1>5, <2>1 DEF RowType, RowWritten
  <1>6. RowsKept
    BY <1>1, <1>4, <1>5 DEF RowsKept, ConsentInv, RowsInv
  <1>7. RowsInv'
    <2>1. ASSUME NEW r \in RowIds
          PROVE  /\ rows'[r].state # "there" => rows'[r].decision = "pending"
                 /\ rows'[r].decision = "included" => r \in approved'
      <3>1. CASE rows'[r] = rows[r] \/ rows[r].state # "none"
        BY <1>1, <1>5, <3>1 DEF ConsentInv, RowsInv
      <3>2. CASE rows'[r] # rows[r] /\ rows[r].state = "none"
        <4>1. /\ rows'[r].state = "there"
              /\ rows'[r].decision = FirstDecision(r[1], calls[c].auto)
          BY <1>4, <1>f, <3>2, ZenonT(40)
        <4>2. rows'[r].decision = "included" => r \in added(index)
          BY <1>4, <3>2, <4>1 DEF FirstDecision, added
        <4> QED BY <1>1, <4>1, <4>2
      <3> QED BY <3>1, <3>2
    <2> QED BY <2>1 DEF RowsInv
  <1>8. /\ calls'[c].at = "publishing" /\ calls'[c].known = index /\ calls'[c].mine = mine
        /\ calls'[c].todo = todo /\ calls'[c].file = calls[c].file
        /\ calls'[c].op = "sync" /\ calls'[c].link = calls[c].link
        /\ calls'[c].overtaken = calls[c].overtaken
    BY <1>1, <1>2, <1>3 DEF Update, CallType, TypeOK
  <1>e. calls[c].file = {}
    BY <1>3 DEF ConsentInv, CallsInv, CallOK
  <1>9. CallOK(c)'
    BY <1>3, <1>8, <1>e, <1>u DEF CallOK, ConsentInv, CallsInv
  <1>10. ASSUME NEW f \in Files, index[f] # 0
         PROVE  KnownOK(c, f)'
    <2> DEFINE r == <<f, index[f]>>
    <2>1. r \in RowIds
      BY <1>10, BoundsAssumption DEF RowIds
    <2>2. CASE f \in listed /\ calls[c].known[f] = 0
      <3>1. rows[r].state = "none" /\ rows'[r] = mine[f]
        BY <1>r, <1>f, <2>1, <2>2 DEF RowWritten
      <3>2. mine[f].state = "there"
        BY <1>f, <2>2
      <3> QED BY <1>7, <1>8, <2>1, <3>1, <3>2 DEF KnownOK, RowsInv
    <2>3. CASE ~(f \in listed /\ calls[c].known[f] = 0)
      <3>1. index[f] = calls[c].known[f] /\ mine[f].decision = calls[c].mine[f].decision
        BY <1>g, <2>3
      <3>2. rows[r].state = "there"
        BY <1>3, <1>10, <3>1 DEF ConsentInv, CallsInv, KnownOK
      <3>3. rows'[r].state = "there" /\ rows'[r].decision = rows[r].decision
        BY <1>5, <2>1, <3>2
      <3>4. calls[c].mine[f].decision = "included" =>
              r \in approved /\ (rows[r].decision = "included" \/ f \in calls[c].overtaken)
        BY <1>3, <1>10, <3>1 DEF ConsentInv, CallsInv, KnownOK
      <3> QED BY <1>1, <1>8, <3>1, <3>3, <3>4, Zenon DEF KnownOK
    <2> QED BY <2>2, <2>3
  <1>11. CallInv(c)'
    BY <1>8, <1>9, <1>10 DEF CallInv, KnownOK
  <1>12. \A d \in Calls \ {c} : calls'[d] = calls[d]
    BY <1>1 DEF Update, TypeOK
  <1>13. CallsInv'
    BY <1>3, <1>6, <1>11, <1>12, OneCall DEF ConsentInv
  <1> QED BY <1>7, <1>13 DEF ConsentInv, CommitDiscover, ArtifactsInv

LEMMA LoadDecisionConsent ==
  ASSUME TypeOK, TypeOK', ConsentInv, NEW c \in Calls, NEW f \in Files,
         NEW i \in 1 .. MaxRows, NEW op \in {"include", "exclude"}, LoadDecision(c, f, i, op)
  PROVE  ConsentInv'
  <1>1. /\ calls'[c].op = op /\ calls'[c].at = "deciding" /\ calls'[c].link = link.number
        /\ calls'[c].known = [Idle.known EXCEPT ![f] = i]
        /\ calls'[c].mine = [Idle.mine EXCEPT ![f] = rows[<<f, i>>]]
        /\ calls'[c].file = {} /\ calls'[c].todo = {f}
    BY DEF LoadDecision, Begin, Update, TypeOK, Idle
  <1>2. link.number \in Nat /\ UNCHANGED <<link, rows, approved>>
    BY BoundsAssumption DEF TypeOK, LoadDecision, data
  <1>3. \A g \in Files : calls'[c].known[g] = IF g = f THEN i ELSE 0
    BY <1>1 DEF Idle
  <1>4. calls'[c].mine[f] = rows[<<f, i>>]
    BY <1>1 DEF Idle
  <1>5. rows[<<f, i>>].state = "there" /\ <<f, i>> \in RowIds /\ i # 0
    BY DEF LoadDecision, RowsOf, RowIds
  <1>6. CallOK(c)'
    BY <1>1, <1>2, <1>3, <1>5 DEF CallOK
  <1>7. ASSUME NEW g \in Files
        PROVE  KnownOK(c, g)'
    BY <1>2, <1>3, <1>4, <1>5 DEF KnownOK, ConsentInv, RowsInv
  <1> QED BY <1>6, <1>7, OwnCall DEF CallInv, ConsentInv, LoadDecision, Begin

(* What a call that has loaded a row knows of it, as it commits. *)
LEMMA KnownThere ==
  ASSUME TypeOK, CallsInv, NEW c \in Calls, NEW f \in Files, Linked(c),
         calls[c].known[f] # 0
  PROVE  /\ <<f, calls[c].known[f]>> \in RowIds
         /\ rows[<<f, calls[c].known[f]>>] \in RowType
         /\ rows[<<f, calls[c].known[f]>>].state = "there"
  <1>1. <<f, calls[c].known[f]>> \in RowIds
    BY KnownRow
  <1>2. rows[<<f, calls[c].known[f]>>] \in RowType
    BY <1>1 DEF TypeOK
  <1> QED BY <1>1, <1>2 DEF CallsInv, KnownOK

LEMMA CommitIncludeConsent ==
  ASSUME TypeOK, TypeOK', ConsentInv, NEW c \in Calls, NEW f \in Files, CommitInclude(c, f)
  PROVE  ConsentInv'
  <1> DEFINE r == <<f, calls[c].known[f]>>
  <1>0. /\ calls[c].op = "include" /\ calls[c].at = "deciding" /\ f \in calls[c].todo
        /\ Linked(c) /\ UNCHANGED <<link, artifacts>> /\ calls[c].known[f] # 0
    BY DEF CommitInclude, ConsentInv, CallsInv, CallOK
  <1>1. r \in RowIds /\ rows[r] \in RowType /\ rows[r].state = "there"
    BY <1>0, KnownThere DEF ConsentInv
  <1>2. /\ approved' = approved \cup {r}
        /\ rows' = [rows EXCEPT ![r].decision =
                      Written(calls[c].mine[f].decision, "included", @)]
        /\ Update(c, [calls[c] EXCEPT !.at = "publishing", !.mine[f].decision = "included"])
    BY DEF CommitInclude
  <1>3. /\ rows'[r].state = "there"
        /\ \/ rows'[r].decision = "included"
           \/ calls[c].mine[f].decision = "included" /\ rows'[r] = rows[r]
    <2>1. rows'[r] = [rows[r] EXCEPT
                        !.decision = Written(calls[c].mine[f].decision, "included", @)]
      BY <1>1, <1>2 DEF TypeOK
    <2>2. rows'[r].state = "there"
      BY <1>1, <2>1 DEF RowType
    <2>3. CASE calls[c].mine[f].decision = "included"
      <3>1. rows'[r] = rows[r]
        BY <1>1, <2>1, <2>3 DEF RowType, Written
      <3> QED BY <2>2, <2>3, <3>1
    <2>4. CASE calls[c].mine[f].decision # "included"
      BY <1>1, <2>1, <2>2, <2>4 DEF RowType, Written
    <2> QED BY <2>3, <2>4
  <1>4. \A q \in RowIds \ {r} : rows'[q] = rows[q]
    BY <1>2 DEF TypeOK
  <1>5. RowsKept
    BY <1>1, <1>2, <1>3, <1>4 DEF RowsKept
  <1>6. RowsInv'
    <2>1. ASSUME NEW q \in RowIds
          PROVE  /\ rows'[q].state # "there" => rows'[q].decision = "pending"
                 /\ rows'[q].decision = "included" => q \in approved'
      <3>1. CASE q = r
        BY <1>2, <1>3, <3>1
      <3>2. CASE q # r
        BY <1>2, <1>4, <3>2 DEF ConsentInv, RowsInv
      <3> QED BY <3>1, <3>2
    <2> QED BY <2>1 DEF RowsInv
  <1>c. calls[c] \in CallType
    BY DEF TypeOK
  <1>7. /\ calls'[c].at = "publishing" /\ calls'[c].known = calls[c].known
        /\ calls'[c].todo = calls[c].todo /\ calls'[c].file = calls[c].file
        /\ calls'[c].op = "include" /\ calls'[c].link = calls[c].link
        /\ calls'[c].overtaken = calls[c].overtaken
        /\ calls'[c].mine = [calls[c].mine EXCEPT ![f].decision = "included"]
    BY <1>0, <1>2, <1>c DEF Update, CallType, TypeOK
  <1>8. /\ calls'[c].mine[f].decision = "included"
        /\ \A g \in Files \ {f} : calls'[c].mine[g] = calls[c].mine[g]
    BY <1>7, <1>c DEF CallType, RowType
  <1>9. calls[c].todo = {f} /\ calls[c].file = {}
    BY <1>0 DEF ConsentInv, CallsInv, CallOK
  <1>10. CallOK(c)'
    BY <1>0, <1>7, <1>8, <1>9 DEF CallOK, ConsentInv, CallsInv
  <1>11. ASSUME NEW g \in Files, calls[c].known[g] # 0
         PROVE  KnownOK(c, g)'
    <2> DEFINE q == <<g, calls[c].known[g]>>
    <2>1. q \in RowIds /\ rows[q].state = "there"
      BY <1>0, <1>11, KnownThere DEF ConsentInv
    <2>2. calls[c].mine[g].decision = "included" =>
            q \in approved /\ (rows[q].decision = "included" \/ g \in calls[c].overtaken)
      BY <1>0, <1>11 DEF ConsentInv, CallsInv, KnownOK
    <2>3. CASE g = f
      BY <1>2, <1>3, <1>7, <1>8, <2>2, <2>3, ZenonT(40) DEF KnownOK
    <2>4. CASE g # f
      BY <1>2, <1>4, <1>7, <1>8, <2>1, <2>2, <2>4 DEF KnownOK
    <2> QED BY <2>3, <2>4
  <1>12. CallInv(c)'
    BY <1>7, <1>10, <1>11 DEF CallInv, KnownOK
  <1>13. \A d \in Calls \ {c} : calls'[d] = calls[d]
    BY <1>2 DEF Update, TypeOK
  <1>14. CallsInv'
    BY <1>0, <1>5, <1>12, <1>13, OneCall DEF ConsentInv
  <1> QED BY <1>0, <1>6, <1>14 DEF ConsentInv, ArtifactsInv

LEMMA CommitExcludeConsent ==
  ASSUME TypeOK, TypeOK', ConsentInv, NEW c \in Calls, NEW f \in Files, CommitExclude(c, f)
  PROVE  ConsentInv'
  <1> DEFINE r == <<f, calls[c].known[f]>>
  <1>0. /\ Linked(c) /\ UNCHANGED <<link, artifacts, approved>> /\ calls[c].known[f] # 0
    BY DEF CommitExclude, ConsentInv, CallsInv, CallOK
  <1>1. r \in RowIds /\ rows[r] \in RowType /\ rows[r].state = "there"
    BY <1>0, KnownThere DEF ConsentInv
  <1>2. rows' = [rows EXCEPT ![r].decision =
                   Written(calls[c].mine[f].decision, "excluded", @)]
    BY DEF CommitExclude
  <1>3. /\ rows'[r].state = "there"
        /\ rows'[r].decision = "included" => rows[r].decision = "included"
    <2>1. rows'[r] = [rows[r] EXCEPT
                        !.decision = Written(calls[c].mine[f].decision, "excluded", @)]
      BY <1>1, <1>2 DEF TypeOK
    <2> QED BY <1>1, <2>1 DEF RowType, Written
  <1>4. \A q \in RowIds \ {r} : rows'[q] = rows[q]
    BY <1>2 DEF TypeOK
  <1>5. RowsInv'
    <2>1. ASSUME NEW q \in RowIds
          PROVE  /\ rows'[q].state # "there" => rows'[q].decision = "pending"
                 /\ rows'[q].decision = "included" => q \in approved'
      <3>1. CASE q = r
        BY <1>0, <1>3, <3>1, <1>1 DEF ConsentInv, RowsInv
      <3>2. CASE q # r
        BY <1>0, <1>4, <3>2 DEF ConsentInv, RowsInv
      <3> QED BY <3>1, <3>2
    <2> QED BY <2>1 DEF RowsInv
  <1>6. ASSUME NEW d \in Calls \ {c}
        PROVE  CallInv(d)'
    <2>1. calls[d] \in CallType /\ CallInv(d)
      BY DEF TypeOK, ConsentInv, CallsInv, CallInv
    <2>2. calls'[d] = IF calls[d].known[f] = calls[c].known[f]
                      THEN [calls[d] EXCEPT !.overtaken = @ \cup {f}] ELSE calls[d]
      BY DEF CommitExclude
    <2>3. /\ calls'[d].op = calls[d].op /\ calls'[d].at = calls[d].at
          /\ calls'[d].link = calls[d].link /\ calls'[d].known = calls[d].known
          /\ calls'[d].mine = calls[d].mine /\ calls'[d].todo = calls[d].todo
          /\ calls'[d].file = calls[d].file /\ calls'[d].base = calls[d].base
          /\ calls'[d].artifact = calls[d].artifact
          /\ calls[d].overtaken \subseteq calls'[d].overtaken
          /\ calls[d].known[f] = calls[c].known[f] => f \in calls'[d].overtaken
      BY <2>1, <2>2 DEF CallType
    <2>4. CallOK(d)'
      BY <1>0, <2>1, <2>3 DEF CallInv, CallOK
    <2>5. ASSUME NEW g \in Files, Linked(d), calls[d].known[g] # 0
          PROVE  KnownOK(d, g)'
      <3> DEFINE q == <<g, calls[d].known[g]>>
      <3>1. q \in RowIds /\ rows[q].state = "there"
        BY <2>5, KnownThere DEF ConsentInv
      <3>2. calls[d].op \in {"sync", "include"} /\ calls[d].mine[g].decision = "included" =>
              q \in approved /\ (rows[q].decision = "included" \/ g \in calls[d].overtaken)
        BY <2>1, <2>5 DEF CallInv, KnownOK
      <3>3. CASE q = r
        BY <1>0, <1>3, <2>3, <3>2, <3>3 DEF KnownOK
      <3>4. CASE q # r
        BY <1>0, <1>4, <2>3, <3>1, <3>2, <3>4 DEF KnownOK
      <3> QED BY <3>3, <3>4
    <2> QED BY <1>0, <2>3, <2>4, <2>5 DEF CallInv, KnownOK, Linked
  <1>7. CallInv(c)'
    BY IdleCall DEF CommitExclude
  <1> QED BY <1>0, <1>5, <1>6, <1>7 DEF ConsentInv, ArtifactsInv, CallsInv, CallInv

(* A call whose step leaves alone what it knows of the rows. *)
LEMMA SameKnown ==
  ASSUME TypeOK, ConsentInv, NEW c \in Calls, UNCHANGED <<link, rows, approved>>,
         /\ calls'[c].op = calls[c].op /\ calls'[c].link = calls[c].link
         /\ calls'[c].known = calls[c].known /\ calls'[c].mine = calls[c].mine
         /\ calls'[c].overtaken = calls[c].overtaken
  PROVE  \A f \in Files : KnownOK(c, f)'
  BY DEF ConsentInv, CallsInv, KnownOK, Linked

LEMMA DownloadConsent ==
  ASSUME TypeOK, TypeOK', ConsentInv, NEW c \in Calls, NEW f \in Files,
         Download(c, f) \/ FailDownload(c, f)
  PROVE  ConsentInv'
  <1>c. calls[c] \in CallType
    BY DEF TypeOK
  <1>0. /\ calls[c].at = "publishing" /\ f \in calls[c].todo
        /\ UNCHANGED <<link, rows, approved>> /\ UNCHANGED <<data, approved>>
    BY DEF Download, FailDownload, data
  <1>1. CASE FailDownload(c, f) /\ calls[c].op # "sync"
    BY <1>1, <1>0, OwnEnd DEF FailDownload, ConsentInv
  <1>2. ASSUME NEW call, Update(c, call),
               \/ call = [calls[c] EXCEPT !.at = "fetched", !.todo = @ \ {f}, !.file = {f},
                                          !.content = revision[f]]
               \/ call = [calls[c] EXCEPT !.todo = @ \ {f}, !.failed = @ \cup {f}]
        PROVE  ConsentInv'
    <2>1. calls'[c] = call
      BY <1>2 DEF Update, TypeOK
    <2>2. /\ call.op = calls[c].op /\ call.link = calls[c].link
          /\ call.known = calls[c].known /\ call.mine = calls[c].mine
          /\ call.overtaken = calls[c].overtaken
          /\ call.todo = calls[c].todo \ {f}
          /\ \/ call.at = "fetched" /\ call.file = {f}
             \/ call.at = "publishing" /\ call.file = calls[c].file
      BY <1>0, <1>2, <1>c DEF CallType
    <2>3. CallOK(c)'
      BY <1>0, <2>1, <2>2 DEF CallOK, ConsentInv, CallsInv
    <2>4. CallInv(c)'
      BY <1>0, <2>1, <2>2, <2>3, SameKnown DEF CallInv
    <2> QED BY <1>0, <1>2, <2>4, OwnCall DEF ConsentInv
  <1> QED BY <1>1, <1>2 DEF Download, FailDownload

LEMMA PutContentConsent ==
  ASSUME TypeOK, TypeOK', ConsentInv, NEW c \in Calls, NEW f \in Files,
         NEW i \in 1 .. MaxArtifacts, PutContent(c, f, i)
  PROVE  ConsentInv'
  <1> DEFINE call == [calls[c] EXCEPT !.at = "stored", !.artifact = i, !.base = Base(<<f, i>>)]
  <1>c. calls[c] \in CallType
    BY DEF TypeOK
  <1>0. /\ calls[c].at = "fetched" /\ Update(c, call) /\ i # 0
        /\ UNCHANGED <<link, rows, artifacts, approved>>
    BY DEF PutContent
  <1>1. /\ calls'[c].op = calls[c].op /\ calls'[c].link = calls[c].link
        /\ calls'[c].known = calls[c].known /\ calls'[c].mine = calls[c].mine
        /\ calls'[c].overtaken = calls[c].overtaken /\ calls'[c].at = "stored"
        /\ calls'[c].todo = calls[c].todo /\ calls'[c].file = calls[c].file
        /\ calls'[c].artifact = i /\ calls'[c].base = Base(<<f, i>>)
    BY <1>0, <1>c DEF CallType, Update, TypeOK
  <1>2. calls'[c].base.version < MaxVersion
    <2>1. <<f, i>> \in ArtifactIds
      BY DEF ArtifactIds
    <2>2. artifacts[<<f, i>>].version \in Nat /\ MaxVersion \in Nat
      BY <2>1, BoundsAssumption DEF TypeOK, ArtifactType
    <2>3. artifacts[<<f, i>>].version + 1 <= MaxVersion
      BY DEF PutContent
    <2> QED BY <1>1, <2>2, <2>3 DEF Base
  <1>3. CallOK(c)'
    BY <1>0, <1>1, <1>2 DEF CallOK, ConsentInv, CallsInv
  <1>4. CallInv(c)'
    BY <1>0, <1>1, <1>3, SameKnown DEF CallInv
  <1>5. RowsKept /\ \A d \in Calls \ {c} : calls'[d] = calls[d]
    BY <1>0 DEF RowsKept, Update, TypeOK
  <1>6. CallsInv'
    BY <1>0, <1>4, <1>5, OneCall DEF ConsentInv
  <1> QED BY <1>0, <1>6 DEF ConsentInv, RowsInv, ArtifactsInv

LEMMA CommitPublishConsent ==
  ASSUME TypeOK, TypeOK', ConsentInv, NEW c \in Calls, NEW f \in Files, CommitPublish(c, f)
  PROVE  ConsentInv'
  <1> DEFINE a == <<f, calls[c].artifact>>
             base == calls[c].base
             r == <<f, calls[c].known[f]>>
  <1>c. calls[c] \in CallType
    BY DEF TypeOK
  <1>0. /\ calls[c].at = "stored" /\ f \in calls[c].file /\ Linked(c) /\ Writable(c, f)
        /\ UNCHANGED <<link, approved>> /\ calls[c].known[f] # 0 /\ base.version < MaxVersion
    BY DEF CommitPublish, ConsentInv, CallsInv, CallOK
  <1>1. r \in RowIds /\ rows[r] \in RowType /\ a \in ArtifactIds
    BY <1>0, KnownThere, CommitTarget DEF ConsentInv
  <1>2. /\ rows' = [rows EXCEPT ![r] = Published(@, calls[c].mine[f], calls[c].artifact,
                                                 calls[c].listing[f])]
        /\ artifacts' = [artifacts EXCEPT ![a] =
                           NewVersion(@, base, base.version + 1, calls[c].content)]
    BY DEF CommitPublish
  <1>3. ASSUME NEW q \in RowIds
        PROVE  rows'[q].state = rows[q].state /\ rows'[q].decision = rows[q].decision
    <2>1. CASE q = r
      BY <1>1, <1>2, <2>1 DEF TypeOK, Published, RowType
    <2>2. CASE q # r
      BY <1>2, <2>2 DEF TypeOK
    <2> QED BY <2>1, <2>2
  <1>4. RowsKept /\ RowsInv'
    BY <1>0, <1>3 DEF RowsKept, RowsInv, ConsentInv
  <1>5. ArtifactsInv'
    <2>1. artifacts'[a].state = "live"
      <3>1. artifacts[a] \in ArtifactType
        BY <1>1 DEF TypeOK
      <3> QED BY <1>0, <1>1, <1>2, <3>1 DEF TypeOK, NewVersion, Writable, ArtifactType
    <2> QED BY <1>2, <2>1 DEF ArtifactsInv, ConsentInv, TypeOK
  <1>6. CASE calls[c].op = "sync"
    <2>1. Update(c, [calls[c] EXCEPT !.at = "publishing", !.file = {}])
      BY <1>6 DEF CommitPublish
    <2>2. /\ calls'[c].op = calls[c].op /\ calls'[c].link = calls[c].link
          /\ calls'[c].known = calls[c].known /\ calls'[c].mine = calls[c].mine
          /\ calls'[c].overtaken = calls[c].overtaken /\ calls'[c].at = "publishing"
          /\ calls'[c].todo = calls[c].todo /\ calls'[c].file = {}
      BY <2>1, <1>c DEF CallType, Update, TypeOK
    <2>3. CallOK(c)'
      BY <1>0, <2>2 DEF CallOK, ConsentInv, CallsInv
    <2>4. ASSUME NEW g \in Files, calls[c].known[g] # 0
          PROVE  KnownOK(c, g)'
      <3>1. <<g, calls[c].known[g]>> \in RowIds
        BY <2>4, KnownRow
      <3> QED BY <1>0, <1>3, <2>2, <2>4, <3>1 DEF KnownOK, ConsentInv, CallsInv
    <2>5. CallInv(c)'
      BY <2>2, <2>3, <2>4 DEF CallInv, KnownOK
    <2>6. \A d \in Calls \ {c} : calls'[d] = calls[d]
      BY <2>1 DEF Update, TypeOK
    <2> QED BY <1>0, <1>4, <1>5, <2>5, <2>6, OneCall DEF ConsentInv
  <1>7. CASE calls[c].op # "sync"
    <2>1. Finish(c)
      BY <1>7 DEF CommitPublish
    <2>2. CallInv(c)' /\ \A d \in Calls \ {c} : calls'[d] = calls[d]
      BY <2>1, IdleCall DEF Finish, Update, TypeOK
    <2> QED BY <1>0, <1>4, <1>5, <2>2, OneCall DEF ConsentInv
  <1> QED BY <1>6, <1>7

LEMMA UploadConsent ==
  ASSUME TypeOK, TypeOK', ConsentInv, NEW c \in Calls, NEW f \in Files,
         \/ \E i \in 1 .. MaxArtifacts : LoadUpload(c, f, i)
         \/ CommitUpload(c, f)
  PROVE  ConsentInv'
  <1>1. ASSUME NEW i \in 1 .. MaxArtifacts, LoadUpload(c, f, i)
        PROVE  ConsentInv'
    <2>1. /\ calls'[c].op = "upload" /\ calls'[c].at = "uploading" /\ calls'[c].link = 0
          /\ calls'[c].known = [g \in Files |-> 0] /\ calls'[c].file = {f}
          /\ calls'[c].todo = {} /\ calls'[c].artifact = i
          /\ calls'[c].base = Base(<<f, i>>)
      BY <1>1 DEF LoadUpload, Begin, Update, TypeOK, Idle
    <2>2. UNCHANGED <<data, approved>> /\ link' = link /\ link.number \in Nat /\ i # 0
      <3>1. UNCHANGED <<data, approved>> /\ link' = link
        BY <1>1 DEF LoadUpload, data
      <3>2. link.number \in Nat
        BY BoundsAssumption DEF TypeOK
      <3> QED BY <3>1, <3>2
    <2>3. Base(<<f, i>>).state = "live"
      BY <1>1 DEF LoadUpload, LiveOf, Base
    <2>4. CallInv(c)'
      BY <2>1, <2>2, <2>3 DEF CallInv, CallOK, KnownOK
    <2> QED BY <1>1, <2>2, <2>4, OwnCall DEF ConsentInv, LoadUpload, Begin
  <1>2. CASE CommitUpload(c, f)
    <2> DEFINE a == <<f, calls[c].artifact>>
    <2>1. /\ Finish(c) /\ UNCHANGED <<link, rows, approved>>
          /\ artifacts' = [artifacts EXCEPT ![a] = ByHand(@, calls[c].base)]
          /\ calls[c].at = "uploading" /\ Writable(c, f)
      BY <1>2 DEF CommitUpload
    <2>2. calls[c].base.state = "live" /\ artifacts[a].state = "live"
      BY <2>1 DEF ConsentInv, CallsInv, CallOK, Writable
    <2>3. ArtifactsInv'
      <3>1. ASSUME NEW b \in ArtifactIds, b = a
            PROVE  artifacts'[b].state = "live"
        <4>1. artifacts[b] \in ArtifactType
          BY DEF TypeOK
        <4> QED BY <2>1, <2>2, <3>1, <4>1 DEF TypeOK, ByHand, ArtifactType
      <3>2. \A b \in ArtifactIds : b # a => artifacts'[b] = artifacts[b]
        BY <2>1 DEF TypeOK
      <3> QED BY <3>1, <3>2 DEF ArtifactsInv, ConsentInv
    <2>4. CallInv(c)' /\ \A d \in Calls \ {c} : calls'[d] = calls[d]
      BY <2>1, IdleCall DEF Finish, Update, TypeOK
    <2>5. RowsKept /\ RowsInv'
      BY <2>1 DEF RowsKept, RowsInv, ConsentInv
    <2> QED BY <2>1, <2>3, <2>4, <2>5, OneCall DEF ConsentInv
  <1> QED BY <1>1, <1>2

LEMMA NextConsent == TypeOK /\ TypeOK' /\ ConsentInv /\ [Next]_vars => ConsentInv'
  <1> SUFFICES ASSUME TypeOK, TypeOK', ConsentInv, [Next]_vars
               PROVE  ConsentInv'
    OBVIOUS
  <1>1. CASE UNCHANGED vars
    BY <1>1 DEF vars, ConsentInv, RowsInv, ArtifactsInv, CallsInv, CallOK, KnownOK, Linked
  <1>2. CASE Environment
    BY <1>2, EnvironmentConsent
  <1>3. ASSUME NEW c \in Calls, Step(c)
        PROVE  ConsentInv'
    <2>1. CASE \/ FailDiscover(c) \/ EndSync(c) \/ FailDecision(c) \/ Stop(c)
               \/ \E f \in Files : FailPublish(c, f)
      BY <2>1, EndConsent
    <2>2. CASE \/ \E present \in SUBSET Files : ListFolder(c, present)
               \/ LoadRows(c) \/ CommitDiscover(c)
      BY <2>2, ListFolderConsent, LoadRowsConsent, CommitDiscoverConsent
    <2>3. CASE \E f \in Files : \/ CommitInclude(c, f) \/ CommitExclude(c, f)
                                \/ Download(c, f) \/ FailDownload(c, f)
                                \/ CommitPublish(c, f) \/ CommitUpload(c, f)
      BY <2>3, CommitIncludeConsent, CommitExcludeConsent, DownloadConsent,
         CommitPublishConsent, UploadConsent
    <2>4. CASE \E f \in Files :
                 \/ \E i \in 1 .. MaxRows, op \in {"include", "exclude"} :
                      LoadDecision(c, f, i, op)
                 \/ \E i \in 1 .. MaxArtifacts : PutContent(c, f, i) \/ LoadUpload(c, f, i)
      BY <2>4, LoadDecisionConsent, PutContentConsent, UploadConsent
    <2> QED BY <1>3, <2>1, <2>2, <2>3, <2>4 DEF Step
  <1> QED BY <1>1, <1>2, <1>3 DEF Next
-----------------------------------------------------------------------------
LEMMA InitType == Init => TypeOK
  <1> SUFFICES ASSUME Init
               PROVE  TypeOK
    OBVIOUS
  <1>1. calls \in [Calls -> CallType]
    BY IdleType DEF Init
  <1>2. rows \in [RowIds -> RowType] /\ artifacts \in [ArtifactIds -> ArtifactType]
    BY RowConstants, ArtifactConstants DEF Init
  <1>3. revision \in [Files -> 1 .. MaxRevision] /\ begun \in Nat
          /\ approved \subseteq RowIds /\ contended \subseteq Files
    BY BoundsAssumption DEF Init
  <1>4. link \in [number : 0 .. MaxLinks, open : BOOLEAN, auto : BOOLEAN]
    BY BoundsAssumption DEF Init
  <1>5. blobs \in [ArtifactIds -> [1 .. MaxVersion -> Revisions]]
    BY BoundsAssumption DEF Init, Revisions
  <1> QED BY <1>1, <1>2, <1>3, <1>4, <1>5 DEF TypeOK

LEMMA InitConsent == Init => ConsentInv
  BY BoundsAssumption
  DEF Init, ConsentInv, RowsInv, ArtifactsInv, CallsInv, CallOK, KnownOK, Idle, NoRow, NoArtifact

(***************************************************************************)
(* Whatever overlaps, the tables and calls stay well typed, only approved  *)
(* rows read included, and what a call takes for included was approved.    *)
(***************************************************************************)
THEOREM ConsentInvariance == Spec => [](TypeOK /\ ConsentInv)
  <1>1. Init => TypeOK /\ ConsentInv
    BY InitType, InitConsent
  <1>2. TypeOK /\ ConsentInv /\ [Next]_vars => (TypeOK /\ ConsentInv)'
    BY NextType, NextConsent DEF ConsentInv
  <1> QED BY <1>1, <1>2, PTL DEF Spec

(* The tables, the storage and the calls hold values of their type. *)
THEOREM TypeCorrect == Spec => []TypeOK
  <1>1. TypeOK /\ ConsentInv => TypeOK
    OBVIOUS
  <1> QED BY <1>1, ConsentInvariance, PTL

(***************************************************************************)
(* Nothing is published without the owner's consent, with any number of    *)
(* syncs, decisions and unlinkings in flight: see PublicationHadConsent.   *)
(***************************************************************************)
LEMMA ConsentStep ==
  ASSUME TypeOK, ConsentInv, Next, NEW c \in Calls, NEW f \in Files,
         calls[c].at = "stored", f \in calls[c].file, artifacts' # artifacts,
         calls'[c].at # "stored"
  PROVE  Consented(c, f)
  <1>1. CASE Environment
    BY <1>1 DEF Environment, Revise, Connect, UpdateConnection, Disconnect, DeleteArtifact
  <1>2. ASSUME NEW d \in Calls, Step(d)
        PROVE  Consented(c, f)
    <2>1. PICK g \in Files : CommitPublish(d, g) \/ CommitUpload(d, g)
      BY <1>2, ZenonT(40) DEF Step, ListFolder, LoadRows, CommitDiscover, FailDiscover, EndSync,
                  FailDecision, Stop, CommitInclude, CommitExclude, Download, FailDownload,
                  FailPublish, LoadDecision, PutContent, LoadUpload, data
    <2>2. \A e \in Calls \ {d} : calls'[e] = calls[e]
      BY <2>1 DEF CommitPublish, CommitUpload, Finish, Update, TypeOK
    <2>3. d = c
      BY <2>2
    <2>4. CommitPublish(c, g) /\ g \in calls[c].file /\ Linked(c)
      BY <2>1, <2>3 DEF CommitPublish, CommitUpload
    <2>5. g = f /\ calls[c].known[f] # 0 /\ calls[c].mine[f].decision = "included"
          /\ calls[c].op \in {"sync", "include"}
      BY <2>4 DEF ConsentInv, CallsInv, CallOK
    <2> QED BY <2>4, <2>5 DEF ConsentInv, CallsInv, KnownOK, Consented
  <1> QED BY <1>1, <1>2 DEF Next

THEOREM PublicationConsent == Spec => PublicationHadConsent
  <1>1. TypeOK /\ ConsentInv /\ [Next]_vars =>
          [\A c \in Calls, f \in Files :
             calls[c].at = "stored" /\ f \in calls[c].file /\ artifacts' # artifacts
               /\ calls'[c].at # "stored" => Consented(c, f)]_vars
    BY ConsentStep
  <1> QED BY <1>1, ConsentInvariance, PTL DEF Spec, PublicationHadConsent

(***************************************************************************)
(* No sync brings an excluded file back, whatever it loaded before the     *)
(* exclusion was committed: see ExcludedStaysExcluded.                     *)
(***************************************************************************)
LEMMA ExcludedStep ==
  ASSUME TypeOK, ConsentInv, Next, NEW r \in RowIds,
         rows[r].decision = "excluded", rows'[r].state = "there"
  PROVE  \/ rows'[r].decision = "excluded"
         \/ \E c \in Calls : /\ calls[c].op = "include" /\ calls[c].at = "deciding"
                             /\ calls[c].known[r[1]] = r[2]
  <1>0. rows[r].state = "there" /\ rows[r] \in RowType
    BY DEF ConsentInv, RowsInv, TypeOK
  <1>1. CASE UNCHANGED rows
    BY <1>1
  <1>2. ASSUME NEW b \in BOOLEAN, Disconnect(b)
        PROVE  rows'[r].decision = "excluded"
    BY <1>0, <1>2 DEF Disconnect, GoneRow, NoRow
  <1>3. ASSUME NEW c \in Calls, CommitDiscover(c)
        PROVE  rows'[r].decision = "excluded"
    <2> DEFINE listed == {f \in Files : calls[c].listing[f] # 0}
               mine == [f \in Files |->
                         IF f \in listed THEN Reconciled(c, f) ELSE calls[c].mine[f]]
    <2>1. PICK index \in [Files -> 0 .. MaxRows] :
            rows' = [q \in RowIds |->
              IF q[1] \in listed /\ q[2] = index[q[1]]
              THEN RowWritten(c, q[1], rows[q], mine[q[1]]) ELSE rows[q]]
      BY <1>3 DEF CommitDiscover
    <2> HIDE DEF listed, mine
    <2> QED BY <1>0, <2>1 DEF RowWritten, RowType
  <1>4. ASSUME NEW c \in Calls, NEW f \in Files, CommitInclude(c, f)
        PROVE  \/ rows'[r].decision = "excluded"
               \/ /\ calls[c].op = "include" /\ calls[c].at = "deciding"
                  /\ calls[c].known[r[1]] = r[2]
    <2>1. CASE r = <<f, calls[c].known[f]>>
      BY <1>4, <2>1 DEF CommitInclude
    <2>2. CASE r # <<f, calls[c].known[f]>>
      BY <1>4, <2>2 DEF CommitInclude, TypeOK
    <2> QED BY <2>1, <2>2
  <1>5. ASSUME NEW c \in Calls, NEW f \in Files, CommitExclude(c, f)
        PROVE  rows'[r].decision = "excluded"
    BY <1>0, <1>5 DEF CommitExclude, TypeOK, RowType, Written
  <1>6. ASSUME NEW c \in Calls, NEW f \in Files, CommitPublish(c, f)
        PROVE  rows'[r].decision = "excluded"
    BY <1>0, <1>6 DEF CommitPublish, Published, TypeOK, RowType
  <1>7. CASE Environment
    BY <1>1, <1>2, <1>7 DEF Environment, Revise, Connect, UpdateConnection, DeleteArtifact
  <1>8. ASSUME NEW c \in Calls, Step(c)
        PROVE  \/ UNCHANGED rows \/ CommitDiscover(c)
               \/ \E f \in Files : CommitInclude(c, f) \/ CommitExclude(c, f)
                                    \/ CommitPublish(c, f)
    BY <1>8, ZenonT(40) DEF Step, ListFolder, LoadRows, FailDiscover, EndSync, FailDecision, Stop,
                Download, FailDownload, FailPublish, LoadDecision, PutContent, LoadUpload,
                CommitUpload, data
  <1> QED BY <1>1, <1>3, <1>4, <1>5, <1>6, <1>7, <1>8 DEF Next

THEOREM ExcludedStays == Spec => ExcludedStaysExcluded
  <1>1. TypeOK /\ ConsentInv /\ [Next]_vars =>
          [\A r \in RowIds :
             rows[r].decision = "excluded" /\ rows'[r].state = "there" =>
               \/ rows'[r].decision = "excluded"
               \/ \E c \in Calls : /\ calls[c].op = "include" /\ calls[c].at = "deciding"
                                   /\ calls[c].known[r[1]] = r[2]]_vars
    BY ExcludedStep
  <1> QED BY <1>1, ConsentInvariance, PTL DEF Spec, ExcludedStaysExcluded
-----------------------------------------------------------------------------
(***************************************************************************)
(* A file nobody contends for.  Every step watches for overlaps, so that a *)
(* file not contended after it has one call at most before and after it.   *)
(***************************************************************************)
LEMMA Watched == Next => Watch
  <1>1. Environment => Watch
    BY DEF Environment, Revise, Connect, UpdateConnection, Disconnect, DeleteArtifact
  <1>2. ASSUME NEW c \in Calls, Step(c)
        PROVE  Watch
    <2>1. CASE \/ \E present \in SUBSET Files : ListFolder(c, present)
               \/ LoadRows(c) \/ CommitDiscover(c) \/ FailDiscover(c) \/ EndSync(c)
               \/ FailDecision(c) \/ Stop(c)
      BY <2>1, ZenonT(40) DEF ListFolder, LoadRows, CommitDiscover, FailDiscover, EndSync, FailDecision,
                  Stop
    <2>2. ASSUME NEW f \in Files,
                 \/ CommitInclude(c, f) \/ CommitExclude(c, f)
                 \/ Download(c, f) \/ FailDownload(c, f)
                 \/ CommitPublish(c, f) \/ FailPublish(c, f) \/ CommitUpload(c, f)
                 \/ \E i \in 1 .. MaxRows, op \in {"include", "exclude"} :
                      LoadDecision(c, f, i, op)
                 \/ \E i \in 1 .. MaxArtifacts : PutContent(c, f, i) \/ LoadUpload(c, f, i)
          PROVE  Watch
      BY <2>2 DEF CommitInclude, CommitExclude, Download, FailDownload, CommitPublish,
                  FailPublish, CommitUpload, LoadDecision, PutContent, LoadUpload
    <2> QED BY <1>2, <2>1, <2>2 DEF Step
  <1> QED BY <1>1, <1>2 DEF Next

LEMMA NextAlone ==
  ASSUME TypeOK, Next
  PROVE  AloneInv' /\ Files \ contended' \subseteq Files \ contended
  BY Watched DEF Watch, Overlap, AloneInv

LEMMA NobodyElse ==
  ASSUME CallsInv, AloneInv, NEW f \in Files \ contended, NEW c \in Calls,
         f \in WorksOn(c), NEW d \in Calls \ {c}
  PROVE  /\ ~(calls[d].at = "loaded" /\ calls[d].listing[f] # 0)
         /\ ~(calls[d].at \in {"stored", "uploading"} /\ f \in calls[d].file)
  <1>1. f \notin WorksOn(d)
    BY DEF AloneInv
  <1>2. CallOK(d)
    BY DEF CallsInv
  <1> QED BY <1>1, <1>2 DEF WorksOn, CallOK

(* What holds of such a file, of each call and of the tables. *)
HeldOK(c, f) == Fresh(c, f) /\ Current(c, f)

KeysFollow(a) ==
  /\ artifacts[a].key <= artifacts[a].version
  /\ \A v \in 1 .. Len(artifacts[a].archive) : artifacts[a].archive[v].key <= v

ShapeOK(f) ==
  /\ \A i, j \in RowsOf(f) : i = j
  /\ \A i, j \in LiveOf(f) : i = j
  /\ \A i \in LiveOf(f) : ArchiveIsWhole(<<f, i>>) /\ KeysFollow(<<f, i>>)

FileOK(f) == ShapeOK(f) /\ \A c \in Calls : HeldOK(c, f)

FilesInv == \A f \in Files \ contended : FileOK(f)

LEMMA InvParts == TypeOK => (Inv <=> ConsentInv /\ AloneInv /\ FilesInv)
  <1> SUFFICES ASSUME TypeOK
               PROVE  Inv <=> ConsentInv /\ AloneInv /\ FilesInv
    OBVIOUS
  <1>1. OwnerInv <=> \A f \in Files \ contended : \A c \in Calls : HeldOK(c, f)
    BY DEF OwnerInv, HeldOK
  <1>2. OneOfEach <=> \A f \in Files \ contended :
                        /\ \A i, j \in RowsOf(f) : i = j
                        /\ \A i, j \in LiveOf(f) : i = j
    BY DEF OneOfEach
  <1>3. \A a \in ArtifactIds : a = <<a[1], a[2]>> /\ a[1] \in Files
                              /\ a[2] \in 1 .. MaxArtifacts
    BY DEF ArtifactIds
  <1>4. \A f \in Files, i \in 1 .. MaxArtifacts : <<f, i>> \in ArtifactIds
    BY DEF ArtifactIds
  <1>5. HistoryIsWhole <=> \A f \in Files \ contended : \A i \in LiveOf(f) :
                             ArchiveIsWhole(<<f, i>>)
    BY <1>3, <1>4 DEF HistoryIsWhole, LiveOf
  <1>6. KeysInv <=> \A f \in Files \ contended : \A i \in LiveOf(f) : KeysFollow(<<f, i>>)
    BY <1>3, <1>4 DEF KeysInv, KeysFollow, LiveOf
  <1> HIDE DEF TypeOK
  <1> QED BY <1>1, <1>2, <1>5, <1>6 DEF Inv, ConsentInv, FilesInv, FileOK, ShapeOK

(* Steps that leave alone which rows and what artifacts the file has. *)
RowsSame(f) ==
  \A i \in 1 .. MaxRows : rows'[<<f, i>>].state = "there" <=> rows[<<f, i>>].state = "there"
ArtifactsSame(f) == \A i \in 1 .. MaxArtifacts : artifacts'[<<f, i>>] = artifacts[<<f, i>>]
BlobsSame(f) == \A i \in 1 .. MaxArtifacts : blobs'[<<f, i>>] = blobs[<<f, i>>]

LEMMA SameShape ==
  ASSUME NEW f \in Files, ShapeOK(f), RowsSame(f), ArtifactsSame(f), BlobsSame(f)
  PROVE  ShapeOK(f)' /\ RowsOf(f)' = RowsOf(f) /\ LiveOf(f)' = LiveOf(f)
  <1>1. RowsOf(f)' = RowsOf(f)
    BY DEF RowsOf, RowsSame
  <1>2. LiveOf(f)' = LiveOf(f)
    BY DEF LiveOf, ArtifactsSame
  <1>3. ASSUME NEW i \in LiveOf(f)
        PROVE  ArchiveIsWhole(<<f, i>>)' /\ KeysFollow(<<f, i>>)'
    <2>1. artifacts'[<<f, i>>] = artifacts[<<f, i>>] /\ blobs'[<<f, i>>] = blobs[<<f, i>>]
      BY DEF LiveOf, ArtifactsSame, BlobsSame
    <2> QED BY <2>1 DEF ShapeOK, ArchiveIsWhole, KeysFollow, Stored
  <1> QED BY <1>1, <1>2, <1>3 DEF ShapeOK

(* The artifact a call holds is one. *)
LEMMA HeldArtifact ==
  ASSUME TypeOK, CallsInv, NEW d \in Calls, calls[d].at \in {"stored", "uploading"}
  PROVE  calls[d].artifact \in 1 .. MaxArtifacts
  <1>1. calls[d].artifact \in 0 .. MaxArtifacts
    BY DEF TypeOK, CallType
  <1>2. calls[d].artifact # 0
    BY DEF CallsInv, CallOK
  <1> QED BY <1>1, <1>2, BoundsAssumption

(* A call's hold on the file lasts, if what it holds is left alone. *)
SameHold(d) ==
  /\ calls'[d].at = calls[d].at /\ calls'[d].listing = calls[d].listing
  /\ calls'[d].known = calls[d].known /\ calls'[d].file = calls[d].file
  /\ calls'[d].artifact = calls[d].artifact /\ calls'[d].base = calls[d].base
  /\ calls'[d].content = calls[d].content /\ (Linked(d)' => Linked(d))

LEMMA SameHeld ==
  ASSUME TypeOK, CallsInv, NEW f \in Files, NEW d \in Calls, HeldOK(d, f), SameHold(d),
         Linked(d)' => RowsOf(f)' = RowsOf(f), ArtifactsSame(f), BlobsSame(f)
  PROVE  HeldOK(d, f)'
  <1>1. Fresh(d, f)'
    BY DEF HeldOK, Fresh, SameHold
  <1>2. Current(d, f)'
    <2> SUFFICES ASSUME calls[d].at \in {"stored", "uploading"}, f \in calls[d].file
                 PROVE  Current(d, f)'
      BY DEF Current, SameHold
    <2>1. calls[d].artifact \in 1 .. MaxArtifacts
      BY HeldArtifact
    <2>2. LiveOf(f)' = LiveOf(f)
      BY DEF LiveOf, ArtifactsSame
    <2> DEFINE a == <<f, calls[d].artifact>>
    <2>3. artifacts'[a] = artifacts[a] /\ blobs'[a] = blobs[a]
      BY <2>1 DEF ArtifactsSame, BlobsSame
    <2> QED BY <2>2, <2>3 DEF HeldOK, Current, SameHold, Base
  <1> QED BY <1>1, <1>2 DEF HeldOK

(* A call holds nothing of a file it has neither listed nor loaded. *)
LEMMA HoldsNothing ==
  ASSUME NEW f \in Files, NEW d \in Calls,
         ~(calls'[d].at = "loaded" /\ calls'[d].listing[f] # 0),
         ~(calls'[d].at \in {"stored", "uploading"} /\ f \in calls'[d].file)
  PROVE  HeldOK(d, f)'
  BY DEF HeldOK, Fresh, Current

(* A step that changes only the call's record. *)
LEMMA OwnHeld ==
  ASSUME TypeOK, CallsInv, NEW f \in Files, FileOK(f), NEW c \in Calls, NEW call,
         Update(c, call), UNCHANGED <<link, rows, artifacts, blobs>>, HeldOK(c, f)'
  PROVE  FileOK(f)'
  <1>1. RowsSame(f) /\ ArtifactsSame(f) /\ BlobsSame(f)
    BY DEF RowsSame, ArtifactsSame, BlobsSame
  <1>2. ShapeOK(f)' /\ RowsOf(f)' = RowsOf(f)
    BY <1>1, SameShape DEF FileOK
  <1>3. ASSUME NEW d \in Calls, d # c
        PROVE  HeldOK(d, f)'
    <2>1. calls'[d] = calls[d]
      BY <1>3 DEF Update, TypeOK
    <2>2. SameHold(d)
      BY <2>1 DEF SameHold, Linked
    <2> QED BY <1>1, <1>2, <2>2, SameHeld DEF FileOK
  <1> QED BY <1>2, <1>3 DEF FileOK

LEMMA EnvironmentFile ==
  ASSUME TypeOK, TypeOK', ConsentInv, NEW f \in Files, FileOK(f), Environment
  PROVE  FileOK(f)'
  <1>1. CASE \/ \E g \in Files : Revise(g)
             \/ \E b \in BOOLEAN : Connect(b) \/ UpdateConnection(b)
    <2>1. UNCHANGED <<rows, artifacts, blobs, calls>>
      BY <1>1 DEF Revise, Connect, UpdateConnection
    <2>2. ASSUME NEW d \in Calls
          PROVE  Linked(d)' => Linked(d)
      <3>1. CASE \E g \in Files : Revise(g)
        BY <2>1, <3>1 DEF Revise, Linked
      <3>2. CASE \E b \in BOOLEAN : UpdateConnection(b)
        BY <2>1, <3>2 DEF UpdateConnection, Linked, TypeOK
      <3>3. CASE \E b \in BOOLEAN : Connect(b)
        <4>1. link.number \in Nat /\ calls[d].link \in Nat /\ calls[d].link <= link.number
          BY BoundsAssumption DEF TypeOK, CallType, ConsentInv, CallsInv, CallOK
        <4>2. link'.number = link.number + 1
          BY <3>3 DEF Connect
        <4> QED BY <2>1, <4>1, <4>2 DEF Linked
      <3> QED BY <1>1, <3>1, <3>2, <3>3
    <2>3. RowsSame(f) /\ ArtifactsSame(f) /\ BlobsSame(f)
      BY <2>1 DEF RowsSame, ArtifactsSame, BlobsSame
    <2>4. \A d \in Calls : SameHold(d)
      BY <2>1, <2>2 DEF SameHold
    <2>5. ShapeOK(f)' /\ RowsOf(f)' = RowsOf(f)
      BY <2>3, SameShape DEF FileOK
    <2> QED BY <2>3, <2>4, <2>5, SameHeld DEF FileOK, ConsentInv
  <1>2. CASE \/ \E b \in BOOLEAN : Disconnect(b)
             \/ \E a \in ArtifactIds : DeleteArtifact(a)
    <2>1. UNCHANGED <<blobs, calls>>
      BY <1>2 DEF Disconnect, DeleteArtifact
    <2>2. \/ UNCHANGED <<link, rows>>
          \/ ~link'.open /\ \A r \in RowIds : rows'[r].state # "there"
      BY <1>2 DEF Disconnect, DeleteArtifact, GoneRow, NoRow
    <2>3. ASSUME NEW a \in ArtifactIds
          PROVE  artifacts'[a] = artifacts[a] \/ artifacts'[a].state = "deleted"
      <3>1. GoneArtifact.state = "deleted"
        BY DEF GoneArtifact, NoArtifact
      <3>2. CASE \E b \in BOOLEAN : Disconnect(b)
        <4>1. artifacts'[a] = artifacts[a] \/ artifacts'[a] = GoneArtifact
          BY <3>2 DEF Disconnect
        <4> QED BY <3>1, <4>1
      <3>3. CASE \E b \in ArtifactIds : DeleteArtifact(b)
        <4>1. artifacts'[a] = artifacts[a] \/ artifacts'[a] = GoneArtifact
          BY <3>3 DEF DeleteArtifact, TypeOK
        <4> QED BY <3>1, <4>1
      <3> QED BY <1>2, <3>2, <3>3
    <2>4. \A i \in 1 .. MaxArtifacts : <<f, i>> \in ArtifactIds
      BY DEF ArtifactIds
    <2>5. \A i \in LiveOf(f)' : i \in LiveOf(f) /\ artifacts'[<<f, i>>] = artifacts[<<f, i>>]
      BY <2>3, <2>4 DEF LiveOf
    <2>6. RowsOf(f)' = RowsOf(f) \/ (RowsOf(f)' = {} /\ ~link'.open)
      BY <2>2 DEF RowsOf, RowIds
    <2>7. ShapeOK(f)'
      <3>1. ASSUME NEW i \in LiveOf(f)'
            PROVE  ArchiveIsWhole(<<f, i>>)' /\ KeysFollow(<<f, i>>)'
        <4>1. i \in LiveOf(f) /\ artifacts'[<<f, i>>] = artifacts[<<f, i>>]
          BY <2>5
        <4>2. ArchiveIsWhole(<<f, i>>) /\ KeysFollow(<<f, i>>)
          BY <4>1 DEF FileOK, ShapeOK
        <4> QED BY <2>1, <4>1, <4>2 DEF ArchiveIsWhole, KeysFollow, Stored
      <3>2. \A i, j \in RowsOf(f)' : i = j
        BY <2>6 DEF FileOK, ShapeOK
      <3>3. \A i, j \in LiveOf(f)' : i = j
        BY <2>5 DEF FileOK, ShapeOK
      <3> QED BY <3>1, <3>2, <3>3 DEF ShapeOK
    <2>8. ASSUME NEW d \in Calls
          PROVE  HeldOK(d, f)'
      <3>1. HeldOK(d, f)
        BY DEF FileOK
      <3>2. Fresh(d, f)'
        BY <2>1, <2>2, <2>6, <3>1 DEF HeldOK, Fresh, Linked
      <3>3. Current(d, f)'
        <4> SUFFICES ASSUME calls[d].at \in {"stored", "uploading"}, f \in calls[d].file
                     PROVE  Current(d, f)'
          BY <2>1 DEF Current
        <4>1. calls[d].artifact \in 1 .. MaxArtifacts
          BY HeldArtifact DEF ConsentInv
        <4> DEFINE a == <<f, calls[d].artifact>>
        <4>2. artifacts'[a] = artifacts[a] \/ artifacts'[a].state = "deleted"
          BY <2>3, <2>4, <4>1
        <4>3. LiveOf(f)' \subseteq LiveOf(f)
          BY <2>5
        <4> QED BY <2>1, <3>1, <4>2, <4>3 DEF HeldOK, Current, Base
      <3> QED BY <3>2, <3>3 DEF HeldOK
    <2> QED BY <2>7, <2>8 DEF FileOK
  <1> QED BY <1>1, <1>2 DEF Environment

LEMMA EndFile ==
  ASSUME TypeOK, ConsentInv, NEW f \in Files, FileOK(f), NEW c \in Calls,
         Finish(c), UNCHANGED <<link, rows, artifacts, blobs>>
  PROVE  FileOK(f)'
  <1>1. calls'[c] = Idle
    BY DEF Finish, Update, TypeOK
  <1>2. HeldOK(c, f)'
    BY <1>1, HoldsNothing DEF Idle
  <1> QED BY <1>2, OwnHeld DEF Finish, ConsentInv

LEMMA CallFile ==
  ASSUME TypeOK, ConsentInv, NEW f \in Files, FileOK(f), NEW c \in Calls,
         \/ \E present \in SUBSET Files : ListFolder(c, present)
         \/ LoadRows(c) \/ FailDiscover(c) \/ EndSync(c) \/ FailDecision(c) \/ Stop(c)
         \/ \E g \in Files :
              \/ Download(c, g) \/ FailDownload(c, g) \/ FailPublish(c, g)
              \/ \E i \in 1 .. MaxRows, op \in {"include", "exclude"} :
                   LoadDecision(c, g, i, op)
              \/ \E i \in 1 .. MaxArtifacts : LoadUpload(c, g, i)
  PROVE  FileOK(f)'
  <1>c. calls[c] \in CallType
    BY DEF TypeOK
  <1>1. CASE \/ FailDiscover(c) \/ EndSync(c) \/ FailDecision(c) \/ Stop(c)
             \/ \E g \in Files : FailPublish(c, g)
    BY <1>1, EndFile DEF FailDiscover, EndSync, FailDecision, Stop, FailPublish, data
  <1>2. ASSUME NEW present \in SUBSET Files, ListFolder(c, present)
        PROVE  FileOK(f)'
    <2>1. calls'[c].at = "listed"
      BY <1>2 DEF ListFolder, Begin, Update, TypeOK, Idle
    <2>2. HeldOK(c, f)'
      BY <2>1, HoldsNothing
    <2> QED BY <1>2, <2>2, OwnHeld DEF ListFolder, Begin, data, ConsentInv
  <1>3. CASE LoadRows(c)
    <2> DEFINE mine(known) ==
          [g \in Files |-> IF known[g] = 0 THEN NoRow ELSE rows[<<g, known[g]>>]]
    <2>1. PICK known \in [Files -> 0 .. MaxRows] :
            /\ \A g \in Files : IF Linked(c) /\ RowsOf(g) # {} THEN known[g] \in RowsOf(g)
                                                               ELSE known[g] = 0
            /\ Update(c, [calls[c] EXCEPT !.at = "loaded", !.known = known,
                                           !.mine = mine(known)])
      BY <1>3 DEF LoadRows
    <2> HIDE DEF mine
    <2>2. calls'[c].at = "loaded" /\ calls'[c].known = known /\ calls'[c].link = calls[c].link
      BY <2>1, <1>c DEF Update, CallType, TypeOK
    <2>3. UNCHANGED <<link, rows, artifacts, blobs>>
      BY <1>3 DEF LoadRows, data
    <2>4. known[f] = 0 => ~Linked(c) \/ RowsOf(f) = {}
      <3>1. 0 \notin RowsOf(f)
        BY DEF RowsOf
      <3> QED BY <2>1, <3>1
    <2>5. HeldOK(c, f)'
      BY <2>2, SMTT(40), <2>3, <2>4 DEF HeldOK, Fresh, Current, Linked, RowsOf
    <2> QED BY <2>1, <2>3, <2>5, OwnHeld DEF ConsentInv
  <1>4. ASSUME NEW g \in Files, NEW i \in 1 .. MaxRows, NEW op \in {"include", "exclude"},
               LoadDecision(c, g, i, op)
        PROVE  FileOK(f)'
    <2>1. calls'[c].at = "deciding"
      BY <1>4 DEF LoadDecision, Begin, Update, TypeOK, Idle
    <2>2. HeldOK(c, f)'
      BY <2>1, HoldsNothing
    <2> QED BY <1>4, <2>2, OwnHeld DEF LoadDecision, Begin, data, ConsentInv
  <1>5. ASSUME NEW g \in Files, Download(c, g) \/ FailDownload(c, g)
        PROVE  FileOK(f)'
    <2>1. UNCHANGED <<link, rows, artifacts, blobs>> /\ calls[c].at = "publishing"
      BY <1>5, Zenon DEF Download, FailDownload, data
    <2>2. CASE FailDownload(c, g) /\ calls[c].op # "sync"
      BY <2>1, <2>2, EndFile DEF FailDownload
    <2>3. CASE ~(FailDownload(c, g) /\ calls[c].op # "sync")
      <3>1. PICK call : /\ Update(c, call)
                        /\ \/ call = [calls[c] EXCEPT !.at = "fetched", !.todo = @ \ {g},
                                             !.file = {g}, !.content = revision[g]]
                           \/ call = [calls[c] EXCEPT !.todo = @ \ {g},
                                             !.failed = @ \cup {g}]
        BY <1>5, <2>3, Zenon DEF Download, FailDownload
      <3>2. calls'[c].at \in {"fetched", "publishing"}
        BY <2>1, <3>1, <1>c DEF Update, CallType, TypeOK
      <3>3. HeldOK(c, f)'
        BY <3>2, HoldsNothing
      <3> QED BY <2>1, <3>1, <3>3, OwnHeld DEF ConsentInv
    <2> QED BY <2>2, <2>3
  <1>6. ASSUME NEW g \in Files, NEW i \in 1 .. MaxArtifacts, LoadUpload(c, g, i)
        PROVE  FileOK(f)'
    <2>1. /\ calls'[c].at = "uploading" /\ calls'[c].file = {g} /\ calls'[c].artifact = i
          /\ calls'[c].base = Base(<<g, i>>) /\ UNCHANGED <<link, rows, artifacts, blobs>>
      BY <1>6 DEF LoadUpload, Begin, Update, TypeOK, Idle, data
    <2>2. Base(<<g, i>>).state = "live"
      BY <1>6 DEF LoadUpload, LiveOf, Base
    <2>3. HeldOK(c, f)'
      BY <2>1, <2>2 DEF HeldOK, Fresh, Current, Base
    <2> QED BY <1>6, <2>1, <2>3, OwnHeld DEF LoadUpload, Begin, ConsentInv
  <1> QED BY <1>1, <1>2, <1>3, <1>4, <1>5, <1>6

(* A decision leaves the rows there and the calls' hold on the file. *)
LEMMA DecisionFile ==
  ASSUME TypeOK, ConsentInv, NEW f \in Files, FileOK(f), NEW c \in Calls, NEW g \in Files,
         CommitInclude(c, g) \/ CommitExclude(c, g)
  PROVE  FileOK(f)'
  <1>1. UNCHANGED <<link, artifacts, blobs>> /\ calls[c].at = "deciding"
    BY DEF CommitInclude, CommitExclude
  <1>2. PICK decision : rows' = [rows EXCEPT ![<<g, calls[c].known[g]>>].decision = decision]
    BY DEF CommitInclude, CommitExclude
  <1>3. ASSUME NEW r \in RowIds
        PROVE  rows'[r].state = rows[r].state
    <2>1. rows[r] \in RowType
      BY DEF TypeOK
    <2> QED BY <1>2, <2>1 DEF TypeOK, RowType
  <1>4. RowsSame(f) /\ ArtifactsSame(f) /\ BlobsSame(f)
    BY <1>1, <1>3 DEF RowsSame, ArtifactsSame, BlobsSame, RowIds
  <1>5. ShapeOK(f)' /\ RowsOf(f)' = RowsOf(f)
    BY <1>4, SameShape DEF FileOK
  <1>6. calls'[c].at \in {"publishing", "idle"}
    <2>1. calls[c] \in CallType
      BY DEF TypeOK
    <2>2. CASE CommitInclude(c, g)
      BY <2>1, <2>2 DEF CommitInclude, Update, TypeOK, CallType
    <2>3. CASE CommitExclude(c, g)
      BY <2>3 DEF CommitExclude, Idle
    <2> QED BY <2>2, <2>3
  <1>7. HeldOK(c, f)'
    BY <1>6, HoldsNothing
  <1>8. ASSUME NEW d \in Calls, d # c
        PROVE  HeldOK(d, f)'
    <2>1. calls[d] \in CallType
      BY DEF TypeOK
    <2>2. calls'[d] = calls[d] \/ calls'[d] = [calls[d] EXCEPT !.overtaken = @ \cup {g}]
      BY <1>8, Zenon DEF CommitInclude, CommitExclude, Update, TypeOK
    <2>3. SameHold(d)
      BY <1>1, <2>1, <2>2 DEF SameHold, Linked, CallType
    <2> QED BY <1>4, <1>5, <2>3, SameHeld DEF FileOK, ConsentInv
  <1> QED BY <1>5, <1>7, <1>8 DEF FileOK

LEMMA CommitDiscoverFile ==
  ASSUME TypeOK, TypeOK', ConsentInv, AloneInv, NEW f \in Files \ contended, FileOK(f),
         NEW c \in Calls, CommitDiscover(c)
  PROVE  FileOK(f)'
  <1> DEFINE listed == {g \in Files : calls[c].listing[g] # 0}
             mine == [g \in Files |->
                       IF g \in listed THEN Reconciled(c, g) ELSE calls[c].mine[g]]
             todo == {g \in listed : Publishable(mine[g], calls[c].listing[g])}
  <1>1. PICK index \in [Files -> 0 .. MaxRows] :
          /\ \A g \in Files :
               IF g \in listed /\ calls[c].known[g] = 0
               THEN index[g] # 0 /\ NextRow(g, index[g]) ELSE index[g] = calls[c].known[g]
          /\ rows' = [r \in RowIds |->
               IF r[1] \in listed /\ r[2] = index[r[1]]
               THEN RowWritten(c, r[1], rows[r], mine[r[1]]) ELSE rows[r]]
          /\ Update(c, [calls[c] EXCEPT
               !.at = "publishing", !.auto = FALSE, !.known = index, !.mine = mine,
               !.todo = todo])
    BY Zenon DEF CommitDiscover
  <1>2. mine[f] = IF f \in listed THEN Reconciled(c, f) ELSE calls[c].mine[f]
    OBVIOUS
  <1> HIDE DEF mine, todo
  <1>0. /\ calls[c].at = "loaded" /\ calls[c].op = "sync" /\ Linked(c)
        /\ UNCHANGED <<link, artifacts, blobs>>
    BY DEF CommitDiscover, ConsentInv, CallsInv, CallOK
  <1>c. calls[c] \in CallType
    BY DEF TypeOK
  <1>3. calls'[c].at = "publishing"
    BY <1>1, <1>c DEF Update, CallType, TypeOK
  <1>4. HeldOK(c, f)'
    BY <1>3, HoldsNothing
  <1>5. ArtifactsSame(f) /\ BlobsSame(f) /\ \A d \in Calls \ {c} : SameHold(d)
    BY <1>0, <1>1 DEF ArtifactsSame, BlobsSame, SameHold, Linked, Update, TypeOK
  <1>6. CASE f \in listed /\ calls[c].known[f] = 0
    <2>1. index[f] # 0 /\ NextRow(f, index[f]) /\ mine[f].state = "there"
      BY <1>1, <1>2, <1>6 DEF Reconciled, NoRow
    <2>2. RowsOf(f) = {}
      BY <1>0, <1>6 DEF FileOK, HeldOK, Fresh
    <2>3. ASSUME NEW i \in RowsOf(f)'
          PROVE  i = index[f]
      <3>1. i \in 1 .. MaxRows /\ <<f, i>> \in RowIds /\ rows'[<<f, i>>].state = "there"
        BY DEF RowsOf, RowIds
      <3>2. i # index[f] => rows'[<<f, i>>] = rows[<<f, i>>]
        BY <1>1, <3>1
      <3> QED BY <2>2, <3>1, <3>2 DEF RowsOf
    <2>4. LiveOf(f)' = LiveOf(f)
      BY <1>5 DEF LiveOf, ArtifactsSame
    <2>5. ShapeOK(f)'
      <3>1. \A i, j \in RowsOf(f)' : i = j
        BY <2>3
      <3>2. ASSUME NEW i \in LiveOf(f)
            PROVE  ArchiveIsWhole(<<f, i>>)' /\ KeysFollow(<<f, i>>)'
        BY <1>0 DEF FileOK, ShapeOK, ArchiveIsWhole, KeysFollow, Stored
      <3> QED BY <2>4, <3>1, <3>2 DEF FileOK, ShapeOK
    <2>6. f \in WorksOn(c)
      BY <1>0, <1>6 DEF WorksOn
    <2>7. ASSUME NEW d \in Calls \ {c}
          PROVE  HeldOK(d, f)'
      <3>1. /\ ~(calls[d].at = "loaded" /\ calls[d].listing[f] # 0)
            /\ ~(calls[d].at \in {"stored", "uploading"} /\ f \in calls[d].file)
        BY <2>6, NobodyElse DEF ConsentInv
      <3>2. calls'[d] = calls[d]
        BY <1>1 DEF Update, TypeOK
      <3> QED BY <3>1, <3>2, HoldsNothing
    <2> QED BY <1>4, <2>5, <2>7 DEF FileOK
  <1>7. CASE ~(f \in listed /\ calls[c].known[f] = 0)
    <2>1. index[f] = calls[c].known[f]
      BY <1>1, <1>7
    <2>2. ASSUME NEW i \in 1 .. MaxRows
          PROVE  rows'[<<f, i>>].state = "there" <=> rows[<<f, i>>].state = "there"
      <3>1. <<f, i>> \in RowIds
        BY DEF RowIds
      <3>2. CASE ~(f \in listed /\ i = index[f])
        <4> HIDE DEF listed
        <4> QED BY <1>1, <3>1, <3>2
      <3>3. CASE f \in listed /\ i = index[f]
        <4>1. rows[<<f, i>>].state = "there" /\ rows[<<f, i>>] \in RowType
          BY <1>0, <2>1, <3>3, KnownThere DEF ConsentInv
        <4>2. rows'[<<f, i>>] = RowWritten(c, f, rows[<<f, i>>], mine[f])
          BY <1>1, <3>1, <3>3
        <4> QED BY <4>1, <4>2 DEF RowWritten, RowType
      <3> QED BY <3>2, <3>3
    <2>3. RowsSame(f)
      BY <2>2 DEF RowsSame
    <2>4. ShapeOK(f)' /\ RowsOf(f)' = RowsOf(f)
      BY <1>5, <2>3, SameShape DEF FileOK
    <2> QED BY <1>4, <1>5, <2>4, SameHeld DEF FileOK, ConsentInv
  <1> QED BY <1>6, <1>7

(* A step of one file leaves another alone. *)
LEMMA OtherFile ==
  ASSUME TypeOK, ConsentInv, NEW f \in Files, FileOK(f), NEW c \in Calls, UNCHANGED link,
         RowsSame(f), ArtifactsSame(f), BlobsSame(f), HeldOK(c, f)',
         \A d \in Calls \ {c} : calls'[d] = calls[d]
  PROVE  FileOK(f)'
  <1>1. ShapeOK(f)' /\ RowsOf(f)' = RowsOf(f)
    BY SameShape DEF FileOK
  <1>2. ASSUME NEW d \in Calls \ {c}
        PROVE  HeldOK(d, f)'
    <2>1. SameHold(d)
      BY DEF SameHold, Linked
    <2> QED BY <1>1, <2>1, SameHeld DEF FileOK, ConsentInv
  <1> QED BY <1>1, <1>2 DEF FileOK

(* The call at a file that is not contended is alone with it. *)
LEMMA AloneWith ==
  ASSUME ConsentInv, AloneInv, NEW f \in Files \ contended, NEW c \in Calls,
         f \in calls[c].file, calls[c].at \in {"fetched", "stored", "uploading"},
         \A d \in Calls \ {c} : calls'[d] = calls[d]
  PROVE  \A d \in Calls \ {c} : HeldOK(d, f)'
  <1>1. f \in WorksOn(c)
    BY DEF WorksOn, ConsentInv, CallsInv, CallOK
  <1> QED BY <1>1, NobodyElse, HoldsNothing DEF ConsentInv

LEMMA PutContentFile ==
  ASSUME TypeOK, TypeOK', ConsentInv, AloneInv, NEW f \in Files \ contended, FileOK(f),
         NEW c \in Calls, NEW g \in Files, NEW i \in 1 .. MaxArtifacts, PutContent(c, g, i)
  PROVE  FileOK(f)'
  <1> DEFINE a == <<g, i>>
             v == artifacts[a].version + 1
  <1>c. calls[c] \in CallType /\ a \in ArtifactIds /\ artifacts[a] \in ArtifactType
    BY DEF TypeOK, ArtifactIds
  <1>0. /\ calls[c].at = "fetched" /\ g \in calls[c].file /\ Target(c, g, i)
        /\ UNCHANGED <<link, rows, artifacts>>
        /\ blobs' = [blobs EXCEPT ![a][v] = calls[c].content]
        /\ Update(c, [calls[c] EXCEPT !.at = "stored", !.artifact = i, !.base = Base(a)])
    BY DEF PutContent
  <1>v. v \in 1 .. MaxVersion /\ artifacts[a].version \in Nat
    <2>1. v <= MaxVersion
      BY DEF PutContent
    <2> QED BY <2>1, <1>c, BoundsAssumption DEF ArtifactType
  <1>1. /\ calls'[c].at = "stored" /\ calls'[c].file = calls[c].file
        /\ calls'[c].artifact = i /\ calls'[c].base = Base(a)
        /\ calls'[c].content = calls[c].content
    BY <1>0, <1>c DEF Update, TypeOK, CallType
  <1>2. \A d \in Calls \ {c} : calls'[d] = calls[d]
    BY <1>0 DEF Update, TypeOK
  <1>3. RowsSame(f) /\ ArtifactsSame(f)
    BY <1>0 DEF RowsSame, ArtifactsSame
  <1>4. CASE f # g
    <2>1. f \notin calls[c].file
      BY <1>0, <1>4 DEF ConsentInv, CallsInv, CallOK
    <2>2. HeldOK(c, f)'
      BY <1>1, <2>1, HoldsNothing
    <2>3. ASSUME NEW j \in 1 .. MaxArtifacts
          PROVE  blobs'[<<f, j>>] = blobs[<<f, j>>]
      <3>1. <<f, j>> \in ArtifactIds /\ <<f, j>> # a
        BY <1>4 DEF ArtifactIds
      <3> QED BY <1>0, <3>1 DEF TypeOK
    <2>4. BlobsSame(f)
      BY <2>3 DEF BlobsSame
    <2> QED BY <1>0, <1>2, <1>3, <2>2, <2>4, OtherFile
  <1>5. CASE f = g
    <2>1. /\ blobs'[a][v] = calls[c].content
          /\ \A w \in 1 .. MaxVersion : w # v => blobs'[a][w] = blobs[a][w]
      BY <1>0, <1>c, <1>v DEF TypeOK
    <2>2. \A j \in 1 .. MaxArtifacts : j # i => blobs'[<<f, j>>] = blobs[<<f, j>>]
      <3>1. \A j \in 1 .. MaxArtifacts : j # i => <<f, j>> \in ArtifactIds /\ <<f, j>> # a
        BY DEF ArtifactIds
      <3> QED BY <1>0, <3>1 DEF TypeOK
    <2>3. RowsOf(f)' = RowsOf(f) /\ LiveOf(f)' = LiveOf(f)
      BY <1>3 DEF RowsOf, LiveOf, RowsSame, ArtifactsSame
    <2>4. ASSUME NEW j \in LiveOf(f)
          PROVE  ArchiveIsWhole(<<f, j>>)' /\ KeysFollow(<<f, j>>)'
      <3>1. ArchiveIsWhole(<<f, j>>) /\ KeysFollow(<<f, j>>) /\ j \in 1 .. MaxArtifacts
        BY DEF FileOK, ShapeOK, LiveOf
      <3>2. CASE j # i
        BY <1>0, <2>2, <3>1, <3>2, ZenonT(40) DEF ArchiveIsWhole, KeysFollow, Stored
      <3>3. CASE j = i
        <4> DEFINE art == artifacts[a]
        <4>1. art.archive \in Seq(Versions) /\ art.key \in 0 .. MaxVersion
          BY <1>c DEF ArtifactType
        <4>2. Len(art.archive) \in Nat /\ art.version = Len(art.archive) + 1
          BY <1>5, <3>1, <3>3, <4>1 DEF ArchiveIsWhole
        <4>3. art.key < v
          BY <1>5, <1>v, <3>1, <3>3, <4>1 DEF KeysFollow
        <4>k. ASSUME NEW k \in 0 .. MaxVersion, NEW sha, k < v, Stored(a, k, sha)
              PROVE  k = 0 \/ blobs'[a][k] = sha
          <5>1. k # 0 => k \in 1 .. MaxVersion /\ k # v
            BY <1>v, <4>k
          <5> QED BY <2>1, <4>k, <5>1 DEF Stored
        <4>4. art.key = 0 \/ blobs'[a][art.key] = art.sha
          <5>1. Stored(a, art.key, art.sha)
            BY <1>5, <3>1, <3>3 DEF ArchiveIsWhole
          <5> QED BY <4>1, <4>3, <4>k, <5>1
        <4>5. ASSUME NEW w \in 1 .. Len(art.archive)
              PROVE  /\ art.archive[w].version = w
                     /\ \/ art.archive[w].key = 0
                        \/ blobs'[a][art.archive[w].key] = art.archive[w].sha
          <5>1. art.archive[w] \in Versions
            BY <4>1
          <5>2. art.archive[w].key \in 0 .. MaxVersion
            BY <5>1 DEF Versions
          <5>3. art.archive[w].key <= w
            BY <1>5, <3>1, <3>3 DEF KeysFollow
          <5>4. art.archive[w].key < v
            BY <1>v, <4>2, <5>2, <5>3
          <5>5. art.archive[w].version = w /\ Stored(a, art.archive[w].key, art.archive[w].sha)
            BY <1>5, <3>1, <3>3 DEF ArchiveIsWhole
          <5> QED BY <4>k, <5>2, <5>4, <5>5
        <4>6. ArchiveIsWhole(a)'
          BY <1>0, <4>2, <4>4, <4>5 DEF ArchiveIsWhole, Stored
        <4>7. KeysFollow(a)'
          BY <1>0, <1>5, <3>1, <3>3 DEF KeysFollow
        <4> QED BY <1>5, <3>3, <4>6, <4>7
      <3> QED BY <3>2, <3>3
    <2>5. ShapeOK(f)'
      BY <2>3, <2>4 DEF FileOK, ShapeOK
    <2>6. HeldOK(c, f)'
      <3>1. Base(a).state = artifacts[a].state /\ Base(a).version = artifacts[a].version
        BY DEF Base
      <3>2. artifacts[a].state = "none" => LiveOf(f) = {} /\ artifacts[a].version = 0
        <4>1. ASSUME artifacts[a].state = "none"
              PROVE  LiveOf(f) = {}
          <5>1. i \notin LiveOf(g)
            BY <4>1 DEF LiveOf
          <5> QED BY <1>0, <1>5, <5>1 DEF Target
        <4>2. artifacts[a].state = "none" => artifacts[a].version = 0
          BY <1>c DEF ConsentInv, ArtifactsInv
        <4> QED BY <4>1, <4>2
      <3>3. Base(a)' = Base(a)
        BY <1>0 DEF Base
      <3>4. Current(c, f)'
        BY <1>1, <1>5, <2>1, <2>3, <3>1, <3>2, <3>3 DEF Current
      <3> QED BY <1>1, <3>4 DEF HeldOK, Fresh
    <2>7. \A d \in Calls \ {c} : HeldOK(d, f)'
      BY <1>0, <1>2, <1>5, AloneWith
    <2> QED BY <2>5, <2>6, <2>7 DEF FileOK
  <1> QED BY <1>4, <1>5

(* A new version on top of a whole history makes a whole history. *)
LEMMA HistoryGrows ==
  ASSUME NEW a \in ArtifactIds, artifacts[a] \in ArtifactType, artifacts'[a] \in ArtifactType,
         ArchiveIsWhole(a), KeysFollow(a), UNCHANGED blobs,
         artifacts'[a].version = artifacts[a].version + 1,
         artifacts'[a].archive = Append(artifacts[a].archive, Archived(Base(a))),
         Stored(a, artifacts'[a].key, artifacts'[a].sha),
         artifacts'[a].key <= artifacts'[a].version
  PROVE  ArchiveIsWhole(a)' /\ KeysFollow(a)'
  <1> DEFINE old == artifacts[a].archive
             new == artifacts'[a].archive
             last == Archived(Base(a))
             n == Len(old)
  <1>1. old \in Seq(Versions) /\ n \in Nat
    BY DEF ArtifactType
  <1>2. /\ last.version = artifacts[a].version /\ last.key = artifacts[a].key
        /\ last.sha = artifacts[a].sha
    BY DEF Archived, Base
  <1>3. artifacts[a].version = n + 1
    BY DEF ArchiveIsWhole
  <1>4. Len(new) = n + 1 /\ new[n + 1] = last /\ \A v \in 1 .. n : new[v] = old[v]
    BY <1>1
  <1>5. ASSUME NEW v \in 1 .. n + 1
        PROVE  new[v].version = v /\ Stored(a, new[v].key, new[v].sha) /\ new[v].key <= v
    <2>1. CASE v = n + 1
      <3>1. Stored(a, artifacts[a].key, artifacts[a].sha)
              /\ artifacts[a].key <= artifacts[a].version
        BY DEF ArchiveIsWhole, KeysFollow
      <3> QED BY <1>2, <1>3, <1>4, <2>1, <3>1
    <2>2. CASE v # n + 1
      <3>1. v \in 1 .. n
        BY <1>1, <2>2
      <3>2. old[v].version = v /\ Stored(a, old[v].key, old[v].sha) /\ old[v].key <= v
        BY <3>1 DEF ArchiveIsWhole, KeysFollow
      <3> QED BY <1>4, <3>1, <3>2
    <2> QED BY <2>1, <2>2
  <1> HIDE DEF new, old, last
  <1>6. ArchiveIsWhole(a)'
    <2>1. artifacts'[a].version = Len(new) + 1
      BY <1>1, <1>3, <1>4
    <2>2. \A v \in 1 .. Len(new) : new[v].version = v /\ Stored(a, new[v].key, new[v].sha)
      BY <1>4, <1>5
    <2> QED BY <2>1, <2>2 DEF ArchiveIsWhole, Stored, new
  <1>7. KeysFollow(a)'
    BY <1>4, <1>5 DEF KeysFollow, new
  <1> QED BY <1>6, <1>7

(* A commit to the artifact of a file, new or already live. *)
LEMMA CommitFile ==
  ASSUME TypeOK, TypeOK', ConsentInv, AloneInv, NEW f \in Files \ contended, FileOK(f),
         NEW c \in Calls, NEW g \in Files, NEW i \in 1 .. MaxArtifacts,
         calls[c].at \in {"stored", "uploading"}, g \in calls[c].file,
         UNCHANGED <<link, blobs>>, RowsSame(f),
         \A b \in ArtifactIds : b # <<g, i>> => artifacts'[b] = artifacts[b],
         calls'[c].at \in {"publishing", "idle"},
         \A d \in Calls \ {c} : calls'[d] = calls[d],
         f = g => /\ i \in LiveOf(g) \/ LiveOf(g) = {}
                  /\ ArchiveIsWhole(<<g, i>>)' /\ KeysFollow(<<g, i>>)'
  PROVE  FileOK(f)'
  <1>1. HeldOK(c, f)'
    BY HoldsNothing
  <1>2. \A j \in 1 .. MaxArtifacts : <<f, j>> \in ArtifactIds
    BY DEF ArtifactIds
  <1>3. CASE f # g
    <2>1. ArtifactsSame(f) /\ BlobsSame(f)
      BY <1>2, <1>3 DEF ArtifactsSame, BlobsSame
    <2> QED BY <1>1, <2>1, OtherFile
  <1>4. CASE f = g
    <2>1. RowsOf(f)' = RowsOf(f)
      BY DEF RowsOf, RowsSame
    <2>2. \A j \in 1 .. MaxArtifacts : j # i => artifacts'[<<f, j>>] = artifacts[<<f, j>>]
      BY <1>2, <1>4
    <2>3. \A j \in LiveOf(f)' : j = i \/ j \in LiveOf(f)
      BY <2>2 DEF LiveOf
    <2>4. \A j, k \in LiveOf(f)' : j = k
      BY <1>4, <2>3 DEF FileOK, ShapeOK
    <2>5. ASSUME NEW j \in LiveOf(f)', j # i
          PROVE  ArchiveIsWhole(<<f, j>>)' /\ KeysFollow(<<f, j>>)'
      <3>1. artifacts'[<<f, j>>] = artifacts[<<f, j>>] /\ j \in LiveOf(f)
        BY <2>2, <2>3, <2>5 DEF LiveOf
      <3> QED BY <3>1 DEF FileOK, ShapeOK, ArchiveIsWhole, KeysFollow, Stored
    <2>6. ShapeOK(f)'
      BY <1>4, <2>1, <2>4, <2>5 DEF FileOK, ShapeOK
    <2>7. \A d \in Calls \ {c} : HeldOK(d, f)'
      BY <1>4, AloneWith
    <2> QED BY <1>1, <2>6, <2>7 DEF FileOK
  <1> QED BY <1>3, <1>4

LEMMA CommitPublishFile ==
  ASSUME TypeOK, TypeOK', ConsentInv, AloneInv, NEW f \in Files \ contended, FileOK(f),
         NEW c \in Calls, NEW g \in Files, CommitPublish(c, g)
  PROVE  FileOK(f)'
  <1> DEFINE base == calls[c].base
             content == calls[c].content
  <1>0. /\ calls[c].at = "stored" /\ g \in calls[c].file /\ Writable(c, g) /\ Linked(c)
        /\ UNCHANGED <<link, blobs>> /\ calls[c].known[g] # 0
    BY DEF CommitPublish, ConsentInv, CallsInv, CallOK
  <1>c. calls[c] \in CallType
    BY DEF TypeOK
  <1>b. PICK i \in 1 .. MaxArtifacts : i = calls[c].artifact
    BY <1>0, HeldArtifact DEF ConsentInv
  <1> DEFINE a == <<g, i>>
  <1>a. a \in ArtifactIds
    BY DEF ArtifactIds
  <1>t. artifacts[a] \in ArtifactType /\ artifacts'[a] \in ArtifactType /\ base \in BaseType
    BY <1>a, <1>c DEF TypeOK, CallType
  <1>1. artifacts' = [artifacts EXCEPT ![a] =
                       NewVersion(artifacts[a], base, base.version + 1, content)]
    BY <1>b DEF CommitPublish
  <1>2. /\ artifacts'[a] = NewVersion(artifacts[a], base, base.version + 1, content)
        /\ \A b \in ArtifactIds : b # a => artifacts'[b] = artifacts[b]
    BY <1>1, <1>a DEF TypeOK
  <1>3. calls'[c].at \in {"publishing", "idle"}
          /\ \A d \in Calls \ {c} : calls'[d] = calls[d]
    <2>1. CASE calls[c].op = "sync"
      <3>1. Update(c, [calls[c] EXCEPT !.at = "publishing", !.file = {}])
        BY <2>1 DEF CommitPublish
      <3> QED BY <3>1, <1>c DEF Update, TypeOK, CallType
    <2>2. CASE calls[c].op # "sync"
      <3>1. Finish(c)
        BY <2>2 DEF CommitPublish
      <3> QED BY <3>1 DEF Finish, Update, TypeOK, Idle
    <2> QED BY <2>1, <2>2
  <1>4. RowsSame(f)
    <2> DEFINE r == <<g, calls[c].known[g]>>
    <2>1. r \in RowIds /\ rows[r] \in RowType
      BY <1>0, KnownThere DEF ConsentInv
    <2>2. rows' = [rows EXCEPT ![r] = Published(rows[r], calls[c].mine[g], i,
                                                calls[c].listing[g])]
      BY <1>b DEF CommitPublish
    <2>3. Published(rows[r], calls[c].mine[g], i, calls[c].listing[g]).state = rows[r].state
      BY <2>1 DEF Published, RowType
    <2>4. \A q \in RowIds : rows'[q].state = rows[q].state
      BY <2>1, <2>2, <2>3 DEF TypeOK
    <2> QED BY <2>4 DEF RowsSame, RowIds
  <1>5. ASSUME f = g
        PROVE  /\ i \in LiveOf(g) \/ LiveOf(g) = {}
               /\ ArchiveIsWhole(a)' /\ KeysFollow(a)'
    <2>1. /\ base.state = "none" => LiveOf(g) = {} /\ base.version = 0
          /\ base.state = "live" /\ artifacts[a].state = "live" => base = Base(a)
          /\ blobs[a][base.version + 1] = content
      BY <1>0, <1>b, <1>5 DEF FileOK, HeldOK, Current
    <2>2. CASE base.state = "none"
      <3>1. artifacts'[a] = [state |-> "live", version |-> 1, key |-> 1, sha |-> content,
                             archive |-> <<>>]
        BY <1>2, <2>1, <2>2 DEF NewVersion
      <3>2. blobs'[a][1] = content
        BY <1>0, <2>1, <2>2
      <3> QED BY <2>1, <2>2, <3>1, <3>2 DEF ArchiveIsWhole, KeysFollow, Stored
    <2>3. CASE base.state # "none"
      <3>1. base.state = "live" /\ artifacts[a].state = "live"
        BY <1>0, <1>b, <1>t, <2>3 DEF BaseType, Writable
      <3>2. base = Base(a) /\ base.version = artifacts[a].version /\ base.sha = artifacts[a].sha
        BY <2>1, <3>1 DEF Base
      <3>3. artifacts'[a] = [artifacts[a] EXCEPT
              !.version = base.version + 1, !.key = base.version + 1,
              !.sha = Written(base.sha, content, @), !.archive = Append(@, Archived(base))]
        BY <1>2, <2>3 DEF NewVersion
      <3>4. /\ artifacts'[a].version = artifacts[a].version + 1
            /\ artifacts'[a].key = artifacts[a].version + 1
            /\ artifacts'[a].sha = content
            /\ artifacts'[a].archive = Append(artifacts[a].archive, Archived(Base(a)))
        BY <1>t, <3>2, <3>3 DEF ArtifactType, Written
      <3>5. i \in LiveOf(g) /\ ArchiveIsWhole(a) /\ KeysFollow(a)
        BY <1>a, <1>5, <3>1 DEF LiveOf, FileOK, ShapeOK
      <3>6. Stored(a, artifacts'[a].key, artifacts'[a].sha)
        BY <2>1, <3>2, <3>4 DEF Stored
      <3>7. artifacts'[a].key <= artifacts'[a].version
        BY <1>t, <3>4 DEF ArtifactType
      <3> QED BY <1>0, <1>a, <1>t, <3>4, <3>5, <3>6, <3>7, HistoryGrows
    <2> QED BY <2>2, <2>3
  <1> QED BY <1>0, <1>a, <1>2, <1>3, <1>4, <1>5, CommitFile

LEMMA CommitUploadFile ==
  ASSUME TypeOK, TypeOK', ConsentInv, AloneInv, NEW f \in Files \ contended, FileOK(f),
         NEW c \in Calls, NEW g \in Files, CommitUpload(c, g)
  PROVE  FileOK(f)'
  <1> DEFINE base == calls[c].base
  <1>0. /\ calls[c].at = "uploading" /\ g \in calls[c].file /\ Writable(c, g)
        /\ UNCHANGED <<link, rows, blobs>> /\ base.state = "live" /\ Finish(c)
    BY DEF CommitUpload, ConsentInv, CallsInv, CallOK
  <1>b. PICK i \in 1 .. MaxArtifacts : i = calls[c].artifact
    BY <1>0, HeldArtifact DEF ConsentInv
  <1> DEFINE a == <<g, i>>
  <1>a. a \in ArtifactIds
    BY DEF ArtifactIds
  <1>t. artifacts[a] \in ArtifactType /\ artifacts'[a] \in ArtifactType
    BY <1>a DEF TypeOK
  <1>1. artifacts' = [artifacts EXCEPT ![a] = ByHand(artifacts[a], base)]
    BY <1>b DEF CommitUpload
  <1>2. /\ artifacts'[a] = ByHand(artifacts[a], base)
        /\ \A b \in ArtifactIds : b # a => artifacts'[b] = artifacts[b]
    BY <1>1, <1>a DEF TypeOK
  <1>3. calls'[c].at = "idle" /\ \A d \in Calls \ {c} : calls'[d] = calls[d]
    BY <1>0 DEF Finish, Update, TypeOK, Idle
  <1>4. RowsSame(f)
    BY <1>0 DEF RowsSame
  <1>5. ASSUME f = g
        PROVE  /\ i \in LiveOf(g) \/ LiveOf(g) = {}
               /\ ArchiveIsWhole(a)' /\ KeysFollow(a)'
    <2>1. artifacts[a].state = "live"
      BY <1>0, <1>b DEF Writable
    <2>2. base = Base(a) /\ base.version = artifacts[a].version
      <3>1. Current(c, g)
        BY <1>5 DEF FileOK, HeldOK
      <3>2. base = Base(a)
        BY <1>0, <1>b, <2>1, <3>1 DEF Current
      <3> QED BY <3>2 DEF Base
    <2>3. /\ artifacts'[a].version = artifacts[a].version + 1 /\ artifacts'[a].key = 0
          /\ artifacts'[a].archive = Append(artifacts[a].archive, Archived(Base(a)))
      BY <1>t, <1>2, <2>2 DEF ArtifactType, ByHand
    <2>4. i \in LiveOf(g) /\ ArchiveIsWhole(a) /\ KeysFollow(a)
      BY <1>a, <1>5, <2>1 DEF LiveOf, FileOK, ShapeOK
    <2>5. Stored(a, artifacts'[a].key, artifacts'[a].sha)
            /\ artifacts'[a].key <= artifacts'[a].version
      BY <1>t, <2>3 DEF Stored, ArtifactType
    <2> QED BY <1>0, <1>a, <1>t, <2>3, <2>4, <2>5, HistoryGrows
  <1> QED BY <1>0, <1>a, <1>2, <1>3, <1>4, <1>5, CommitFile

LEMMA NextFiles ==
  ASSUME TypeOK, TypeOK', ConsentInv, AloneInv, FilesInv, Next
  PROVE  AloneInv' /\ FilesInv'
  <1>1. AloneInv' /\ Files \ contended' \subseteq Files \ contended
    BY NextAlone
  <1>2. ASSUME NEW f \in Files \ contended
        PROVE  FileOK(f)'
    <2>0. FileOK(f)
      BY DEF FilesInv
    <2>1. CASE Environment
      BY <2>0, <2>1, EnvironmentFile
    <2>2. ASSUME NEW c \in Calls, Step(c)
          PROVE  FileOK(f)'
      <3>1. CASE CommitDiscover(c)
        BY <2>0, <3>1, CommitDiscoverFile
      <3>2. CASE \E g \in Files : CommitInclude(c, g) \/ CommitExclude(c, g)
        BY <2>0, <3>2, DecisionFile
      <3>3. CASE \E g \in Files : CommitPublish(c, g) \/ CommitUpload(c, g)
        BY <2>0, <3>3, CommitPublishFile, CommitUploadFile
      <3>4. CASE \E g \in Files, i \in 1 .. MaxArtifacts : PutContent(c, g, i)
        BY <2>0, <3>4, PutContentFile
      <3>5. CASE \/ \E present \in SUBSET Files : ListFolder(c, present)
                 \/ LoadRows(c) \/ FailDiscover(c) \/ EndSync(c) \/ FailDecision(c) \/ Stop(c)
                 \/ \E g \in Files :
                      \/ Download(c, g) \/ FailDownload(c, g) \/ FailPublish(c, g)
                      \/ \E i \in 1 .. MaxRows, op \in {"include", "exclude"} :
                           LoadDecision(c, g, i, op)
                      \/ \E i \in 1 .. MaxArtifacts : LoadUpload(c, g, i)
        BY <2>0, <3>5, CallFile
      <3> QED BY <2>2, <3>1, <3>2, <3>3, <3>4, <3>5 DEF Step
    <2> QED BY <2>1, <2>2 DEF Next
  <1> QED BY <1>1, <1>2 DEF FilesInv

LEMMA InitFiles == Init => AloneInv /\ FilesInv
  <1> SUFFICES ASSUME Init
               PROVE  AloneInv /\ FilesInv
    OBVIOUS
  <1>1. /\ \A c \in Calls : calls[c].at = "idle" /\ calls[c].todo = {} /\ calls[c].file = {}
    BY DEF Init, Idle
  <1>2. \A f \in Files : RowsOf(f) = {} /\ LiveOf(f) = {}
    BY DEF Init, RowsOf, LiveOf, RowIds, ArtifactIds, NoRow, NoArtifact
  <1>3. AloneInv
    BY <1>1 DEF AloneInv, WorksOn
  <1>4. FilesInv
    BY <1>1, <1>2 DEF FilesInv, FileOK, ShapeOK, HeldOK, Fresh, Current
  <1> QED BY <1>3, <1>4

(***************************************************************************)
(* Inv, which TLC checks, holds of every reachable state for all constants.*)
(***************************************************************************)
THEOREM Invariance == Spec => []Inv
  <1> DEFINE All == TypeOK /\ ConsentInv /\ AloneInv /\ FilesInv
  <1>1. Init => All
    BY InitType, InitConsent, InitFiles
  <1>2. All /\ [Next]_vars => All'
    <2> SUFFICES ASSUME All, [Next]_vars
                 PROVE  All'
      OBVIOUS
    <2>1. TypeOK' /\ ConsentInv'
      BY NextType, NextConsent DEF ConsentInv
    <2>2. CASE Next
      BY <2>1, <2>2, NextFiles
    <2>3. CASE UNCHANGED vars
      <3>1. AloneInv'
        BY <2>3 DEF vars, AloneInv, WorksOn
      <3>2. FilesInv'
        BY <2>3 DEF vars, FilesInv, FileOK, ShapeOK, HeldOK, Fresh, Current, RowsOf, LiveOf,
                    Linked, ArchiveIsWhole, KeysFollow, Stored, Base
      <3> QED BY <2>1, <3>1, <3>2
    <2> QED BY <2>2, <2>3
  <1>3. All => Inv
    BY InvParts
  <1> HIDE DEF All
  <1> QED BY <1>1, <1>2, <1>3, PTL DEF Spec

(***************************************************************************)
(* A file has one row and one artifact while no two calls work on it at    *)
(* the same time: see OneOfEach.                                           *)
(***************************************************************************)
THEOREM FilesHaveOneOfEach == Spec => []OneOfEach
  <1>1. Inv => OneOfEach
    BY DEF Inv
  <1> QED BY <1>1, Invariance, PTL

(***************************************************************************)
(* Its version history is complete, in order, and hashed right: see        *)
(* HistoryIsWhole.                                                         *)
(***************************************************************************)
THEOREM HistoriesAreWhole == Spec => []HistoryIsWhole
  <1>1. Inv => HistoryIsWhole
    BY DEF Inv
  <1> QED BY <1>1, Invariance, PTL
-----------------------------------------------------------------------------
(***************************************************************************)
(* A sync catches up.  What a call was told of a file is no revision the   *)
(* file has not had, what it downloaded is no older, and what it is at, it *)
(* is at once.                                                             *)
(***************************************************************************)
Carries(c) == calls[c].at \in {"fetched", "stored"}
Publishes(c) == calls[c].at \in {"publishing", "fetched", "stored"}

Told(c, f) ==
  /\ calls[c].listing[f] <= revision[f]
  /\ calls[c].at = "publishing" => f \notin calls[c].file
  /\ Carries(c) /\ f \in calls[c].file =>
       /\ calls[c].listing[f] <= calls[c].content /\ calls[c].content <= revision[f]
       /\ f \notin calls[c].todo
  /\ calls[c].op = "sync" /\ Publishes(c) /\ calls[c].listing[f] # 0 => calls[c].known[f] # 0

SeenInv == \A r \in RowIds : rows[r].seen <= revision[r[1]]
ShownInv == \A a \in ArtifactIds : artifacts[a].sha <= revision[a[1]]
ToldInv == SeenInv /\ ShownInv /\ \A c \in Calls, f \in Files : Told(c, f)

(* What a step leaves of the other calls: all but what was overtaken. *)
SameCall(d) ==
  /\ calls'[d].op = calls[d].op /\ calls'[d].at = calls[d].at
  /\ calls'[d].link = calls[d].link /\ calls'[d].listing = calls[d].listing
  /\ calls'[d].known = calls[d].known /\ calls'[d].mine = calls[d].mine
  /\ calls'[d].todo = calls[d].todo /\ calls'[d].file = calls[d].file
  /\ calls'[d].content = calls[d].content /\ calls'[d].failed = calls[d].failed

LEMMA OthersSame ==
  ASSUME TypeOK, NEW c \in Calls, Step(c)
  PROVE  \A d \in Calls \ {c} : SameCall(d)
  <1> SUFFICES ASSUME NEW d \in Calls \ {c}
               PROVE  SameCall(d)
    OBVIOUS
  <1>1. calls'[d] = calls[d] => SameCall(d)
    BY DEF SameCall
  <1>2. \A call : Update(c, call) => SameCall(d)
    BY <1>1 DEF Update, TypeOK
  <1>3. ASSUME NEW g \in Files, CommitExclude(c, g)
        PROVE  SameCall(d)
    <2>1. calls[d] \in CallType
      BY DEF TypeOK
    <2>2. calls'[d] = calls[d] \/ calls'[d] = [calls[d] EXCEPT !.overtaken = @ \cup {g}]
      BY <1>3, Zenon DEF CommitExclude
    <2> QED BY <2>1, <2>2 DEF SameCall, CallType
  <1>4. CASE \/ \E present \in SUBSET Files : ListFolder(c, present)
             \/ LoadRows(c) \/ CommitDiscover(c) \/ FailDiscover(c) \/ EndSync(c)
             \/ FailDecision(c) \/ Stop(c)
    <2>1. \E call : Update(c, call)
      BY <1>4, ZenonT(40) DEF ListFolder, LoadRows, CommitDiscover, FailDiscover, EndSync,
            FailDecision, Stop, Begin, Finish
    <2> QED BY <1>2, <2>1
  <1>5. ASSUME NEW g \in Files,
               \/ CommitInclude(c, g) \/ Download(c, g) \/ FailDownload(c, g)
               \/ CommitPublish(c, g) \/ FailPublish(c, g) \/ CommitUpload(c, g)
        PROVE  SameCall(d)
    <2>1. \E call : Update(c, call)
      BY <1>5, Zenon DEF CommitInclude, Download, FailDownload, CommitPublish, FailPublish,
                         CommitUpload, Finish
    <2> QED BY <1>2, <2>1
  <1>6. ASSUME NEW g \in Files,
               \/ \E i \in 1 .. MaxRows, op \in {"include", "exclude"} : LoadDecision(c, g, i, op)
               \/ \E i \in 1 .. MaxArtifacts : PutContent(c, g, i) \/ LoadUpload(c, g, i)
        PROVE  SameCall(d)
    <2>1. \E call : Update(c, call)
      BY <1>6, Zenon DEF LoadDecision, PutContent, LoadUpload, Begin
    <2> QED BY <1>2, <2>1
  <1> QED BY <1>3, <1>4, <1>5, <1>6 DEF Step

LEMMA SameTold ==
  ASSUME TypeOK, TypeOK', NEW d \in Calls, NEW f \in Files, Told(d, f), SameCall(d),
         revision[f] <= revision'[f]
  PROVE  Told(d, f)'
  <1>1. /\ calls[d].listing[f] \in Nat /\ calls[d].content \in Nat
        /\ revision[f] \in Nat /\ revision'[f] \in Nat
    <2>1. calls[d] \in CallType /\ MaxRevision \in Nat
      BY BoundsAssumption DEF TypeOK
    <2>2. revision[f] \in 1 .. MaxRevision /\ revision'[f] \in 1 .. MaxRevision
      BY DEF TypeOK
    <2> QED BY <2>1, <2>2 DEF CallType, Revisions
  <1>2. /\ calls[d].listing[f] <= revision'[f]
        /\ calls[d].content <= revision[f] => calls[d].content <= revision'[f]
    BY <1>1 DEF Told
  <1> QED BY <1>2 DEF Told, SameCall, Carries, Publishes

LEMMA IdleTold ==
  ASSUME TypeOK', NEW c \in Calls, NEW f \in Files, calls'[c] = Idle
  PROVE  Told(c, f)'
  <1>1. revision'[f] \in Nat
    BY BoundsAssumption DEF TypeOK
  <1> QED BY <1>1 DEF Told, Idle, Carries, Publishes

(* What a step makes of what its own call was told. *)
LEMMA OwnTold ==
  ASSUME TypeOK, TypeOK', CallsInv, ToldInv, NEW c \in Calls, NEW f \in Files, Step(c)
  PROVE  Told(c, f)'
  <1>c. calls[c] \in CallType
    BY DEF TypeOK
  <1>0. Told(c, f) /\ CallOK(c)
    BY DEF ToldInv, CallsInv
  <1>r. revision[f] \in Nat
    BY BoundsAssumption DEF TypeOK
  <1>1. CASE \/ FailDiscover(c) \/ EndSync(c) \/ FailDecision(c) \/ Stop(c)
             \/ \E g \in Files : FailPublish(c, g) \/ CommitUpload(c, g) \/ CommitExclude(c, g)
    <2>1. calls'[c] = Idle
      <3>1. CASE \E g \in Files : CommitExclude(c, g)
        BY <3>1, Zenon DEF CommitExclude
      <3>2. CASE Finish(c)
        BY <3>2 DEF Finish, Update, TypeOK
      <3> QED BY <1>1, <3>1, <3>2 DEF FailDiscover, EndSync, FailDecision, Stop, FailPublish,
                                      CommitUpload
    <2> QED BY <2>1, IdleTold
  <1>2. ASSUME NEW present \in SUBSET Files, ListFolder(c, present)
        PROVE  Told(c, f)'
    <2>1. calls'[c] = [Idle EXCEPT
            !.op = "sync", !.at = "listed", !.link = link.number, !.auto = link.auto,
            !.listing = [g \in Files |-> IF g \in present THEN revision[g] ELSE 0]]
      BY <1>2 DEF ListFolder, Begin, Update, TypeOK
    <2>2. /\ calls'[c].at = "listed"
          /\ calls'[c].listing[f] = IF f \in present THEN revision[f] ELSE 0
      BY <2>1 DEF Idle
    <2>3. revision' = revision
      BY <1>2 DEF ListFolder, data
    <2> QED BY <1>r, <2>2, <2>3 DEF Told, Carries, Publishes
  <1>3. CASE LoadRows(c)
    <2>1. PICK known, mine :
            Update(c, [calls[c] EXCEPT !.at = "loaded", !.known = known, !.mine = mine])
      BY <1>3, Zenon DEF LoadRows
    <2>2. calls'[c].at = "loaded" /\ calls'[c].listing = calls[c].listing
      BY <2>1, <1>c DEF Update, TypeOK, CallType
    <2>3. revision' = revision
      BY <1>3 DEF LoadRows, data
    <2> QED BY <1>0, <2>2, <2>3 DEF Told, Carries, Publishes
  <1>4. CASE CommitDiscover(c)
    <2> DEFINE listed == {g \in Files : calls[c].listing[g] # 0}
    <2>1. PICK index, mine, todo :
            /\ index \in [Files -> 0 .. MaxRows]
            /\ \A g \in Files :
                 IF g \in listed /\ calls[c].known[g] = 0
                 THEN index[g] # 0 /\ NextRow(g, index[g]) ELSE index[g] = calls[c].known[g]
            /\ Update(c, [calls[c] EXCEPT
                 !.at = "publishing", !.auto = FALSE, !.known = index, !.mine = mine,
                 !.todo = todo])
      BY <1>4, Zenon DEF CommitDiscover
    <2>2. calls[c].listing[f] # 0 => index[f] # 0
      BY <2>1
    <2>3. /\ calls'[c].at = "publishing" /\ calls'[c].listing = calls[c].listing
          /\ calls'[c].known = index /\ calls'[c].file = calls[c].file
      BY <2>1, <1>c DEF Update, TypeOK, CallType
    <2>4. revision' = revision /\ calls[c].file = {}
      BY <1>0, <1>4 DEF CommitDiscover, CallOK
    <2> QED BY <1>0, <2>2, <2>3, <2>4 DEF Told, Carries, Publishes
  <1>5. ASSUME NEW g \in Files, NEW i \in 1 .. MaxRows, NEW op \in {"include", "exclude"},
               LoadDecision(c, g, i, op)
        PROVE  Told(c, f)'
    <2>1. calls'[c] = [Idle EXCEPT
            !.op = op, !.at = "deciding", !.link = link.number, !.known[g] = i,
            !.mine[g] = rows[<<g, i>>], !.listing[g] = rows[<<g, i>>].seen, !.todo = {g}]
      BY <1>5 DEF LoadDecision, Begin, Update, TypeOK
    <2>2. /\ calls'[c].at = "deciding"
          /\ calls'[c].listing[f] = IF f = g THEN rows[<<g, i>>].seen ELSE 0
      BY <2>1 DEF Idle
    <2>3. revision' = revision
      BY <1>5 DEF LoadDecision, data
    <2>4. <<g, i>> \in RowIds
      BY DEF RowIds
    <2>5. rows[<<g, i>>].seen <= revision[g]
      BY <2>4 DEF ToldInv, SeenInv
    <2> QED BY <1>r, <2>2, <2>3, <2>5 DEF Told, Carries, Publishes
  <1>6. ASSUME NEW g \in Files, CommitInclude(c, g)
        PROVE  Told(c, f)'
    <2>1. /\ calls'[c].at = "publishing" /\ calls'[c].listing = calls[c].listing
          /\ calls'[c].op = "include" /\ calls'[c].file = calls[c].file
      BY <1>6, <1>c DEF CommitInclude, Update, TypeOK, CallType
    <2>2. revision' = revision /\ calls[c].file = {}
      BY <1>0, <1>6 DEF CommitInclude, CallOK
    <2> QED BY <1>0, <2>1, <2>2 DEF Told, Carries
  <1>7. ASSUME NEW g \in Files, Download(c, g)
        PROVE  Told(c, f)'
    <2>1. /\ calls'[c].at = "fetched" /\ calls'[c].listing = calls[c].listing
          /\ calls'[c].op = calls[c].op /\ calls'[c].file = {g}
          /\ calls'[c].todo = calls[c].todo \ {g} /\ calls'[c].content = revision[g]
          /\ calls'[c].known = calls[c].known
      BY <1>7, <1>c DEF Download, Update, TypeOK, CallType
    <2>2. revision' = revision /\ calls[c].at = "publishing"
      BY <1>7 DEF Download, data
    <2> QED BY <1>0, <1>r, <2>1, <2>2 DEF Told, Carries, Publishes
  <1>8. ASSUME NEW g \in Files, FailDownload(c, g)
        PROVE  Told(c, f)'
    <2>1. revision' = revision /\ calls[c].at = "publishing"
      BY <1>8 DEF FailDownload, data
    <2>2. CASE calls[c].op = "sync"
      <3>1. /\ calls'[c].at = "publishing" /\ calls'[c].listing = calls[c].listing
            /\ calls'[c].file = calls[c].file /\ calls'[c].known = calls[c].known
            /\ calls'[c].op = calls[c].op
        <4>1. Update(c, [calls[c] EXCEPT !.todo = @ \ {g}, !.failed = @ \cup {g}])
          BY <1>8, <2>2 DEF FailDownload
        <4> QED BY <4>1, <1>c, <2>1 DEF Update, TypeOK, CallType
      <3> QED BY <1>0, <2>1, <2>2, <3>1 DEF Told, Carries, Publishes
    <2>3. CASE calls[c].op # "sync"
      BY <1>8, <2>3, IdleTold DEF FailDownload, Finish, Update, TypeOK
    <2> QED BY <2>2, <2>3
  <1>9. ASSUME NEW g \in Files, NEW i \in 1 .. MaxArtifacts, PutContent(c, g, i)
        PROVE  Told(c, f)'
    <2>1. /\ calls'[c].at = "stored" /\ calls'[c].listing = calls[c].listing
          /\ calls'[c].op = calls[c].op /\ calls'[c].file = calls[c].file
          /\ calls'[c].todo = calls[c].todo /\ calls'[c].content = calls[c].content
          /\ calls'[c].known = calls[c].known
      BY <1>9, <1>c DEF PutContent, Update, TypeOK, CallType
    <2>2. revision' = revision /\ calls[c].at = "fetched"
      BY <1>9 DEF PutContent
    <2> QED BY <1>0, <2>1, <2>2 DEF Told, Carries, Publishes
  <1>10. ASSUME NEW g \in Files, CommitPublish(c, g)
         PROVE  Told(c, f)'
    <2>1. revision' = revision /\ calls[c].at = "stored"
      BY <1>10 DEF CommitPublish
    <2>2. CASE calls[c].op = "sync"
      <3>1. /\ calls'[c].at = "publishing" /\ calls'[c].listing = calls[c].listing
            /\ calls'[c].file = {} /\ calls'[c].known = calls[c].known
            /\ calls'[c].op = calls[c].op
        <4>1. Update(c, [calls[c] EXCEPT !.at = "publishing", !.file = {}])
          BY <1>10, <2>2 DEF CommitPublish
        <4> QED BY <4>1, <1>c DEF Update, TypeOK, CallType
      <3> QED BY <1>0, <2>1, <2>2, <3>1 DEF Told, Carries, Publishes
    <2>3. CASE calls[c].op # "sync"
      BY <1>10, <2>3, IdleTold DEF CommitPublish, Finish, Update, TypeOK
    <2> QED BY <2>2, <2>3
  <1>11. ASSUME NEW g \in Files, NEW i \in 1 .. MaxArtifacts, LoadUpload(c, g, i)
         PROVE  Told(c, f)'
    <2>1. calls'[c].at = "uploading" /\ calls'[c].listing[f] = 0
      BY <1>11 DEF LoadUpload, Begin, Update, TypeOK, Idle
    <2>2. revision' = revision
      BY <1>11 DEF LoadUpload, data
    <2> QED BY <1>r, <2>1, <2>2 DEF Told, Carries, Publishes
  <1> QED BY <1>1, <1>2, <1>3, <1>4, <1>5, <1>6, <1>7, <1>8, <1>9, <1>10, <1>11 DEF Step

LEMMA EnvironmentTold ==
  ASSUME TypeOK, TypeOK', ToldInv, Environment
  PROVE  ToldInv'
  <1>1. \A f \in Files : /\ revision[f] \in Nat /\ revision'[f] \in Nat
                         /\ revision[f] <= revision'[f]
    <2>1. \A f \in Files : revision[f] \in Nat
      BY BoundsAssumption DEF TypeOK
    <2>2. CASE \E g \in Files : Revise(g)
      BY <2>1, <2>2 DEF Revise, TypeOK
    <2>3. CASE revision' = revision
      BY <2>1, <2>3
    <2> QED BY <2>2, <2>3 DEF Environment, Connect, UpdateConnection, Disconnect, DeleteArtifact
  <1>2. calls' = calls
    BY DEF Environment, Revise, Connect, UpdateConnection, Disconnect, DeleteArtifact
  <1>3. ASSUME NEW d \in Calls, NEW f \in Files
        PROVE  Told(d, f)'
    BY <1>1, <1>2, SameTold DEF ToldInv, SameCall
  <1>4. ASSUME NEW r \in RowIds
        PROVE  rows'[r].seen <= revision'[r[1]]
    <2>1. r[1] \in Files /\ rows[r].seen <= revision[r[1]] /\ rows[r].seen \in Nat
      BY BoundsAssumption DEF RowIds, ToldInv, SeenInv, TypeOK, RowType, Revisions
    <2>2. rows'[r].seen = rows[r].seen \/ rows'[r].seen = 0
      BY DEF Environment, Revise, Connect, UpdateConnection, Disconnect, DeleteArtifact,
             GoneRow, NoRow
    <2> QED BY <1>1, <2>1, <2>2
  <1>5. ASSUME NEW a \in ArtifactIds
        PROVE  artifacts'[a].sha <= revision'[a[1]]
    <2>1. a[1] \in Files /\ artifacts[a].sha <= revision[a[1]] /\ artifacts[a].sha \in Nat
      BY BoundsAssumption DEF ArtifactIds, ToldInv, ShownInv, TypeOK, ArtifactType, Revisions
    <2>2. artifacts'[a].sha = artifacts[a].sha \/ artifacts'[a].sha = 0
      <3>1. GoneArtifact.sha = 0
        BY DEF GoneArtifact, NoArtifact
      <3>2. artifacts'[a] = artifacts[a] \/ artifacts'[a] = GoneArtifact
        <4>1. CASE \E b \in BOOLEAN : Disconnect(b)
          BY <4>1 DEF Disconnect
        <4>2. CASE \E b \in ArtifactIds : DeleteArtifact(b)
          BY <4>2 DEF DeleteArtifact, TypeOK
        <4>3. CASE artifacts' = artifacts
          BY <4>3
        <4> QED BY <4>1, <4>2, <4>3 DEF Environment, Revise, Connect, UpdateConnection
      <3> QED BY <3>1, <3>2
    <2> QED BY <1>1, <2>1, <2>2
  <1> QED BY <1>3, <1>4, <1>5 DEF ToldInv, SeenInv, ShownInv

(* The steps that leave the rows and the artifacts alone, and those that   *)
(* only write a decision.                                                  *)
Reads(c) ==
  \/ \E present \in SUBSET Files : ListFolder(c, present)
  \/ LoadRows(c) \/ FailDiscover(c) \/ EndSync(c) \/ FailDecision(c) \/ Stop(c)
  \/ \E g \in Files :
       \/ Download(c, g) \/ FailDownload(c, g) \/ FailPublish(c, g)
       \/ \E i \in 1 .. MaxRows, op \in {"include", "exclude"} : LoadDecision(c, g, i, op)
       \/ \E i \in 1 .. MaxArtifacts : PutContent(c, g, i) \/ LoadUpload(c, g, i)
Decides(c) == \E g \in Files : CommitInclude(c, g) \/ CommitExclude(c, g)

LEMMA StepKinds ==
  ASSUME NEW c \in Calls, Step(c)
  PROVE  \/ Reads(c) \/ Decides(c) \/ CommitDiscover(c)
         \/ \E g \in Files : CommitPublish(c, g) \/ CommitUpload(c, g)
  BY DEF Step, Reads, Decides

LEMMA ReadsTables ==
  ASSUME NEW c \in Calls, Reads(c)
  PROVE  UNCHANGED <<rows, artifacts>>
  <1>1. CASE \/ \E present \in SUBSET Files : ListFolder(c, present)
             \/ LoadRows(c) \/ FailDiscover(c) \/ EndSync(c) \/ FailDecision(c) \/ Stop(c)
    BY <1>1, ZenonT(40) DEF ListFolder, LoadRows, FailDiscover, EndSync, FailDecision, Stop, data
  <1>2. ASSUME NEW g \in Files,
               \/ Download(c, g) \/ FailDownload(c, g) \/ FailPublish(c, g)
               \/ \E i \in 1 .. MaxRows, op \in {"include", "exclude"} : LoadDecision(c, g, i, op)
               \/ \E i \in 1 .. MaxArtifacts : PutContent(c, g, i) \/ LoadUpload(c, g, i)
        PROVE  UNCHANGED <<rows, artifacts>>
    BY <1>2, Zenon DEF Download, FailDownload, FailPublish, LoadDecision, PutContent, LoadUpload, data
  <1> QED BY <1>1, <1>2 DEF Reads

LEMMA StepSeen ==
  ASSUME TypeOK, CallsInv, ToldInv, NEW c \in Calls, Step(c)
  PROVE  SeenInv' /\ revision' = revision
  <1>0. revision' = revision
    <2>1. CASE \/ \E present \in SUBSET Files : ListFolder(c, present)
               \/ LoadRows(c) \/ CommitDiscover(c) \/ FailDiscover(c) \/ EndSync(c)
               \/ FailDecision(c) \/ Stop(c)
      BY <2>1, ZenonT(40) DEF ListFolder, LoadRows, CommitDiscover, FailDiscover, EndSync,
                              FailDecision, Stop, data
    <2>2. ASSUME NEW f \in Files,
                 \/ CommitInclude(c, f) \/ CommitExclude(c, f)
                 \/ Download(c, f) \/ FailDownload(c, f)
                 \/ CommitPublish(c, f) \/ FailPublish(c, f) \/ CommitUpload(c, f)
                 \/ \E i \in 1 .. MaxRows, op \in {"include", "exclude"} :
                      LoadDecision(c, f, i, op)
                 \/ \E i \in 1 .. MaxArtifacts : PutContent(c, f, i) \/ LoadUpload(c, f, i)
          PROVE  revision' = revision
      BY <2>2 DEF CommitInclude, CommitExclude, Download, FailDownload, CommitPublish,
                  FailPublish, CommitUpload, LoadDecision, PutContent, LoadUpload, data
    <2> QED BY <2>1, <2>2 DEF Step
  <1>1. ASSUME NEW r \in RowIds
        PROVE  rows'[r].seen <= revision[r[1]]
    <2>0. /\ r[1] \in Files /\ rows[r] \in RowType /\ rows[r].seen <= revision[r[1]]
          /\ calls[c].listing[r[1]] <= revision[r[1]]
      BY DEF RowIds, TypeOK, ToldInv, SeenInv, Told
    <2>1. CASE CommitDiscover(c)
      <3> DEFINE listed == {g \in Files : calls[c].listing[g] # 0}
                 mine == [g \in Files |->
                           IF g \in listed THEN Reconciled(c, g) ELSE calls[c].mine[g]]
      <3>1. rows'[r] = rows[r] \/ (r[1] \in listed /\ rows'[r] = RowWritten(c, r[1], rows[r], mine[r[1]]))
        BY <2>1, Zenon DEF CommitDiscover
      <3>2. ASSUME r[1] \in listed
            PROVE  mine[r[1]] = Reconciled(c, r[1])
        BY <3>2
      <3>3. Reconciled(c, r[1]).seen = calls[c].listing[r[1]]
        <4>1. calls[c].mine[r[1]] \in RowType
          BY <2>0 DEF TypeOK, CallType
        <4> QED BY <4>1 DEF Reconciled, NoRow, RowType
      <3> HIDE DEF mine
      <3>4. ASSUME NEW new, new.seen = calls[c].listing[r[1]]
            PROVE  RowWritten(c, r[1], rows[r], new).seen \in
                     {rows[r].seen, calls[c].listing[r[1]]}
        BY <2>0, <3>4 DEF RowWritten, Written, RowType
      <3> QED BY <2>0, <3>1, <3>2, <3>3, <3>4
    <2>2. ASSUME NEW g \in Files, CommitInclude(c, g) \/ CommitExclude(c, g)
          PROVE  rows'[r].seen = rows[r].seen
      <3>1. PICK decision : rows' = [rows EXCEPT ![<<g, calls[c].known[g]>>].decision = decision]
        BY <2>2 DEF CommitInclude, CommitExclude
      <3> QED BY <2>0, <3>1 DEF TypeOK, RowType
    <2>3. ASSUME NEW g \in Files, CommitPublish(c, g)
          PROVE  rows'[r].seen = rows[r].seen
      <3> DEFINE q == <<g, calls[c].known[g]>>
                 row == Published(rows[q], calls[c].mine[g], calls[c].artifact,
                                  calls[c].listing[g])
      <3>1. rows' = [rows EXCEPT ![q] = row]
        BY <2>3 DEF CommitPublish
      <3>2. r = q => row.seen = rows[r].seen
        BY <2>0 DEF Published, RowType
      <3> QED BY <3>1, <3>2 DEF TypeOK
    <2>4. CASE rows' = rows
      BY <2>0, <2>4
    <2>5. CASE Reads(c) \/ \E g \in Files : CommitUpload(c, g)
      <3>1. rows' = rows
        BY <2>5, ReadsTables DEF CommitUpload
      <3> QED BY <2>4, <3>1
    <2> QED BY <2>0, <2>1, <2>2, <2>3, <2>5, StepKinds DEF Decides
  <1> QED BY <1>0, <1>1 DEF SeenInv

LEMMA StepShown ==
  ASSUME TypeOK, CallsInv, ToldInv, NEW c \in Calls, Step(c)
  PROVE  ShownInv'
  <1>0. revision' = revision
    BY StepSeen
  <1>1. ASSUME NEW a \in ArtifactIds
        PROVE  artifacts'[a].sha <= revision[a[1]]
    <2>0. /\ a[1] \in Files /\ artifacts[a] \in ArtifactType /\ artifacts[a].sha <= revision[a[1]]
          /\ revision[a[1]] \in Nat
      BY BoundsAssumption DEF ArtifactIds, TypeOK, ToldInv, ShownInv
    <2>1. ASSUME NEW g \in Files, CommitPublish(c, g)
          PROVE  artifacts'[a].sha <= revision[a[1]]
      <3> DEFINE b == <<g, calls[c].artifact>>
                 base == calls[c].base
                 art == NewVersion(artifacts[b], base, base.version + 1, calls[c].content)
      <3>1. artifacts' = [artifacts EXCEPT ![b] = art]
        BY <2>1 DEF CommitPublish
      <3>2. calls[c].content <= revision[g]
        BY <2>1 DEF CommitPublish, ToldInv, Told, Carries
      <3>3. a = b => art.sha \in {artifacts[a].sha, calls[c].content} /\ a[1] = g
        BY <2>0 DEF NewVersion, Written, ArtifactType
      <3> HIDE DEF art
      <3> QED BY <2>0, <3>1, <3>2, <3>3 DEF TypeOK
    <2>2. ASSUME NEW g \in Files, CommitUpload(c, g)
          PROVE  artifacts'[a].sha <= revision[a[1]]
      <3> DEFINE b == <<g, calls[c].artifact>>
      <3>1. artifacts' = [artifacts EXCEPT ![b] = ByHand(artifacts[b], calls[c].base)]
        BY <2>2 DEF CommitUpload
      <3>2. a = b => ByHand(artifacts[b], calls[c].base).sha = 0
        BY <2>0 DEF ByHand, ArtifactType
      <3> QED BY <2>0, <3>1, <3>2 DEF TypeOK
    <2>3. CASE Reads(c) \/ Decides(c) \/ CommitDiscover(c)
      <3>1. Decides(c) \/ CommitDiscover(c) => artifacts' = artifacts
        BY DEF Decides, CommitInclude, CommitExclude, CommitDiscover
      <3>2. artifacts' = artifacts
        BY <2>3, <3>1, ReadsTables
      <3> QED BY <2>0, <3>2
    <2> QED BY <2>1, <2>2, <2>3, StepKinds
  <1> QED BY <1>0, <1>1 DEF ShownInv

LEMMA NextTold ==
  ASSUME TypeOK, TypeOK', ConsentInv, ToldInv, Next
  PROVE  ToldInv'
  <1>1. ASSUME NEW c \in Calls, Step(c)
        PROVE  ToldInv'
    <2>1. SeenInv' /\ ShownInv' /\ revision' = revision
      BY <1>1, StepSeen, StepShown DEF ConsentInv
    <2>2. ASSUME NEW d \in Calls, NEW f \in Files
          PROVE  Told(d, f)'
      <3>1. CASE d = c
        BY <1>1, <3>1, OwnTold DEF ConsentInv
      <3>2. CASE d # c
        <4>1. SameCall(d) /\ Told(d, f)
          BY <1>1, <3>2, OthersSame DEF ToldInv
        <4>2. revision[f] <= revision'[f]
          BY <2>1, BoundsAssumption DEF TypeOK
        <4> QED BY <4>1, <4>2, SameTold
      <3> QED BY <3>1, <3>2
    <2> QED BY <2>1, <2>2 DEF ToldInv
  <1> QED BY <1>1, EnvironmentTold DEF Next

(***************************************************************************)
(* A file nobody contends for.  What its row remembers as published is no  *)
(* newer than what the artifact shows (Remembered).  What a call at work   *)
(* has loaded of the row is what is there (Loaded).  What a sync is done   *)
(* with shows what it listed, or what somebody else is about to publish    *)
(* there does (Done).                                                      *)
(***************************************************************************)
Shows(f, i, rev) ==
  LET art == artifacts[<<f, i>>] IN art.state = "live" /\ art.key # 0 => rev <= art.sha

Remembered(f) ==
  \A i \in RowsOf(f) :
    LET row == rows[<<f, i>>] IN row.artifact # 0 => Shows(f, row.artifact, row.synced)

AtWork(c, f) == Linked(c) /\ f \in WorksOn(c) /\ calls[c].known[f] # 0
Loaded(c, f) ==
  LET row == rows[<<f, calls[c].known[f]>>] IN
  AtWork(c, f) => calls[c].mine[f].artifact = row.artifact /\ calls[c].mine[f].synced = row.synced

Done(c, f) ==
  /\ calls[c].op = "sync" /\ Publishes(c) /\ Linked(c)
  /\ calls[c].listing[f] # 0 /\ calls[c].mine[f].decision = "included"
  /\ f \notin calls[c].todo \cup calls[c].file \cup calls[c].failed
DoneOK(c, f) ==
  LET row == rows[<<f, calls[c].known[f]>>] IN
  Done(c, f) =>
    /\ row.artifact # 0 /\ Shows(f, row.artifact, calls[c].listing[f])
    /\ \A d \in Calls : Carries(d) /\ f \in calls[d].file => calls[c].listing[f] <= calls[d].content

UpToDate(f) == Remembered(f) /\ \A c \in Calls : Loaded(c, f) /\ DoneOK(c, f)

UpToDateInv == \A f \in Files \ contended : UpToDate(f)

(***************************************************************************)
(* Most steps leave the file's rows what they remember, or insert one that *)
(* remembers nothing; its artifacts as they are, deleted, or uploaded by   *)
(* hand; and what is carried to it is as before, or what Drive has now.    *)
(***************************************************************************)
RowsMild(f) ==
  \A i \in 1 .. MaxRows :
    rows'[<<f, i>>].state = "there" =>
      IF rows[<<f, i>>].state = "there"
      THEN /\ rows'[<<f, i>>].artifact = rows[<<f, i>>].artifact
           /\ rows'[<<f, i>>].synced = rows[<<f, i>>].synced
      ELSE rows'[<<f, i>>].artifact = 0
ArtifactsMild(f) ==
  \A i \in 1 .. MaxArtifacts :
    \/ artifacts'[<<f, i>>] = artifacts[<<f, i>>]
    \/ artifacts'[<<f, i>>].state # "live" \/ artifacts'[<<f, i>>].key = 0
CarriedBy(d, f) ==
  Carries(d)' /\ f \in calls'[d].file =>
    \/ Carries(d) /\ f \in calls[d].file /\ calls'[d].content = calls[d].content
    \/ calls'[d].content = revision[f]
CarriedMild(f) == \A d \in Calls : CarriedBy(d, f)

(* A call that is at work on the file, or done with it, already was.       *)
CallMild(d, f) ==
  /\ AtWork(d, f)' =>
       /\ AtWork(d, f) /\ calls'[d].known[f] = calls[d].known[f]
       /\ calls'[d].mine[f].artifact = calls[d].mine[f].artifact
       /\ calls'[d].mine[f].synced = calls[d].mine[f].synced
  /\ Done(d, f)' =>
       /\ Done(d, f) /\ calls'[d].known[f] = calls[d].known[f]
       /\ calls'[d].listing[f] = calls[d].listing[f]

LEMMA MildShows ==
  ASSUME NEW f \in Files, ArtifactsMild(f), NEW i \in 1 .. MaxArtifacts, NEW rev, Shows(f, i, rev)
  PROVE  Shows(f, i, rev)'
  BY DEF ArtifactsMild, Shows

LEMMA MildFile ==
  ASSUME TypeOK, TypeOK', CallsInv, CallsInv', ToldInv, NEW f \in Files, UpToDate(f),
         RowsMild(f), ArtifactsMild(f), CarriedMild(f),
         \A d \in Calls : CallMild(d, f) \/ (Loaded(d, f)' /\ DoneOK(d, f)')
  PROVE  UpToDate(f)'
  <1>m. MaxArtifacts \in Nat /\ MaxRows \in Nat
    BY BoundsAssumption
  <1>1. Remembered(f)'
    <2> SUFFICES ASSUME NEW i \in RowsOf(f)', rows'[<<f, i>>].artifact # 0
                 PROVE  Shows(f, rows[<<f, i>>].artifact, rows[<<f, i>>].synced)'
      BY DEF Remembered
    <2>1. i \in RowsOf(f) /\ rows'[<<f, i>>].artifact = rows[<<f, i>>].artifact
                          /\ rows'[<<f, i>>].synced = rows[<<f, i>>].synced
      BY DEF RowsOf, RowsMild
    <2>2. <<f, i>> \in RowIds
      BY DEF RowsOf, RowIds
    <2>3. rows[<<f, i>>].artifact \in 1 .. MaxArtifacts
      BY <1>m, <2>1, <2>2 DEF TypeOK, RowType
    <2>4. Shows(f, rows[<<f, i>>].artifact, rows[<<f, i>>].synced)
      BY <2>1, <2>3, <1>m DEF UpToDate, Remembered
    <2> QED BY <2>1, <2>3, <2>4, MildShows DEF Shows
  <1>2. ASSUME NEW d \in Calls, CallMild(d, f)
        PROVE  Loaded(d, f)' /\ DoneOK(d, f)'
    <2> DEFINE r == <<f, calls[d].known[f]>>
    <2>0. ASSUME Linked(d), Linked(d)', calls[d].known[f] # 0, calls'[d].known[f] = calls[d].known[f]
          PROVE  /\ r \in RowIds /\ rows[r] \in RowType
                 /\ rows'[r].artifact = rows[r].artifact /\ rows'[r].synced = rows[r].synced
      <3>1. r \in RowIds /\ rows[r] \in RowType /\ rows[r].state = "there"
        BY <2>0, KnownThere
      <3>2. rows'[r].state = "there"
        BY <2>0 DEF CallsInv, KnownOK
      <3>3. calls[d].known[f] \in 1 .. MaxRows
        BY <3>1 DEF RowIds
      <3> QED BY <3>1, <3>2, <3>3 DEF RowsMild
    <2>1. Loaded(d, f)'
      BY <1>2, <2>0 DEF CallMild, Loaded, UpToDate, AtWork
    <2>2. ASSUME Done(d, f)'
          PROVE  /\ rows'[<<f, calls'[d].known[f]>>].artifact # 0
                 /\ Shows(f, rows[<<f, calls[d].known[f]>>].artifact, calls[d].listing[f])'
                 /\ \A e \in Calls : Carries(e)' /\ f \in calls'[e].file =>
                      calls'[d].listing[f] <= calls'[e].content
      <3>1. /\ Done(d, f) /\ calls'[d].known[f] = calls[d].known[f]
            /\ calls'[d].listing[f] = calls[d].listing[f]
        BY <1>2, <2>2 DEF CallMild
      <3>2. calls[d].known[f] # 0 /\ calls[d].listing[f] <= revision[f]
        BY <3>1 DEF Done, ToldInv, Told
      <3>3. /\ rows[r] \in RowType /\ rows'[r].artifact = rows[r].artifact
        BY <2>0, <2>2, <3>1, <3>2 DEF Done
      <3>4. /\ rows[r].artifact # 0 /\ Shows(f, rows[r].artifact, calls[d].listing[f])
            /\ \A e \in Calls : Carries(e) /\ f \in calls[e].file =>
                 calls[d].listing[f] <= calls[e].content
        BY <3>1 DEF UpToDate, DoneOK
      <3>5. rows[r].artifact \in 1 .. MaxArtifacts
        BY <1>m, <3>3, <3>4 DEF RowType
      <3>6. Shows(f, rows[r].artifact, calls[d].listing[f])'
        BY <3>1, <3>3, <3>4, <3>5, MildShows DEF Shows
      <3> QED BY <3>1, <3>2, <3>3, <3>4, <3>6 DEF CarriedMild, CarriedBy
    <2> QED BY <2>1, <2>2 DEF DoneOK
  <1> QED BY <1>1, <1>2 DEF UpToDate

LEMMA SameMild ==
  ASSUME NEW d \in Calls, NEW f \in Files, SameCall(d), Linked(d)' => Linked(d)
  PROVE  /\ CallMild(d, f)
         /\ CarriedBy(d, f)
  <1>1. f \in WorksOn(d)' => f \in WorksOn(d)
    BY DEF WorksOn, SameCall
  <1> QED BY <1>1 DEF SameCall, CallMild, AtWork, Done, Publishes, Carries, CarriedBy

LEMMA IdleMild ==
  ASSUME NEW c \in Calls, NEW f \in Files, calls'[c] = Idle
  PROVE  CallMild(c, f) /\ CarriedBy(c, f)
  BY DEF Idle, CallMild, AtWork, WorksOn, Done, Carries, CarriedBy

LEMMA EnvironmentUpToDate ==
  ASSUME TypeOK, TypeOK', ConsentInv, ConsentInv', ToldInv, NEW f \in Files, UpToDate(f),
         Environment
  PROVE  UpToDate(f)'
  <1>1. calls' = calls
    BY DEF Environment, Revise, Connect, UpdateConnection, Disconnect, DeleteArtifact
  <1>2. ASSUME NEW d \in Calls
        PROVE  Linked(d)' => Linked(d)
    <2>1. CASE \E b \in BOOLEAN : Connect(b)
      <3>1. link.number \in Nat /\ calls[d].link \in Nat /\ calls[d].link <= link.number
        BY BoundsAssumption DEF TypeOK, CallType, ConsentInv, CallsInv, CallOK
      <3>2. link'.number = link.number + 1
        BY <2>1 DEF Connect
      <3> QED BY <1>1, <3>1, <3>2 DEF Linked
    <2>2. CASE \E b \in BOOLEAN : UpdateConnection(b)
      BY <1>1, <2>2 DEF UpdateConnection, Linked, TypeOK
    <2>3. CASE \E b \in BOOLEAN : Disconnect(b)
      BY <2>3 DEF Disconnect, Linked
    <2>4. CASE link' = link
      BY <1>1, <2>4 DEF Linked
    <2> QED BY <2>1, <2>2, <2>3, <2>4 DEF Environment, Revise, DeleteArtifact
  <1>3. \A d \in Calls : SameCall(d)
    BY <1>1 DEF SameCall
  <1>4. (\A d \in Calls : CallMild(d, f)) /\ CarriedMild(f)
    BY <1>2, <1>3, SameMild DEF CarriedMild
  <1>5. RowsMild(f)
    <2>1. \A i \in 1 .. MaxRows : <<f, i>> \in RowIds
      BY DEF RowIds
    <2>2. \A r \in RowIds : rows'[r] = rows[r] \/ rows'[r].state = "deleted"
      BY DEF Environment, Revise, Connect, UpdateConnection, Disconnect, DeleteArtifact,
             GoneRow, NoRow
    <2> QED BY <2>1, <2>2 DEF RowsMild
  <1>6. ArtifactsMild(f)
    <2>1. \A i \in 1 .. MaxArtifacts : <<f, i>> \in ArtifactIds
      BY DEF ArtifactIds
    <2>2. ASSUME NEW a \in ArtifactIds
          PROVE  artifacts'[a] = artifacts[a] \/ artifacts'[a].state = "deleted"
      <3>1. GoneArtifact.state = "deleted"
        BY DEF GoneArtifact, NoArtifact
      <3>2. CASE \E b \in BOOLEAN : Disconnect(b)
        <4>1. artifacts'[a] = artifacts[a] \/ artifacts'[a] = GoneArtifact
          BY <3>2 DEF Disconnect
        <4> QED BY <3>1, <4>1
      <3>3. CASE \E b \in ArtifactIds : DeleteArtifact(b)
        <4>1. artifacts'[a] = artifacts[a] \/ artifacts'[a] = GoneArtifact
          BY <3>3 DEF DeleteArtifact, TypeOK
        <4> QED BY <3>1, <4>1
      <3>4. CASE artifacts' = artifacts
        BY <3>4
      <3> QED BY <3>2, <3>3, <3>4 DEF Environment, Revise, Connect, UpdateConnection
    <2> QED BY <2>1, <2>2 DEF ArtifactsMild
  <1> QED BY <1>4, <1>5, <1>6, MildFile DEF ConsentInv

LEMMA StepLink == ASSUME NEW c \in Calls, Step(c) PROVE link' = link
  <1>1. CASE \/ \E present \in SUBSET Files : ListFolder(c, present)
             \/ LoadRows(c) \/ CommitDiscover(c) \/ FailDiscover(c) \/ EndSync(c)
             \/ FailDecision(c) \/ Stop(c)
    BY <1>1, ZenonT(40) DEF ListFolder, LoadRows, CommitDiscover, FailDiscover, EndSync,
                            FailDecision, Stop, data
  <1>2. ASSUME NEW f \in Files,
               \/ CommitInclude(c, f) \/ CommitExclude(c, f)
               \/ Download(c, f) \/ FailDownload(c, f)
               \/ CommitPublish(c, f) \/ FailPublish(c, f) \/ CommitUpload(c, f)
               \/ \E i \in 1 .. MaxRows, op \in {"include", "exclude"} : LoadDecision(c, f, i, op)
               \/ \E i \in 1 .. MaxArtifacts : PutContent(c, f, i) \/ LoadUpload(c, f, i)
        PROVE  link' = link
    BY <1>2 DEF CommitInclude, CommitExclude, Download, FailDownload, CommitPublish,
                FailPublish, CommitUpload, LoadDecision, PutContent, LoadUpload, data
  <1> QED BY <1>1, <1>2 DEF Step

LEMMA DecidesRows ==
  ASSUME TypeOK, NEW c \in Calls, NEW f \in Files, Decides(c)
  PROVE  RowsMild(f) /\ artifacts' = artifacts
  <1>1. PICK g \in Files : CommitInclude(c, g) \/ CommitExclude(c, g)
    BY DEF Decides
  <1>2. PICK decision : rows' = [rows EXCEPT ![<<g, calls[c].known[g]>>].decision = decision]
    BY <1>1 DEF CommitInclude, CommitExclude
  <1>3. ASSUME NEW r \in RowIds
        PROVE  /\ rows'[r].state = rows[r].state /\ rows'[r].artifact = rows[r].artifact
               /\ rows'[r].synced = rows[r].synced
    <2>1. rows[r] \in RowType
      BY DEF TypeOK
    <2> QED BY <1>2, <2>1 DEF TypeOK, RowType
  <1>4. \A i \in 1 .. MaxRows : <<f, i>> \in RowIds
    BY DEF RowIds
  <1> QED BY <1>1, <1>3, <1>4 DEF RowsMild, CommitInclude, CommitExclude


(* What these steps make of their own call. *)
LEMMA OwnMild ==
  ASSUME TypeOK, TypeOK', CallsInv, ToldInv, NEW c \in Calls, NEW f \in Files,
         \/ Reads(c) \/ Decides(c) \/ \E g \in Files : CommitUpload(c, g)
         \/ \E g \in Files \ {f} : CommitPublish(c, g)
  PROVE  CarriedBy(c, f) /\ (CallMild(c, f) \/ (Loaded(c, f)' /\ DoneOK(c, f)'))
  <1>c. calls[c] \in CallType
    BY DEF TypeOK
  <1>0. Told(c, f) /\ CallOK(c)
    BY DEF ToldInv, CallsInv
  <1>l. link' = link
    BY StepLink DEF Reads, Decides, Step
  <1>f. ASSUME Finish(c)
        PROVE  CarriedBy(c, f) /\ CallMild(c, f)
    BY <1>f, IdleMild DEF Finish, Update, TypeOK
  <1>1. CASE \/ FailDiscover(c) \/ EndSync(c) \/ FailDecision(c) \/ Stop(c)
             \/ \E g \in Files : FailPublish(c, g) \/ CommitUpload(c, g)
    BY <1>1, <1>f DEF FailDiscover, EndSync, FailDecision, Stop, FailPublish, CommitUpload
  <1>2. ASSUME NEW g \in Files, CommitExclude(c, g)
        PROVE  CarriedBy(c, f) /\ CallMild(c, f)
    <2>1. calls'[c] = Idle
      BY <1>2, Zenon DEF CommitExclude
    <2> QED BY <2>1, IdleMild
  <1>3. ASSUME NEW present \in SUBSET Files, ListFolder(c, present)
        PROVE  CarriedBy(c, f) /\ CallMild(c, f)
    <2>1. /\ calls'[c].at = "listed" /\ calls'[c].todo = {} /\ calls'[c].file = {}
      BY <1>3 DEF ListFolder, Begin, Update, TypeOK, Idle
    <2> QED BY <2>1 DEF CarriedBy, Carries, CallMild, AtWork, WorksOn, Done, Publishes
  <1>4. CASE LoadRows(c)
    <2>1. PICK known \in [Files -> 0 .. MaxRows] :
            Update(c, [calls[c] EXCEPT !.at = "loaded", !.known = known,
              !.mine = [g \in Files |-> IF known[g] = 0 THEN NoRow ELSE rows[<<g, known[g]>>]]])
      BY <1>4 DEF LoadRows
    <2> DEFINE mine == [g \in Files |-> IF known[g] = 0 THEN NoRow ELSE rows[<<g, known[g]>>]]
    <2>2. known[f] # 0 => mine[f] = rows[<<f, known[f]>>]
      OBVIOUS
    <2> HIDE DEF mine
    <2>3. Update(c, [calls[c] EXCEPT !.at = "loaded", !.known = known, !.mine = mine])
      BY <2>1 DEF mine
    <2>4. calls'[c].at = "loaded" /\ calls'[c].known = known /\ calls'[c].mine = mine
      BY <2>3, <1>c DEF Update, TypeOK, CallType
    <2>5. rows' = rows
      BY <1>4 DEF LoadRows, data
    <2>6. Loaded(c, f)' /\ DoneOK(c, f)'
      BY <2>2, <2>4, <2>5 DEF Loaded, AtWork, DoneOK, Done, Publishes
    <2> QED BY <2>4, <2>6 DEF CarriedBy, Carries
  <1>5. ASSUME NEW g \in Files, NEW i \in 1 .. MaxRows, NEW op \in {"include", "exclude"},
               LoadDecision(c, g, i, op)
        PROVE  CarriedBy(c, f) /\ Loaded(c, f)' /\ DoneOK(c, f)'
    <2>1. calls'[c] = [Idle EXCEPT
            !.op = op, !.at = "deciding", !.link = link.number, !.known[g] = i,
            !.mine[g] = rows[<<g, i>>], !.listing[g] = rows[<<g, i>>].seen, !.todo = {g}]
      BY <1>5 DEF LoadDecision, Begin, Update, TypeOK
    <2>2. /\ calls'[c].at = "deciding" /\ calls'[c].todo = {g} /\ calls'[c].file = {}
          /\ calls'[c].known[g] = i /\ calls'[c].mine[g] = rows[<<g, i>>]
      BY <2>1 DEF Idle
    <2>3. rows' = rows
      BY <1>5 DEF LoadDecision, data
    <2>4. Loaded(c, f)'
      BY <2>2, <2>3 DEF Loaded, AtWork, WorksOn
    <2> QED BY <2>2, <2>4 DEF DoneOK, Done, Publishes, CarriedBy, Carries
  <1>6. ASSUME NEW g \in Files, CommitInclude(c, g)
        PROVE  CarriedBy(c, f) /\ CallMild(c, f)
    <2>1. /\ calls'[c].at = "publishing" /\ calls'[c].op = "include"
          /\ calls'[c].todo = calls[c].todo /\ calls'[c].file = calls[c].file
          /\ calls'[c].known = calls[c].known /\ calls'[c].link = calls[c].link
          /\ calls'[c].mine[f].artifact = calls[c].mine[f].artifact
          /\ calls'[c].mine[f].synced = calls[c].mine[f].synced
      <3>1. calls[c].mine[f] \in RowType /\ calls[c].mine[g] \in RowType
        BY <1>c DEF CallType
      <3> DEFINE mine == [calls[c].mine EXCEPT ![g].decision = "included"]
      <3>2. mine[f].artifact = calls[c].mine[f].artifact /\ mine[f].synced = calls[c].mine[f].synced
        BY <1>c, <3>1 DEF CallType, RowType
      <3>3. Update(c, [calls[c] EXCEPT !.at = "publishing", !.mine = mine])
        BY <1>6 DEF CommitInclude
      <3>4. calls[c].op = "include"
        BY <1>6 DEF CommitInclude
      <3> HIDE DEF mine
      <3> QED BY <1>c, <3>2, <3>3, <3>4 DEF Update, TypeOK, CallType
    <2>2. calls[c].at = "deciding" /\ calls[c].op = "include"
      BY <1>6 DEF CommitInclude
    <2>3. f \in WorksOn(c)' => f \in WorksOn(c)
      BY <2>1, <2>2 DEF WorksOn
    <2> QED BY <1>l, <2>1, <2>2, <2>3 DEF CarriedBy, Carries, CallMild, AtWork, Done, Linked
  <1>7. ASSUME NEW g \in Files, Download(c, g)
        PROVE  CarriedBy(c, f) /\ CallMild(c, f)
    <2>1. /\ calls'[c].at = "fetched" /\ calls'[c].op = calls[c].op
          /\ calls'[c].todo = calls[c].todo \ {g} /\ calls'[c].file = {g}
          /\ calls'[c].known = calls[c].known /\ calls'[c].link = calls[c].link
          /\ calls'[c].mine = calls[c].mine /\ calls'[c].listing = calls[c].listing
          /\ calls'[c].failed = calls[c].failed /\ calls'[c].content = revision[g]
      BY <1>7, <1>c DEF Download, Update, TypeOK, CallType
    <2>2. calls[c].at = "publishing" /\ g \in calls[c].todo /\ f \notin calls[c].file
      BY <1>0, <1>7 DEF Download, Told
    <2>3. f \in WorksOn(c)' => f \in WorksOn(c)
      BY <2>1, <2>2 DEF WorksOn
    <2> QED BY <1>l, <2>1, <2>2, <2>3
            DEF CarriedBy, Carries, CallMild, AtWork, Done, Publishes, Linked
  <1>8. ASSUME NEW g \in Files, FailDownload(c, g)
        PROVE  CarriedBy(c, f) /\ CallMild(c, f)
    <2>1. CASE calls[c].op = "sync"
      <3>1. Update(c, [calls[c] EXCEPT !.todo = @ \ {g}, !.failed = @ \cup {g}])
        BY <1>8, <2>1 DEF FailDownload
      <3>2. calls[c].at = "publishing"
        BY <1>8 DEF FailDownload
      <3>3. /\ calls'[c].at = "publishing" /\ calls'[c].op = calls[c].op
            /\ calls'[c].todo = calls[c].todo \ {g} /\ calls'[c].file = calls[c].file
            /\ calls'[c].known = calls[c].known /\ calls'[c].link = calls[c].link
            /\ calls'[c].mine = calls[c].mine /\ calls'[c].listing = calls[c].listing
            /\ calls'[c].failed = calls[c].failed \cup {g}
        BY <3>1, <3>2, <1>c DEF Update, TypeOK, CallType
      <3>4. f \in WorksOn(c)' => f \in WorksOn(c)
        BY <3>2, <3>3 DEF WorksOn
      <3> QED BY <1>l, <3>2, <3>3, <3>4
              DEF CarriedBy, Carries, CallMild, AtWork, Done, Publishes, Linked
    <2>2. CASE calls[c].op # "sync"
      BY <1>8, <1>f, <2>2 DEF FailDownload
    <2> QED BY <2>1, <2>2
  <1>9. ASSUME NEW g \in Files, NEW i \in 1 .. MaxArtifacts, PutContent(c, g, i)
        PROVE  CarriedBy(c, f) /\ CallMild(c, f)
    <2>1. /\ calls'[c].at = "stored" /\ calls'[c].op = calls[c].op
          /\ calls'[c].todo = calls[c].todo /\ calls'[c].file = calls[c].file
          /\ calls'[c].known = calls[c].known /\ calls'[c].link = calls[c].link
          /\ calls'[c].mine = calls[c].mine /\ calls'[c].listing = calls[c].listing
          /\ calls'[c].failed = calls[c].failed /\ calls'[c].content = calls[c].content
      BY <1>9, <1>c DEF PutContent, Update, TypeOK, CallType
    <2>2. calls[c].at = "fetched"
      BY <1>9 DEF PutContent
    <2>3. f \in WorksOn(c)' => f \in WorksOn(c)
      BY <2>1, <2>2 DEF WorksOn
    <2> QED BY <1>l, <2>1, <2>2, <2>3
            DEF CarriedBy, Carries, CallMild, AtWork, Done, Publishes, Linked
  <1>10. ASSUME NEW g \in Files \ {f}, CommitPublish(c, g)
         PROVE  CarriedBy(c, f) /\ CallMild(c, f)
    <2>1. CASE calls[c].op = "sync"
      <3>1. Update(c, [calls[c] EXCEPT !.at = "publishing", !.file = {}])
        BY <1>10, <2>1 DEF CommitPublish
      <3>2. calls[c].at = "stored" /\ f \notin calls[c].file
        BY <1>0, <1>10 DEF CommitPublish, CallOK
      <3>3. /\ calls'[c].at = "publishing" /\ calls'[c].op = calls[c].op
            /\ calls'[c].todo = calls[c].todo /\ calls'[c].file = {}
            /\ calls'[c].known = calls[c].known /\ calls'[c].link = calls[c].link
            /\ calls'[c].mine = calls[c].mine /\ calls'[c].listing = calls[c].listing
            /\ calls'[c].failed = calls[c].failed
        BY <3>1, <1>c DEF Update, TypeOK, CallType
      <3>4. f \in WorksOn(c)' => f \in WorksOn(c)
        BY <3>2, <3>3 DEF WorksOn
      <3> QED BY <1>l, <3>2, <3>3, <3>4
              DEF CarriedBy, Carries, CallMild, AtWork, Done, Publishes, Linked
    <2>2. CASE calls[c].op # "sync"
      BY <1>10, <1>f, <2>2 DEF CommitPublish
    <2> QED BY <2>1, <2>2
  <1>11. ASSUME NEW g \in Files, NEW i \in 1 .. MaxArtifacts, LoadUpload(c, g, i)
         PROVE  CarriedBy(c, f) /\ CallMild(c, f)
    <2>1. calls'[c].at = "uploading" /\ calls'[c].known[f] = 0
      BY <1>11 DEF LoadUpload, Begin, Update, TypeOK, Idle
    <2> QED BY <2>1 DEF CarriedBy, Carries, CallMild, AtWork, Done, Publishes
  <1> QED BY <1>1, <1>2, <1>3, <1>4, <1>5, <1>6, <1>7, <1>8, <1>9, <1>10, <1>11
          DEF Reads, Decides

(* Another call does not work on the file of a call that is alone with it. *)
LEMMA OthersElsewhere ==
  ASSUME AloneInv, NEW f \in Files \ contended, NEW c \in Calls, f \in WorksOn(c),
         NEW d \in Calls \ {c}, SameCall(d)
  PROVE  f \notin WorksOn(d) /\ f \notin WorksOn(d)'
  BY DEF AloneInv, WorksOn, SameCall

LEMMA CarriersWork ==
  ASSUME CallsInv, NEW f \in Files, NEW d \in Calls, Carries(d), f \in calls[d].file
  PROVE  f \in WorksOn(d)
  BY DEF CallsInv, CallOK, Carries, WorksOn

(* A sync commits what it found of the folder: a file it will not publish  *)
(* its row has as published already.                                       *)
LEMMA DiscoverUpToDate ==
  ASSUME TypeOK, TypeOK', ConsentInv, ConsentInv', AloneInv, ToldInv, ToldInv',
         NEW f \in Files \ contended, UpToDate(f), NEW c \in Calls, CommitDiscover(c)
  PROVE  UpToDate(f)'
  <1> DEFINE listed == {g \in Files : calls[c].listing[g] # 0}
             mine == [g \in Files |->
                       IF g \in listed THEN Reconciled(c, g) ELSE calls[c].mine[g]]
             todo == {g \in listed : Publishable(mine[g], calls[c].listing[g])}
  <1>1. PICK index \in [Files -> 0 .. MaxRows] :
          /\ \A g \in Files :
               IF g \in listed /\ calls[c].known[g] = 0
               THEN index[g] # 0 /\ NextRow(g, index[g]) ELSE index[g] = calls[c].known[g]
          /\ rows' = [r \in RowIds |->
               IF r[1] \in listed /\ r[2] = index[r[1]]
               THEN RowWritten(c, r[1], rows[r], mine[r[1]]) ELSE rows[r]]
          /\ Update(c, [calls[c] EXCEPT
               !.at = "publishing", !.auto = FALSE, !.known = index, !.mine = mine,
               !.todo = todo])
    BY Zenon DEF CommitDiscover
  <1>2. f \in listed => mine[f] = Reconciled(c, f)
    OBVIOUS
  <1>t. f \in todo <=> f \in listed /\ Publishable(mine[f], calls[c].listing[f])
    OBVIOUS
  <1> HIDE DEF mine, todo
  <1>0. /\ calls[c].at = "loaded" /\ calls[c].op = "sync" /\ calls[c].file = {} /\ Linked(c)
        /\ UNCHANGED <<link, artifacts, revision>>
    BY DEF CommitDiscover, ConsentInv, CallsInv, CallOK
  <1>c. calls[c] \in CallType /\ calls[c].mine[f] \in RowType
    BY DEF TypeOK, CallType
  <1>3. /\ calls'[c].at = "publishing" /\ calls'[c].op = "sync" /\ calls'[c].file = {}
        /\ calls'[c].known = index /\ calls'[c].mine = mine /\ calls'[c].todo = todo
        /\ calls'[c].listing = calls[c].listing /\ calls'[c].link = calls[c].link
    BY <1>0, <1>1, <1>c DEF Update, CallType, TypeOK
  <1>4. \A d \in Calls \ {c} : SameCall(d)
    BY <1>1 DEF Update, TypeOK, SameCall
  <1>5. Linked(c)' /\ \A d \in Calls : Linked(d)' => Linked(d)
    BY <1>0, <1>3, <1>4 DEF Linked, SameCall
  <1>6. ASSUME NEW i \in 1 .. MaxRows
        PROVE  /\ <<f, i>> \in RowIds /\ rows[<<f, i>>] \in RowType
               /\ rows'[<<f, i>>] = IF f \in listed /\ i = index[f]
                                    THEN RowWritten(c, f, rows[<<f, i>>], mine[f])
                                    ELSE rows[<<f, i>>]
    <2>1. <<f, i>> \in RowIds
      BY DEF RowIds
    <2> HIDE DEF listed
    <2> QED BY <1>1, <2>1 DEF TypeOK
  (* The row of the call after the step: the one loaded, or a new one. *)
  <1>7. ASSUME f \in listed
        PROVE  /\ index[f] \in 1 .. MaxRows
               /\ mine[f].artifact = rows'[<<f, index[f]>>].artifact
               /\ mine[f].synced = rows'[<<f, index[f]>>].synced
               /\ calls[c].known[f] = 0 =>
                    rows[<<f, index[f]>>].state = "none" /\ mine[f].artifact = 0
               /\ calls[c].known[f] # 0 =>
                    /\ index[f] = calls[c].known[f] /\ rows[<<f, index[f]>>].state = "there"
                    /\ mine[f].artifact = rows[<<f, index[f]>>].artifact
                    /\ mine[f].synced = rows[<<f, index[f]>>].synced
    <2>1. CASE calls[c].known[f] = 0
      <3>1. index[f] # 0 /\ NextRow(f, index[f])
        BY <1>1, <1>7, <2>1
      <3>2. index[f] \in 1 .. MaxRows
        BY <3>1, BoundsAssumption
      <3>3. rows[<<f, index[f]>>].state = "none" /\ mine[f].artifact = 0
        BY <1>2, <1>7, <2>1, <3>1 DEF NextRow, Reconciled, NoRow
      <3>4. rows'[<<f, index[f]>>] = mine[f]
        BY <1>6, <1>7, <3>2, <3>3 DEF RowWritten
      <3> QED BY <2>1, <3>2, <3>3, <3>4
    <2>2. CASE calls[c].known[f] # 0
      <3>1. index[f] = calls[c].known[f] /\ index[f] \in 1 .. MaxRows
        BY <1>1, <2>2, BoundsAssumption
      <3>2. rows[<<f, index[f]>>].state = "there" /\ rows[<<f, index[f]>>] \in RowType
        BY <1>0, <2>2, <3>1, KnownThere DEF ConsentInv
      <3>3. f \in WorksOn(c)
        BY <1>0, <1>7 DEF WorksOn
      <3>4. /\ calls[c].mine[f].artifact = rows[<<f, index[f]>>].artifact
            /\ calls[c].mine[f].synced = rows[<<f, index[f]>>].synced
        BY <1>0, <2>2, <3>1, <3>3 DEF UpToDate, Loaded, AtWork
      <3>5. mine[f].artifact = calls[c].mine[f].artifact /\ mine[f].synced = calls[c].mine[f].synced
        BY <1>2, <1>7, <1>c, <2>2 DEF Reconciled, RowType
      <3>6. /\ rows'[<<f, index[f]>>].artifact = rows[<<f, index[f]>>].artifact
            /\ rows'[<<f, index[f]>>].synced = rows[<<f, index[f]>>].synced
        BY <1>6, <1>7, <3>1, <3>2 DEF RowWritten, RowType
      <3> QED BY <2>2, <3>1, <3>2, <3>4, <3>5, <3>6
    <2> QED BY <2>1, <2>2
  <1>8. RowsMild(f)
    <2> SUFFICES ASSUME NEW i \in 1 .. MaxRows, rows'[<<f, i>>].state = "there"
                 PROVE  IF rows[<<f, i>>].state = "there"
                        THEN /\ rows'[<<f, i>>].artifact = rows[<<f, i>>].artifact
                             /\ rows'[<<f, i>>].synced = rows[<<f, i>>].synced
                        ELSE rows'[<<f, i>>].artifact = 0
      BY DEF RowsMild
    <2>1. CASE f \in listed /\ i = index[f]
      <3> HIDE DEF listed
      <3> QED BY <1>7, <2>1
    <2>2. CASE ~(f \in listed /\ i = index[f])
      <3> HIDE DEF listed
      <3> QED BY <1>6, <2>2
    <2> QED BY <2>1, <2>2
  <1>9. ArtifactsMild(f)
    BY <1>0 DEF ArtifactsMild
  <1>10. CarriedMild(f) /\ \A d \in Calls \ {c} : CallMild(d, f)
    <2>1. CarriedBy(c, f)
      BY <1>3 DEF CarriedBy, Carries
    <2> QED BY <1>4, <1>5, <2>1, SameMild DEF CarriedMild
  <1>11. Loaded(c, f)'
    <2> SUFFICES ASSUME f \in WorksOn(c)'
                 PROVE  /\ mine[f].artifact = rows'[<<f, index[f]>>].artifact
                        /\ mine[f].synced = rows'[<<f, index[f]>>].synced
      BY <1>3 DEF Loaded, AtWork
    <2>1. f \in listed
      BY <1>3, <1>t DEF WorksOn
    <2> QED BY <1>7, <2>1
  <1>12. DoneOK(c, f)'
    <2> SUFFICES ASSUME Done(c, f)'
                 PROVE  LET row == rows[<<f, calls[c].known[f]>>] IN
                        (/\ row.artifact # 0 /\ Shows(f, row.artifact, calls[c].listing[f])
                         /\ \A d \in Calls : Carries(d) /\ f \in calls[d].file =>
                              calls[c].listing[f] <= calls[d].content)'
      BY DEF DoneOK
    <2>1. f \in listed /\ f \notin todo /\ mine[f].decision = "included"
      BY <1>3 DEF Done
    <2>2. mine[f].artifact # 0 /\ mine[f].synced = calls[c].listing[f]
      BY <1>t, <2>1 DEF Publishable, NeedsPublish
    <2>3. /\ index[f] \in RowsOf(f) /\ mine[f].artifact = rows[<<f, index[f]>>].artifact
          /\ mine[f].synced = rows[<<f, index[f]>>].synced
      BY <1>7, <2>1, <2>2 DEF RowsOf
    <2>4. Shows(f, mine[f].artifact, calls[c].listing[f])
      BY <2>2, <2>3 DEF UpToDate, Remembered
    <2>5. LET art == artifacts'[<<f, mine[f].artifact>>] IN
          art.state = "live" /\ art.key # 0 => calls'[c].listing[f] <= art.sha
      BY <1>0, <1>3, <2>4 DEF Shows
    <2>6. f \in WorksOn(c)
      BY <1>0, <2>1 DEF WorksOn
    <2>7. ASSUME NEW d \in Calls, Carries(d)', f \in calls'[d].file
          PROVE  FALSE
      <3>1. d # c
        BY <1>3, <2>7
      <3>2. Carries(d) /\ f \in calls[d].file
        BY <1>4, <2>7, <3>1 DEF SameCall, Carries
      <3>3. f \in WorksOn(d)
        BY <3>2, CarriersWork DEF ConsentInv
      <3> QED BY <1>4, <2>6, <3>1, <3>3, OthersElsewhere
    <2>8. rows'[<<f, calls'[c].known[f]>>].artifact = mine[f].artifact
      BY <1>3, <1>7, <2>1
    <2>9. Shows(f, rows[<<f, calls[c].known[f]>>].artifact, calls[c].listing[f])'
      BY <1>3, <2>5, <2>8 DEF Shows
    <2> QED BY <2>2, <2>7, <2>8, <2>9
  <1> QED BY <1>8, <1>9, <1>10, <1>11, <1>12, MildFile DEF ConsentInv

(* A publication of this file commits what the call downloaded, which is   *)
(* no older than what it, or a sync done with the file before, listed.     *)
LEMMA PublishUpToDate ==
  ASSUME TypeOK, TypeOK', ConsentInv, ConsentInv', AloneInv, ToldInv,
         NEW f \in Files \ contended, FileOK(f), UpToDate(f),
         NEW c \in Calls, CommitPublish(c, f)
  PROVE  UpToDate(f)'
  <1> DEFINE base == calls[c].base
             content == calls[c].content
             i == calls[c].artifact
             k == calls[c].known[f]
  <1>0. /\ calls[c].at = "stored" /\ f \in calls[c].file /\ Writable(c, f) /\ Linked(c)
        /\ UNCHANGED link /\ k # 0 /\ calls[c].op \in {"sync", "include"}
    BY DEF CommitPublish, ConsentInv, CallsInv, CallOK
  <1>c. calls[c] \in CallType /\ calls[c].file \subseteq {f}
    BY <1>0 DEF TypeOK, CallType, ConsentInv, CallsInv, CallOK
  <1>w. f \in WorksOn(c) /\ Carries(c)
    BY <1>0 DEF WorksOn, Carries
  <1>1. i \in 1 .. MaxArtifacts /\ <<f, i>> \in ArtifactIds /\ artifacts[<<f, i>>] \in ArtifactType
    BY <1>0, HeldArtifact DEF ConsentInv, ArtifactIds, TypeOK
  <1>2. <<f, k>> \in RowIds /\ rows[<<f, k>>] \in RowType /\ rows[<<f, k>>].state = "there"
    BY <1>0, KnownThere DEF ConsentInv
  <1>3. artifacts'[<<f, i>>].sha = content
    <2>1. artifacts'[<<f, i>>] = NewVersion(artifacts[<<f, i>>], base, base.version + 1, content)
      BY <1>1 DEF CommitPublish, TypeOK
    <2>2. base.state = "none" => artifacts'[<<f, i>>].sha = content
      BY <2>1 DEF NewVersion
    <2>3. ASSUME base.state # "none"
          PROVE  artifacts'[<<f, i>>].sha = content
      <3>1. artifacts[<<f, i>>].state = "live" /\ base.state = "live"
        <4>1. base \in BaseType
          BY <1>c DEF CallType
        <4> QED BY <1>0, <2>3, <4>1 DEF Writable, BaseType
      <3>2. base = Base(<<f, i>>)
        BY <1>0, <3>1 DEF FileOK, HeldOK, Current
      <3>3. base.sha = artifacts[<<f, i>>].sha
        BY <3>2 DEF Base
      <3> QED BY <1>1, <2>1, <2>3, <3>3 DEF NewVersion, Written, ArtifactType
    <2> QED BY <2>2, <2>3
  <1>4. /\ rows'[<<f, k>>].artifact = i /\ rows'[<<f, k>>].synced = calls[c].listing[f]
        /\ \A r \in RowIds : rows'[r].state = rows[r].state
    <2> DEFINE row == Published(rows[<<f, k>>], calls[c].mine[f], i, calls[c].listing[f])
    <2>1. /\ calls[c].mine[f].artifact = rows[<<f, k>>].artifact
          /\ calls[c].mine[f].synced = rows[<<f, k>>].synced
      BY <1>0, <1>w DEF UpToDate, Loaded, AtWork
    <2>2. row.artifact = i /\ row.synced = calls[c].listing[f] /\ row.state = rows[<<f, k>>].state
      BY <1>2, <2>1 DEF Published, Written, RowType
    <2>3. rows' = [rows EXCEPT ![<<f, k>>] = row]
      BY DEF CommitPublish
    <2> HIDE DEF row
    <2> QED BY <1>2, <2>2, <2>3 DEF TypeOK
  <1>5. ASSUME NEW j \in RowsOf(f) \cup RowsOf(f)'
        PROVE  j = k
    <2>1. <<f, j>> \in RowIds /\ j \in RowsOf(f) /\ k \in RowsOf(f)
      BY <1>2, <1>4 DEF RowsOf, RowIds
    <2> QED BY <2>1 DEF FileOK, ShapeOK
  <1>6. calls[c].listing[f] <= content /\ f \notin calls[c].todo
    BY <1>0, <1>w DEF ToldInv, Told
  <1>7. \A d \in Calls \ {c} : SameCall(d) /\ f \notin WorksOn(d) /\ f \notin WorksOn(d)'
    <2>1. \A d \in Calls \ {c} : SameCall(d)
      BY OthersSame DEF Step
    <2> QED BY <1>w, <2>1, OthersElsewhere
  <1>8. ~Carries(c)' /\ f \notin WorksOn(c)'
        /\ (Done(c, f)' => calls'[c].known[f] = k /\ calls'[c].listing[f] = calls[c].listing[f])
    <2>1. CASE calls[c].op = "sync"
      <3>1. Update(c, [calls[c] EXCEPT !.at = "publishing", !.file = {}])
        BY <2>1 DEF CommitPublish
      <3>2. /\ calls'[c].at = "publishing" /\ calls'[c].file = {} /\ calls'[c].todo = calls[c].todo
            /\ calls'[c].known = calls[c].known /\ calls'[c].listing = calls[c].listing
        BY <1>c, <3>1 DEF Update, TypeOK, CallType
      <3> QED BY <1>6, <3>2 DEF Carries, WorksOn
    <2>2. CASE calls[c].op # "sync"
      <3>1. calls'[c] = Idle
        BY <2>2 DEF CommitPublish, Finish, Update, TypeOK
      <3> QED BY <3>1 DEF Idle, Carries, WorksOn, Done
    <2> QED BY <2>1, <2>2
  <1>9. Remembered(f)'
    BY <1>3, <1>4, <1>5, <1>6 DEF Remembered, Shows
  <1>10. \A d \in Calls : Loaded(d, f)'
    BY <1>7, <1>8 DEF Loaded, AtWork
  <1>11. ASSUME NEW d \in Calls, Done(d, f)'
         PROVE  /\ rows'[<<f, calls'[d].known[f]>>].artifact = i
                /\ calls'[d].listing[f] <= content
    <2>1. CASE d = c
      BY <1>4, <1>6, <1>8, <1>11, <2>1
    <2>2. CASE d # c
      <3>1. SameCall(d) /\ Done(d, f)
        BY <1>0, <1>7, <1>11, <2>2 DEF SameCall, Done, Linked, Publishes
      <3>2. calls[d].listing[f] <= content
        BY <1>0, <1>w, <3>1 DEF UpToDate, DoneOK
      <3>3. calls[d].known[f] # 0 /\ Linked(d)
        BY <3>1 DEF Done, ToldInv, Told
      <3>4. calls[d].known[f] \in RowsOf(f)
        BY <3>3, KnownThere DEF ConsentInv, RowsOf, RowIds
      <3>5. calls[d].known[f] = k
        BY <1>5, <3>4
      <3> QED BY <1>4, <3>1, <3>2, <3>5 DEF SameCall
    <2> QED BY <2>1, <2>2
  <1>12. \A e \in Calls : ~(Carries(e)' /\ f \in calls'[e].file)
    <2> SUFFICES ASSUME NEW e \in Calls, Carries(e)', f \in calls'[e].file
                 PROVE  FALSE
      OBVIOUS
    <2>1. e # c
      BY <1>8
    <2>2. Carries(e) /\ f \in calls[e].file
      BY <1>7, <2>1 DEF SameCall, Carries
    <2> QED BY <1>7, <2>1, <2>2, CarriersWork DEF ConsentInv
  <1>13. ASSUME NEW d \in Calls
         PROVE  DoneOK(d, f)'
    <2>1. i # 0
      BY <1>1
    <2> QED BY <1>3, <1>11, <1>12, <2>1 DEF DoneOK, Shows
  <1> QED BY <1>9, <1>10, <1>13 DEF UpToDate

LEMMA StepUpToDate ==
  ASSUME TypeOK, TypeOK', ConsentInv, ConsentInv', AloneInv, ToldInv, ToldInv',
         NEW f \in Files \ contended, FileOK(f), UpToDate(f), NEW c \in Calls, Step(c)
  PROVE  UpToDate(f)'
  <1>1. CASE CommitDiscover(c)
    BY <1>1, DiscoverUpToDate
  <1>2. CASE CommitPublish(c, f)
    BY <1>2, PublishUpToDate
  <1>3. CASE \/ Reads(c) \/ Decides(c) \/ \E g \in Files : CommitUpload(c, g)
             \/ \E g \in Files \ {f} : CommitPublish(c, g)
    <2>1. CarriedBy(c, f) /\ (CallMild(c, f) \/ (Loaded(c, f)' /\ DoneOK(c, f)'))
      BY <1>3, OwnMild DEF ConsentInv
    <2>2. \A d \in Calls \ {c} : SameCall(d) /\ (Linked(d)' => Linked(d))
      BY OthersSame, StepLink DEF SameCall, Linked
    <2>3. \A d \in Calls \ {c} : CallMild(d, f) /\ CarriedBy(d, f)
      BY <2>2, SameMild
    <2>4. CarriedMild(f)
      BY <2>1, <2>3 DEF CarriedMild
    <2>5. RowsMild(f) /\ ArtifactsMild(f)
      <3>1. CASE Reads(c)
        BY <3>1, ReadsTables DEF RowsMild, ArtifactsMild
      <3>2. CASE Decides(c)
        BY <3>2, DecidesRows DEF ArtifactsMild
      <3>3. ASSUME NEW g \in Files, CommitUpload(c, g)
            PROVE  RowsMild(f) /\ ArtifactsMild(f)
        <4> DEFINE a == <<g, calls[c].artifact>>
        <4>1. rows' = rows /\ artifacts' = [artifacts EXCEPT ![a] = ByHand(artifacts[a], calls[c].base)]
          BY <3>3 DEF CommitUpload
        <4>2. ASSUME NEW j \in 1 .. MaxArtifacts, artifacts'[<<f, j>>] # artifacts[<<f, j>>]
              PROVE  artifacts'[<<f, j>>].key = 0
          <5>1. <<f, j>> \in ArtifactIds /\ artifacts[<<f, j>>] \in ArtifactType
            BY DEF ArtifactIds, TypeOK
          <5>2. <<f, j>> = a
            BY <4>1, <4>2, <5>1 DEF TypeOK
          <5> QED BY <4>1, <5>1, <5>2 DEF TypeOK, ByHand, ArtifactType
        <4> QED BY <4>1, <4>2 DEF RowsMild, ArtifactsMild
      <3>4. ASSUME NEW g \in Files \ {f}, CommitPublish(c, g)
            PROVE  RowsMild(f) /\ ArtifactsMild(f)
        <4>1. \A j \in 1 .. MaxRows : rows'[<<f, j>>] = rows[<<f, j>>]
          BY <3>4 DEF CommitPublish, TypeOK, RowIds
        <4>2. \A j \in 1 .. MaxArtifacts : artifacts'[<<f, j>>] = artifacts[<<f, j>>]
          BY <3>4 DEF CommitPublish, TypeOK, ArtifactIds
        <4> QED BY <4>1, <4>2 DEF RowsMild, ArtifactsMild
      <3> QED BY <1>3, <3>1, <3>2, <3>3, <3>4
    <2> QED BY <2>1, <2>3, <2>4, <2>5, MildFile DEF ConsentInv
  <1> QED BY <1>1, <1>2, <1>3, StepKinds

LEMMA InitUpToDate == Init => ToldInv /\ UpToDateInv
  <1> SUFFICES ASSUME Init
               PROVE  ToldInv /\ UpToDateInv
    OBVIOUS
  <1>1. \A c \in Calls : /\ calls[c].at = "idle" /\ calls[c].op = "idle" /\ calls[c].file = {}
                         /\ \A f \in Files : calls[c].listing[f] = 0 /\ calls[c].known[f] = 0
    BY DEF Init, Idle
  <1>2. \A r \in RowIds : r[1] \in Files /\ rows[r].seen = 0 /\ rows[r].state = "none"
    BY DEF Init, NoRow, RowIds
  <1>3. \A a \in ArtifactIds : a[1] \in Files /\ artifacts[a].sha = 0
    BY DEF Init, NoArtifact, ArtifactIds
  <1>4. \A f \in Files : revision[f] = 1 /\ RowsOf(f) = {}
    BY <1>2 DEF Init, RowsOf, RowIds
  <1>5. ToldInv
    BY <1>1, <1>2, <1>3, <1>4 DEF ToldInv, SeenInv, ShownInv, Told, Carries, Publishes
  <1>6. UpToDateInv
    BY <1>1, <1>4 DEF UpToDateInv, UpToDate, Remembered, Loaded, AtWork, DoneOK, Done
  <1> QED BY <1>5, <1>6

LEMMA CatchesUp ==
  TypeOK /\ ToldInv /\ UpToDateInv => SyncCatchesUp
  <1> SUFFICES ASSUME TypeOK, ToldInv, UpToDateInv, NEW c \in Calls,
                      calls[c].op = "sync", calls[c].at = "publishing", calls[c].todo = {},
                      Linked(c), NEW f \in Files \ (contended \cup calls[c].failed),
                      calls[c].mine[f].decision = "included", calls[c].listing[f] = revision[f]
               PROVE  Settled(c, f)
    BY DEF SyncCatchesUp
  <1> DEFINE row == rows[<<f, calls[c].known[f]>>]
  <1>1. revision[f] \in Nat /\ revision[f] # 0
    BY BoundsAssumption DEF TypeOK
  <1>2. Told(c, f)
    BY DEF ToldInv
  <1>3. Done(c, f) /\ calls[c].known[f] # 0
    BY <1>1, <1>2 DEF Done, Told, Publishes
  <1>4. row.artifact # 0 /\ Shows(f, row.artifact, revision[f])
    BY <1>3 DEF UpToDateInv, UpToDate, DoneOK
  <1>5. row \in RowType
    BY <1>3, KnownRow DEF TypeOK
  <1>6. <<f, row.artifact>> \in ArtifactIds
    BY <1>4, <1>5, BoundsAssumption DEF RowType, ArtifactIds
  <1>7. artifacts[<<f, row.artifact>>].sha \in Nat /\ artifacts[<<f, row.artifact>>].sha <= revision[f]
    BY <1>6, BoundsAssumption DEF TypeOK, ArtifactType, Revisions, ToldInv, ShownInv
  <1>8. ASSUME artifacts[<<f, row.artifact>>].state = "live", artifacts[<<f, row.artifact>>].key # 0
        PROVE  artifacts[<<f, row.artifact>>].sha = revision[f]
    BY <1>1, <1>4, <1>7, <1>8 DEF Shows
  <1> QED BY <1>4, <1>8 DEF Settled

(***************************************************************************)
(* A sync that ends without an error for a file leaves it published in the *)
(* revision it listed, if Drive still has that one: see SyncCatchesUp.     *)
(***************************************************************************)
THEOREM SyncsCatchUp == Spec => []SyncCatchesUp
  <1> DEFINE All == TypeOK /\ ConsentInv /\ AloneInv /\ FilesInv /\ ToldInv /\ UpToDateInv
  <1>1. Init => All
    BY InitType, InitConsent, InitFiles, InitUpToDate
  <1>2. All /\ [Next]_vars => All'
    <2> SUFFICES ASSUME All, [Next]_vars
                 PROVE  All'
      OBVIOUS
    <2>1. TypeOK' /\ ConsentInv'
      BY NextType, NextConsent DEF ConsentInv
    <2>2. CASE Next
      <3>1. AloneInv' /\ FilesInv' /\ ToldInv'
        BY <2>1, <2>2, NextFiles, NextTold
      <3>2. Files \ contended' \subseteq Files \ contended
        BY <2>2, NextAlone
      <3>3. ASSUME NEW f \in Files \ contended
            PROVE  UpToDate(f)'
        <4>1. FileOK(f) /\ UpToDate(f)
          BY DEF FilesInv, UpToDateInv
        <4> QED BY <2>1, <2>2, <3>1, <4>1, StepUpToDate, EnvironmentUpToDate DEF Next
      <3> QED BY <2>1, <3>1, <3>2, <3>3 DEF UpToDateInv
    <2>3. CASE UNCHANGED vars
      <3>1. AloneInv'
        BY <2>3 DEF vars, AloneInv, WorksOn
      <3>2. FilesInv'
        BY <2>3 DEF vars, FilesInv, FileOK, ShapeOK, HeldOK, Fresh, Current, RowsOf, LiveOf,
                    Linked, ArchiveIsWhole, KeysFollow, Stored, Base
      <3>3. ToldInv'
        BY <2>3 DEF vars, ToldInv, SeenInv, ShownInv, Told, Carries, Publishes
      <3>4. UpToDateInv'
        <4>1. contended' = contended
          BY <2>3 DEF vars
        <4>2. \A f \in Files : Remembered(f) => Remembered(f)'
          BY <2>3 DEF vars, Remembered, Shows, RowsOf
        <4>3. \A f \in Files, c \in Calls : Loaded(c, f) => Loaded(c, f)'
          BY <2>3 DEF vars, Loaded, AtWork, WorksOn, Linked
        <4>4. ASSUME NEW f \in Files, NEW c \in Calls, DoneOK(c, f)
              PROVE  DoneOK(c, f)'
          <5>1. UNCHANGED <<link, rows, artifacts, calls>>
            BY <2>3 DEF vars
          <5>2. Done(c, f)' <=> Done(c, f)
            BY <5>1 DEF Done, Linked, Publishes
          <5>3. \A i, rev : Shows(f, i, rev) => LET art == artifacts'[<<f, i>>] IN
                             art.state = "live" /\ art.key # 0 => rev <= art.sha
            BY <5>1 DEF Shows
          <5> QED BY <4>4, <5>1, <5>2, <5>3 DEF DoneOK, Shows, Carries
        <4> QED BY <4>1, <4>2, <4>3, <4>4 DEF UpToDateInv, UpToDate
      <3> QED BY <2>1, <3>1, <3>2, <3>3, <3>4
    <2> QED BY <2>2, <2>3
  <1>3. All => SyncCatchesUp
    BY CatchesUp
  <1> HIDE DEF All
  <1> QED BY <1>1, <1>2, <1>3, PTL DEF Spec
=============================================================================
