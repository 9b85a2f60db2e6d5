----------------------------- MODULE DriveSync -----------------------------
(***************************************************************************)
(* A vendor's linked Google Drive folder.  A sync lists the folder,        *)
(* reconciles the listing with its rows, and publishes the included files  *)
(* whose revision is not the published one; the owner includes (which      *)
(* publishes at once) and excludes files, uploads by hand, deletes         *)
(* artifacts, unlinks and relinks the folder.  The scheduled job, the      *)
(* owner's "sync now" and the owner's decisions run concurrently, with     *)
(* downloads of seconds between what they load and what they commit.       *)
(*                                                                         *)
(* Content is told apart by revision number, which is also Drive's md5 of  *)
(* it, or its modification time for a document that has no md5.            *)
(***************************************************************************)
EXTENDS Naturals, Sequences, FiniteSets

CONSTANTS
  Files,         \* files of the folder
  Verdict,       \* what the rules say of each file: "include", "exclude", "review"
  Calls,         \* slots for concurrent calls
  MaxRows,       \* bound: rows of drive_files ever inserted for a file
  MaxArtifacts,  \* bound: artifacts ever created for a file
  MaxRevision,   \* bound: revisions of a file
  MaxVersion,    \* bound: versions of an artifact
  MaxLinks,      \* bound: connections ever made
  MaxCalls       \* bound: calls ever begun

ASSUME BoundsAssumption ==
  /\ MaxRows \in Nat /\ MaxArtifacts \in Nat /\ MaxRevision \in Nat \ {0}
  /\ MaxVersion \in Nat /\ MaxLinks \in Nat /\ MaxCalls \in Nat
ASSUME VerdictAssumption == Verdict \in [Files -> {"include", "exclude", "review"}]

VARIABLES
  revision,   \* Drive: the current revision of each file
  link,       \* table drive_connections
  rows,       \* table drive_files
  artifacts,  \* table artifacts, with the versions archived of each
  blobs,      \* the storage: content under the keys syncs make up
  calls,      \* the calls in flight
  begun,      \* how many calls were begun
  approved,   \* history: rows included by the owner, or by a rule under auto_publish
  contended   \* history: files two calls have worked on at the same time

vars == <<revision, link, rows, artifacts, blobs, calls, begun, approved, contended>>
data == <<revision, link, rows, artifacts, blobs>>

Revisions == 0 .. MaxRevision  \* 0: none, or content that was uploaded by hand

(***************************************************************************)
(* Row <<f, i>> is the i-th inserted for file f, artifact <<f, i>> the     *)
(* i-th created from it: source_ref is the artifact's first component.     *)
(***************************************************************************)
RowIds == Files \X (1 .. MaxRows)
ArtifactIds == Files \X (1 .. MaxArtifacts)

RowType ==
  [state : {"none", "there", "deleted"}, decision : {"pending", "included", "excluded"},
   seen : Revisions, artifact : 0 .. MaxArtifacts, synced : Revisions]
NoRow ==
  [state |-> "none", decision |-> "pending", seen |-> 0, artifact |-> 0, synced |-> 0]

(* A key is the version in a name like ".../v3.pdf", or 0: a hand upload's, *)
(* whose random suffix nobody else makes up.                               *)
Versions == [version : 0 .. MaxVersion, key : 0 .. MaxVersion, sha : Revisions]
ArtifactType ==
  [state : {"none", "live", "deleted"}, version : 0 .. MaxVersion,
   key : 0 .. MaxVersion, sha : Revisions, archive : Seq(Versions)]
NoArtifact == [state |-> "none", version |-> 0, key |-> 0, sha |-> 0, archive |-> <<>>]

(* What was deleted keeps no columns. *)
GoneRow == [NoRow EXCEPT !.state = "deleted"]
GoneArtifact == [NoArtifact EXCEPT !.state = "deleted"]

(***************************************************************************)
(* What a call in flight holds: the connection it loaded, the revisions it *)
(* was told of, the row it has for each file (its number and columns), the *)
(* files it has yet to publish, the one it is at (none, or one), what it   *)
(* downloaded, the artifact it writes to as loaded, the files it failed on *)
(* and those whose exclusion was committed since it began.                 *)
(***************************************************************************)
BaseType ==
  [state : {"none", "live"}, version : 0 .. MaxVersion, key : 0 .. MaxVersion, sha : Revisions]
NoBase == [state |-> "none", version |-> 0, key |-> 0, sha |-> 0]

CallType ==
  [op : {"idle", "sync", "include", "exclude", "upload"},
   at : {"idle", "listed", "loaded", "deciding", "publishing", "fetched", "stored", "uploading"},
   link : 0 .. MaxLinks, auto : BOOLEAN, listing : [Files -> Revisions],
   known : [Files -> 0 .. MaxRows], mine : [Files -> RowType],
   todo : SUBSET Files, file : SUBSET Files, content : Revisions,
   artifact : 0 .. MaxArtifacts, base : BaseType,
   failed : SUBSET Files, overtaken : SUBSET Files]

Idle ==
  [op |-> "idle", at |-> "idle", link |-> 0, auto |-> FALSE,
   listing |-> [f \in Files |-> 0],
   known |-> [f \in Files |-> 0], mine |-> [f \in Files |-> NoRow],
   todo |-> {}, file |-> {}, content |-> 0, artifact |-> 0, base |-> NoBase,
   failed |-> {}, overtaken |-> {}]

Init ==
  /\ revision = [f \in Files |-> 1]
  /\ link = [number |-> 0, open |-> FALSE, auto |-> FALSE]
  /\ rows = [r \in RowIds |-> NoRow]
  /\ artifacts = [a \in ArtifactIds |-> NoArtifact]
  /\ blobs = [a \in ArtifactIds |-> [v \in 1 .. MaxVersion |-> 0]]
  /\ calls = [c \in Calls |-> Idle]
  /\ begun = 0
  /\ approved = {}
  /\ contended = {}

-----------------------------------------------------------------------------
RowsOf(f) == {i \in 1 .. MaxRows : rows[<<f, i>>].state = "there"}
LiveOf(f) == {i \in 1 .. MaxArtifacts : artifacts[<<f, i>>].state = "live"}

(* The connection a call loaded is still there. *)
Linked(c) == link.open /\ link.number = calls[c].link

(* The files a call reads and writes the rows or the artifact of. *)
WorksOn(c) ==
  {f \in Files : /\ calls[c].op # "exclude"
                 /\ IF calls[c].at = "loaded" THEN calls[c].listing[f] # 0
                    ELSE f \in calls[c].todo \cup calls[c].file}
Overlap == {f \in Files : \E c, d \in Calls : c # d /\ f \in WorksOn(c) \cap WorksOn(d)}
Watch == contended' = contended \cup Overlap'

(* A column is written if the value assigned differs from the one loaded. *)
Written(old, new, current) == IF new = old THEN current ELSE new

Update(c, call) == calls' = [calls EXCEPT ![c] = call]
Finish(c) == Update(c, Idle)

Begin(c, call) ==
  /\ calls[c].at = "idle"
  /\ begun < MaxCalls
  /\ begun' = begun + 1
  /\ Update(c, call)
-----------------------------------------------------------------------------
(* Drive: a file is edited. *)
Revise(f) ==
  /\ revision[f] < MaxRevision
  /\ revision' = [revision EXCEPT ![f] = @ + 1]
  /\ UNCHANGED <<link, rows, artifacts, blobs, calls, begun, approved>>
  /\ Watch

(* connect and update_connection, as far as auto_publish goes. *)
Connect(auto) ==
  /\ ~link.open
  /\ link.number < MaxLinks
  /\ link' = [number |-> link.number + 1, open |-> TRUE, auto |-> auto]
  /\ UNCHANGED <<revision, rows, artifacts, blobs, calls, begun, approved>>
  /\ Watch

UpdateConnection(auto) ==
  /\ link.open
  /\ link' = [link EXCEPT !.auto = auto]
  /\ UNCHANGED <<revision, rows, artifacts, blobs, calls, begun, approved>>
  /\ Watch

(* disconnect deletes the rows with the connection and, asked to purge, the *)
(* artifacts they name.                                                    *)
Disconnect(purge) ==
  /\ link.open
  /\ link' = [number |-> link.number, open |-> FALSE, auto |-> FALSE]
  /\ rows' = [r \in RowIds |->
       IF rows[r].state = "there" THEN GoneRow ELSE rows[r]]
  /\ artifacts' = [a \in ArtifactIds |->
       IF /\ purge /\ artifacts[a].state = "live"
          /\ \E i \in RowsOf(a[1]) : rows[<<a[1], i>>].artifact = a[2]
       THEN GoneArtifact ELSE artifacts[a]]
  /\ approved' = {}
  /\ UNCHANGED <<revision, blobs, calls, begun>>
  /\ Watch

(* delete_artifact.  No row hears of it. *)
DeleteArtifact(a) ==
  /\ artifacts[a].state = "live"
  /\ artifacts' = [artifacts EXCEPT ![a] = GoneArtifact]
  /\ UNCHANGED <<revision, link, rows, blobs, calls, begun, approved>>
  /\ Watch

-----------------------------------------------------------------------------
(* A sync, scheduled or asked for, has the connection and lists the folder, *)
(* in which each file is or is not at this moment.                         *)
ListFolder(c, present) ==
  /\ link.open
  /\ Begin(c,
       [Idle EXCEPT !.op = "sync", !.at = "listed", !.link = link.number, !.auto = link.auto,
                    !.listing = [f \in Files |-> IF f \in present THEN revision[f] ELSE 0]])
  /\ UNCHANGED <<data, approved>>
  /\ Watch

(* discover loads the rows.  Of two rows for one file it keeps either. *)
LoadRows(c) ==
  /\ calls[c].at = "listed"
  /\ \E known \in [Files -> 0 .. MaxRows] :
       /\ \A f \in Files : IF Linked(c) /\ RowsOf(f) # {} THEN known[f] \in RowsOf(f)
                                                          ELSE known[f] = 0
       /\ Update(c, [calls[c] EXCEPT !.at = "loaded", !.known = known,
            !.mine = [f \in Files |-> IF known[f] = 0 THEN NoRow ELSE rows[<<f, known[f]>>]]])
  /\ UNCHANGED <<data, begun, approved>>
  /\ Watch

(* Mutant of FirstDecision: a rule is consent with auto_publish off, too. *)
FirstDecisionByRule(f, auto) ==
  CASE Verdict[f] = "exclude" -> "excluded"
    [] Verdict[f] = "include" -> "included"
    [] OTHER                  -> "pending"

(* The decision a new row is inserted with. *)
FirstDecision(f, auto) ==
  CASE Verdict[f] = "exclude"           -> "excluded"
    [] Verdict[f] = "include" /\ auto   -> "included"
    [] OTHER                            -> "pending"

(* Mutant of NeedsPublish: it compares with the revision seen, not published. *)
NeedsPublishIfMoved(row, rev) == row.artifact = 0 \/ row.seen # rev

NeedsPublish(row, rev) == row.artifact = 0 \/ row.synced # rev

(* Mutant of Publishable: whatever the owner did not exclude. *)
PublishableAnyway(row, rev) == row.decision # "excluded" /\ NeedsPublish(row, rev)

Publishable(row, rev) == row.decision = "included" /\ NeedsPublish(row, rev)

NextRow(f, i) ==
  /\ rows[<<f, i>>].state = "none"
  /\ \A j \in 1 .. MaxRows : j < i => rows[<<f, j>>].state # "none"

(***************************************************************************)
(* discover commits: a row for each listed file that had none, the         *)
(* revision seen for the others, whose decision it leaves alone.  What it  *)
(* goes on to publish it decides on the rows in memory.                    *)
(***************************************************************************)
Reconciled(c, f) ==
  IF calls[c].known[f] = 0
  THEN [NoRow EXCEPT !.state = "there", !.seen = calls[c].listing[f],
                     !.decision = FirstDecision(f, calls[c].auto)]
  ELSE [calls[c].mine[f] EXCEPT !.seen = calls[c].listing[f]]

RowWritten(c, f, row, new) ==
  IF row.state = "none" THEN new
  ELSE [row EXCEPT !.seen = Written(calls[c].mine[f].seen, new.seen, @)]

CommitDiscover(c) ==
  LET listed == {f \in Files : calls[c].listing[f] # 0}
      mine == [f \in Files |-> IF f \in listed THEN Reconciled(c, f) ELSE calls[c].mine[f]]
  IN
  /\ calls[c].at = "loaded"
  /\ Linked(c)
  /\ \E index \in [Files -> 0 .. MaxRows] :
       /\ \A f \in Files :
            IF f \in listed /\ calls[c].known[f] = 0
            THEN index[f] # 0 /\ NextRow(f, index[f]) ELSE index[f] = calls[c].known[f]
       /\ rows' = [r \in RowIds |->
            IF r[1] \in listed /\ r[2] = index[r[1]]
            THEN RowWritten(c, r[1], rows[r], mine[r[1]]) ELSE rows[r]]
       /\ Update(c, [calls[c] EXCEPT
            !.at = "publishing", !.auto = FALSE, !.known = index, !.mine = mine,
            !.todo = {f \in listed : Publishable(mine[f], calls[c].listing[f])}])
       /\ approved' = approved \cup
            {r \in RowIds : /\ r[1] \in listed /\ r[2] = index[r[1]] /\ rows[r].state = "none"
                            /\ Verdict[r[1]] = "include" /\ calls[c].auto}
  /\ UNCHANGED <<revision, link, artifacts, blobs, begun>>
  /\ Watch

(* The folder was unlinked meanwhile: the rows are gone, nothing is written. *)
FailDiscover(c) ==
  /\ calls[c].at = "loaded"
  /\ ~Linked(c)
  /\ Finish(c)
  /\ UNCHANGED <<data, begun, approved>>
  /\ Watch

EndSync(c) ==
  /\ calls[c].op = "sync" /\ calls[c].at = "publishing"
  /\ calls[c].todo = {}
  /\ Finish(c)
  /\ UNCHANGED <<data, begun, approved>>
  /\ Watch

-----------------------------------------------------------------------------
(* decide_file and decide_many load the row.  What an inclusion publishes   *)
(* it takes for the revision its row has seen.                              *)
LoadDecision(c, f, i, op) ==
  /\ i \in RowsOf(f)
  /\ Begin(c,
       [Idle EXCEPT !.op = op, !.at = "deciding", !.link = link.number,
                    !.known[f] = i, !.mine[f] = rows[<<f, i>>],
                    !.listing[f] = rows[<<f, i>>].seen, !.todo = {f}])
  /\ UNCHANGED <<data, approved>>
  /\ Watch

CommitInclude(c, f) ==
  LET r == <<f, calls[c].known[f]>> IN
  /\ calls[c].op = "include" /\ calls[c].at = "deciding" /\ f \in calls[c].todo
  /\ Linked(c)
  /\ rows' = [rows EXCEPT ![r].decision = Written(calls[c].mine[f].decision, "included", @)]
  /\ approved' = approved \cup {r}
  /\ Update(c, [calls[c] EXCEPT !.at = "publishing", !.mine[f].decision = "included"])
  /\ UNCHANGED <<revision, link, artifacts, blobs, begun>>
  /\ Watch

CommitExclude(c, f) ==
  LET r == <<f, calls[c].known[f]>> IN
  /\ calls[c].op = "exclude" /\ calls[c].at = "deciding" /\ f \in calls[c].todo
  /\ Linked(c)
  /\ rows' = [rows EXCEPT ![r].decision = Written(calls[c].mine[f].decision, "excluded", @)]
  /\ calls' = [d \in Calls |->
       CASE d = c                      -> Idle
         [] d # c /\ calls[d].known[f] = r[2] -> [calls[d] EXCEPT !.overtaken = @ \cup {f}]
         [] OTHER                      -> calls[d]]
  /\ UNCHANGED <<revision, link, artifacts, blobs, begun, approved>>
  /\ Watch

(* The row went with its connection: the update matches nothing. *)
FailDecision(c) ==
  /\ calls[c].at = "deciding"
  /\ ~Linked(c)
  /\ Finish(c)
  /\ UNCHANGED <<data, begun, approved>>
  /\ Watch

-----------------------------------------------------------------------------
(* publish downloads what Drive has now ... *)
Download(c, f) ==
  /\ calls[c].at = "publishing"
  /\ f \in calls[c].todo
  /\ Update(c, [calls[c] EXCEPT !.at = "fetched", !.todo = @ \ {f}, !.file = {f},
                                !.content = revision[f]])
  /\ UNCHANGED <<data, begun, approved>>
  /\ Watch

(* ... or cannot: a sync goes on with the next file, an inclusion is a 502. *)
FailDownload(c, f) ==
  /\ calls[c].at = "publishing"
  /\ f \in calls[c].todo
  /\ IF calls[c].op = "sync"
     THEN Update(c, [calls[c] EXCEPT !.todo = @ \ {f}, !.failed = @ \cup {f}])
     ELSE Finish(c)
  /\ UNCHANGED <<data, begun, approved>>
  /\ Watch

(***************************************************************************)
(* It loads the artifact of the row, else one this file was published as   *)
(* before, else makes a new one, inserted but not committed; and puts the  *)
(* content under the key of the next version ...                           *)
(***************************************************************************)
Reserved(c, f, i) ==
  \E d \in Calls \ {c} : calls[d].at = "stored" /\ f \in calls[d].file /\ calls[d].artifact = i

(* Mutant of Target: an artifact published before is not adopted. *)
TargetNamed(c, f, i) ==
  LET named == calls[c].mine[f].artifact IN
  IF named \in LiveOf(f) THEN i = named
  ELSE artifacts[<<f, i>>].state = "none" /\ ~Reserved(c, f, i)

Target(c, f, i) ==
  LET named == calls[c].mine[f].artifact IN
  \/ i = named /\ named \in LiveOf(f)
  \/ i \in LiveOf(f) /\ named \notin LiveOf(f)
  \/ artifacts[<<f, i>>].state = "none" /\ LiveOf(f) = {} /\ ~Reserved(c, f, i)

Base(a) == [state |-> artifacts[a].state, version |-> artifacts[a].version,
            key |-> artifacts[a].key, sha |-> artifacts[a].sha]

PutContent(c, f, i) ==
  LET v == artifacts[<<f, i>>].version + 1 IN
  /\ calls[c].at = "fetched"
  /\ f \in calls[c].file
  /\ Target(c, f, i)
  /\ v <= MaxVersion
  /\ blobs' = [blobs EXCEPT ![<<f, i>>][v] = calls[c].content]
  /\ Update(c, [calls[c] EXCEPT !.at = "stored", !.artifact = i, !.base = Base(<<f, i>>)])
  /\ UNCHANGED <<revision, link, rows, artifacts, begun, approved>>
  /\ Watch

(* Mutant of Archived: the version is counted up first. *)
ArchivedLate(base) == [version |-> base.version + 1, key |-> base.key, sha |-> base.sha]

Archived(base) == [version |-> base.version, key |-> base.key, sha |-> base.sha]

NewVersion(current, base, key, sha) ==
  IF base.state = "none"
  THEN [state |-> "live", version |-> 1, key |-> key, sha |-> sha, archive |-> <<>>]
  ELSE [current EXCEPT !.version = base.version + 1, !.key = key,
                       !.sha = Written(base.sha, sha, @),
                       !.archive = Append(@, Archived(base))]

(* Mutant of Published: the row is written as it was loaded. *)
PublishedWhole(row, mine, artifact, rev) ==
  [mine EXCEPT !.artifact = artifact, !.synced = rev]

Published(row, mine, artifact, rev) ==
  [row EXCEPT !.artifact = Written(mine.artifact, artifact, @),
              !.synced = Written(mine.synced, rev, @)]

(* The artifact a call writes to was not deleted meanwhile. *)
Writable(c, f) ==
  \/ calls[c].base.state = "none"
  \/ artifacts[<<f, calls[c].artifact>>].state = "live"

(* ... and commits the outgoing version to the archive, the new one, and   *)
(* the revision it was told of, not the one it downloaded, as published.   *)
CommitPublish(c, f) ==
  LET a == <<f, calls[c].artifact>>
      base == calls[c].base
      r == <<f, calls[c].known[f]>>
  IN
  /\ calls[c].at = "stored"
  /\ f \in calls[c].file
  /\ Linked(c) /\ Writable(c, f)
  /\ artifacts' = [artifacts EXCEPT ![a] =
       NewVersion(@, base, base.version + 1, calls[c].content)]
  /\ rows' = [rows EXCEPT ![r] =
       Published(@, calls[c].mine[f], calls[c].artifact, calls[c].listing[f])]
  /\ IF calls[c].op = "sync"
     THEN Update(c, [calls[c] EXCEPT !.at = "publishing", !.file = {}])
     ELSE Finish(c)
  /\ UNCHANGED <<revision, link, blobs, begun, approved>>
  /\ Watch

(* A row it updates is gone.  The session is unusable from here on: a sync *)
(* fails on the files left and on its own last commit.                     *)
FailPublish(c, f) ==
  /\ calls[c].at = "stored"
  /\ f \in calls[c].file
  /\ ~(Linked(c) /\ Writable(c, f))
  /\ Finish(c)
  /\ UNCHANGED <<data, begun, approved>>
  /\ Watch

-----------------------------------------------------------------------------
(* upload_artifact_content, on an artifact that came from Drive. *)
LoadUpload(c, f, i) ==
  /\ i \in LiveOf(f)
  /\ Begin(c, [Idle EXCEPT !.op = "upload", !.at = "uploading", !.file = {f}, !.artifact = i,
                           !.base = Base(<<f, i>>)])
  /\ UNCHANGED <<data, approved>>
  /\ Watch

ByHand(current, base) ==
  [current EXCEPT !.version = base.version + 1, !.key = 0, !.sha = 0,
                  !.archive = Append(@, Archived(base))]

CommitUpload(c, f) ==
  LET a == <<f, calls[c].artifact>>
      base == calls[c].base
  IN
  /\ calls[c].op = "upload" /\ calls[c].at = "uploading" /\ f \in calls[c].file
  /\ base.version < MaxVersion
  /\ Writable(c, f)
  /\ artifacts' = [artifacts EXCEPT ![a] = ByHand(@, base)]
  /\ Finish(c)
  /\ UNCHANGED <<revision, link, rows, blobs, begun, approved>>
  /\ Watch

(* The artifact was deleted meanwhile; or the process stops.  Where no      *)
(* content is under way a stop leaves what failed downloads leave.         *)
Stop(c) ==
  /\ calls[c].at \in {"fetched", "stored", "uploading"}
  /\ Finish(c)
  /\ UNCHANGED <<data, begun, approved>>
  /\ Watch

-----------------------------------------------------------------------------
Environment ==
  \/ \E f \in Files : Revise(f)
  \/ \E b \in BOOLEAN : Connect(b) \/ UpdateConnection(b) \/ Disconnect(b)
  \/ \E a \in ArtifactIds : DeleteArtifact(a)

Step(c) ==
  \/ \E present \in SUBSET Files : ListFolder(c, present)
  \/ LoadRows(c) \/ CommitDiscover(c) \/ FailDiscover(c) \/ EndSync(c)
  \/ FailDecision(c) \/ Stop(c)
  \/ \E f \in Files :
       \/ CommitInclude(c, f) \/ CommitExclude(c, f)
       \/ Download(c, f) \/ FailDownload(c, f)
       \/ CommitPublish(c, f) \/ FailPublish(c, f) \/ CommitUpload(c, f)
       \/ \E i \in 1 .. MaxRows, op \in {"include", "exclude"} : LoadDecision(c, f, i, op)
       \/ \E i \in 1 .. MaxArtifacts : PutContent(c, f, i) \/ LoadUpload(c, f, i)

Next == Environment \/ \E c \in Calls : Step(c)

Spec == Init /\ [][Next]_vars
-----------------------------------------------------------------------------
(* The tables, the storage and the calls hold values of their type. *)
TypeOK ==
  /\ revision \in [Files -> 1 .. MaxRevision]
  /\ link \in [number : 0 .. MaxLinks, open : BOOLEAN, auto : BOOLEAN]
  /\ rows \in [RowIds -> RowType]
  /\ artifacts \in [ArtifactIds -> ArtifactType]
  /\ blobs \in [ArtifactIds -> [1 .. MaxVersion -> Revisions]]
  /\ calls \in [Calls -> CallType]
  /\ begun \in Nat
  /\ approved \subseteq RowIds
  /\ contended \subseteq Files

(***************************************************************************)
(* "A sync never publishes anything on its own unless the owner has said   *)
(* it may" (drive_sync.py:3-4): whoever publishes a file, its row says     *)
(* included when the publication commits, unless the owner excluded it     *)
(* while that call was under way; and it says so because the owner         *)
(* included it, or a rule did while auto_publish was on.                   *)
(***************************************************************************)
Consented(c, f) ==
  LET r == <<f, calls[c].known[f]>> IN
  /\ rows[r].decision = "included" \/ f \in calls[c].overtaken
  /\ r \in approved
PublicationHadConsent ==
  [][\A c \in Calls, f \in Files :
       calls[c].at = "stored" /\ f \in calls[c].file /\ artifacts' # artifacts
         /\ calls'[c].at # "stored" => Consented(c, f)]_vars

(***************************************************************************)
(* "An excluded file stays excluded across every future sync" (google-     *)
(* drive/page.mdx:147): only the owner's inclusion of that row, or the     *)
(* folder's unlinking, ends it, whatever a sync loaded earlier.            *)
(***************************************************************************)
ExcludedStaysExcluded ==
  [][\A r \in RowIds :
       rows[r].decision = "excluded" /\ rows'[r].state = "there" =>
         \/ rows'[r].decision = "excluded"
         \/ \E c \in Calls : /\ calls[c].op = "include" /\ calls[c].at = "deciding"
                             /\ calls[c].known[r[1]] = r[2]]_vars

(***************************************************************************)
(* A file has one row and one artifact, across revisions, decisions, hand  *)
(* uploads, unlinking and relinking (drive_sync.py:19-21, 219-230), unless *)
(* two calls have worked on it at the same time.                           *)
(***************************************************************************)
OneOfEach ==
  \A f \in Files \ contended :
    /\ \A i, j \in RowsOf(f) : i = j
    /\ \A i, j \in LiveOf(f) : i = j

(***************************************************************************)
(* The version history is the audit trail (drive_sync.py:248-249): the     *)
(* versions before the current one are archived, each once and in order,   *)
(* and every version's hash is that of the bytes under its key, unless two *)
(* calls have worked on the file at the same time.                         *)
(***************************************************************************)
Stored(a, key, sha) == key = 0 \/ blobs[a][key] = sha
ArchiveIsWhole(a) ==
  LET art == artifacts[a] IN
  /\ art.version = Len(art.archive) + 1
  /\ Stored(a, art.key, art.sha)
  /\ \A v \in 1 .. Len(art.archive) :
       art.archive[v].version = v /\ Stored(a, art.archive[v].key, art.archive[v].sha)
HistoryIsWhole ==
  \A a \in ArtifactIds :
    artifacts[a].state = "live" /\ a[1] \notin contended => ArchiveIsWhole(a)

(***************************************************************************)
(* A synced document is archived "exactly as a manual re-upload would be,  *)
(* with the same hashing and the same audit trail" (google-drive/page.mdx: *)
(* 138-139): a version's hash is that of the bytes under its key.  The     *)
(* code breaks it: two publications that overlap put their content under   *)
(* the key of the same next version, where a manual upload's key has a     *)
(* random suffix.                                                          *)
(***************************************************************************)
HashIsOfBytes ==
  \A a \in ArtifactIds :
    artifacts[a].state = "live" => Stored(a, artifacts[a].key, artifacts[a].sha)

(***************************************************************************)
(* A sync that has come to its end without an error for a file leaves it   *)
(* published in the revision it listed, if Drive still has that one: the   *)
(* published revision that a row remembers never runs ahead of what the    *)
(* artifact shows.  Excepted are content uploaded by hand, artifacts       *)
(* deleted since, and files two calls worked on at the same time.          *)
(* drive_sync.py:88-91, 281-283.                                           *)
(***************************************************************************)
Settled(c, f) ==
  LET row == rows[<<f, calls[c].known[f]>>] IN
  /\ row.artifact # 0
  /\ LET art == artifacts[<<f, row.artifact>>] IN
     art.state = "live" /\ art.key # 0 => art.sha = revision[f]
SyncCatchesUp ==
  \A c \in Calls :
    calls[c].op = "sync" /\ calls[c].at = "publishing" /\ calls[c].todo = {} /\ Linked(c) =>
      \A f \in Files \ (contended \cup calls[c].failed) :
        calls[c].mine[f].decision = "included" /\ calls[c].listing[f] = revision[f]
          => Settled(c, f)
-----------------------------------------------------------------------------
(* Only what somebody approved of reads included. *)
RowsInv ==
  \A r \in RowIds :
    /\ rows[r].state # "there" => rows[r].decision = "pending"
    /\ rows[r].decision = "included" => r \in approved

ArtifactsInv == \A a \in ArtifactIds : artifacts[a].state # "live" => artifacts[a].version = 0

(***************************************************************************)
(* While its connection lasts, the rows a call knows are there, and what   *)
(* it has for included is approved and reads included, unless it was       *)
(* excluded since.                                                         *)
(***************************************************************************)
KnownOK(c, f) ==
  LET r == <<f, calls[c].known[f]>> IN
  Linked(c) /\ calls[c].known[f] # 0 =>
    /\ rows[r].state = "there"
    /\ calls[c].op \in {"sync", "include"} /\ calls[c].mine[f].decision = "included" =>
         r \in approved /\ (rows[r].decision = "included" \/ f \in calls[c].overtaken)

(* A call is at one file at a time, and publishes what it has for included. *)
CallOK(c) ==
  /\ calls[c].link <= link.number
  /\ calls[c].at \in {"listed", "loaded"} => calls[c].op = "sync"
  /\ calls[c].at \in {"publishing", "fetched", "stored"} => calls[c].op \in {"sync", "include"}
  /\ calls[c].at \in {"listed", "loaded"} => calls[c].file = {}
  /\ calls[c].at = "uploading" => calls[c].op = "upload" /\ calls[c].base.state = "live"
  /\ calls[c].at = "stored" => calls[c].base.version < MaxVersion
  /\ calls[c].at \in {"stored", "uploading"} => calls[c].artifact # 0
  /\ \A f, g \in calls[c].file : f = g
  /\ calls[c].at = "deciding" =>
       /\ calls[c].op \in {"include", "exclude"} /\ calls[c].file = {}
       /\ \A f, g \in calls[c].todo : f = g
       /\ \A f \in calls[c].todo : calls[c].known[f] # 0
  /\ \A f \in calls[c].todo \cup calls[c].file :
       calls[c].at \in {"publishing", "fetched", "stored"} =>
         calls[c].known[f] # 0 /\ calls[c].mine[f].decision = "included"

CallsInv == \A c \in Calls : CallOK(c) /\ \A f \in Files : KnownOK(c, f)

(* A file that is not contended is one call's at most ... *)
AloneInv ==
  \A f \in Files \ contended, c, d \in Calls :
    c # d => f \notin WorksOn(c) \cap WorksOn(d)

(* ... so what that call found missing is missing, and what it loaded is    *)
(* what is there.                                                           *)
Fresh(c, f) ==
  calls[c].at = "loaded" /\ Linked(c) /\ calls[c].listing[f] # 0 /\ calls[c].known[f] = 0
    => RowsOf(f) = {}

Current(c, f) ==
  LET a == <<f, calls[c].artifact>> IN
  calls[c].at \in {"stored", "uploading"} /\ f \in calls[c].file =>
    /\ calls[c].base.state = "none" => LiveOf(f) = {} /\ calls[c].base.version = 0
    /\ calls[c].base.state = "live" /\ artifacts[a].state = "live" => calls[c].base = Base(a)
    /\ calls[c].at = "stored" => blobs[a][calls[c].base.version + 1] = calls[c].content

OwnerInv == \A c \in Calls, f \in Files \ contended : Fresh(c, f) /\ Current(c, f)

(* No version is kept under the key of a later one. *)
KeysInv ==
  \A a \in ArtifactIds :
    artifacts[a].state = "live" /\ a[1] \notin contended =>
      /\ artifacts[a].key <= artifacts[a].version
      /\ \A v \in 1 .. Len(artifacts[a].archive) : artifacts[a].archive[v].key <= v

Inv ==
  /\ TypeOK /\ RowsInv /\ ArtifactsInv /\ CallsInv /\ AloneInv /\ OwnerInv /\ KeysInv
  /\ OneOfEach /\ HistoryIsWhole
=============================================================================
