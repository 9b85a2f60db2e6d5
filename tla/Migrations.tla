----------------------------- MODULE Migrations -----------------------------
(***************************************************************************)
(* The AI migration of a trust center.  Pressing Start, Resume or Retry    *)
(* begins a phase that runs detached from the request: it drives a browser *)
(* session kept on another service, copies what it finds there into the    *)
(* target trust center, and records its progress in the migration's row,   *)
(* which the owners' pages poll.  Nothing keeps two phases of one row      *)
(* apart but the buttons a page shows, and the page may be out of date.    *)
(***************************************************************************)
EXTENDS Naturals, Sequences, FiniteSets

CONSTANTS
  Tabs,       \* browser tabs of owners and admins of the target
  Found,      \* the parts of the profile the source turns out to have
  Docs,       \* the documents it lists, in order: link, words, the model's label
  Nda,        \* whether the agent's report speaks of one
  MaxRows,    \* bound: migrations ever started
  MaxRuns,    \* bound: phases ever begun
  MaxFaults   \* bound: failed reads and writes, hung calls, stops, losses, clicks on an old page

Parts == <<"profile", "badges", "controls", "subprocessors", "dataTypes", "faqs", "updates">>
PartNames == {Parts[i] : i \in DOMAIN Parts}
Links == {"none", "bad", "ok"}
Words == {"soc 2", "iso 27001", "pentest", "insurance", "dpa", "sbom", "subprocessor",
          "architecture", "financial"}

ASSUME TabsAssumption == IsFiniteSet(Tabs)
ASSUME SourceAssumption ==
  /\ Found \subseteq PartNames /\ Nda \in BOOLEAN
  /\ Docs \in Seq([link : Links, words : SUBSET Words, answer : STRING])
ASSUME BoundsAssumption == MaxRows \in Nat /\ MaxRuns \in Nat /\ MaxFaults \in Nat

VARIABLES
  configured, \* migrationEnv: the credentials are there
  migration,  \* the rows
  page,       \* the statuses each tab shows
  run,        \* the phases under way
  live,       \* browser sessions open at the service, named for the run that started them
  asked,      \* history: rows whose access request reached the source
  target,     \* the trust center: it is there, its parts' last writers, its artifacts
  started,    \* migrations ever started
  begun,
  faults,
  troubles    \* history: what went wrong around the phases

vars == <<configured, migration, page, run, live, asked, target, started, begun, faults, troubles>>

Rows == 1..MaxRows
Runs == 1..MaxRuns
NoSession == 0

Gone == [status |-> "gone", session |-> NoSession, nda |-> FALSE, imported |-> 0, log |-> {}]
Idle == [pc |-> "idle", phase |-> "none", row |-> 0, prior |-> NoSession, handle |-> NoSession,
         lines |-> {}, at |-> 1, imported |-> 0]

Init ==
  /\ configured \in BOOLEAN
  /\ migration = [m \in Rows |-> Gone]
  /\ page = [t \in Tabs |-> [m \in Rows |-> "gone"]]
  /\ run = [r \in Runs |-> Idle]
  /\ live = {}
  /\ asked = {}
  /\ target = [there |-> TRUE, parts |-> [p \in PartNames |-> 0], artifacts |-> {}]
  /\ started = 0
  /\ begun = 0
  /\ faults = 0
  /\ troubles = {}

(* The statuses the page spins and polls on. *)
ACTIVE_STATUSES == {"pending", "requesting", "importing"}

-----------------------------------------------------------------------------
(* How documents are filed: ARTIFACT_TYPES, the fallback on words of the   *)
(* title, and the model's answer if it is one of them.                     *)

ARTIFACT_TYPES == {"soc2_type2", "soc2_type1", "iso_27001", "pentest", "insurance_coi", "financials",
                   "dpa", "architecture", "subprocessor_list", "sbom", "policy"}

(* The first word found decides; a title without any is a policy. *)
Rules == <<<<"soc 2", "soc2_type2">>, <<"iso 27001", "iso_27001">>, <<"pentest", "pentest">>,
           <<"insurance", "insurance_coi">>, <<"dpa", "dpa">>, <<"sbom", "sbom">>,
           <<"subprocessor", "subprocessor_list">>, <<"architecture", "architecture">>,
           <<"financial", "financials">>>>

heuristicType(words) ==
  LET hits == {i \in DOMAIN Rules : Rules[i][1] \in words} IN
  IF hits = {} THEN "policy" ELSE Rules[CHOOSE i \in hits : \A j \in hits : i <= j][2]

(* Mutant of labelDocument: the model is believed. *)
labelAsTold(doc) == doc.answer

(* Labelling never fails: an answer that is not a type, or no answer, is   *)
(* replaced by the fallback.                                               *)
labelDocument(doc) ==
  IF doc.answer \in ARTIFACT_TYPES THEN doc.answer ELSE heuristicType(doc.words)

-----------------------------------------------------------------------------
(* The page *)

(* Something goes wrong, at most MaxFaults times. *)
Fault(what) ==
  /\ faults < MaxFaults
  /\ faults' = faults + 1
  /\ troubles' = troubles \cup {what}

(* The owner still has the trust center: else the page redirects, and the  *)
(* actions refuse.  (Who manages it is modelled in Workspace.)             *)
manageCtx == target.there

Shown == [m \in Rows |-> migration[m].status]

(* Polled while anything shown is active; or the owner loads it anew. *)
Refresh(t) ==
  /\ manageCtx
  /\ page' = [page EXCEPT ![t] = Shown]
  /\ UNCHANGED <<configured, migration, run, live, asked, target, started, begun, faults, troubles>>

(* Mutant of Offered: what is over can be retried, however it ended. *)
OfferedAgain(t, m, button) ==
  CASE button = "Resume" -> page[t][m] = "awaiting_release"
    [] button = "Retry" -> page[t][m] \in {"failed", "completed"}
    [] OTHER -> page[t][m] \notin ACTIVE_STATUSES \cup {"gone"}

(* The buttons of a migration's card. *)
Offered(t, m, button) ==
  CASE button = "Resume" -> page[t][m] = "awaiting_release"
    [] button = "Retry" -> page[t][m] = "failed"
    [] OTHER -> page[t][m] \notin ACTIVE_STATUSES \cup {"gone"}

(* A click on a page that shows another status than the row has is one of  *)
(* the troubles, and MaxFaults bounds it with the others.                  *)
Clicked(t, m) ==
  IF page[t][m] = migration[m].status THEN UNCHANGED <<faults, troubles>> ELSE Fault("stale")

(* A detached phase on row m, in the run numbered by begun'. *)
Begins(m, phase) ==
  /\ begun < MaxRuns
  /\ begun' = begun + 1
  /\ run' = [run EXCEPT ![begun'] = [Idle EXCEPT !.pc = "load", !.phase = phase, !.row = m]]

Answers(t) == page' = [page EXCEPT ![t] = [m \in Rows |-> migration'[m].status]]

(* The source's URL and the requester's address are there: else the form   *)
(* shows an error and nothing changes.                                     *)
startMigration(t, m) ==
  /\ manageCtx
  /\ m = started + 1
  /\ started' = m
  /\ migration' = [migration EXCEPT ![m].status = "pending"]
  /\ Begins(m, "request")
  /\ Answers(t)
  /\ UNCHANGED <<configured, live, asked, target, faults, troubles>>

resumeMigration(t, m) ==
  /\ manageCtx
  /\ Offered(t, m, "Resume") /\ migration[m].status # "gone"
  /\ migration' = [migration EXCEPT ![m].status = "importing"]
  /\ Begins(m, "import")
  /\ Answers(t)
  /\ Clicked(t, m)
  /\ UNCHANGED <<configured, live, asked, target, started>>

retryMigration(t, m) ==
  /\ manageCtx
  /\ Offered(t, m, "Retry") /\ migration[m].status # "gone"
  /\ migration' = [migration EXCEPT ![m].status = "pending", ![m].session = NoSession]
  /\ Begins(m, "request")
  /\ Answers(t)
  /\ Clicked(t, m)
  /\ UNCHANGED <<configured, live, asked, target, started>>

deleteMigration(t, m) ==
  /\ manageCtx
  /\ Offered(t, m, "Delete")
  /\ migration' = [migration EXCEPT ![m] = Gone]
  /\ Answers(t)
  /\ troubles' = troubles \cup {"deleted"}
  /\ UNCHANGED <<configured, run, live, asked, target, started, begun, faults>>

-----------------------------------------------------------------------------
(* Writing to the row *)

Row(r) == migration[run[r].row]

(* A line of the log is about a document passed over, or any other.       *)
Ran == 0
NoLine == Len(Docs) + 1

(* The log a phase keeps in memory since it began, and rewrites whole. *)
Logged(r, line) == run[r].lines \cup {<<r, line>>}

(* persist, log, setStatus: row is what becomes of it, then the phase goes *)
(* on at pc.  With a line the log is written as well.                      *)
Persist(r, row, line, pc) ==
  /\ Row(r).status # "gone"
  /\ migration' = [migration EXCEPT ![run[r].row] =
       IF line = NoLine THEN row ELSE [row EXCEPT !.log = Logged(r, line)]]
  /\ run' = [run EXCEPT ![r].pc = pc, ![r].lines = IF line = NoLine THEN @ ELSE Logged(r, line)]

(* The pcs at which a phase writes to its row. *)
Writes == {"unconfigured", "requesting", "session", "opened", "requested", "nda", "awaiting",
           "importing", "expired", "reopened", "extracted", "listed", "copied", "skip", "count",
           "completed", "catch"}

(* ... and those at which it calls the browser or the network. *)
Calls == {"start", "open", "agent", "reopen", "extract", "list", "copy", "create", "upload"}

Goes(r, pc) == run' = [run EXCEPT ![r].pc = pc]

(* log: a line between two calls, and the call after it. *)
PartsFrom(i) == {j \in DOMAIN Parts : j >= i /\ Parts[j] \in Found}
Logs == [opened |-> "agent", requested |-> "nda", expired |-> "start", reopened |-> "extract",
         extracted |-> "list", listed |-> IF PartsFrom(1) = {} THEN "docs" ELSE "copy"]

Log(r) ==
  /\ run[r].pc \in DOMAIN Logs
  /\ Persist(r, Row(r), Ran, Logs[run[r].pc])
  /\ UNCHANGED <<configured, page, live, asked, target, started, begun, faults, troubles>>

(* A write finds the row deleted, or the database does not answer: an      *)
(* exception, caught by the phase.  Where none catches it (before the try, *)
(* and in the catch itself) the phase ends, its session left as it is.     *)
WriteFails(r) ==
  /\ run[r].pc \in Writes
  /\ \/ Row(r).status = "gone" /\ UNCHANGED <<faults, troubles>>
     \/ Row(r).status # "gone" /\ Fault("fault")
  /\ IF run[r].pc \in {"unconfigured", "catch"} THEN run' = [run EXCEPT ![r] = Idle] ELSE Goes(r, "catch")
  /\ UNCHANGED <<configured, migration, page, live, asked, target, started, begun>>

(* Mutant of CallFails: the phase ends where it is. *)
CallFailsQuietly(r) ==
  /\ run[r].pc \in Calls
  /\ run' = [run EXCEPT ![r] = Idle]
  /\ UNCHANGED <<configured, migration, page, live, asked, target, started, begun, faults, troubles>>

CallFails(r) ==
  /\ run[r].pc \in Calls
  /\ Goes(r, "catch")
  /\ UNCHANGED <<configured, migration, page, live, asked, target, started, begun, faults, troubles>>

(* No call has a time limit of its own, and one that is neither answered   *)
(* nor refused holds the phase where it is.                                *)
Hangs(r) ==
  /\ run[r].pc \in Calls \cup {"reconnect", "docs", "closeFailed"}
  /\ Goes(r, "hung")
  /\ Fault("hung")
  /\ UNCHANGED <<configured, migration, page, live, asked, target, started, begun>>

(* The failure is recorded, then the session closed. *)
Fail(r) ==
  /\ run[r].pc = "catch"
  /\ Persist(r, [Row(r) EXCEPT !.status = "failed"], Ran, "closeFailed")
  /\ UNCHANGED <<configured, page, live, asked, target, started, begun, faults, troubles>>

(* Mutant of closeSession: only the phase that started a session closes it *)
closeOwnSession(r) ==
  /\ live' = live \ (IF run[r].handle = r THEN {r} ELSE {})
  /\ UNCHANGED <<faults, troubles>>

(* "Best-effort": a close that fails is passed over, and the session open. *)
closeSession(r) ==
  \/ live' = live \ {run[r].handle} /\ UNCHANGED <<faults, troubles>>
  \/ run[r].handle \in live /\ Fault("unclosed") /\ UNCHANGED live

CloseFailed(r) ==
  /\ run[r].pc = "closeFailed"
  /\ closeSession(r)
  /\ run' = [run EXCEPT ![r] = Idle]
  /\ UNCHANGED <<configured, migration, page, asked, target, started, begun>>

-----------------------------------------------------------------------------
(* Both phases *)

(* The row is read: its session, and the log it has so far. *)
Load(r) ==
  /\ run[r].pc = "load"
  /\ run' = IF Row(r).status = "gone" THEN [run EXCEPT ![r] = Idle]
       ELSE [run EXCEPT ![r].prior = Row(r).session, ![r].lines = Row(r).log,
               ![r].pc = IF ~configured \/ (run[r].phase = "import" /\ ~target.there) THEN "unconfigured"
                         ELSE IF run[r].phase = "import" THEN "importing" ELSE "requesting"]
  /\ UNCHANGED <<configured, migration, page, live, asked, target, started, begun, faults, troubles>>

(* The reads of the row and of the target come before the try: when one    *)
(* fails the phase is over, and the row says what it said.                 *)
LoadFails(r) ==
  /\ run[r].pc = "load"
  /\ run' = [run EXCEPT ![r] = Idle]
  /\ Fault("unread")
  /\ UNCHANGED <<configured, migration, page, live, asked, target, started, begun>>

(* No credentials, or no target: recorded before anything is tried. *)
Unconfigured(r) ==
  /\ run[r].pc = "unconfigured"
  /\ Persist(r, [Row(r) EXCEPT !.status = "failed"], Ran, "closeFailed")
  /\ UNCHANGED <<configured, page, live, asked, target, started, begun, faults, troubles>>

(* A session of its own, kept alive till it is closed or expires; or it is *)
(* opened at the service and the phase gets an exception.                  *)
startSession(r) ==
  /\ run[r].pc = "start"
  /\ live' = live \cup {r}
  /\ \/ run' = [run EXCEPT ![r].handle = r, ![r].pc = "session"] /\ UNCHANGED <<faults, troubles>>
     \/ Goes(r, "catch") /\ Fault("unclosed")
  /\ UNCHANGED <<configured, migration, page, asked, target, started, begun>>

StoreSession(r) ==
  /\ run[r].pc = "session"
  /\ Persist(r, [Row(r) EXCEPT !.session = run[r].handle], NoLine,
             IF run[r].phase = "import" THEN "reopen" ELSE "open")
  /\ UNCHANGED <<configured, page, live, asked, target, started, begun, faults, troubles>>

Connected(r) == run[r].handle \in live

-----------------------------------------------------------------------------
(* runRequestPhase: ask the source for access, then leave the session open *)
(* for Resume.                                                             *)

Requesting(r) ==
  /\ run[r].pc = "requesting"
  /\ Persist(r, [Row(r) EXCEPT !.status = "requesting"], Ran, "start")
  /\ UNCHANGED <<configured, page, live, asked, target, started, begun, faults, troubles>>

(* Mutant of Open: the page is opened, and nobody asks. *)
OpenOnly(r) ==
  /\ run[r].pc = "open" /\ Connected(r)
  /\ Goes(r, "requested")
  /\ UNCHANGED <<configured, migration, page, live, asked, target, started, begun, faults, troubles>>

Open(r) ==
  /\ run[r].pc = "open" /\ Connected(r)
  /\ Goes(r, "opened")
  /\ UNCHANGED <<configured, migration, page, live, asked, target, started, begun, faults, troubles>>

(* The agent fills in the source's forms and signs its NDA, if any.  Or it *)
(* comes back without, and whether it did is in a report nobody reads.     *)
RequestAccess(r) ==
  /\ run[r].pc = "agent" /\ Connected(r)
  /\ \/ asked' = asked \cup {run[r].row} /\ UNCHANGED <<faults, troubles>>
     \/ run[r].row \notin asked /\ Fault("unasked") /\ UNCHANGED asked
  /\ Goes(r, "requested")
  /\ UNCHANGED <<configured, migration, page, live, target, started, begun>>

StoreNda(r) ==
  /\ run[r].pc = "nda"
  /\ Persist(r, [Row(r) EXCEPT !.nda = Nda], NoLine, "awaiting")
  /\ UNCHANGED <<configured, page, live, asked, target, started, begun, faults, troubles>>

Await(r) ==
  /\ run[r].pc = "awaiting"
  /\ Row(r).status # "gone"
  /\ migration' = [migration EXCEPT ![run[r].row] =
       [@ EXCEPT !.status = "awaiting_release", !.log = Logged(r, Ran)]]
  /\ run' = [run EXCEPT ![r] = Idle]
  /\ UNCHANGED <<configured, page, live, asked, target, started, begun, faults, troubles>>

-----------------------------------------------------------------------------
(* runImportPhase: reconnect, read the source, copy it into the target. *)

Importing(r) ==
  /\ run[r].pc = "importing"
  /\ Persist(r, [Row(r) EXCEPT !.status = "importing"], Ran,
             IF run[r].prior = NoSession THEN "start" ELSE "reconnect")
  /\ UNCHANGED <<configured, page, live, asked, target, started, begun, faults, troubles>>

(* resumeSession reaches the session kept since the request, or throws:    *)
(* because it expired, or although it is still open.                       *)
resumeSession(r) ==
  /\ run[r].pc = "reconnect"
  /\ \/ /\ run[r].prior \in live
        /\ run' = [run EXCEPT ![r].handle = run[r].prior, ![r].pc = "reopen"]
        /\ UNCHANGED <<faults, troubles>>
     \/ /\ Goes(r, "expired")
        /\ IF run[r].prior \in live THEN Fault("unreached") ELSE UNCHANGED <<faults, troubles>>
  /\ UNCHANGED <<configured, migration, page, live, asked, target, started, begun>>

Reopen(r) ==
  /\ run[r].pc = "reopen" /\ Connected(r)
  /\ Goes(r, "reopened")
  /\ UNCHANGED <<configured, migration, page, live, asked, target, started, begun, faults, troubles>>

(* The profile, then the list of documents. *)
Extract(r) ==
  /\ run[r].pc \in {"extract", "list"} /\ Connected(r)
  /\ Goes(r, IF run[r].pc = "extract" THEN "extracted" ELSE "listed")
  /\ UNCHANGED <<configured, migration, page, live, asked, target, started, begun, faults, troubles>>

(* The parts of the profile are copied in their order. *)
NextPart(i) == CHOOSE j \in PartsFrom(i) : \A k \in PartsFrom(i) : j <= k

(* A part the source has replaces the target's; one it has not is left.    *)
Copy(r) ==
  /\ run[r].pc = "copy" /\ target.there
  /\ target' = [target EXCEPT !.parts[Parts[NextPart(run[r].at)]] = r]
  /\ run' = [run EXCEPT ![r].pc = "copied", ![r].at = NextPart(@) + 1]
  /\ UNCHANGED <<configured, migration, page, live, asked, started, begun, faults, troubles>>

(* Each copy is logged.  After the last part come the documents, from the  *)
(* first.                                                                  *)
Copied(r) ==
  LET more == PartsFrom(run[r].at) # {} IN
  /\ run[r].pc = "copied"
  /\ Row(r).status # "gone"
  /\ migration' = [migration EXCEPT ![run[r].row].log = Logged(r, Ran)]
  /\ run' = [run EXCEPT ![r].pc = IF more THEN "copy" ELSE "docs", ![r].lines = Logged(r, Ran),
                        ![r].at = IF more THEN @ ELSE 1]
  /\ UNCHANGED <<configured, page, live, asked, target, started, begun, faults, troubles>>

Doc(r) == Docs[run[r].at]
Left(r) == run[r].at \in DOMAIN Docs

absoluteUrl(link) == link # "bad"

(* The file of a good link is downloaded, or it cannot be. *)
downloadFile(link) == IF link = "ok" THEN BOOLEAN ELSE {FALSE}

(* A document without a link, or whose file cannot be had, is passed over  *)
(* with a line in the log; one with a link that is no URL without.         *)
Document(r) ==
  /\ run[r].pc = "docs" /\ Left(r)
  /\ IF absoluteUrl(Doc(r).link)
     THEN \E file \in downloadFile(Doc(r).link) : Goes(r, IF file THEN "create" ELSE "skip")
     ELSE run' = [run EXCEPT ![r].at = @ + 1]
  /\ UNCHANGED <<configured, migration, page, live, asked, target, started, begun, faults, troubles>>

(* The next document, with what is in memory brought up to date. *)
Onward(r, lines, imported) ==
  run' = [run EXCEPT ![r].pc = "docs", ![r].at = @ + 1, ![r].lines = lines, ![r].imported = imported]

(* Mutant of Skip: nothing is logged. *)
SkipQuietly(r) ==
  /\ run[r].pc = "skip"
  /\ Row(r).status # "gone"
  /\ UNCHANGED migration
  /\ Onward(r, run[r].lines, run[r].imported)
  /\ UNCHANGED <<configured, page, live, asked, target, started, begun, faults, troubles>>

Skip(r) ==
  /\ run[r].pc = "skip"
  /\ Row(r).status # "gone"
  /\ migration' = [migration EXCEPT ![run[r].row].log = Logged(r, run[r].at)]
  /\ Onward(r, Logged(r, run[r].at), run[r].imported)
  /\ UNCHANGED <<configured, page, live, asked, target, started, begun, faults, troubles>>

Artifact(r, type, bytes) == [run |-> r, doc |-> run[r].at, type |-> type, bytes |-> bytes]

(* Mutant of createArtifact: the file is not sent. *)
createArtifactOnly(r) ==
  /\ run[r].pc = "create" /\ target.there
  /\ target' = [target EXCEPT !.artifacts = @ \cup {Artifact(r, labelDocument(Doc(r)), FALSE)}]
  /\ Goes(r, "count")
  /\ UNCHANGED <<configured, migration, page, live, asked, started, begun, faults, troubles>>

createArtifact(r) ==
  /\ run[r].pc = "create" /\ target.there
  /\ target' = [target EXCEPT !.artifacts = @ \cup {Artifact(r, labelDocument(Doc(r)), FALSE)}]
  /\ Goes(r, "upload")
  /\ UNCHANGED <<configured, migration, page, live, asked, started, begun, faults, troubles>>

uploadArtifactContent(r) ==
  /\ run[r].pc = "upload" /\ target.there
  /\ target' = [target EXCEPT !.artifacts =
       {IF a.run = r /\ a.doc = run[r].at THEN [a EXCEPT !.bytes = TRUE] ELSE a : a \in @}]
  /\ Goes(r, "count")
  /\ UNCHANGED <<configured, migration, page, live, asked, started, begun, faults, troubles>>

(* importedCount is set to this phase's count, and the line logged. *)
Count(r) ==
  /\ run[r].pc = "count"
  /\ Row(r).status # "gone"
  /\ migration' = [migration EXCEPT ![run[r].row] =
       [@ EXCEPT !.imported = run[r].imported + 1, !.log = Logged(r, Ran)]]
  /\ Onward(r, Logged(r, Ran), run[r].imported + 1)
  /\ UNCHANGED <<configured, page, live, asked, target, started, begun, faults, troubles>>

(* After the last document the session is closed, then the migration is    *)
(* completed.                                                              *)
Close(r) ==
  /\ run[r].pc = "docs" /\ ~Left(r)
  /\ closeSession(r)
  /\ run' = [run EXCEPT ![r].handle = NoSession, ![r].pc = "completed"]
  /\ UNCHANGED <<configured, migration, page, asked, target, started, begun>>

Complete(r) ==
  /\ run[r].pc = "completed"
  /\ Row(r).status # "gone"
  /\ migration' = [migration EXCEPT ![run[r].row] =
       [@ EXCEPT !.status = "completed", !.log = Logged(r, Ran)]]
  /\ run' = [run EXCEPT ![r] = Idle]
  /\ UNCHANGED <<configured, page, live, asked, target, started, begun, faults, troubles>>

-----------------------------------------------------------------------------
(* The world around *)

(* A session kept alive expires at the service. *)
Expire(s) ==
  /\ s \in live
  /\ live' = live \ {s}
  /\ Fault("expired")
  /\ UNCHANGED <<configured, migration, page, run, asked, target, started, begun>>

(* The process is replaced: its phases are gone, their rows as they were. *)
Stop ==
  /\ \E r \in Runs : run[r].pc # "idle"
  /\ run' = [r \in Runs |-> Idle]
  /\ Fault("stopped")
  /\ UNCHANGED <<configured, migration, page, live, asked, target, started, begun>>

(* The trust center is deleted; its migrations' rows are not. *)
TargetDeleted ==
  /\ target.there
  /\ target' = [target EXCEPT !.there = FALSE]
  /\ Fault("deleted")
  /\ UNCHANGED <<configured, migration, page, run, live, asked, started, begun>>

-----------------------------------------------------------------------------
Advance(r) ==
  \/ WriteFails(r) \/ CallFails(r) \/ Hangs(r) \/ Fail(r) \/ CloseFailed(r) \/ Log(r)
  \/ Load(r) \/ LoadFails(r) \/ Unconfigured(r) \/ startSession(r) \/ StoreSession(r)
  \/ Requesting(r) \/ Open(r) \/ RequestAccess(r) \/ StoreNda(r) \/ Await(r)
  \/ Importing(r) \/ resumeSession(r) \/ Reopen(r) \/ Extract(r) \/ Copy(r) \/ Copied(r)
  \/ Document(r) \/ Skip(r) \/ createArtifact(r) \/ uploadArtifactContent(r) \/ Count(r) \/ Close(r) \/ Complete(r)

Next ==
  \/ \E t \in Tabs : Refresh(t)
  \/ \E t \in Tabs, m \in Rows :
       startMigration(t, m) \/ resumeMigration(t, m) \/ retryMigration(t, m) \/ deleteMigration(t, m)
  \/ \E r \in Runs : Advance(r) \/ Expire(r)
  \/ Stop \/ TargetDeleted

Spec == Init /\ [][Next]_vars

(* A detached phase goes on running: "the web service is a long-lived      *)
(* process"; every call it awaits is answered or fails, but for those that *)
(* hang.                                                                   *)
FairSpec == Spec /\ \A r \in Runs : WF_vars(Advance(r))

-----------------------------------------------------------------------------
Lines == Runs \X (0..Len(Docs))
Statuses == {"gone", "pending", "requesting", "awaiting_release", "importing", "completed", "failed"}

(* Rows, pages, phases and the target hold values of their type; documents *)
(* are filed under one of the platform's types, whatever the model said.   *)
TypeOK ==
  /\ migration \in [Rows -> [status : Statuses, session : 0..MaxRuns, nda : BOOLEAN,
                             imported : 0..Len(Docs), log : SUBSET Lines]]
  /\ page \in [Tabs -> [Rows -> Statuses]]
  /\ \A r \in Runs : run[r].row \in 0..MaxRows /\ run[r].handle \in 0..MaxRuns /\ run[r].lines \subseteq Lines
  /\ live \subseteq Runs /\ asked \subseteq Rows
  /\ \A a \in target.artifacts : a.type \in ARTIFACT_TYPES

(***************************************************************************)
(* When a migration becomes completed, every part the source has was       *)
(* copied into the target by some phase, and every document put there with *)
(* its bytes by the phase that completes it, unless the log written then   *)
(* says otherwise or its link is no URL (migration.ts:462-515).            *)
(***************************************************************************)
CompletedAccountsForAll ==
  [][\A r \in Runs : Complete(r) =>
         /\ \A p \in Found : target.parts[p] >= 1
         /\ \A d \in DOMAIN Docs :
              \/ \E a \in target.artifacts : a.run = r /\ a.doc = d /\ a.bytes
              \/ <<r, d>> \in migration'[run[r].row].log
              \/ Docs[d].link = "bad"]_vars

(***************************************************************************)
(* The count a page shows is backed: that many documents of the migration  *)
(* are in the target with their bytes, though phases fail half way, are    *)
(* retried, or run twice at once.                                          *)
(***************************************************************************)
CountIsBacked ==
  \A m \in Rows : migration[m].imported <= Cardinality({a \in target.artifacts : a.bytes})

(***************************************************************************)
(* Resume is offered only once the access request has reached the source,  *)
(* for "awaiting_release" is written after the agent was sent to make it   *)
(* (migration.ts:235-264): unless an agent came back without having asked, *)
(* which the phase does not look at.                                       *)
(***************************************************************************)
AwaitingWasAsked ==
  \/ "unasked" \in troubles
  \/ /\ \A m \in Rows : migration[m].status = "awaiting_release" => m \in asked
     /\ \A t \in Tabs, m \in Rows : page[t][m] = "awaiting_release" => m \in asked

(***************************************************************************)
(* "It starts a Browserbase session to request the documents [...].  It    *)
(* then pauses ("awaiting release")" (DEPLOY.md:256-258): the pause        *)
(* follows a request.  The code pauses whatever the agent reports.         *)
(***************************************************************************)
PausesAfterRequest == \A m \in Rows : migration[m].status = "awaiting_release" => m \in asked

(* What may leave a session open with nobody to close it: closing it       *)
(* failed, or starting it did once it was open; the process stopped, a     *)
(* write failed, the row or the target was deleted; a button was pressed   *)
(* on an outdated page; an open session could not be reached.              *)
Leaks == {"unclosed", "stopped", "fault", "deleted", "stale", "unreached"}

(***************************************************************************)
(* An open session is held by a phase, or the row remembers it and Resume  *)
(* reaches it ("kept alive across the human-in-the-loop pause",            *)
(* browserbase.ts:5-7): none is left running at the service, unless one of *)
(* Leaks happened.  That agents come back empty-handed, calls fail or      *)
(* hang, rows cannot be read and sessions expire leaves none.              *)
(***************************************************************************)
SessionsAreKept ==
  \/ troubles \cap Leaks # {}
  \/ \A s \in live :
       \/ \E r \in Runs : run[r].handle = s
       \/ \E m \in Rows : migration[m].session = s /\ migration[m].status \in {"awaiting_release", "importing"}

(***************************************************************************)
(* What the row tells of a migration is true, at every moment: its types,  *)
(* its count, its "awaiting release" and its session.                      *)
(***************************************************************************)
RowIsTrue == TypeOK /\ CountIsBacked /\ AwaitingWasAsked /\ SessionsAreKept

(***************************************************************************)
(* A completed migration stays completed, and an awaiting one awaits until *)
(* somebody resumes it, unless a button was pressed on an outdated page.   *)
(***************************************************************************)
CompletedStays ==
  [][\A m \in Rows :
       \/ "stale" \in troubles'
       \/ /\ migration[m].status = "completed" => migration'[m].status \in {"completed", "gone"}
          /\ migration[m].status = "awaiting_release" =>
               migration'[m].status \in {"awaiting_release", "importing", "gone"}]_vars

(***************************************************************************)
(* A migration completes once, with nothing missing that its log does not  *)
(* name: completion is accounted for, and stays.                           *)
(***************************************************************************)
CompletionHolds == CompletedAccountsForAll /\ CompletedStays

(***************************************************************************)
(* "It persists its own progress and terminal state" (actions.ts:74-75): a *)
(* migration shown as under way comes to wait for its release, complete or *)
(* fail, whichever of its calls fail, unless the process stopped, the row  *)
(* could not be read before the try or written, or a call hangs.           *)
(***************************************************************************)
PhasesEnd ==
  \A m \in Rows :
    migration[m].status \in ACTIVE_STATUSES
      ~> \/ migration[m].status \notin ACTIVE_STATUSES
         \/ troubles \cap {"stopped", "unread", "fault", "hung"} # {}
=============================================================================
