------------------------------- MODULE Scans -------------------------------
(***************************************************************************)
(* The audit of an MCP server.  A scan runs detached from the request that *)
(* starts it: it lists the server's tools, has a language model research,  *)
(* probe and judge them, calls the tools that are safe to call, and writes *)
(* each result to the scan's row.  The page polls the row; it offers to    *)
(* scan again, to ask about the result, and to publish it.  Nothing keeps  *)
(* two runs of one scan apart but the button a page shows.                 *)
(***************************************************************************)
EXTENDS Scorecard, Sequences, SequencesExt

CONSTANTS
  Tabs,           \* browser tabs of members of the workspace
  Server,         \* the tools the server lists
  STATIC_CONTROLS,\* the built-in controls, with their dimensions
  Clauses,        \* the workspace's own, with theirs
  Probes,         \* the model's replies: sets of probes,
  Verdicts,       \*   outcomes of controls,
  Scores,         \*   scores of dimensions
  MaxScans,       \* bound: scans ever started
  MaxRuns,        \* bound: runs ever begun
  MaxTurns,       \* bound: questions asked about a result
  MaxCredentials, \* bound: model credentials stored at once
  MaxCalls,       \* bound: changes of the settings and questions, together
  MaxFaults       \* bound: reads and writes that fail, calls that hang, restarts

ASSUME TabsAssumption == IsFiniteSet(Tabs)
ASSUME ServerAssumption ==
  Server \subseteq [name : SUBSET STRING, description : SUBSET STRING]
ASSUME ControlsAssumption ==
  IsFiniteSet(DOMAIN STATIC_CONTROLS) /\ IsFiniteSet(DOMAIN Clauses)
ASSUME ScoresAssumption == \A reply \in Scores : \A d \in DOMAIN reply : reply[d] \in Int
ASSUME BoundsAssumption ==
  /\ MaxScans \in Nat /\ MaxRuns \in Nat /\ MaxTurns \in Nat
  /\ MaxCredentials \in Nat /\ MaxCalls \in Nat /\ MaxFaults \in Nat

VARIABLES
  secret,      \* which encryption secret the deployment has
  credentials, \* the stored model credentials, oldest first: the secret each is sealed with
  clauses,     \* custom clauses: not there, on, off
  scan,        \* the rows
  page,        \* what each tab shows of them
  run,         \* the runs
  publishing,  \* scans a publication has checked and not yet written
  turn,        \* the questions
  called,      \* history: the probes run against the server
  crossed,     \* history: runs, publications and questions that overlapped another step
  started,     \* scans ever started
  begun,       \* runs ever begun
  calls,
  faults,
  troubles     \* history: what kept a run from recording its end

vars == <<secret, credentials, clauses, scan, page, run, publishing, turn, called, crossed, started,
          begun, calls, faults, troubles>>

Ids == 1..MaxScans
Runs == 1..MaxRuns
Turns == 1..MaxTurns
Nobody == 0

NoScore == [overall |-> -1, grade |-> "none"]
NoCard == [by |-> Nobody, least |-> 0, most |-> 0]
Gone == [status |-> "gone", tools |-> Nobody, research |-> Nobody, probes |-> Nobody,
         controls |-> Nobody, card |-> NoCard, score |-> NoScore, published |-> FALSE,
         interactions |-> {}]
Idle == [pc |-> "idle", scan |-> 0, tools |-> {}, results |-> <<>>]
NoTurn == [pc |-> "none", scan |-> 0, prior |-> {}]

ACTIVE == {"pending", "inspecting", "researching", "probing", "scoring"}

(* What a page shows decides what it offers: whether the scan is active,   *)
(* at rest or gone, whether it has a scorecard, and whether it is live.    *)
Shown(row) ==
  [is |-> IF row.status \in ACTIVE THEN "active" ELSE IF row.status = "gone" THEN "gone" ELSE "resting",
   carded |-> row.card.by # Nobody, published |-> row.published]

Init ==
  /\ secret = 1
  /\ credentials \in {<<>>, <<secret>>}
  /\ clauses = [c \in DOMAIN Clauses |-> "none"]
  /\ scan = [s \in Ids |-> Gone]
  /\ page = [t \in Tabs |-> [s \in Ids |-> Shown(Gone)]]
  /\ run = [r \in Runs |-> Idle]
  /\ publishing = {}
  /\ turn = [q \in Turns |-> NoTurn]
  /\ called = {}
  /\ crossed = {}
  /\ started = 0 /\ begun = 0 /\ calls = 0 /\ faults = 0
  /\ troubles = {}

-----------------------------------------------------------------------------
(* Settings *)

Edit ==
  /\ calls < MaxCalls
  /\ calls' = calls + 1
  /\ UNCHANGED <<scan, page, run, publishing, turn, called, crossed, started, begun, faults, troubles>>

(* The deployment gets another secret: what is sealed with the old one     *)
(* cannot be read any more.                                                *)
ChangeSecret ==
  /\ Edit
  /\ secret' = secret + 1
  /\ UNCHANGED <<credentials, clauses>>

(* Stored whether the provider accepts it or not. *)
saveCredential ==
  /\ Len(credentials) < MaxCredentials
  /\ credentials' = Append(credentials, secret)
  /\ Edit
  /\ UNCHANGED <<secret, clauses>>

deleteCredential(i) ==
  /\ i \in DOMAIN credentials
  /\ credentials' = RemoveAt(credentials, i)
  /\ Edit
  /\ UNCHANGED <<secret, clauses>>

saveClause(c) ==
  /\ clauses[c] = "none"
  /\ clauses' = [clauses EXCEPT ![c] = "on"]
  /\ Edit
  /\ UNCHANGED <<secret, credentials>>

toggleClause(c, enabled) ==
  /\ clauses[c] # "none"
  /\ clauses' = [clauses EXCEPT ![c] = IF enabled THEN "on" ELSE "off"]
  /\ Edit
  /\ UNCHANGED <<secret, credentials>>

deleteClause(c) ==
  /\ clauses' = [clauses EXCEPT ![c] = "none"]
  /\ Edit
  /\ UNCHANGED <<secret, credentials>>

(* The newest credential of the workspace, decrypted: which may throw. *)
llmConfigForScan ==
  IF credentials = <<>> THEN "none"
  ELSE IF Last(credentials) = secret THEN "ok" ELSE "unreadable"

ControlsWith(on) ==
  [c \in DOMAIN STATIC_CONTROLS \cup on |->
     IF c \in DOMAIN STATIC_CONTROLS THEN STATIC_CONTROLS[c] ELSE Clauses[c]]

(* The built-in controls and the clauses that are on now. *)
controlsForOrg == ControlsWith({c \in DOMAIN Clauses : clauses[c] = "on"})

-----------------------------------------------------------------------------
(* The pages *)

Unedited == UNCHANGED <<secret, credentials, clauses, calls>>

(* Every 2.5 seconds while the scan shown is active; or loaded anew. *)
Refresh(t) ==
  /\ page' = [page EXCEPT ![t] = [s \in Ids |-> Shown(scan[s])]]
  /\ Unedited
  /\ UNCHANGED <<scan, run, publishing, turn, called, crossed, started, begun, faults, troubles>>

(* A run detached from the request. *)
Begins(s) ==
  /\ begun < MaxRuns
  /\ begun' = begun + 1
  /\ run' = [run EXCEPT ![begun'] = [Idle EXCEPT !.pc = "load", !.scan = s]]

(* Some credential is there, readable or not; the page shown next is the   *)
(* scan's.  The run answers for its own failures.                          *)
startScan(t, s) ==
  /\ s = started + 1
  /\ credentials # <<>>
  /\ started' = s
  /\ scan' = [scan EXCEPT ![s] = [Gone EXCEPT !.status = "pending"]]
  /\ Begins(s)
  /\ page' = [page EXCEPT ![t][s] = Shown(scan'[s])]
  /\ Unedited
  /\ UNCHANGED <<publishing, turn, called, crossed, faults, troubles>>

(* The runs of s that go on, and a publication between its two steps. *)
Crossings(s) ==
  (IF \E r \in Runs : run[r].scan = s /\ run[r].pc # "idle" THEN {<<"runs", s>>} ELSE {})
    \cup (IF s \in publishing THEN {<<"publication", s>>} ELSE {})

(* Mutant of Requeued: what was published stays so while the scan runs. *)
RequeuedInPublic(row) == [row EXCEPT !.status = "pending", !.score = NoScore]

(* Results stay till the new run writes its own; the summary is cleared.   *)
Requeued(row) == [row EXCEPT !.status = "pending", !.score = NoScore, !.published = FALSE]

(* The button is off while the page shows the scan active; the page may be *)
(* out of date, and the action does not look.                              *)
rescan(t, s) ==
  /\ page[t][s].is = "resting"
  /\ scan[s].status # "gone"
  /\ scan' = [scan EXCEPT ![s] = Requeued(@)]
  /\ Begins(s)
  /\ crossed' = crossed \cup Crossings(s)
  /\ Unedited
  /\ UNCHANGED <<page, publishing, turn, called, started, faults, troubles>>

deleteScan(t, s) ==
  /\ page[t][s].is # "gone"
  /\ scan' = [scan EXCEPT ![s] = Gone]
  /\ page' = [page EXCEPT ![t][s] = Shown(Gone)]
  /\ Unedited
  /\ UNCHANGED <<run, publishing, turn, called, crossed, started, begun, faults, troubles>>

(* The row is read and found complete ... *)
publishScan(t, s) ==
  /\ page[t][s].carded /\ ~page[t][s].published
  /\ scan[s].status = "completed"
  /\ publishing' = publishing \cup {s}
  /\ Unedited
  /\ UNCHANGED <<scan, page, run, turn, called, crossed, started, begun, faults, troubles>>

(* ... and later written.  A row deleted meanwhile is an error. *)
Published(s) ==
  /\ s \in publishing
  /\ publishing' = publishing \ {s}
  /\ scan' = IF scan[s].status = "gone" THEN scan ELSE [scan EXCEPT ![s].published = TRUE]
  /\ Unedited
  /\ UNCHANGED <<page, run, turn, called, crossed, started, begun, faults, troubles>>

unpublishScan(t, s) ==
  /\ page[t][s].published
  /\ scan[s].status # "gone"
  /\ scan' = [scan EXCEPT ![s].published = FALSE]
  /\ Unedited
  /\ UNCHANGED <<page, run, publishing, turn, called, crossed, started, begun, faults, troubles>>

(* The public page and the public API: published, and with a scorecard. *)
loadPublished(s) == scan[s].published /\ scan[s].card.by # Nobody

-----------------------------------------------------------------------------
(* A run *)

Row(r) == scan[run[r].scan]

Running(r, pc) == run[r].pc = pc /\ Row(r).status # "gone"

(* persist: row is what becomes of it; then the run goes on as next. *)
Persist(r, row, next) ==
  /\ scan' = [scan EXCEPT ![run[r].scan] = row]
  /\ run' = [run EXCEPT ![r] = next]
  /\ Unedited
  /\ UNCHANGED <<page, publishing, turn, crossed, started, begun, faults>>

Goes(r, pc) == [run[r] EXCEPT !.pc = pc]

(* A scan is failed: the run ends. *)
Failed(r) == Persist(r, [Row(r) EXCEPT !.status = "failed"], Idle) /\ UNCHANGED <<called, troubles>>

(* Mutant of Load: a scan without a credential is given up in silence. *)
LoadQuietly(r) ==
  /\ run[r].pc = "load"
  /\ Persist(r, Row(r), IF Row(r).status # "gone" /\ llmConfigForScan = "ok" THEN Goes(r, "inspecting") ELSE Idle)
  /\ troubles' = IF llmConfigForScan = "unreadable" THEN troubles \cup {"unreadable"} ELSE troubles
  /\ UNCHANGED called

(* Without a credential the scan fails; one that cannot be read throws     *)
(* where nothing catches it, and the run ends with the row as it is.       *)
Load(r) ==
  /\ run[r].pc = "load"
  /\ \/ Row(r).status # "gone" /\ llmConfigForScan = "none" /\ Failed(r)
     \/ /\ Row(r).status = "gone" \/ llmConfigForScan = "unreadable"
        /\ Persist(r, Row(r), Idle)
        /\ troubles' = IF Row(r).status = "gone" THEN troubles ELSE troubles \cup {"unreadable"}
        /\ UNCHANGED called
     \/ /\ Row(r).status # "gone" /\ llmConfigForScan = "ok"
        /\ Persist(r, Row(r), Goes(r, "inspecting"))
        /\ UNCHANGED <<called, troubles>>

(* The row, its log or the settings cannot be read, or the failure for want *)
(* of a credential cannot be written: all before anything catches it.      *)
LoadFails(r) ==
  /\ run[r].pc = "load"
  /\ faults < MaxFaults
  /\ faults' = faults + 1
  /\ run' = [run EXCEPT ![r] = Idle]
  /\ troubles' = troubles \cup {"unread"}
  /\ Unedited
  /\ UNCHANGED <<scan, page, publishing, turn, called, crossed, started, begun>>

(* The status of each phase, and the step that follows it. *)
Phase == [inspecting |-> "inspect", researching |-> "research", probing |-> "probe", scoring |-> "judge"]

setStatus(r) ==
  /\ run[r].pc \in DOMAIN Phase /\ Row(r).status # "gone"
  /\ Persist(r, [Row(r) EXCEPT !.status = run[r].pc], Goes(r, Phase[run[r].pc]))
  /\ UNCHANGED <<called, troubles>>

(* Once the handshake succeeds the tools are those the server lists, or    *)
(* none when only their listing failed.  No tool is called.                *)
inspectServer == {Server, {}}

(* The handshake fails: the scan does.  Else what was listed is kept.      *)
Inspect(r) ==
  /\ Running(r, "inspect")
  /\ \/ Failed(r)
     \/ /\ \E tools \in inspectServer :
             Persist(r, [Row(r) EXCEPT !.tools = r], [Goes(r, "researching") EXCEPT !.tools = tools])
        /\ UNCHANGED <<called, troubles>>

(* Mutant of researchVendor: what an earlier run found is good enough. *)
researchOnce(r) ==
  /\ Running(r, "research")
  /\ Persist(r, IF Row(r).research # Nobody THEN Row(r) ELSE [Row(r) EXCEPT !.research = r],
             Goes(r, "probing"))
  /\ UNCHANGED <<called, troubles>>

(* Without an answer from the model the research only says so. *)
researchVendor(r) ==
  /\ Running(r, "research")
  /\ Persist(r, [Row(r) EXCEPT !.research = r], Goes(r, "probing"))
  /\ UNCHANGED <<called, troubles>>

(* Each is called once, without arguments; what it answers, or its failure *)
(* to, is noted and changes nothing else.                                  *)
callReadOnlyTool(probes) == called' = called \cup probes

(* Mutant of Probe: the model alone says what is safe. *)
ProbeAsTold(r) ==
  /\ Running(r, "probe")
  /\ \E reply \in Probes \cup {{}} :
       callReadOnlyTool({p \in generateProbes(reply) : p.safety = "read_only"})
  /\ Persist(r, [Row(r) EXCEPT !.probes = r], Goes(r, "scoring"))
  /\ UNCHANGED troubles

Probe(r) ==
  /\ Running(r, "probe")
  /\ \E reply \in Probes \cup {{}} :
       callReadOnlyTool(executeSafeProbes(run[r].tools, generateProbes(reply)))
  /\ Persist(r, [Row(r) EXCEPT !.probes = r], [Goes(r, "scoring") EXCEPT !.tools = {}])
  /\ UNCHANGED troubles

Judge(r) ==
  /\ Running(r, "judge")
  /\ \E reply \in Verdicts \cup {NoReply} :
       Persist(r, [Row(r) EXCEPT !.controls = r],
               [Goes(r, "score") EXCEPT !.results = evaluateControls(controlsForOrg, reply)])
  /\ UNCHANGED <<called, troubles>>

(* What a scorecard comes to, for each reply and each set of results a run *)
(* can have: its lowest and highest scores, the mean and the grade.        *)
Results == {evaluateControls(ControlsWith(on), reply) : on \in SUBSET DOMAIN Clauses,
                                                        reply \in Verdicts \cup {NoReply}}

Summary == [reply \in Scores \cup {NoReply} |-> [results \in Results |->
  LET scores == synthesizeScorecard(reply, results)
      overall == weightedOverall(scores)
  IN [least |-> Min(Range(scores)), most |-> Max(Range(scores)),
      overall |-> overall, grade |-> scoreToGrade(overall)]]]

(* The scorecard and the evidence are one write with score and grade. *)
Carded(r, sum) ==
  [Row(r) EXCEPT !.card = [by |-> r, least |-> sum.least, most |-> sum.most],
                 !.score = [overall |-> sum.overall, grade |-> sum.grade]]

(* The evidence is hashed, and attested if that can be: it never fails.    *)
Score(r) ==
  /\ Running(r, "score")
  /\ \E reply \in Scores \cup {NoReply} :
       Persist(r, Carded(r, Summary[reply][run[r].results]),
               [Goes(r, "complete") EXCEPT !.results = <<>>])
  /\ UNCHANGED <<called, troubles>>

Complete(r) ==
  /\ Running(r, "complete")
  /\ Persist(r, [Row(r) EXCEPT !.status = "completed"], Idle)
  /\ UNCHANGED <<called, troubles>>

Fail(r) == Running(r, "catch") /\ Failed(r)

(* A write finds the row deleted, or the database does not answer: the     *)
(* catch follows, and where the catch's own write fails the run just ends. *)
WriteFails(r) ==
  /\ run[r].pc \notin {"idle", "load", "hung"}
  /\ \/ Row(r).status = "gone" /\ UNCHANGED <<faults, troubles>>
     \/ /\ Row(r).status # "gone"
        /\ faults < MaxFaults
        /\ faults' = faults + 1
        /\ troubles' = IF run[r].pc = "catch" THEN troubles \cup {"unrecorded"} ELSE troubles
  /\ run' = [run EXCEPT ![r] = IF run[r].pc = "catch" THEN Idle
                               ELSE [Idle EXCEPT !.pc = "catch", !.scan = run[r].scan]]
  /\ Unedited
  /\ UNCHANGED <<scan, page, publishing, turn, called, crossed, started, begun>>

(* The server or the model stalls in its answer.  The time allowed for a   *)
(* call ends with the headers, where it has one: nothing ends the run.     *)
Hangs(r) ==
  /\ run[r].pc \in {"inspect", "research", "probe", "judge", "score"}
  /\ faults < MaxFaults
  /\ faults' = faults + 1
  /\ run' = [run EXCEPT ![r] = [Idle EXCEPT !.pc = "hung", !.scan = run[r].scan]]
  /\ troubles' = troubles \cup {"hung"}
  /\ Unedited
  /\ UNCHANGED <<scan, page, publishing, turn, called, crossed, started, begun>>

(* The web server restarts: what was under way there is lost. *)
Restart ==
  /\ faults < MaxFaults
  /\ faults' = faults + 1
  /\ run' = [r \in Runs |-> Idle]
  /\ publishing' = {}
  /\ turn' = [q \in Turns |-> IF turn[q].pc = "asked" THEN [turn[q] EXCEPT !.pc = "failed", !.prior = {}] ELSE turn[q]]
  /\ troubles' = troubles \cup {"restarted"}
  /\ Unedited
  /\ UNCHANGED <<scan, page, called, crossed, started, begun>>

-----------------------------------------------------------------------------
(* Questions about a result *)

Asking(s) == {q \in Turns : turn[q].pc = "asked" /\ turn[q].scan = s}

(* The row is read with the questions it has; then the model is asked. *)
interrogate(t, s, q) ==
  /\ page[t][s].carded
  /\ scan[s].status # "gone" /\ llmConfigForScan = "ok"
  /\ turn[q].pc = "none" /\ \A p \in 1..(q - 1) : turn[p].pc # "none"
  /\ turn' = [turn EXCEPT ![q] = [pc |-> "asked", scan |-> s, prior |-> scan[s].interactions]]
  /\ crossed' = crossed \cup (IF Asking(s) = {} THEN {} ELSE {<<"turn", p>> : p \in Asking(s) \cup {q}})
  /\ calls < MaxCalls
  /\ calls' = calls + 1
  /\ UNCHANGED <<secret, credentials, clauses, scan, page, run, publishing, called, started, begun, faults, troubles>>

(* Mutant of Interactions: what was there is not carried over. *)
InteractionsAnew(q) == {q}

(* The list is written whole: what it was when the question was asked,     *)
(* and this turn.                                                          *)
Interactions(q) == turn[q].prior \cup {q}

(* The answer is shown and kept; or there is none, and an error is shown.  *)
Answer(q) ==
  /\ turn[q].pc = "asked"
  /\ \/ /\ scan[turn[q].scan].status # "gone"
        /\ scan' = [scan EXCEPT ![turn[q].scan].interactions = Interactions(q)]
        /\ turn' = [turn EXCEPT ![q] = [@ EXCEPT !.pc = "answered", !.prior = {}]]
     \/ turn' = [turn EXCEPT ![q] = [@ EXCEPT !.pc = "failed", !.prior = {}]] /\ UNCHANGED scan
  /\ Unedited
  /\ UNCHANGED <<page, run, publishing, called, crossed, started, begun, faults, troubles>>

-----------------------------------------------------------------------------
Step(r) ==
  \/ Load(r) \/ setStatus(r) \/ Inspect(r) \/ researchVendor(r) \/ Probe(r) \/ Judge(r)
  \/ Score(r) \/ Complete(r) \/ Fail(r) \/ WriteFails(r) \/ LoadFails(r) \/ Hangs(r)

Settings ==
  \/ ChangeSecret \/ saveCredential
  \/ \E i \in DOMAIN credentials : deleteCredential(i)
  \/ \E c \in DOMAIN Clauses :
       \/ saveClause(c) \/ deleteClause(c)
       \/ \E enabled \in BOOLEAN : toggleClause(c, enabled)

Click(t, s) ==
  \/ startScan(t, s) \/ rescan(t, s) \/ deleteScan(t, s) \/ publishScan(t, s) \/ unpublishScan(t, s)
  \/ \E q \in Turns : interrogate(t, s, q)

Next ==
  \/ Settings \/ Restart
  \/ \E t \in Tabs : Refresh(t)
  \/ \E t \in Tabs, s \in Ids : Click(t, s)
  \/ \E s \in Ids : Published(s)
  \/ \E r \in Runs : Step(r)
  \/ \E q \in Turns : Answer(q)

Spec == Init /\ [][Next]_vars

(* The process goes on with a run till it ends: every call it waits for is *)
(* answered, fails or times out - or the run is hung.                      *)
FairSpec == Spec /\ \A r \in Runs : WF_vars(Step(r))
-----------------------------------------------------------------------------
(* Properties *)

TypeOK ==
  /\ secret \in Nat \ {0} /\ credentials \in Seq(1..secret)
  /\ clauses \in [DOMAIN Clauses -> {"none", "on", "off"}]
  /\ \A s \in Ids :
       /\ scan[s].status \in ACTIVE \cup {"gone", "completed", "failed"}
       /\ {scan[s].tools, scan[s].research, scan[s].probes, scan[s].controls, scan[s].card.by}
            \subseteq 0..begun
       /\ {scan[s].card.least, scan[s].card.most} \subseteq 0..100
       /\ scan[s].published \in BOOLEAN /\ scan[s].interactions \subseteq Turns
  /\ \A r \in Runs : run[r].pc = "idle" \/ (run[r].scan \in Ids /\ r <= begun)
  /\ publishing \subseteq Ids

(* Two runs of the scan overlapped: their parts may be mixed. *)
Mixed(s) == <<"runs", s>> \in crossed

(* A complete scan is whole: the tools, the research, the probes and the   *)
(* controls on its page are those its scorecard was made from and its      *)
(* evidence covers - unless two runs of it overlapped.                     *)
CompletedIsWhole ==
  \A s \in Ids :
    scan[s].status = "completed" /\ ~Mixed(s) =>
      /\ scan[s].card.by # Nobody /\ scan[s].score # NoScore
      /\ {scan[s].tools, scan[s].research, scan[s].probes, scan[s].controls} = {scan[s].card.by}

(* What the public sees is finished: a published scan is complete and has  *)
(* its score, though anyone may scan again at any time - unless the click  *)
(* fell between the two steps of the publication, or runs overlapped.      *)
PublishedIsFinished ==
  \A s \in Ids :
    scan[s].published /\ ~Mixed(s) /\ <<"publication", s>> \notin crossed =>
      scan[s].status = "completed" /\ loadPublished(s) /\ scan[s].score # NoScore

(* Only tools that are safe are ever called: neither the name nor the      *)
(* description has a word of a power beyond reading, whatever the model    *)
(* says of them, and the model itself took the probe for a reading one.    *)
ProbesAreSafe ==
  \A p \in called :
    /\ p.safety = "read_only"
    /\ ~ Meets(p.tool.name, EXECUTE)
    /\ ~ Meets(p.tool.name \cup p.tool.description, DESTRUCTIVE \cup OUTWARD \cup WRITE)

(* The score is backed by the scorecard: it lies between the lowest and    *)
(* the highest of the twelve, and the worst grade, or the best, is given   *)
(* only where some dimension is as grave, or as harmless.                  *)
ScoreIsBacked ==
  \A s \in Ids :
    scan[s].score # NoScore =>
      /\ scan[s].score.overall \in scan[s].card.least..scan[s].card.most
      /\ scan[s].score.grade = "F" => scoreToSeverity(scan[s].card.most) = "critical"
      /\ scan[s].score.grade = "A" => scoreToSeverity(scan[s].card.least) = "info"

(* An answer that was shown is kept with the scan as long as it is there,  *)
(* through later questions and new runs - unless the question was asked    *)
(* while another was being answered.                                       *)
InterrogationsKept ==
  \A q \in Turns :
    turn[q].pc = "answered" /\ scan[turn[q].scan].status # "gone" /\ <<"turn", q>> \notin crossed =>
      q \in scan[turn[q].scan].interactions

(* What anyone is shown of a finished scan is whole and finished: both of  *)
(* the above about the page and the publication.                           *)
FinishedIsWhole == CompletedIsWhole /\ PublishedIsFinished

(* The types; the probes that were run; and the answers that are kept.     *)
Inv == TypeOK /\ ProbesAreSafe /\ InterrogationsKept

(* "runScan records failures itself": when no run is left, no scan is      *)
(* still called active - a restart, the catch's own failure and one of the *)
(* database before the first step excepted.                                *)
RunsRecordTheirEnd ==
  \A s \in Ids :
    scan[s].status \in ACTIVE /\ troubles \cap {"restarted", "unrecorded", "unread"} = {} =>
      \E r \in Runs : run[r].pc # "idle" /\ run[r].scan = s

(* What leaves a scan active for good: its process is gone, its failure    *)
(* could not be written, its row or the settings could not be read or its  *)
(* credential decrypted before anything catches that, or a call hangs.     *)
Stranding == {"restarted", "unrecorded", "unread", "unreadable", "hung"}

(* Every scan comes to rest, complete, failed or deleted, through failing  *)
(* servers, models and writes - unless one of these befell a run.          *)
ScansEnd ==
  \A s \in Ids : scan[s].status \in ACTIVE ~> (scan[s].status \notin ACTIVE \/ troubles \cap Stranding # {})
=============================================================================
