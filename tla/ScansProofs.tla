----------------------------- MODULE ScansProofs -----------------------------
(***************************************************************************)
(* Proofs about the audit scans, for any number of tabs, scans, runs,      *)
(* questions and credentials, and whatever the server and the models       *)
(* answer: only safe tools are called, what is shown of a finished scan is *)
(* whole and finished, and answers that were shown are kept.  What a       *)
(* weighted mean comes to is a fold over the dimensions and stays with     *)
(* the model checker.                                                      *)
(***************************************************************************)
EXTENDS Scans, FiniteSetTheorems, SequenceTheorems, WellFoundedInduction, TLAPS

-----------------------------------------------------------------------------
(* The inductive invariant *)

Steps == {"inspecting", "inspect", "researching", "research", "probing", "probe", "scoring", "judge",
          "score", "complete"}
HasTools == Steps \ {"inspecting", "inspect"}
HasResearch == HasTools \ {"researching", "research"}
HasProbes == HasResearch \ {"probing", "probe"}
HasControls == {"score", "complete"}

Statuses == ACTIVE \cup {"gone", "completed", "failed"}
Numbers == 0..MaxRuns

Replies == Scores \cup {NoReply}
Grades == {"none", "A", "B", "C", "D", "F"}
Overalls == {-1} \cup {Summary[reply][results].overall : reply \in Replies, results \in Results}

RowRecords ==
  [status : Statuses, tools : Numbers, research : Numbers, probes : Numbers, controls : Numbers,
   card : [by : Numbers, least : 0..100, most : 0..100],
   score : [overall : Overalls, grade : Grades],
   published : BOOLEAN, interactions : SUBSET Turns]

RunRecords ==
  [pc : Steps \cup {"idle", "load", "catch", "hung"}, scan : 0..MaxScans, tools : {Server, {}},
   results : Results \cup {<<>>}]

TurnRecords == [pc : {"none", "asked", "answered", "failed"}, scan : 0..MaxScans, prior : SUBSET Turns]

(* Every variable but the settings and the pages. *)
StateType ==
  /\ scan \in [Ids -> RowRecords]
  /\ run \in [Runs -> RunRecords]
  /\ turn \in [Turns -> TurnRecords]
  /\ started \in 0..MaxScans /\ begun \in 0..MaxRuns

SettingsType ==
  /\ secret \in Nat \ {0} /\ credentials \in Seq(1..secret)
  /\ clauses \in [DOMAIN Clauses -> {"none", "on", "off"}]

Active(r) == run[r].pc # "idle"

(* What does not exist yet is blank, and nothing refers to it; what was    *)
(* deleted is blank again.                                                 *)
ScansInv ==
  /\ \A s \in Ids : scan[s].status = "gone" => scan[s] = Gone
  /\ \A s \in Ids : s > started => scan[s].status = "gone"
  /\ publishing \subseteq 1..started
  /\ \A q \in Turns : turn[q].pc # "none" => turn[q].scan \in 1..started
  /\ \A s \in Ids :
       {scan[s].tools, scan[s].research, scan[s].probes, scan[s].controls, scan[s].card.by} \subseteq 0..begun

RunsInv ==
  \A r \in Runs :
    /\ Active(r) => run[r].scan \in 1..started /\ r <= begun
    /\ run[r].pc = "score" => run[r].results \in Results

(* What run r, now at pc, has written to the row of its scan.              *)
Wrote(row, pc, r) ==
  /\ pc \in HasTools => row.tools = r
  /\ pc \in HasResearch => row.research = r
  /\ pc \in HasProbes => row.probes = r
  /\ pc \in HasControls => row.controls = r
  /\ pc = "complete" => row.card.by = r /\ row.score # NoScore

Whole(row) ==
  /\ row.card.by # Nobody /\ row.score # NoScore
  /\ {row.tools, row.research, row.probes, row.controls} = {row.card.by}

(* A run that no other run of its scan overlaps is alone with it: the scan *)
(* is shown as active, and holds what the run wrote.                       *)
AloneInv ==
  \A r \in Runs :
    Active(r) /\ ~Mixed(run[r].scan) =>
      /\ \A o \in Runs : Active(o) /\ run[o].scan = run[r].scan => o = r
      /\ scan[run[r].scan].status # "gone" =>
           scan[run[r].scan].status \in ACTIVE /\ Wrote(scan[run[r].scan], run[r].pc, r)

(* A publication that found its scan complete still does, or the scan was  *)
(* deleted, unless the scan was queued again meanwhile.                    *)
PublishingInv ==
  \A s \in publishing :
    ~Mixed(s) /\ <<"publication", s>> \notin crossed => scan[s].status \in {"completed", "gone"}

(* A question that was asked alone is still alone, and knows every answer  *)
(* that has to be kept.                                                    *)
QuestionsInv ==
  \A q \in Turns :
    turn[q].pc = "asked" =>
      /\ <<"turn", q>> \notin crossed =>
           \A p \in Turns : turn[p].pc = "asked" /\ turn[p].scan = turn[q].scan => p = q
      /\ \A p \in Turns :
           turn[p].pc = "answered" /\ turn[p].scan = turn[q].scan /\ <<"turn", p>> \notin crossed
             /\ scan[turn[q].scan].status # "gone"
               => p \in turn[q].prior

IInv ==
  /\ StateType /\ SettingsType /\ ScansInv /\ RunsInv /\ AloneInv /\ PublishingInv /\ QuestionsInv
  /\ ProbesAreSafe /\ CompletedIsWhole /\ PublishedIsFinished /\ InterrogationsKept

-----------------------------------------------------------------------------
(* What a scorecard is *)

LEMMA ClampType == ASSUME NEW n \in Int PROVE clampScore(n) \in 0..100
<1> DEFINE low == Min({100, n})
<1>1. low \in Int /\ low <= 100
  <2>1. \E x \in {100, n} : \A y \in {100, n} : x =< y
    OBVIOUS
  <2>2. low \in {100, n} /\ \A y \in {100, n} : low =< y
    BY <2>1 DEF Min
  <2> QED BY <2>2
<1> HIDE DEF low
<1>2. \E x \in {0, low} : \A y \in {0, low} : x >= y
  BY <1>1
<1>3. Max({0, low}) \in {0, low} /\ \A y \in {0, low} : Max({0, low}) >= y
  BY <1>2 DEF Max
<1>4. Max({0, low}) \in 0..100
  BY <1>1, <1>3
<1> QED BY <1>4 DEF clampScore, low

(* The outcomes a run judges are those of finitely many controls.          *)
LEMMA ResultsAreFinite ==
  ASSUME NEW results \in Results
  PROVE  IsFiniteSet(DOMAIN results)
<1>1. PICK on \in SUBSET DOMAIN Clauses, reply \in Verdicts \cup {NoReply} :
        results = evaluateControls(ControlsWith(on), reply)
  BY DEF Results
<1>2. DOMAIN ControlsWith(on) \subseteq DOMAIN STATIC_CONTROLS \cup DOMAIN Clauses
  BY DEF ControlsWith
<1>3. IsFiniteSet(DOMAIN STATIC_CONTROLS \cup DOMAIN Clauses)
  BY ControlsAssumption, FS_Union
<1>4. IsFiniteSet(DOMAIN ControlsWith(on))
  BY <1>2, <1>3, FS_Subset
<1>5. DOMAIN results \subseteq DOMAIN ControlsWith(on)
  BY <1>1 DEF evaluateControls
<1> QED BY <1>4, <1>5, FS_Subset

LEMMA ControlScoreType ==
  ASSUME NEW results \in Results, NEW d PROVE ControlScore(results, d) \in 0..100
<1> DEFINE rel == {c \in DOMAIN results : results[c].of = d}
           Share(outcome) == Cardinality({c \in rel : results[c].outcome = outcome})
           top == Share("fail") * 80 + Share("needs_review") * 45
<1>1. IsFiniteSet(rel)
  BY ResultsAreFinite, FS_Subset
<1>2. ASSUME NEW o PROVE Share(o) \in Nat
  <2>1. {c \in rel : results[c].outcome = o} \subseteq rel
    OBVIOUS
  <2> QED BY <1>1, <2>1, FS_Subset, FS_CardinalityType
<1>3. CASE rel = {}
  BY <1>3 DEF ControlScore, Unscored
<1>4. CASE rel # {}
  <2>1. Cardinality(rel) \in Nat \ {0}
    BY <1>1, <1>4, FS_CardinalityType, FS_EmptySet
  <2>2. top \in Nat
    <3>1. Share("fail") \in Nat /\ Share("needs_review") \in Nat
      BY <1>2
    <3> HIDE DEF Share
    <3> QED BY <3>1
  <2> HIDE DEF top
  <2>3. Rounded(top, Cardinality(rel)) \in Int
    BY <2>1, <2>2 DEF Rounded
  <2>4. ControlScore(results, d) = clampScore(Rounded(top, Cardinality(rel)))
    BY <1>4 DEF ControlScore, top
  <2> QED BY <2>3, <2>4, ClampType
<1> QED BY <1>3, <1>4

LEMMA ScorecardType ==
  ASSUME NEW reply \in Replies, NEW results \in Results
  PROVE  synthesizeScorecard(reply, results) \in [RISK_DIMENSIONS -> 0..100]
<1>1. CASE reply = NoReply
  BY <1>1, ControlScoreType DEF synthesizeScorecard, controlDerivedScorecard
<1>2. CASE reply # NoReply
  <2>1. ASSUME NEW d \in RISK_DIMENSIONS, d \in DOMAIN reply PROVE clampScore(reply[d]) \in 0..100
    BY <1>2, <2>1, ScoresAssumption, ClampType DEF Replies
  <2> QED BY <1>2, <2>1 DEF synthesizeScorecard, Unscored
<1> QED BY <1>1, <1>2

(* A set of naturals has a least element; one of scores has a greatest.    *)
LEMMA LeastNat ==
  ASSUME NEW S \in SUBSET Nat, S # {}
  PROVE  \E x \in S : \A y \in S : x =< y
<1> DEFINE Below == {0..x : x \in S}
           R == StrictSubsetOrdering(Nat)
<1>1. Below \subseteq FiniteSubsetsOf(Nat) /\ Below # {}
  <2>1. ASSUME NEW x \in S PROVE IsFiniteSet(0..x)
    BY FS_Interval
  <2>2. ASSUME NEW x \in S PROVE 0..x \subseteq Nat
    OBVIOUS
  <2> QED BY <2>1, <2>2 DEF FiniteSubsetsOf
<1>2. IsWellFoundedOn(R, FiniteSubsetsOf(Nat))
  BY FS_StrictSubsetOrderingWellFounded
<1> HIDE DEF R
<1>3. PICK B \in Below : \A C \in Below : <<C, B>> \notin R
  BY <1>1, <1>2, WFMin, Zenon
<1>4. PICK x \in S : B = 0..x
  BY <1>3
<1>5. ASSUME NEW y \in S PROVE x =< y
  <2>1. <<0..y, 0..x>> \notin R
    BY <1>3, <1>4
  <2>2. 0..y \subseteq 0..x => 0..y = 0..x
    BY <2>1 DEF R, StrictSubsetOrdering
  <2>3. CASE y < x
    <3>1. x \in 0..x /\ x \notin 0..y /\ 0..y \subseteq 0..x
      BY <2>3
    <3> QED BY <2>2, <3>1
  <2> QED BY <2>3
<1> QED BY <1>5

LEMMA ExtremesType ==
  ASSUME NEW S \in SUBSET (0..100), S # {}
  PROVE  /\ Min(S) \in S /\ \A y \in S : Min(S) =< y
         /\ Max(S) \in S /\ \A y \in S : Max(S) >= y
<1>1. \E x \in S : \A y \in S : x =< y
  <2>1. S \in SUBSET Nat
    OBVIOUS
  <2> QED BY <2>1, LeastNat
<1> DEFINE T == {100 - x : x \in S}
<1>2. PICK m \in T : \A y \in T : m =< y
  <2>1. \A x \in S : 100 - x \in Nat
    OBVIOUS
  <2>2. T \subseteq Nat
    BY <2>1
  <2>3. T # {}
    OBVIOUS
  <2> QED BY <2>2, <2>3, LeastNat
<1>3. \E x \in S : \A y \in S : x >= y
  <2>1. PICK x \in S : m = 100 - x
    BY <1>2
  <2>2. ASSUME NEW y \in S PROVE x >= y
    <3>1. m =< 100 - y
      BY <1>2
    <3> QED BY <2>1, <3>1
  <2> QED BY <2>2
<1> QED BY <1>1, <1>3 DEF Min, Max

LEMMA GradeType == ASSUME NEW n PROVE scoreToGrade(n) \in Grades \ {"none"}
BY DEF scoreToGrade, Grades

LEMMA SummaryType ==
  ASSUME NEW reply \in Replies, NEW results \in Results
  PROVE  LET sum == Summary[reply][results] IN
         /\ sum.least \in 0..100 /\ sum.most \in 0..100
         /\ sum.overall \in Overalls /\ sum.grade \in Grades \ {"none"}
<1> DEFINE scores == synthesizeScorecard(reply, results)
<1>1. /\ Summary[reply][results].least = Min(Range(scores))
      /\ Summary[reply][results].most = Max(Range(scores))
      /\ Summary[reply][results].grade = scoreToGrade(weightedOverall(scores))
  BY DEF Summary, Replies
<1>2. Range(scores) \in SUBSET (0..100) /\ Range(scores) # {}
  BY ScorecardType DEF Range, RISK_DIMENSIONS
<1> QED BY <1>1, <1>2, ExtremesType, GradeType DEF Overalls

-----------------------------------------------------------------------------
(* What a step of a run does to its scan *)

(* Run r leaves its row as row and goes on as next.  What was deleted      *)
(* stays so and nothing else is deleted; a run that is alone with an       *)
(* active scan, having written what it has, leaves it active and has       *)
(* written what is expected of it next, or it ends; and if it ends with    *)
(* the scan complete, the scan is whole.                                   *)
StepTo(r, row, next) ==
  /\ Active(r) /\ row \in RowRecords /\ next \in RunRecords
  /\ scan' = [scan EXCEPT ![run[r].scan] = row] /\ run' = [run EXCEPT ![r] = next]
  /\ row.interactions = Row(r).interactions /\ row.published = Row(r).published
  /\ Row(r).status = "gone" => row = Row(r)
  /\ Row(r).status # "gone" => row.status # "gone"
  /\ {row.tools, row.research, row.probes, row.controls, row.card.by} \subseteq 0..begun
  /\ next.pc # "idle" => next.scan = run[r].scan
  /\ next.pc = "score" => next.results \in Results
  /\ Row(r).status \in ACTIVE /\ Wrote(Row(r), run[r].pc, r) =>
       IF next.pc # "idle" THEN row.status \in ACTIVE /\ Wrote(row, next.pc, r)
       ELSE row.status \in ACTIVE \cup {"failed"} \/ (row.status = "completed" /\ Whole(row))
  /\ UNCHANGED <<secret, credentials, clauses, publishing, turn, crossed, started, begun>>

LEMMA RowType ==
  ASSUME StateType, ScansInv, RunsInv, NEW r \in Runs, Active(r)
  PROVE  /\ run[r].scan \in Ids /\ r \in 1..begun /\ r \in Numbers /\ begun \in Numbers
         /\ Row(r) \in RowRecords /\ run[r] \in RunRecords
         /\ {Row(r).tools, Row(r).research, Row(r).probes, Row(r).controls, Row(r).card.by} \subseteq 0..begun
<1>1. run[r].scan \in 1..started /\ r <= begun
  BY DEF RunsInv
<1>2. run[r].scan \in Ids /\ r \in 1..begun /\ r \in Numbers /\ begun \in Numbers
  BY <1>1, BoundsAssumption DEF StateType, Ids, Runs, Numbers
<1> QED BY <1>2 DEF StateType, ScansInv, Row

LEMMA NextRun ==
  ASSUME NEW x \in RunRecords, NEW pc \in Steps \cup {"idle", "load", "catch", "hung"}
  PROVE  [x EXCEPT !.pc = pc] \in RunRecords
BY DEF RunRecords

LEMMA IdleType == Idle \in RunRecords
BY BoundsAssumption DEF Idle, RunRecords

(* A run that ends without a result.                                       *)
LEMMA FailedTo ==
  ASSUME StateType, ScansInv, RunsInv, NEW r \in Runs, Active(r), Row(r).status # "gone", Failed(r)
  PROVE  StepTo(r, [Row(r) EXCEPT !.status = "failed"], Idle)
<1> DEFINE row == [Row(r) EXCEPT !.status = "failed"]
<1>1. Row(r) \in RowRecords /\ run[r] \in RunRecords
  BY RowType
<1>2. /\ row \in RowRecords /\ row.interactions = Row(r).interactions /\ row.published = Row(r).published
      /\ row.status = "failed"
      /\ row.tools = Row(r).tools /\ row.research = Row(r).research /\ row.probes = Row(r).probes
      /\ row.controls = Row(r).controls /\ row.card = Row(r).card
  BY <1>1 DEF RowRecords, Statuses
<1> HIDE DEF row
<1>3. scan' = [scan EXCEPT ![run[r].scan] = row] /\ run' = [run EXCEPT ![r] = Idle]
  BY DEF Failed, Persist, row
<1>4. UNCHANGED <<secret, credentials, clauses, publishing, turn, crossed, started, begun>>
  BY DEF Failed, Persist, Unedited
<1> QED
  BY <1>2, <1>3, <1>4, IdleType, RowType DEF StepTo, row, Idle

(* A run that leaves the row alone and ends, or fails, or goes on to a     *)
(* step that nothing new is expected at.                                   *)
LEMMA StaysTo ==
  ASSUME StateType, ScansInv, RunsInv, NEW r \in Runs, Active(r), NEW next \in RunRecords,
         scan' = [scan EXCEPT ![run[r].scan] = Row(r)], run' = [run EXCEPT ![r] = next],
         next.pc \notin HasTools, next.pc # "idle" => next.scan = run[r].scan,
         UNCHANGED <<secret, credentials, clauses, publishing, turn, crossed, started, begun>>
  PROVE  StepTo(r, Row(r), next)
BY RowType DEF StepTo, Wrote, HasTools, HasResearch, HasProbes, HasControls, Steps

LEMMA LoadTo ==
  ASSUME StateType, ScansInv, RunsInv, NEW r \in Runs, Load(r)
  PROVE  \E row, next : StepTo(r, row, next)
<1>1. Active(r)
  BY DEF Load, Active
<1>2. CASE Row(r).status # "gone" /\ Failed(r)
  BY <1>1, <1>2, FailedTo
<1>3. CASE Persist(r, Row(r), Idle)
  BY <1>1, <1>3, StaysTo, IdleType DEF Persist, Unedited, Idle, HasTools, Steps
<1>4. CASE Persist(r, Row(r), Goes(r, "inspecting"))
  <2>1. run[r] \in RunRecords
    BY <1>1, RowType
  <2>2. Goes(r, "inspecting") \in RunRecords
    BY <2>1, NextRun DEF Goes, Steps
  <2>3. Goes(r, "inspecting").pc = "inspecting" /\ Goes(r, "inspecting").scan = run[r].scan
    BY <2>1 DEF Goes, RunRecords
  <2> QED BY <1>1, <1>4, <2>2, <2>3, StaysTo DEF Persist, Unedited, HasTools, Steps
<1> QED BY <1>2, <1>3, <1>4 DEF Load

LEMMA SetStatusTo ==
  ASSUME StateType, ScansInv, RunsInv, NEW r \in Runs, setStatus(r)
  PROVE  \E row, next : StepTo(r, row, next)
<1> DEFINE pc == run[r].pc
           row == [Row(r) EXCEPT !.status = pc]
           next == Goes(r, Phase[pc])
<1>1. /\ Active(r) /\ Row(r).status # "gone"
      /\ pc \in {"inspecting", "researching", "probing", "scoring"}
      /\ Persist(r, row, next)
  BY DEF setStatus, Active, Phase
<1>2. Row(r) \in RowRecords /\ run[r] \in RunRecords
  BY <1>1, RowType
<1>3. /\ row \in RowRecords /\ row.interactions = Row(r).interactions /\ row.published = Row(r).published
      /\ row.status \in ACTIVE
      /\ row.tools = Row(r).tools /\ row.research = Row(r).research /\ row.probes = Row(r).probes
      /\ row.controls = Row(r).controls /\ row.card = Row(r).card
  BY <1>1, <1>2 DEF RowRecords, Statuses, ACTIVE
<1>4. /\ next \in RunRecords /\ next.scan = run[r].scan
      /\ next.pc = Phase[pc]
  <2>1. Phase[pc] \in Steps
    BY <1>1 DEF Phase, Steps
  <2> QED BY <1>2, <2>1, NextRun DEF Goes, RunRecords
<1>5. /\ next.pc \in {"inspect", "research", "probe", "judge"}
      /\ Wrote(Row(r), pc, r) => Wrote(row, next.pc, r)
  <2>1. next.pc \in {"inspect", "research", "probe", "judge"}
    BY <1>1, <1>4 DEF Phase
  <2> QED BY <1>1, <1>3, <1>4, <2>1, SMTT(40)
          DEF Phase, Wrote, HasTools, HasResearch, HasProbes, HasControls, Steps
<1>6. /\ scan' = [scan EXCEPT ![run[r].scan] = row] /\ run' = [run EXCEPT ![r] = next]
      /\ UNCHANGED <<secret, credentials, clauses, publishing, turn, crossed, started, begun>>
  BY <1>1 DEF Persist, Unedited
<1>7. {row.tools, row.research, row.probes, row.controls, row.card.by} \subseteq 0..begun
  BY <1>1, <1>3, RowType
<1> HIDE DEF row, next
<1>8. row.status # "gone"
  BY <1>3 DEF ACTIVE
<1>9. StepTo(r, row, next)
  BY <1>1, <1>3, <1>4, <1>5, <1>6, <1>7, <1>8 DEF StepTo
<1> QED BY <1>9

(* A run that writes one part and goes on.                                 *)
LEMMA WritesTo ==
  ASSUME StateType, ScansInv, RunsInv, NEW r \in Runs, Active(r), NEW row \in RowRecords, NEW next \in RunRecords,
         Row(r).status # "gone", row.status = Row(r).status,
         row.interactions = Row(r).interactions, row.published = Row(r).published,
         {row.tools, row.research, row.probes, row.controls, row.card.by} \subseteq 0..begun,
         next.scan = run[r].scan, next.pc # "idle", next.pc = "score" => next.results \in Results,
         Wrote(Row(r), run[r].pc, r) => Wrote(row, next.pc, r),
         Persist(r, row, next)
  PROVE  StepTo(r, row, next)
<1>1. scan' = [scan EXCEPT ![run[r].scan] = row] /\ run' = [run EXCEPT ![r] = next]
  BY DEF Persist
<1>2. UNCHANGED <<secret, credentials, clauses, publishing, turn, crossed, started, begun>>
  BY DEF Persist, Unedited
<1> QED BY <1>1, <1>2 DEF StepTo

LEMMA InspectTo ==
  ASSUME StateType, ScansInv, RunsInv, NEW r \in Runs, Inspect(r)
  PROVE  \E row, next : StepTo(r, row, next)
<1>1. Active(r) /\ run[r].pc = "inspect" /\ Row(r).status # "gone"
  BY DEF Inspect, Running, Active
<1>2. CASE Failed(r)
  BY <1>1, <1>2, FailedTo
<1>3. ASSUME NEW tools \in inspectServer,
             Persist(r, [Row(r) EXCEPT !.tools = r], [Goes(r, "researching") EXCEPT !.tools = tools])
      PROVE  \E row, next : StepTo(r, row, next)
  <2> DEFINE row == [Row(r) EXCEPT !.tools = r]
             next == [Goes(r, "researching") EXCEPT !.tools = tools]
  <2>1. Row(r) \in RowRecords /\ run[r] \in RunRecords /\ r \in Numbers /\ r \in 0..begun
    BY <1>1, RowType
  <2>2. /\ row \in RowRecords /\ row.status = Row(r).status
        /\ row.interactions = Row(r).interactions /\ row.published = Row(r).published
        /\ row.tools = r /\ row.research = Row(r).research /\ row.probes = Row(r).probes
        /\ row.controls = Row(r).controls /\ row.card = Row(r).card
    BY <2>1 DEF RowRecords
  <2>3. next \in RunRecords /\ next.scan = run[r].scan /\ next.pc = "researching"
    BY <2>1 DEF Goes, RunRecords, Steps, inspectServer
  <2>4. {row.tools, row.research, row.probes, row.controls, row.card.by} \subseteq 0..begun
    BY <1>1, <2>1, <2>2, RowType
  <2>5. Wrote(row, next.pc, r)
    BY <2>2, <2>3 DEF Wrote, HasTools, HasResearch, HasProbes, HasControls, Steps
  <2> HIDE DEF row, next
  <2>6. Persist(r, row, next)
    BY <1>3 DEF row, next
  <2>7. StepTo(r, row, next)
    BY <1>1, <2>2, <2>3, <2>4, <2>5, <2>6, WritesTo
  <2> QED BY <2>7
<1> QED BY <1>2, <1>3 DEF Inspect

LEMMA ResearchTo ==
  ASSUME StateType, ScansInv, RunsInv, NEW r \in Runs, researchVendor(r)
  PROVE  \E row, next : StepTo(r, row, next)
<1> DEFINE row == [Row(r) EXCEPT !.research = r]
           next == Goes(r, "probing")
<1>1. Active(r) /\ run[r].pc = "research" /\ Row(r).status # "gone" /\ Persist(r, row, next)
  BY DEF researchVendor, Running, Active
<1>2. Row(r) \in RowRecords /\ run[r] \in RunRecords /\ r \in Numbers /\ r \in 0..begun
  BY <1>1, RowType
<1>3. /\ row \in RowRecords /\ row.status = Row(r).status
      /\ row.interactions = Row(r).interactions /\ row.published = Row(r).published
      /\ row.tools = Row(r).tools /\ row.research = r /\ row.probes = Row(r).probes
      /\ row.controls = Row(r).controls /\ row.card = Row(r).card
  BY <1>2 DEF RowRecords
<1>4. next \in RunRecords /\ next.scan = run[r].scan /\ next.pc = "probing"
  BY <1>2 DEF Goes, RunRecords, Steps
<1>5. {row.tools, row.research, row.probes, row.controls, row.card.by} \subseteq 0..begun
  BY <1>1, <1>2, <1>3, RowType
<1>6. Wrote(Row(r), run[r].pc, r) => Wrote(row, next.pc, r)
  BY <1>1, <1>3, <1>4 DEF Wrote, HasTools, HasResearch, HasProbes, HasControls, Steps
<1> HIDE DEF row, next
<1>7. StepTo(r, row, next)
  BY <1>1, <1>3, <1>4, <1>5, <1>6, WritesTo
<1> QED BY <1>7

LEMMA ProbeTo ==
  ASSUME StateType, ScansInv, RunsInv, NEW r \in Runs, Probe(r)
  PROVE  \E row, next : StepTo(r, row, next)
<1> DEFINE row == [Row(r) EXCEPT !.probes = r]
           next == [Goes(r, "scoring") EXCEPT !.tools = {}]
<1>1. Active(r) /\ run[r].pc = "probe" /\ Row(r).status # "gone" /\ Persist(r, row, next)
  BY DEF Probe, Running, Active
<1>2. Row(r) \in RowRecords /\ run[r] \in RunRecords /\ r \in Numbers /\ r \in 0..begun
  BY <1>1, RowType
<1>3. /\ row \in RowRecords /\ row.status = Row(r).status
      /\ row.interactions = Row(r).interactions /\ row.published = Row(r).published
      /\ row.tools = Row(r).tools /\ row.research = Row(r).research /\ row.probes = r
      /\ row.controls = Row(r).controls /\ row.card = Row(r).card
  BY <1>2 DEF RowRecords
<1>4. next \in RunRecords /\ next.scan = run[r].scan /\ next.pc = "scoring"
  BY <1>2 DEF Goes, RunRecords, Steps
<1>5. {row.tools, row.research, row.probes, row.controls, row.card.by} \subseteq 0..begun
  BY <1>1, <1>2, <1>3, RowType
<1>6. Wrote(Row(r), run[r].pc, r) => Wrote(row, next.pc, r)
  BY <1>1, <1>3, <1>4 DEF Wrote, HasTools, HasResearch, HasProbes, HasControls, Steps
<1> HIDE DEF row, next
<1>7. StepTo(r, row, next)
  BY <1>1, <1>3, <1>4, <1>5, <1>6, WritesTo
<1> QED BY <1>7

(* What a run judges is one of the results the scorecard is defined for.   *)
LEMMA JudgedIsResult ==
  ASSUME NEW reply \in Verdicts \cup {NoReply}
  PROVE  evaluateControls(controlsForOrg, reply) \in Results
<1> DEFINE on == {c \in DOMAIN Clauses : clauses[c] = "on"}
<1>1. on \in SUBSET DOMAIN Clauses
  OBVIOUS
<1>2. controlsForOrg = ControlsWith(on)
  BY DEF controlsForOrg
<1> HIDE DEF on
<1>3. evaluateControls(ControlsWith(on), reply) \in Results
  BY <1>1 DEF Results
<1> QED BY <1>2, <1>3

LEMMA JudgeTo ==
  ASSUME StateType, ScansInv, RunsInv, NEW r \in Runs, Judge(r)
  PROVE  \E row, next : StepTo(r, row, next)
<1> DEFINE row == [Row(r) EXCEPT !.controls = r]
<1>1. Active(r) /\ run[r].pc = "judge" /\ Row(r).status # "gone"
  BY DEF Judge, Running, Active
<1>2. PICK reply \in Verdicts \cup {NoReply} :
        Persist(r, row, [Goes(r, "score") EXCEPT !.results = evaluateControls(controlsForOrg, reply)])
  BY DEF Judge
<1> DEFINE results == evaluateControls(controlsForOrg, reply)
           next == [Goes(r, "score") EXCEPT !.results = results]
<1>3. results \in Results
  BY JudgedIsResult
<1>4. Persist(r, row, next)
  BY <1>2
<1> HIDE DEF results
<1>5. Row(r) \in RowRecords /\ run[r] \in RunRecords /\ r \in Numbers /\ r \in 0..begun
  BY <1>1, RowType
<1>6. /\ row \in RowRecords /\ row.status = Row(r).status
      /\ row.interactions = Row(r).interactions /\ row.published = Row(r).published
      /\ row.tools = Row(r).tools /\ row.research = Row(r).research /\ row.probes = Row(r).probes
      /\ row.controls = r /\ row.card = Row(r).card
  BY <1>5 DEF RowRecords
<1>7. next \in RunRecords /\ next.scan = run[r].scan /\ next.pc = "score" /\ next.results = results
  BY <1>3, <1>5 DEF Goes, RunRecords, Steps
<1>8. {row.tools, row.research, row.probes, row.controls, row.card.by} \subseteq 0..begun
  BY <1>1, <1>5, <1>6, RowType
<1>9. Wrote(Row(r), run[r].pc, r) => Wrote(row, next.pc, r)
  BY <1>1, <1>6, <1>7 DEF Wrote, HasTools, HasResearch, HasProbes, HasControls, Steps
<1> HIDE DEF row, next
<1>10. StepTo(r, row, next)
  BY <1>1, <1>3, <1>4, <1>6, <1>7, <1>8, <1>9, WritesTo
<1> QED BY <1>10

LEMMA ScoreTo ==
  ASSUME StateType, ScansInv, RunsInv, NEW r \in Runs, Score(r)
  PROVE  \E row, next : StepTo(r, row, next)
<1>1. Active(r) /\ run[r].pc = "score" /\ Row(r).status # "gone"
  BY DEF Score, Running, Active
<1>2. PICK reply \in Replies :
        Persist(r, Carded(r, Summary[reply][run[r].results]), [Goes(r, "complete") EXCEPT !.results = <<>>])
  BY DEF Score, Replies
<1>3. run[r].results \in Results
  BY <1>1 DEF RunsInv
<1> DEFINE sum == Summary[reply][run[r].results]
           row == Carded(r, sum)
           next == [Goes(r, "complete") EXCEPT !.results = <<>>]
<1>4. /\ sum.least \in 0..100 /\ sum.most \in 0..100
      /\ sum.overall \in Overalls /\ sum.grade \in Grades \ {"none"}
  BY <1>3, SummaryType
<1>5. Persist(r, row, next)
  BY <1>2
<1> HIDE DEF sum
<1>6. Row(r) \in RowRecords /\ run[r] \in RunRecords /\ r \in Numbers /\ r \in 0..begun
  BY <1>1, RowType
<1>7. /\ row \in RowRecords /\ row.status = Row(r).status
      /\ row.interactions = Row(r).interactions /\ row.published = Row(r).published
      /\ row.tools = Row(r).tools /\ row.research = Row(r).research /\ row.probes = Row(r).probes
      /\ row.controls = Row(r).controls /\ row.card.by = r /\ row.score.grade # "none"
  BY <1>4, <1>6 DEF RowRecords, Carded
<1>8. next \in RunRecords /\ next.scan = run[r].scan /\ next.pc = "complete"
  BY <1>6 DEF Goes, RunRecords, Steps
<1>9. {row.tools, row.research, row.probes, row.controls, row.card.by} \subseteq 0..begun
  BY <1>1, <1>6, <1>7, RowType
<1> HIDE DEF row
<1>10. row.score # NoScore
  BY <1>7 DEF NoScore
<1>11. Wrote(Row(r), run[r].pc, r) => Wrote(row, next.pc, r)
  BY <1>1, <1>7, <1>8, <1>10 DEF Wrote, HasTools, HasResearch, HasProbes, HasControls, Steps
<1> HIDE DEF next
<1>12. StepTo(r, row, next)
  BY <1>1, <1>5, <1>7, <1>8, <1>9, <1>11, WritesTo
<1> QED BY <1>12

LEMMA CompleteTo ==
  ASSUME StateType, ScansInv, RunsInv, NEW r \in Runs, Complete(r)
  PROVE  \E row, next : StepTo(r, row, next)
<1> DEFINE row == [Row(r) EXCEPT !.status = "completed"]
<1>1. /\ Active(r) /\ run[r].pc = "complete" /\ Row(r).status # "gone"
      /\ scan' = [scan EXCEPT ![run[r].scan] = row] /\ run' = [run EXCEPT ![r] = Idle]
      /\ UNCHANGED <<secret, credentials, clauses, publishing, turn, crossed, started, begun>>
  BY DEF Complete, Running, Active, Persist, Unedited
<1>2. Row(r) \in RowRecords /\ r \in 1..begun
  BY <1>1, RowType
<1>3. /\ row \in RowRecords /\ row.status = "completed"
      /\ row.interactions = Row(r).interactions /\ row.published = Row(r).published
      /\ row.tools = Row(r).tools /\ row.research = Row(r).research /\ row.probes = Row(r).probes
      /\ row.controls = Row(r).controls /\ row.card = Row(r).card /\ row.score = Row(r).score
  BY <1>2 DEF RowRecords, Statuses
<1>4. {row.tools, row.research, row.probes, row.controls, row.card.by} \subseteq 0..begun
  BY <1>1, <1>3, RowType
<1>5. Wrote(Row(r), run[r].pc, r) => Whole(row)
  BY <1>1, <1>2, <1>3 DEF Wrote, Whole, HasTools, HasResearch, HasProbes, HasControls, Steps, Nobody
<1> HIDE DEF row
<1>6. Idle.pc = "idle"
  BY DEF Idle
<1>7. StepTo(r, row, Idle)
  BY <1>1, <1>3, <1>4, <1>5, <1>6, IdleType DEF StepTo
<1> QED BY <1>7

LEMMA WriteFailsTo ==
  ASSUME StateType, ScansInv, RunsInv, NEW r \in Runs, WriteFails(r)
  PROVE  \E row, next : StepTo(r, row, next)
<1> DEFINE next == IF run[r].pc = "catch" THEN Idle ELSE [Idle EXCEPT !.pc = "catch", !.scan = run[r].scan]
<1>1. /\ Active(r) /\ scan' = scan /\ run' = [run EXCEPT ![r] = next]
      /\ UNCHANGED <<secret, credentials, clauses, publishing, turn, crossed, started, begun>>
  BY DEF WriteFails, Active, Unedited
<1>2. scan' = [scan EXCEPT ![run[r].scan] = Row(r)]
  BY <1>1, RowType DEF Row, StateType
<1>3. next \in RunRecords /\ next.pc \in {"idle", "catch"} /\ (next.pc # "idle" => next.scan = run[r].scan)
  BY <1>1, IdleType, RowType DEF Idle, RunRecords
<1> HIDE DEF next
<1>4. StepTo(r, Row(r), next)
  BY <1>1, <1>2, <1>3, StaysTo DEF HasTools, Steps
<1> QED BY <1>4

LEMMA LoadFailsTo ==
  ASSUME StateType, ScansInv, RunsInv, NEW r \in Runs, LoadFails(r)
  PROVE  \E row, next : StepTo(r, row, next)
<1>1. /\ Active(r) /\ scan' = scan /\ run' = [run EXCEPT ![r] = Idle]
      /\ UNCHANGED <<secret, credentials, clauses, publishing, turn, crossed, started, begun>>
  BY DEF LoadFails, Active, Unedited
<1>2. scan' = [scan EXCEPT ![run[r].scan] = Row(r)]
  BY <1>1, RowType DEF Row, StateType
<1>3. Idle \in RunRecords /\ Idle.pc = "idle"
  BY IdleType DEF Idle
<1>4. StepTo(r, Row(r), Idle)
  BY <1>1, <1>2, <1>3, StaysTo DEF HasTools, Steps
<1> QED BY <1>4

LEMMA HangsTo ==
  ASSUME StateType, ScansInv, RunsInv, NEW r \in Runs, Hangs(r)
  PROVE  \E row, next : StepTo(r, row, next)
<1> DEFINE next == [Idle EXCEPT !.pc = "hung", !.scan = run[r].scan]
<1>1. /\ Active(r) /\ scan' = scan /\ run' = [run EXCEPT ![r] = next]
      /\ UNCHANGED <<secret, credentials, clauses, publishing, turn, crossed, started, begun>>
  BY DEF Hangs, Active, Unedited
<1>2. scan' = [scan EXCEPT ![run[r].scan] = Row(r)]
  BY <1>1, RowType DEF Row, StateType
<1>3. next \in RunRecords /\ next.pc = "hung" /\ next.scan = run[r].scan
  BY <1>1, IdleType, RowType DEF Idle, RunRecords
<1> HIDE DEF next
<1>4. StepTo(r, Row(r), next)
  BY <1>1, <1>2, <1>3, StaysTo DEF HasTools, Steps
<1> QED BY <1>4

LEMMA EveryStepTo ==
  ASSUME StateType, ScansInv, RunsInv, NEW r \in Runs, Step(r)
  PROVE  \E row, next : StepTo(r, row, next)
<1>1. CASE Fail(r)
  <2>1. Active(r) /\ Row(r).status # "gone" /\ Failed(r)
    BY <1>1 DEF Fail, Running, Active
  <2> QED BY <2>1, FailedTo
<1> QED
  BY <1>1, LoadTo, SetStatusTo, InspectTo, ResearchTo, ProbeTo, JudgeTo, ScoreTo, CompleteTo, WriteFailsTo,
     LoadFailsTo, HangsTo DEF Step

-----------------------------------------------------------------------------
(* A step of a run keeps the invariant *)

LEMMA StartedAreIds == ASSUME StateType PROVE 1..started \subseteq Ids
BY BoundsAssumption DEF StateType, Ids

LEMMA StepTypes ==
  ASSUME IInv, NEW r \in Runs, NEW row, NEW next, StepTo(r, row, next)
  PROVE  StateType' /\ SettingsType' /\ ScansInv' /\ RunsInv'
<1> DEFINE s == run[r].scan
<1>1. /\ Active(r) /\ row \in RowRecords /\ next \in RunRecords
      /\ scan' = [scan EXCEPT ![s] = row] /\ run' = [run EXCEPT ![r] = next]
      /\ UNCHANGED <<secret, credentials, clauses, publishing, turn, crossed, started, begun>>
  BY DEF StepTo
<1>2. s \in Ids /\ s \in 1..started /\ r <= begun
  BY <1>1, StartedAreIds DEF IInv, RunsInv
<1>3. StateType'
  BY <1>1 DEF IInv, StateType
<1>4. SettingsType'
  BY <1>1 DEF IInv, SettingsType
<1>5. ScansInv'
  <2>1. ASSUME NEW i \in Ids
        PROVE  /\ scan'[i].status = "gone" => scan'[i] = Gone
               /\ i > started => scan'[i].status = "gone"
               /\ {scan'[i].tools, scan'[i].research, scan'[i].probes, scan'[i].controls, scan'[i].card.by}
                    \subseteq 0..begun
    <3>1. CASE i = s
      <4>1. scan'[i] = row
        BY <1>1, <1>2, <3>1 DEF IInv, StateType
      <4>2. row.status = "gone" => row = Gone
        BY <1>2 DEF IInv, ScansInv, StepTo, Row
      <4>3. ~(i > started)
        BY <1>2, <3>1 DEF IInv, StateType
      <4> QED BY <4>1, <4>2, <4>3 DEF StepTo
    <3>2. CASE i # s
      <4>1. scan'[i] = scan[i]
        BY <1>1, <3>2 DEF IInv, StateType
      <4> QED BY <4>1 DEF IInv, ScansInv
    <3> QED BY <3>1, <3>2
  <2>2. publishing' \subseteq 1..started' /\ \A q \in Turns : turn'[q].pc # "none" => turn'[q].scan \in 1..started'
    BY <1>1 DEF IInv, ScansInv
  <2> QED BY <1>1, <2>1, <2>2 DEF ScansInv
<1>6. RunsInv'
  <2>1. ASSUME NEW o \in Runs
        PROVE  /\ run'[o].pc # "idle" => run'[o].scan \in 1..started /\ o <= begun
               /\ run'[o].pc = "score" => run'[o].results \in Results
    <3>1. CASE o = r
      <4>1. run'[o] = next
        BY <1>1, <3>1 DEF IInv, StateType
      <4> QED BY <1>2, <3>1, <4>1 DEF StepTo
    <3>2. CASE o # r
      <4>1. run'[o] = run[o]
        BY <1>1, <3>2 DEF IInv, StateType
      <4> QED BY <4>1 DEF IInv, RunsInv, Active
    <3> QED BY <3>1, <3>2
  <2> QED BY <1>1, <2>1 DEF RunsInv, Active
<1> QED BY <1>3, <1>4, <1>5, <1>6

(* A scan that the step of r leaves as it was, or that only r is about.    *)
LEMMA StepOn ==
  ASSUME IInv, NEW r \in Runs, NEW row, NEW next, StepTo(r, row, next)
  PROVE  /\ run[r].scan \in Ids
         /\ scan'[run[r].scan] = row
         /\ \A i \in Ids : i # run[r].scan => scan'[i] = scan[i]
         /\ run'[r] = next
         /\ \A o \in Runs : o # r => run'[o] = run[o]
         /\ \A i : Mixed(i)' <=> Mixed(i)
         /\ UNCHANGED <<publishing, turn, crossed, started, begun>>
<1>1. /\ Active(r) /\ scan' = [scan EXCEPT ![run[r].scan] = row] /\ run' = [run EXCEPT ![r] = next]
      /\ UNCHANGED <<publishing, turn, crossed, started, begun>>
  BY DEF StepTo
<1>2. run[r].scan \in Ids
  BY <1>1, StartedAreIds DEF IInv, RunsInv
<1> QED BY <1>1, <1>2 DEF IInv, StateType, Mixed

LEMMA StepAlone ==
  ASSUME IInv, NEW r \in Runs, NEW row, NEW next, StepTo(r, row, next)
  PROVE  AloneInv'
<1> DEFINE s == run[r].scan
<1>1. ASSUME NEW i \in Runs, run'[i].pc # "idle", ~Mixed(run'[i].scan)
      PROVE  /\ \A o \in Runs : run'[o].pc # "idle" /\ run'[o].scan = run'[i].scan => o = i
             /\ scan'[run'[i].scan].status # "gone" =>
                  scan'[run'[i].scan].status \in ACTIVE /\ Wrote(scan'[run'[i].scan], run'[i].pc, i)
  <2>1. Active(i) /\ run'[i].scan = run[i].scan
    BY <1>1, StepOn DEF StepTo, Active
  <2>2. \A o \in Runs : run'[o].pc # "idle" => Active(o) /\ run'[o].scan = run[o].scan
    BY StepOn DEF StepTo, Active
  <2>3. /\ \A o \in Runs : Active(o) /\ run[o].scan = run[i].scan => o = i
        /\ scan[run[i].scan].status # "gone" =>
             scan[run[i].scan].status \in ACTIVE /\ Wrote(scan[run[i].scan], run[i].pc, i)
    BY <1>1, <2>1 DEF IInv, AloneInv
  <2>4. CASE i = r
    <3>1. scan'[run'[i].scan] = row /\ run'[i] = next
      BY <2>1, <2>4, StepOn
    <3>2. row.status # "gone" => row.status \in ACTIVE /\ Wrote(row, next.pc, r)
      BY <1>1, <2>3, <2>4, <3>1 DEF StepTo, Row
    <3> QED BY <2>1, <2>2, <2>3, <2>4, <3>1, <3>2
  <2>5. CASE i # r
    <3>1. run'[i] = run[i] /\ run[i].scan # run[r].scan
      BY <2>3, <2>5, StepOn DEF StepTo
    <3>2. run[i].scan \in Ids
      BY <2>1, StartedAreIds DEF IInv, RunsInv
    <3>3. scan'[run[i].scan] = scan[run[i].scan]
      BY <3>1, <3>2, StepOn
    <3> QED BY <2>1, <2>2, <2>3, <3>1, <3>3
  <2> QED BY <2>4, <2>5
<1> QED BY <1>1, StepOn DEF AloneInv, Active

(* What the step does to a scan that is not mixed.                         *)
LEMMA StepAloneOn ==
  ASSUME IInv, NEW r \in Runs, NEW row, NEW next, StepTo(r, row, next), ~Mixed(run[r].scan)
  PROVE  \/ Row(r).status = "gone" /\ row = Row(r)
         \/ /\ Row(r).status \in ACTIVE
            /\ row.status # "gone" /\ (row.status = "completed" => Whole(row))
<1>1. Active(r)
  BY DEF StepTo
<1>2. Row(r).status # "gone" => Row(r).status \in ACTIVE /\ Wrote(Row(r), run[r].pc, r)
  BY <1>1 DEF IInv, AloneInv, Row
<1> QED BY <1>2 DEF StepTo, ACTIVE

LEMMA StepShown ==
  ASSUME IInv, NEW r \in Runs, NEW row, NEW next, StepTo(r, row, next)
  PROVE  CompletedIsWhole' /\ PublishedIsFinished' /\ PublishingInv'
<1> DEFINE s == run[r].scan
<1>1. ASSUME NEW i \in Ids, scan'[i].status = "completed", ~Mixed(i)
      PROVE  Whole(scan'[i])
  <2>1. CASE i = s
    <3>1. scan'[i] = row /\ row.status = "completed"
      BY <1>1, <2>1, StepOn
    <3>2. Row(r).status # "gone"
      BY <3>1 DEF StepTo
    <3> QED BY <1>1, <2>1, <3>1, <3>2, StepAloneOn
  <2>2. CASE i # s
    BY <1>1, <2>2, StepOn DEF IInv, CompletedIsWhole, Whole
  <2> QED BY <2>1, <2>2
<1>2. ASSUME NEW i \in Ids, scan'[i].published, ~Mixed(i), <<"publication", i>> \notin crossed
      PROVE  /\ scan'[i].status = "completed" /\ scan'[i].published
             /\ scan'[i].card.by # Nobody /\ scan'[i].score # NoScore
  <2>1. CASE i = s
    <3>1. scan'[i] = row /\ row.published = Row(r).published /\ Row(r) = scan[i]
      <4>1. scan'[i] = row
        BY <2>1, StepOn
      <4>2. row.published = Row(r).published
        BY DEF StepTo
      <4> QED BY <2>1, <4>1, <4>2 DEF Row
    <3>2. scan[i].status = "completed"
      BY <1>2, <3>1 DEF IInv, PublishedIsFinished
    <3>3. FALSE
      BY <1>2, <2>1, <3>1, <3>2, StepAloneOn DEF ACTIVE
    <3> QED BY <3>3
  <2>2. CASE i # s
    BY <1>2, <2>2, StepOn DEF IInv, PublishedIsFinished, loadPublished
  <2> QED BY <2>1, <2>2
<1>3. ASSUME NEW i \in publishing, ~Mixed(i), <<"publication", i>> \notin crossed
      PROVE  scan'[i].status \in {"completed", "gone"}
  <2>1. i \in Ids /\ scan[i].status \in {"completed", "gone"}
    BY <1>3, StartedAreIds DEF IInv, PublishingInv, ScansInv
  <2>2. CASE i = s
    <3>1. Row(r).status \notin ACTIVE
      BY <2>1, <2>2 DEF Row, ACTIVE
    <3> QED BY <1>3, <2>1, <2>2, <3>1, StepOn, StepAloneOn DEF Row
  <2>3. CASE i # s
    BY <2>1, <2>3, StepOn
  <2> QED BY <2>2, <2>3
<1> QED
  BY <1>1, <1>2, <1>3, StepOn DEF CompletedIsWhole, PublishedIsFinished, PublishingInv, loadPublished, Whole

LEMMA StepKept ==
  ASSUME IInv, NEW r \in Runs, NEW row, NEW next, StepTo(r, row, next)
  PROVE  QuestionsInv' /\ InterrogationsKept'
<1>1. \A i \in Ids : /\ scan'[i].status # "gone" => scan[i].status # "gone"
                     /\ scan'[i].interactions = scan[i].interactions
  BY StepOn DEF StepTo, Row
<1>2. \A q \in Turns : turn[q].pc # "none" => turn[q].scan \in Ids
  BY StartedAreIds DEF IInv, ScansInv
<1>3. UNCHANGED <<turn, crossed>>
  BY StepOn
<1>4. QuestionsInv'
  BY <1>1, <1>2, <1>3 DEF IInv, QuestionsInv
<1>5. InterrogationsKept'
  BY <1>1, <1>2, <1>3 DEF IInv, InterrogationsKept
<1> QED BY <1>4, <1>5

(* The model and the heuristic both agree on a probe that is run, and the  *)
(* heuristic gives a tool the most powerful class its words allow.         *)
LEMMA ProbeIsSafe ==
  ASSUME NEW tools, NEW probes, NEW p \in executeSafeProbes(tools, probes)
  PROVE  /\ p.safety = "read_only"
         /\ ~ Meets(p.tool.name, EXECUTE)
         /\ ~ Meets(p.tool.name \cup p.tool.description, DESTRUCTIVE \cup OUTWARD \cup WRITE)
<1>1. p.safety = "read_only" /\ classifyAction(p.tool) = "read"
  BY DEF executeSafeProbes, isAutoProbeSafe
<1> DEFINE text == p.tool.name \cup p.tool.description
<1>2. /\ ~ Meets(p.tool.name, EXECUTE) /\ ~ Meets(text, DESTRUCTIVE)
      /\ ~ Meets(text, OUTWARD) /\ ~ Meets(text, WRITE)
  <2> HIDE DEF text
  <2>1. classifyAction(p.tool) =
          IF Meets(p.tool.name, EXECUTE) \/ Meets(text, {"shell", "exec", "eval", "arbitrary"}) THEN "execute"
          ELSE IF Meets(text, DESTRUCTIVE) THEN "destructive"
          ELSE IF Meets(text, OUTWARD) THEN "outward"
          ELSE IF Meets(text, WRITE) THEN "write"
          ELSE IF Meets(text, READ) THEN "read" ELSE "unknown"
    BY DEF classifyAction, text
  <2> QED BY <1>1, <2>1
<1> HIDE DEF text
<1>3. ~ Meets(text, DESTRUCTIVE \cup OUTWARD \cup WRITE)
  <2>1. \A A, B : text \cap (A \cup B) = (text \cap A) \cup (text \cap B)
    OBVIOUS
  <2> QED BY <1>2, <2>1 DEF Meets
<1> QED BY <1>1, <1>2, <1>3 DEF text

LEMMA ProbesStaySafe ==
  ASSUME ProbesAreSafe, NEW r \in Runs, Step(r)
  PROVE  ProbesAreSafe'
<1>1. CASE Probe(r)
  <2>1. PICK reply \in Probes \cup {{}} :
          called' = called \cup executeSafeProbes(run[r].tools, generateProbes(reply))
    BY <1>1 DEF Probe, callReadOnlyTool
  <2> QED BY <2>1, ProbeIsSafe DEF ProbesAreSafe
<1>2. CASE ~Probe(r)
  <2>1. UNCHANGED called
    BY <1>2 DEF Step, Load, setStatus, Inspect, researchVendor, Judge, Score, Complete, Fail, Failed, WriteFails,
           LoadFails, Hangs
  <2> QED BY <2>1 DEF ProbesAreSafe
<1> QED BY <1>1, <1>2

LEMMA StepNext == ASSUME IInv, NEW r \in Runs, Step(r) PROVE IInv'
<1>1. PICK row, next : StepTo(r, row, next)
  BY EveryStepTo DEF IInv
<1>2. ProbesAreSafe'
  BY ProbesStaySafe DEF IInv
<1>3. StateType' /\ SettingsType' /\ ScansInv' /\ RunsInv'
  BY <1>1, StepTypes
<1>4. AloneInv' /\ CompletedIsWhole' /\ PublishedIsFinished' /\ PublishingInv'
  BY <1>1, StepAlone, StepShown
<1>5. QuestionsInv' /\ InterrogationsKept'
  BY <1>1, StepKept
<1> QED BY <1>2, <1>3, <1>4, <1>5 DEF IInv

-----------------------------------------------------------------------------
(* The other actions *)

(* The settings and the pages: nothing else in the invariant moves.        *)
LEMMA NothingMoves ==
  ASSUME IInv, SettingsType', UNCHANGED <<scan, run, publishing, turn, called, crossed, started, begun>>
  PROVE  IInv'
<1>1. StateType' /\ ScansInv' /\ RunsInv' /\ AloneInv'
  BY DEF IInv, StateType, ScansInv, RunsInv, AloneInv, Active, Mixed
<1>2. PublishingInv' /\ QuestionsInv' /\ ProbesAreSafe'
  BY DEF IInv, PublishingInv, QuestionsInv, ProbesAreSafe, Mixed
<1>3. CompletedIsWhole' /\ PublishedIsFinished' /\ InterrogationsKept'
  BY DEF IInv, CompletedIsWhole, PublishedIsFinished, InterrogationsKept, loadPublished, Mixed
<1> QED BY <1>1, <1>2, <1>3 DEF IInv

LEMMA SettingsNext == ASSUME IInv, Settings PROVE IInv'
<1>1. UNCHANGED <<scan, run, publishing, turn, called, crossed, started, begun>>
  BY DEF Settings, ChangeSecret, saveCredential, deleteCredential, saveClause, deleteClause, toggleClause, Edit
<1>2. SettingsType
  BY DEF IInv
<1>3. CASE ChangeSecret
  <2>1. secret' = secret + 1 /\ UNCHANGED <<credentials, clauses>>
    BY <1>3 DEF ChangeSecret
  <2>2. 1..secret \subseteq 1..secret'
    BY <1>2, <2>1 DEF SettingsType
  <2>3. credentials \in Seq(1..secret')
    BY <1>2, <2>2, SeqMonotonic DEF SettingsType
  <2>4. SettingsType'
    BY <1>2, <2>1, <2>3 DEF SettingsType
  <2> QED BY <1>1, <2>4, NothingMoves
<1>4. CASE saveCredential
  <2>1. credentials' = Append(credentials, secret) /\ UNCHANGED <<secret, clauses>>
    BY <1>4 DEF saveCredential
  <2>2. secret \in 1..secret
    BY <1>2 DEF SettingsType
  <2>3. credentials' \in Seq(1..secret)
    BY <1>2, <2>1, <2>2 DEF SettingsType
  <2>4. SettingsType'
    BY <1>2, <2>1, <2>3 DEF SettingsType
  <2> QED BY <1>1, <2>4, NothingMoves
<1>5. ASSUME NEW i \in DOMAIN credentials, deleteCredential(i) PROVE IInv'
  <2>1. credentials' = RemoveAt(credentials, i) /\ UNCHANGED <<secret, clauses>>
    BY <1>5 DEF deleteCredential
  <2>2. credentials' = SubSeq(credentials, 1, i - 1) \o SubSeq(credentials, i + 1, Len(credentials))
    BY <2>1 DEF RemoveAt
  <2>3. credentials \in Seq(1..secret) /\ i \in 1..Len(credentials)
    BY <1>2, <1>5 DEF SettingsType
  <2>4. SubSeq(credentials, 1, i - 1) \in Seq(1..secret)
        /\ SubSeq(credentials, i + 1, Len(credentials)) \in Seq(1..secret)
    <3>1. \A j \in 1..Len(credentials) : credentials[j] \in 1..secret
      BY <2>3, ElementOfSeq
    <3>2. Len(credentials) \in Nat /\ i - 1 \in Int /\ i + 1 \in Int
      BY <2>3
    <3>3. /\ \A j \in 1..(i - 1) : credentials[j] \in 1..secret
          /\ \A j \in (i + 1)..Len(credentials) : credentials[j] \in 1..secret
      BY <2>3, <3>1, <3>2
    <3>4. 1 \in Int /\ Len(credentials) \in Int
      BY <3>2
    <3>5. SubSeq(credentials, 1, i - 1) \in Seq(1..secret)
      BY <3>2, <3>3, SubSeqProperties
    <3>6. SubSeq(credentials, i + 1, Len(credentials)) \in Seq(1..secret)
      BY <3>2, <3>3, <3>4, SubSeqProperties
    <3> QED BY <3>5, <3>6
  <2>5. credentials' \in Seq(1..secret)
    BY <2>2, <2>4
  <2>6. SettingsType'
    BY <1>2, <2>1, <2>5 DEF SettingsType
  <2> QED BY <1>1, <2>6, NothingMoves
<1>6. CASE \E c \in DOMAIN Clauses :
             saveClause(c) \/ deleteClause(c) \/ \E enabled \in BOOLEAN : toggleClause(c, enabled)
  <2>1. SettingsType'
    BY <1>2, <1>6 DEF SettingsType, saveClause, deleteClause, toggleClause
  <2> QED BY <1>1, <2>1, NothingMoves
<1> QED BY <1>3, <1>4, <1>5, <1>6 DEF Settings

LEMMA RefreshNext == ASSUME IInv, NEW t \in Tabs, Refresh(t) PROVE IInv'
<1>1. UNCHANGED <<secret, credentials, clauses, scan, run, publishing, turn, called, crossed, started, begun>>
  BY DEF Refresh, Unedited
<1>2. SettingsType'
  BY <1>1 DEF IInv, SettingsType
<1> QED BY <1>1, <1>2, NothingMoves

LEMMA RestartNext == ASSUME IInv, Restart PROVE IInv'
<1>1. /\ run' = [r \in Runs |-> Idle] /\ publishing' = {}
      /\ turn' = [q \in Turns |-> IF turn[q].pc = "asked" THEN [turn[q] EXCEPT !.pc = "failed", !.prior = {}]
                                  ELSE turn[q]]
      /\ UNCHANGED <<secret, credentials, clauses, scan, called, crossed, started, begun>>
  BY DEF Restart, Unedited
<1>2. turn' \in [Turns -> TurnRecords]
      /\ \A q \in Turns : /\ turn'[q].pc # "asked" /\ turn'[q].scan = turn[q].scan
                          /\ turn'[q].pc # "none" => turn[q].pc # "none"
                          /\ turn'[q].pc = "answered" => turn[q].pc = "answered"
  <2>1. turn \in [Turns -> TurnRecords]
    BY DEF IInv, StateType
  <2>2. ASSUME NEW q \in Turns
        PROVE  /\ turn'[q] \in TurnRecords /\ turn'[q].pc # "asked" /\ turn'[q].scan = turn[q].scan
               /\ turn'[q].pc # "none" => turn[q].pc # "none"
               /\ turn'[q].pc = "answered" => turn[q].pc = "answered"
    <3>1. CASE turn[q].pc = "asked"
      <4>1. turn'[q] = [turn[q] EXCEPT !.pc = "failed", !.prior = {}]
        BY <1>1, <3>1
      <4> QED BY <2>1, <3>1, <4>1 DEF TurnRecords
    <3>2. CASE turn[q].pc # "asked"
      <4>1. turn'[q] = turn[q]
        BY <1>1, <3>2
      <4> QED BY <2>1, <3>2, <4>1
    <3> QED BY <3>1, <3>2
  <2>3. turn' \in [Turns -> TurnRecords]
    <3>1. turn' = [q \in Turns |-> turn'[q]]
      BY <1>1
    <3> QED BY <2>2, <3>1
  <2> QED BY <2>2, <2>3
<1>3. StateType' /\ SettingsType'
  BY <1>1, <1>2, IdleType DEF IInv, StateType, SettingsType
<1>4. \A r \in Runs : ~Active(r)' /\ run'[r].pc = "idle"
  BY <1>1 DEF Active, Idle
<1>5. ScansInv' /\ RunsInv' /\ AloneInv'
  <2>1. ScansInv'
    BY <1>1, <1>2 DEF IInv, ScansInv
  <2>2. RunsInv'
    BY <1>4 DEF RunsInv
  <2>3. AloneInv'
    BY <1>4 DEF AloneInv
  <2> QED BY <2>1, <2>2, <2>3
<1>6. PublishingInv' /\ QuestionsInv' /\ ProbesAreSafe'
  BY <1>1, <1>2 DEF IInv, PublishingInv, QuestionsInv, ProbesAreSafe
<1>7. CompletedIsWhole' /\ PublishedIsFinished'
  BY <1>1 DEF IInv, CompletedIsWhole, PublishedIsFinished, loadPublished, Mixed
<1>8. InterrogationsKept'
  BY <1>1, <1>2 DEF IInv, InterrogationsKept
<1> QED BY <1>3, <1>5, <1>6, <1>7, <1>8 DEF IInv

(* Of one row only its publication or its questions change.                *)
LEMMA RowKeeps ==
  ASSUME IInv, NEW s \in Ids, NEW row \in RowRecords, scan[s].status # "gone",
         row.status = scan[s].status, row.tools = scan[s].tools, row.research = scan[s].research,
         row.probes = scan[s].probes, row.controls = scan[s].controls,
         row.card = scan[s].card, row.score = scan[s].score,
         scan' = [scan EXCEPT ![s] = row],
         UNCHANGED <<secret, credentials, clauses, run, called, crossed, started, begun>>
  PROVE  /\ scan'[s] = row /\ \A i \in Ids : i # s => scan'[i] = scan[i]
         /\ scan' \in [Ids -> RowRecords] /\ SettingsType' /\ RunsInv' /\ AloneInv' /\ ProbesAreSafe'
         /\ CompletedIsWhole'
         /\ \A i \in Ids :
              /\ scan'[i].status = "gone" => scan'[i] = Gone
              /\ i > started => scan'[i].status = "gone"
              /\ {scan'[i].tools, scan'[i].research, scan'[i].probes, scan'[i].controls, scan'[i].card.by}
                   \subseteq 0..begun
         /\ \A i : Mixed(i)' <=> Mixed(i)
<1>1. /\ scan'[s] = row /\ \A i \in Ids : i # s => scan'[i] = scan[i]
      /\ scan' \in [Ids -> RowRecords]
  BY DEF IInv, StateType
<1>2. \A i \in Ids :
        /\ scan'[i].status = scan[i].status /\ scan'[i].tools = scan[i].tools
        /\ scan'[i].research = scan[i].research /\ scan'[i].probes = scan[i].probes
        /\ scan'[i].controls = scan[i].controls /\ scan'[i].card = scan[i].card
        /\ scan'[i].score = scan[i].score
        /\ scan[i].status = "gone" => scan'[i] = scan[i]
  BY <1>1
<1>3. \A i : Mixed(i)' <=> Mixed(i)
  BY DEF Mixed
<1>4. SettingsType' /\ RunsInv' /\ ProbesAreSafe'
  BY DEF IInv, SettingsType, RunsInv, Active, ProbesAreSafe
<1>5. AloneInv'
  <2>1. \A r \in Runs : run[r].pc # "idle" => run[r].scan \in Ids
    BY StartedAreIds DEF IInv, RunsInv, Active
  <2>2. ASSUME NEW i \in Ids, NEW pc, NEW r
        PROVE  Wrote(scan'[i], pc, r) <=> Wrote(scan[i], pc, r)
    BY <1>2 DEF Wrote
  <2> QED BY <1>2, <1>3, <2>1, <2>2 DEF IInv, AloneInv, Active
<1>6. CompletedIsWhole'
  BY <1>2, <1>3 DEF IInv, CompletedIsWhole
<1>7. \A i \in Ids :
              /\ scan'[i].status = "gone" => scan'[i] = Gone
              /\ i > started => scan'[i].status = "gone"
              /\ {scan'[i].tools, scan'[i].research, scan'[i].probes, scan'[i].controls, scan'[i].card.by}
                   \subseteq 0..begun
  BY <1>2 DEF IInv, ScansInv
<1> QED BY <1>1, <1>3, <1>4, <1>5, <1>6, <1>7

(* The publication of a row, on or off: on only where it may be.           *)
LEMMA PublicationNext ==
  ASSUME IInv, NEW s \in Ids, NEW b \in BOOLEAN, scan[s].status # "gone",
         b /\ ~Mixed(s) /\ <<"publication", s>> \notin crossed => scan[s].status = "completed",
         scan' = [scan EXCEPT ![s].published = b], publishing' \subseteq publishing,
         UNCHANGED <<secret, credentials, clauses, run, turn, called, crossed, started, begun>>
  PROVE  IInv'
<1> DEFINE row == [scan[s] EXCEPT !.published = b]
<1>1. scan' = [scan EXCEPT ![s] = row]
  OBVIOUS
<1>2. /\ row \in RowRecords /\ row.published = b
      /\ row.status = scan[s].status /\ row.tools = scan[s].tools /\ row.research = scan[s].research
      /\ row.probes = scan[s].probes /\ row.controls = scan[s].controls
      /\ row.card = scan[s].card /\ row.score = scan[s].score /\ row.interactions = scan[s].interactions
  <2>1. scan[s] \in RowRecords
    BY DEF IInv, StateType
  <2> QED BY <2>1 DEF RowRecords
<1> HIDE DEF row
<1>3. /\ scan'[s] = row /\ \A i \in Ids : i # s => scan'[i] = scan[i]
      /\ scan' \in [Ids -> RowRecords] /\ SettingsType' /\ RunsInv' /\ AloneInv' /\ ProbesAreSafe'
      /\ CompletedIsWhole'
      /\ \A i : Mixed(i)' <=> Mixed(i)
  BY <1>1, <1>2, RowKeeps
<1>4. \A i \in Ids :
              /\ scan'[i].status = "gone" => scan'[i] = Gone
              /\ i > started => scan'[i].status = "gone"
              /\ {scan'[i].tools, scan'[i].research, scan'[i].probes, scan'[i].controls, scan'[i].card.by}
                   \subseteq 0..begun
  BY <1>1, <1>2, RowKeeps
<1>5. StateType' /\ ScansInv'
  BY <1>3, <1>4 DEF IInv, StateType, ScansInv
<1>6. \A i \in Ids : scan'[i].status = scan[i].status /\ scan'[i].interactions = scan[i].interactions
  BY <1>2, <1>3
<1>7. PublishedIsFinished'
  <2>1. ASSUME NEW i \in Ids, scan'[i].published, ~Mixed(i), <<"publication", i>> \notin crossed
        PROVE  scan'[i].status = "completed" /\ scan'[i].published /\ scan'[i].card.by # Nobody
               /\ scan'[i].score # NoScore
    <3>1. CASE i = s
      <4>1. scan'[i].status = "completed"
        BY <1>2, <1>3, <2>1, <3>1
      <4> QED BY <1>3, <2>1, <4>1 DEF CompletedIsWhole
    <3>2. CASE i # s
      BY <1>3, <2>1, <3>2 DEF IInv, PublishedIsFinished, loadPublished
    <3> QED BY <3>1, <3>2
  <2> QED BY <1>3, <2>1 DEF PublishedIsFinished, loadPublished
<1>8. PublishingInv'
  <2>1. publishing \subseteq Ids
    BY StartedAreIds DEF IInv, ScansInv
  <2> QED BY <1>3, <1>6, <2>1 DEF IInv, PublishingInv
<1>9. QuestionsInv' /\ InterrogationsKept'
  <2>1. \A q \in Turns : turn[q].pc # "none" => turn[q].scan \in Ids
    BY StartedAreIds DEF IInv, ScansInv
  <2>2. QuestionsInv'
    BY <1>6, <2>1 DEF IInv, QuestionsInv
  <2>3. InterrogationsKept'
    BY <1>6, <2>1 DEF IInv, InterrogationsKept
  <2> QED BY <2>2, <2>3
<1> QED BY <1>3, <1>5, <1>7, <1>8, <1>9 DEF IInv

LEMMA PublishedNext == ASSUME IInv, NEW s \in Ids, Published(s) PROVE IInv'
<1>1. /\ s \in publishing /\ publishing' = publishing \ {s}
      /\ UNCHANGED <<secret, credentials, clauses, run, turn, called, crossed, started, begun>>
  BY DEF Published, Unedited
<1>2. CASE scan[s].status = "gone"
  <2>1. UNCHANGED scan
    BY <1>2 DEF Published
  <2>2. StateType' /\ SettingsType' /\ ScansInv' /\ RunsInv' /\ AloneInv'
    BY <1>1, <2>1 DEF IInv, StateType, SettingsType, ScansInv, RunsInv, AloneInv, Active, Mixed
  <2>3. PublishingInv' /\ QuestionsInv' /\ ProbesAreSafe'
    BY <1>1, <2>1 DEF IInv, PublishingInv, QuestionsInv, ProbesAreSafe, Mixed
  <2>4. CompletedIsWhole' /\ PublishedIsFinished' /\ InterrogationsKept'
    BY <1>1, <2>1 DEF IInv, CompletedIsWhole, PublishedIsFinished, InterrogationsKept, loadPublished, Mixed
  <2> QED BY <2>2, <2>3, <2>4 DEF IInv
<1>3. CASE scan[s].status # "gone"
  <2>1. scan' = [scan EXCEPT ![s].published = TRUE]
    BY <1>3 DEF Published
  <2>2. ~Mixed(s) /\ <<"publication", s>> \notin crossed => scan[s].status = "completed"
    BY <1>1, <1>3 DEF IInv, PublishingInv
  <2>3. publishing' \subseteq publishing
    BY <1>1
  <2> QED BY <1>1, <1>3, <2>1, <2>2, <2>3, PublicationNext
<1> QED BY <1>2, <1>3

LEMMA UnpublishNext == ASSUME IInv, NEW t \in Tabs, NEW s \in Ids, unpublishScan(t, s) PROVE IInv'
<1>1. /\ scan[s].status # "gone" /\ scan' = [scan EXCEPT ![s].published = FALSE]
      /\ UNCHANGED <<secret, credentials, clauses, run, publishing, turn, called, crossed, started, begun>>
  BY DEF unpublishScan, Unedited
<1>2. publishing' \subseteq publishing
  BY <1>1
<1> QED BY <1>1, <1>2, PublicationNext

LEMMA PublishNext == ASSUME IInv, NEW t \in Tabs, NEW s \in Ids, publishScan(t, s) PROVE IInv'
<1>1. /\ scan[s].status = "completed" /\ publishing' = publishing \cup {s}
      /\ UNCHANGED <<secret, credentials, clauses, scan, run, turn, called, crossed, started, begun>>
  BY DEF publishScan, Unedited
<1>2. s \in 1..started
  BY <1>1 DEF IInv, StateType, ScansInv, Ids
<1>3. StateType' /\ SettingsType' /\ ScansInv' /\ RunsInv' /\ AloneInv'
  BY <1>1, <1>2 DEF IInv, StateType, SettingsType, ScansInv, RunsInv, AloneInv, Active, Mixed
<1>4. PublishingInv' /\ QuestionsInv' /\ ProbesAreSafe'
  BY <1>1 DEF IInv, PublishingInv, QuestionsInv, ProbesAreSafe, Mixed
<1>5. CompletedIsWhole' /\ PublishedIsFinished' /\ InterrogationsKept'
  BY <1>1 DEF IInv, CompletedIsWhole, PublishedIsFinished, InterrogationsKept, loadPublished, Mixed
<1> QED BY <1>3, <1>4, <1>5 DEF IInv

LEMMA GoneType == Gone \in RowRecords
<1>1. NoScore \in [overall : Overalls, grade : Grades]
  BY DEF NoScore, Overalls, Grades
<1>2. 0 \in Numbers
  BY BoundsAssumption DEF Numbers
<1> QED BY <1>1, <1>2 DEF Gone, RowRecords, Statuses, NoCard, Nobody

LEMMA DeleteNext == ASSUME IInv, NEW t \in Tabs, NEW s \in Ids, deleteScan(t, s) PROVE IInv'
<1>1. /\ scan' = [scan EXCEPT ![s] = Gone]
      /\ UNCHANGED <<secret, credentials, clauses, run, publishing, turn, called, crossed, started, begun>>
  BY DEF deleteScan, Unedited
<1>2. scan'[s] = Gone /\ \A i \in Ids : i # s => scan'[i] = scan[i]
  BY <1>1 DEF IInv, StateType
<1>3. Gone.status = "gone" /\ ~Gone.published
      /\ {Gone.tools, Gone.research, Gone.probes, Gone.controls, Gone.card.by} \subseteq 0..begun
  BY DEF Gone, NoCard, Nobody, IInv, StateType
<1>4. \A q \in Turns : turn[q].pc # "none" => turn[q].scan \in Ids
  BY StartedAreIds DEF IInv, ScansInv
<1>5. \A r \in Runs : run[r].pc # "idle" => run[r].scan \in Ids
  BY StartedAreIds DEF IInv, RunsInv, Active
<1>6. publishing \subseteq Ids
  BY StartedAreIds DEF IInv, ScansInv
<1>7. StateType' /\ SettingsType'
  BY <1>1, GoneType DEF IInv, StateType, SettingsType
<1>8. ScansInv' /\ RunsInv'
  BY <1>1, <1>2, <1>3 DEF IInv, ScansInv, RunsInv, Active
<1>9. AloneInv'
  BY <1>1, <1>2, <1>3, <1>5 DEF IInv, AloneInv, Active, Mixed
<1>10. PublishingInv' /\ ProbesAreSafe'
  BY <1>1, <1>2, <1>3, <1>6 DEF IInv, PublishingInv, ProbesAreSafe, Mixed
<1>11. QuestionsInv' /\ InterrogationsKept'
  <2>1. \A i \in Ids : scan'[i].status # "gone" => scan'[i] = scan[i]
    BY <1>2, <1>3
  <2>2. \A q \in Turns : turn[q].pc # "none" /\ scan'[turn[q].scan].status # "gone" =>
          scan'[turn[q].scan] = scan[turn[q].scan]
    BY <1>4, <2>1
  <2>3. turn' = turn /\ crossed' = crossed
    BY <1>1
  <2>4. QuestionsInv'
    BY <2>2, <2>3 DEF IInv, QuestionsInv
  <2>5. InterrogationsKept'
    BY <2>2, <2>3 DEF IInv, InterrogationsKept
  <2> QED BY <2>4, <2>5
<1>12. CompletedIsWhole' /\ PublishedIsFinished'
  BY <1>1, <1>2, <1>3 DEF IInv, CompletedIsWhole, PublishedIsFinished, loadPublished, Mixed
<1> QED BY <1>7, <1>8, <1>9, <1>10, <1>11, <1>12 DEF IInv

(* A run begins: no other run of the scan goes on, or the two are marked   *)
(* as mixed, and so is a publication that found the scan complete.         *)
LEMMA BeginNext ==
  ASSUME IInv, NEW s \in Ids, NEW row \in RowRecords, Begins(s),
         scan' = [scan EXCEPT ![s] = row],
         row.status = "pending", ~row.published,
         {row.tools, row.research, row.probes, row.controls, row.card.by} \subseteq 0..begun,
         started' \in started..MaxScans, s <= started',
         scan[s].status # "gone" => row.interactions = scan[s].interactions,
         scan[s].status = "gone" => s > started,
         crossed \subseteq crossed',
         <<"runs", s>> \in crossed' \/ \A r \in Runs : ~(run[r].scan = s /\ Active(r)),
         <<"publication", s>> \in crossed' \/ s \notin publishing,
         UNCHANGED <<secret, credentials, clauses, publishing, turn, called>>
  PROVE  IInv'
<1> DEFINE n == begun + 1
           new == [Idle EXCEPT !.pc = "load", !.scan = s]
<1>1. /\ begun' = n /\ n \in Runs /\ begun' \in 0..MaxRuns /\ begun < begun'
      /\ run' = [run EXCEPT ![n] = new]
  BY BoundsAssumption DEF Begins, IInv, StateType, Runs
<1>2. new \in RunRecords /\ new.pc = "load" /\ new.scan = s
  <2>1. s \in 0..MaxScans
    BY BoundsAssumption DEF Ids
  <2> QED BY IdleType, <2>1 DEF Idle, RunRecords
<1> HIDE DEF new
<1>3. /\ run'[n] = new /\ \A r \in Runs : r # n => run'[r] = run[r]
      /\ scan'[s] = row /\ \A i \in Ids : i # s => scan'[i] = scan[i]
  BY <1>1 DEF IInv, StateType
<1>4. 1..started \subseteq 1..started' /\ s \in 1..started' /\ 0..begun \subseteq 0..begun'
  BY <1>1 DEF IInv, StateType, Ids
<1>5. \A r \in Runs : Active(r) => run[r].scan \in Ids /\ run[r].scan \in 1..started /\ r # n /\ r <= begun'
  BY <1>1, StartedAreIds DEF IInv, RunsInv, StateType, Runs
<1>6. publishing \subseteq Ids /\ \A q \in Turns : turn[q].pc # "none" => turn[q].scan \in Ids
  BY StartedAreIds DEF IInv, ScansInv
<1>7. StateType' /\ SettingsType'
  BY <1>1, <1>2 DEF IInv, StateType, SettingsType, Ids
<1>8. ScansInv'
  <2>1. ASSUME NEW i \in Ids
        PROVE  /\ scan'[i].status = "gone" => scan'[i] = Gone
               /\ i > started' => scan'[i].status = "gone"
               /\ {scan'[i].tools, scan'[i].research, scan'[i].probes, scan'[i].controls, scan'[i].card.by}
                    \subseteq 0..begun'
    <3>1. CASE i = s
      <4>1. ~(s > started')
        BY <1>4
      <4> QED BY <1>3, <1>4, <3>1, <4>1
    <3>2. CASE i # s
      <4>1. scan'[i] = scan[i]
        BY <1>3, <3>2
      <4>2. i > started' => i > started
        BY DEF IInv, StateType, Ids
      <4> QED BY <1>4, <4>1, <4>2 DEF IInv, ScansInv
    <3> QED BY <3>1, <3>2
  <2>2. publishing' \subseteq 1..started'
    BY <1>4 DEF IInv, ScansInv
  <2>3. \A q \in Turns : turn'[q].pc # "none" => turn'[q].scan \in 1..started'
    BY <1>4 DEF IInv, ScansInv
  <2> QED BY <2>1, <2>2, <2>3 DEF ScansInv
<1>9. RunsInv'
  <2>1. ASSUME NEW r \in Runs
        PROVE  /\ run'[r].pc # "idle" => run'[r].scan \in 1..started' /\ r <= begun'
               /\ run'[r].pc = "score" => run'[r].results \in Results
    <3>1. CASE r = n
      <4>1. r <= begun' /\ run'[r].pc = "load" /\ run'[r].scan = s
        BY <1>1, <1>2, <1>3, <3>1 DEF IInv, StateType
      <4> QED BY <1>4, <4>1
    <3>2. CASE r # n
      BY <1>3, <1>4, <1>5, <3>2 DEF IInv, RunsInv, Active
    <3> QED BY <3>1, <3>2
  <2> QED BY <2>1 DEF RunsInv, Active
<1>10. AloneInv'
  <2>1. ASSUME NEW i \in Runs, run'[i].pc # "idle", <<"runs", run'[i].scan>> \notin crossed'
        PROVE  /\ \A o \in Runs : run'[o].pc # "idle" /\ run'[o].scan = run'[i].scan => o = i
               /\ scan'[run'[i].scan].status # "gone" =>
                    scan'[run'[i].scan].status \in ACTIVE /\ Wrote(scan'[run'[i].scan], run'[i].pc, i)
    <3>1. CASE i = n
      <4>1. run'[i].scan = s /\ run'[i].pc = "load"
        BY <1>2, <1>3, <3>1
      <4>2. \A o \in Runs : o # n => ~(run'[o].scan = s /\ run'[o].pc # "idle")
        BY <1>3, <2>1, <4>1 DEF Active
      <4>3. Wrote(row, "load", i)
        BY DEF Wrote, HasTools, HasResearch, HasProbes, HasControls, Steps
      <4>4. row.status \in ACTIVE
        BY DEF ACTIVE
      <4> QED BY <1>3, <3>1, <4>1, <4>2, <4>3, <4>4
    <3>2. CASE i # n
      <4>1. run'[i] = run[i] /\ Active(i)
        BY <1>3, <2>1, <3>2 DEF Active
      <4>2. run[i].scan # s
        BY <2>1, <4>1
      <4>3. \A o \in Runs : run'[o].pc # "idle" /\ run'[o].scan = run'[i].scan => o # n /\ run'[o] = run[o]
        BY <1>2, <1>3, <4>1, <4>2
      <4>4. scan'[run[i].scan] = scan[run[i].scan]
        BY <1>3, <1>5, <4>1, <4>2
      <4>5. ~Mixed(run[i].scan)
        BY <2>1, <4>1 DEF Mixed
      <4>6. /\ \A o \in Runs : Active(o) /\ run[o].scan = run[i].scan => o = i
            /\ scan[run[i].scan].status # "gone" =>
                 scan[run[i].scan].status \in ACTIVE /\ Wrote(scan[run[i].scan], run[i].pc, i)
        BY <4>1, <4>5 DEF IInv, AloneInv
      <4> QED BY <4>1, <4>3, <4>4, <4>6 DEF Active
    <3> QED BY <3>1, <3>2
  <2> QED BY <2>1 DEF AloneInv, Active, Mixed
<1>11. PublishingInv'
  BY <1>3, <1>6 DEF IInv, PublishingInv, Mixed
<1>12. CompletedIsWhole' /\ PublishedIsFinished'
  <2>1. ASSUME NEW i \in Ids, i # s
        PROVE  scan'[i] = scan[i] /\ (Mixed(i) => Mixed(i)')
    BY <1>3, <2>1 DEF Mixed
  <2>2. scan'[s].status = "pending" /\ ~scan'[s].published
    BY <1>3
  <2>3. CompletedIsWhole'
    BY <2>1, <2>2 DEF IInv, CompletedIsWhole
  <2>4. ASSUME NEW i \in Ids, i # s
        PROVE  <<"publication", i>> \in crossed => <<"publication", i>> \in crossed'
    BY <1>3
  <2>5. ASSUME NEW i \in Ids, i # s, scan'[i].published, ~Mixed(i)', <<"publication", i>> \notin crossed'
        PROVE  scan'[i].status = "completed" /\ loadPublished(i)' /\ scan'[i].score # NoScore
    <3>1. scan[i].status = "completed" /\ loadPublished(i) /\ scan[i].score # NoScore
      BY <2>1, <2>4, <2>5 DEF IInv, PublishedIsFinished
    <3> QED BY <2>1, <2>5, <3>1 DEF loadPublished
  <2> QED BY <2>2, <2>3, <2>5 DEF PublishedIsFinished
<1>13. \A q \in Turns : turn[q].pc # "none" /\ scan'[turn[q].scan].status # "gone" =>
           /\ scan[turn[q].scan].status # "gone"
           /\ scan'[turn[q].scan].interactions = scan[turn[q].scan].interactions
  <2>1. ASSUME NEW q \in Turns, turn[q].pc # "none"
        PROVE  scan'[turn[q].scan].status # "gone" =>
                 /\ scan[turn[q].scan].status # "gone"
                 /\ scan'[turn[q].scan].interactions = scan[turn[q].scan].interactions
    <3>1. turn[q].scan \in 1..started /\ turn[q].scan \in Ids
      BY <1>6, <2>1 DEF IInv, ScansInv
    <3>2. CASE turn[q].scan = s
      <4>1. ~(s > started)
        BY <3>1, <3>2 DEF IInv, StateType
      <4> QED BY <1>3, <3>2, <4>1
    <3>3. CASE turn[q].scan # s
      BY <1>3, <3>1, <3>3
    <3> QED BY <3>2, <3>3
  <2> QED BY <2>1
<1>14. QuestionsInv' /\ InterrogationsKept'
  <2>1. QuestionsInv'
    BY <1>13 DEF IInv, QuestionsInv
  <2>2. InterrogationsKept'
    BY <1>13 DEF IInv, InterrogationsKept
  <2> QED BY <2>1, <2>2
<1>15. ProbesAreSafe'
  BY DEF IInv, ProbesAreSafe
<1> QED BY <1>7, <1>8, <1>9, <1>10, <1>11, <1>12, <1>14, <1>15 DEF IInv

LEMMA StartNext == ASSUME IInv, NEW t \in Tabs, NEW s \in Ids, startScan(t, s) PROVE IInv'
<1> DEFINE row == [Gone EXCEPT !.status = "pending"]
<1>1. /\ s = started + 1 /\ started' = s /\ scan' = [scan EXCEPT ![s] = row] /\ Begins(s)
      /\ UNCHANGED <<secret, credentials, clauses, publishing, turn, called, crossed>>
  BY DEF startScan, Unedited
<1>2. /\ row \in RowRecords /\ row.status = "pending" /\ ~row.published
      /\ row.tools = Nobody /\ row.research = Nobody /\ row.probes = Nobody /\ row.controls = Nobody
      /\ row.card.by = Nobody
  <2>1. row \in RowRecords
    BY GoneType DEF RowRecords, Statuses, ACTIVE
  <2> QED BY <2>1 DEF Gone, NoCard
<1> HIDE DEF row
<1>3. {row.tools, row.research, row.probes, row.controls, row.card.by} \subseteq 0..begun
  BY <1>2 DEF Nobody, IInv, StateType
<1>4. started' \in started..MaxScans /\ s <= started' /\ s > started
  BY <1>1 DEF IInv, StateType, Ids
<1>5. s \notin 1..started
  BY <1>4 DEF IInv, StateType
<1>6. scan[s].status = "gone" /\ s \notin publishing /\ \A r \in Runs : ~(run[r].scan = s /\ Active(r))
  BY <1>4, <1>5 DEF IInv, ScansInv, RunsInv
<1>7. crossed \subseteq crossed'
  BY <1>1
<1> QED BY <1>1, <1>2, <1>3, <1>4, <1>6, <1>7, BeginNext

LEMMA RescanNext == ASSUME IInv, NEW t \in Tabs, NEW s \in Ids, rescan(t, s) PROVE IInv'
<1> DEFINE row == Requeued(scan[s])
<1>1. /\ scan[s].status # "gone" /\ scan' = [scan EXCEPT ![s] = row] /\ Begins(s)
      /\ crossed' = crossed \cup Crossings(s)
      /\ UNCHANGED <<secret, credentials, clauses, publishing, turn, called, started>>
  BY DEF rescan, Unedited
<1>2. /\ row \in RowRecords /\ row.status = "pending" /\ ~row.published
      /\ row.tools = scan[s].tools /\ row.research = scan[s].research /\ row.probes = scan[s].probes
      /\ row.controls = scan[s].controls /\ row.card = scan[s].card
      /\ row.interactions = scan[s].interactions
  <2>1. scan[s] \in RowRecords
    BY DEF IInv, StateType
  <2>2. NoScore \in [overall : Overalls, grade : Grades]
    BY DEF NoScore, Overalls, Grades
  <2> QED BY <2>1, <2>2 DEF Requeued, RowRecords, Statuses, ACTIVE
<1> HIDE DEF row
<1>3. {row.tools, row.research, row.probes, row.controls, row.card.by} \subseteq 0..begun
  BY <1>2 DEF IInv, ScansInv
<1>4. started' \in started..MaxScans /\ s <= started'
  BY <1>1 DEF IInv, StateType, ScansInv, Ids
<1>5. /\ <<"runs", s>> \in crossed' \/ \A r \in Runs : ~(run[r].scan = s /\ Active(r))
      /\ <<"publication", s>> \in crossed' \/ s \notin publishing
      /\ crossed \subseteq crossed'
  BY <1>1 DEF Crossings, Active
<1> QED BY <1>1, <1>2, <1>3, <1>4, <1>5, BeginNext

(* A question: what the row says is carried over, and where another of the *)
(* scan is being answered, both are marked.                                *)
LEMMA InterrogateNext ==
  ASSUME IInv, NEW t \in Tabs, NEW s \in Ids, NEW q \in Turns, interrogate(t, s, q) PROVE IInv'
<1> DEFINE new == [pc |-> "asked", scan |-> s, prior |-> scan[s].interactions]
<1>1. /\ scan[s].status # "gone" /\ turn[q].pc = "none" /\ turn' = [turn EXCEPT ![q] = new]
      /\ crossed' = crossed \cup (IF Asking(s) = {} THEN {} ELSE {<<"turn", p>> : p \in Asking(s) \cup {q}})
      /\ UNCHANGED <<secret, credentials, clauses, scan, run, publishing, called, started, begun>>
  BY DEF interrogate
<1>2. new \in TurnRecords /\ new.pc = "asked" /\ new.scan = s /\ new.prior = scan[s].interactions
  <2>1. s \in 0..MaxScans
    BY BoundsAssumption DEF Ids
  <2>2. scan[s].interactions \in SUBSET Turns
    BY DEF IInv, StateType, RowRecords
  <2> QED BY <2>1, <2>2 DEF TurnRecords
<1> HIDE DEF new
<1>3. turn'[q] = new /\ \A p \in Turns : p # q => turn'[p] = turn[p]
  BY <1>1 DEF IInv, StateType
<1>4. crossed \subseteq crossed' /\ s \in 1..started
  BY <1>1 DEF IInv, StateType, ScansInv, Ids
<1>5. StateType' /\ SettingsType'
  BY <1>1, <1>2 DEF IInv, StateType, SettingsType
<1>6. ScansInv' /\ RunsInv'
  BY <1>1, <1>2, <1>3, <1>4 DEF IInv, ScansInv, RunsInv, Active
<1>7. AloneInv' /\ PublishingInv' /\ ProbesAreSafe'
  BY <1>1, <1>4 DEF IInv, AloneInv, PublishingInv, ProbesAreSafe, Active, Mixed
<1>8. CompletedIsWhole' /\ PublishedIsFinished'
  BY <1>1, <1>4 DEF IInv, CompletedIsWhole, PublishedIsFinished, loadPublished, Mixed
<1>9. InterrogationsKept'
  BY <1>1, <1>2, <1>3, <1>4 DEF IInv, InterrogationsKept
<1>10. QuestionsInv'
  <2>1. ASSUME NEW p \in Turns, turn'[p].pc = "asked", <<"turn", p>> \notin crossed',
               NEW o \in Turns, turn'[o].pc = "asked", turn'[o].scan = turn'[p].scan
        PROVE  o = p
    <3>1. Asking(s) # {} => p # q /\ p \notin Asking(s)
      BY <1>1, <2>1
    <3>2. CASE p # q /\ o # q
      BY <1>3, <1>4, <2>1, <3>2 DEF IInv, QuestionsInv
    <3>3. CASE p = q /\ o # q
      <4>1. o \in Asking(s)
        BY <1>2, <1>3, <2>1, <3>3 DEF Asking
      <4> QED BY <3>1, <3>3, <4>1
    <3>4. CASE p # q /\ o = q
      <4>1. p \in Asking(s)
        BY <1>2, <1>3, <2>1, <3>4 DEF Asking
      <4> QED BY <3>1, <4>1
    <3> QED BY <3>2, <3>3, <3>4
  <2>2. ASSUME NEW p \in Turns, turn'[p].pc = "asked",
               NEW o \in Turns, turn'[o].pc = "answered", turn'[o].scan = turn'[p].scan,
               <<"turn", o>> \notin crossed', scan[turn'[p].scan].status # "gone"
        PROVE  o \in turn'[p].prior
    <3>1. o # q /\ turn'[o] = turn[o] /\ <<"turn", o>> \notin crossed
      BY <1>2, <1>3, <1>4, <2>2
    <3>2. CASE p = q
      BY <1>2, <1>3, <2>2, <3>1, <3>2 DEF IInv, InterrogationsKept
    <3>3. CASE p # q
      BY <1>3, <2>2, <3>1, <3>3 DEF IInv, QuestionsInv
    <3> QED BY <3>2, <3>3
  <2> QED BY <1>1, <2>1, <2>2 DEF QuestionsInv
<1> QED BY <1>5, <1>6, <1>7, <1>8, <1>9, <1>10 DEF IInv

(* A question that gets no answer, or an answer for a scan that is there:  *)
(* of the row only the questions change.                                   *)
LEMMA AnswerNext == ASSUME IInv, NEW q \in Turns, Answer(q) PROVE IInv'
<1> DEFINE s == turn[q].scan
<1>1. /\ turn[q].pc = "asked"
      /\ UNCHANGED <<secret, credentials, clauses, run, publishing, called, crossed, started, begun>>
  BY DEF Answer, Unedited
<1>2. s \in Ids /\ turn[q] \in TurnRecords
      /\ \A p \in Turns : turn[p].pc # "none" => turn[p].scan \in 1..started /\ turn[p].scan \in Ids
  BY <1>1, StartedAreIds DEF IInv, ScansInv, StateType
<1>3. ASSUME NEW pc \in {"answered", "failed"}, turn' = [turn EXCEPT ![q] = [@ EXCEPT !.pc = pc, !.prior = {}]]
      PROVE  /\ turn' \in [Turns -> TurnRecords] /\ turn'[q].pc = pc /\ turn'[q].scan = s
             /\ \A p \in Turns : p # q => turn'[p] = turn[p]
             /\ \A p \in Turns : turn'[p].pc # "none" => turn'[p].scan \in 1..started
  <2> DEFINE new == [turn[q] EXCEPT !.pc = pc, !.prior = {}]
  <2>1. new \in TurnRecords /\ new.pc = pc /\ new.scan = s
    BY <1>2 DEF TurnRecords
  <2>2. turn' = [turn EXCEPT ![q] = new]
    BY <1>3
  <2> HIDE DEF new
  <2>3. turn' \in [Turns -> TurnRecords] /\ turn'[q] = new /\ \A p \in Turns : p # q => turn'[p] = turn[p]
    BY <2>1, <2>2 DEF IInv, StateType
  <2> QED BY <1>1, <1>2, <2>1, <2>3
<1>4. CASE turn' = [turn EXCEPT ![q] = [@ EXCEPT !.pc = "failed", !.prior = {}]] /\ UNCHANGED scan
  <2>1. /\ turn' \in [Turns -> TurnRecords] /\ turn'[q].pc = "failed"
        /\ \A p \in Turns : p # q => turn'[p] = turn[p]
        /\ \A p \in Turns : turn'[p].pc # "none" => turn'[p].scan \in 1..started
    BY <1>3, <1>4
  <2>2. StateType' /\ SettingsType' /\ ScansInv' /\ RunsInv' /\ AloneInv'
    BY <1>1, <1>4, <2>1 DEF IInv, StateType, SettingsType, ScansInv, RunsInv, AloneInv, Active, Mixed
  <2>3. PublishingInv' /\ ProbesAreSafe' /\ CompletedIsWhole' /\ PublishedIsFinished'
    BY <1>1, <1>4 DEF IInv, PublishingInv, ProbesAreSafe, CompletedIsWhole, PublishedIsFinished, loadPublished, Mixed
  <2>4. QuestionsInv' /\ InterrogationsKept'
    BY <1>1, <1>4, <2>1 DEF IInv, QuestionsInv, InterrogationsKept
  <2> QED BY <2>2, <2>3, <2>4 DEF IInv
<1>5. ASSUME scan[s].status # "gone", scan' = [scan EXCEPT ![s].interactions = Interactions(q)],
             turn' = [turn EXCEPT ![q] = [@ EXCEPT !.pc = "answered", !.prior = {}]]
      PROVE  IInv'
  <2> DEFINE row == [scan[s] EXCEPT !.interactions = Interactions(q)]
  <2>1. scan' = [scan EXCEPT ![s] = row]
    BY <1>5
  <2>2. /\ row \in RowRecords /\ row.interactions = turn[q].prior \cup {q} /\ row.published = scan[s].published
        /\ row.status = scan[s].status /\ row.tools = scan[s].tools /\ row.research = scan[s].research
        /\ row.probes = scan[s].probes /\ row.controls = scan[s].controls
        /\ row.card = scan[s].card /\ row.score = scan[s].score
    <3>1. scan[s] \in RowRecords /\ turn[q].prior \cup {q} \in SUBSET Turns
      BY <1>2 DEF IInv, StateType, TurnRecords
    <3> QED BY <3>1, SMTT(40) DEF RowRecords, Interactions
  <2> HIDE DEF row
  <2>3. /\ scan'[s] = row /\ \A i \in Ids : i # s => scan'[i] = scan[i]
        /\ scan' \in [Ids -> RowRecords] /\ SettingsType' /\ RunsInv' /\ AloneInv' /\ ProbesAreSafe'
        /\ CompletedIsWhole'
        /\ \A i : Mixed(i)' <=> Mixed(i)
    BY <1>1, <1>2, <1>5, <2>1, <2>2, RowKeeps, ZenonT(60)
  <2>4. \A i \in Ids :
              /\ scan'[i].status = "gone" => scan'[i] = Gone
              /\ i > started => scan'[i].status = "gone"
              /\ {scan'[i].tools, scan'[i].research, scan'[i].probes, scan'[i].controls, scan'[i].card.by}
                   \subseteq 0..begun
    BY <1>1, <1>2, <1>5, <2>1, <2>2, RowKeeps, ZenonT(60)
  <2>5. /\ turn' \in [Turns -> TurnRecords] /\ turn'[q].pc = "answered" /\ turn'[q].scan = s
        /\ \A p \in Turns : p # q => turn'[p] = turn[p]
        /\ \A p \in Turns : turn'[p].pc # "none" => turn'[p].scan \in 1..started
    BY <1>3, <1>5
  <2>6. StateType' /\ ScansInv'
    BY <1>1, <2>3, <2>4, <2>5 DEF IInv, StateType, ScansInv
  <2>7. \A i \in Ids : /\ scan'[i].status = scan[i].status /\ scan'[i].published = scan[i].published
                       /\ scan'[i].card = scan[i].card /\ scan'[i].score = scan[i].score
    BY <2>2, <2>3
  <2>8. PublishedIsFinished' /\ PublishingInv'
    <3>1. publishing \subseteq Ids
      BY StartedAreIds DEF IInv, ScansInv
    <3> QED BY <1>1, <2>3, <2>7, <3>1 DEF IInv, PublishedIsFinished, PublishingInv, loadPublished
  <2>9. InterrogationsKept'
    <3>1. ASSUME NEW p \in Turns, turn'[p].pc = "answered", scan'[turn'[p].scan].status # "gone",
                 <<"turn", p>> \notin crossed
          PROVE  p \in scan'[turn'[p].scan].interactions
      <4>1. CASE p = q
        BY <2>2, <2>3, <2>5, <4>1
      <4>2. CASE p # q /\ turn[p].scan = s
        <5>1. turn'[p] = turn[p] /\ p \in turn[q].prior
          BY <1>1, <1>5, <2>5, <3>1, <4>2 DEF IInv, QuestionsInv
        <5> QED BY <2>2, <2>3, <4>2, <5>1
      <4>3. CASE p # q /\ turn[p].scan # s
        <5>1. turn'[p] = turn[p]
          BY <2>5, <4>3
        <5>2. turn[p].scan \in Ids
          BY <1>2, <3>1, <5>1
        <5>3. scan'[turn[p].scan] = scan[turn[p].scan]
          BY <2>3, <4>3, <5>2
        <5> QED BY <3>1, <5>1, <5>3 DEF IInv, InterrogationsKept
      <4> QED BY <4>1, <4>2, <4>3
    <3> QED BY <1>1, <3>1 DEF InterrogationsKept
  <2>10. QuestionsInv'
    <3>1. ASSUME NEW p \in Turns, turn'[p].pc = "asked", <<"turn", p>> \notin crossed,
                 NEW o \in Turns, turn'[o].pc = "asked", turn'[o].scan = turn'[p].scan
          PROVE  o = p
      <4>1. p # q /\ o # q
        BY <2>5, <3>1
      <4> QED BY <2>5, <3>1, <4>1 DEF IInv, QuestionsInv
    <3>2. ASSUME NEW p \in Turns, turn'[p].pc = "asked",
                 NEW o \in Turns, turn'[o].pc = "answered", turn'[o].scan = turn'[p].scan,
                 <<"turn", o>> \notin crossed, scan'[turn'[p].scan].status # "gone"
          PROVE  o \in turn'[p].prior
      <4>1. p # q /\ turn'[p] = turn[p] /\ turn[p].scan \in Ids
        BY <1>2, <2>5, <3>2
      <4>2. scan[turn[p].scan].status # "gone"
        BY <2>7, <3>2, <4>1
      <4>3. CASE o = q
        <5>1. turn[p].scan = turn[q].scan
          BY <2>5, <3>2, <4>1, <4>3
        <5>2. p = q
          BY <1>1, <3>2, <4>1, <4>3, <5>1 DEF IInv, QuestionsInv
        <5> QED BY <4>1, <5>2
      <4>4. CASE o # q
        BY <2>5, <3>2, <4>1, <4>2, <4>4 DEF IInv, QuestionsInv
      <4> QED BY <4>3, <4>4
    <3> QED BY <1>1, <3>1, <3>2 DEF QuestionsInv
  <2> QED BY <2>3, <2>6, <2>8, <2>9, <2>10 DEF IInv
<1> QED BY <1>4, <1>5 DEF Answer

-----------------------------------------------------------------------------
(* The invariant, and what follows *)

LEMMA InitInv == Init => IInv
<1> SUFFICES ASSUME Init PROVE IInv
  OBVIOUS
<1>1. /\ secret = 1 /\ credentials \in {<<>>, <<secret>>} /\ clauses = [c \in DOMAIN Clauses |-> "none"]
      /\ scan = [s \in Ids |-> Gone] /\ run = [r \in Runs |-> Idle] /\ publishing = {}
      /\ turn = [q \in Turns |-> NoTurn] /\ called = {} /\ started = 0 /\ begun = 0
  BY DEF Init
<1>2. NoTurn \in TurnRecords /\ NoTurn.pc = "none"
  BY BoundsAssumption DEF NoTurn, TurnRecords
<1>3. Idle.pc = "idle" /\ Gone.status = "gone" /\ ~Gone.published
      /\ {Gone.tools, Gone.research, Gone.probes, Gone.controls, Gone.card.by} \subseteq 0..0
  BY DEF Idle, Gone, NoCard, Nobody
<1>4. StateType
  BY <1>1, <1>2, GoneType, IdleType, BoundsAssumption DEF StateType
<1>5. SettingsType
  <2>1. secret \in 1..secret /\ secret \in Nat \ {0}
    BY <1>1
  <2>2. <<>> \in Seq(1..secret) /\ <<secret>> \in Seq(1..secret)
    BY <2>1
  <2>3. credentials \in Seq(1..secret)
    BY <1>1, <2>2, Zenon
  <2>4. clauses \in [DOMAIN Clauses -> {"none", "on", "off"}]
    BY <1>1
  <2> QED BY <2>1, <2>3, <2>4 DEF SettingsType
<1>6. ScansInv /\ RunsInv /\ AloneInv /\ PublishingInv
  BY <1>1, <1>2, <1>3 DEF ScansInv, RunsInv, AloneInv, PublishingInv, Active
<1>7. QuestionsInv /\ ProbesAreSafe /\ InterrogationsKept
  BY <1>1, <1>2 DEF QuestionsInv, ProbesAreSafe, InterrogationsKept
<1>8. CompletedIsWhole /\ PublishedIsFinished
  BY <1>1, <1>3 DEF CompletedIsWhole, PublishedIsFinished
<1> QED BY <1>4, <1>5, <1>6, <1>7, <1>8 DEF IInv

LEMMA NextInv == ASSUME IInv, [Next]_vars PROVE IInv'
<1>1. CASE UNCHANGED vars
  <2>1. UNCHANGED <<secret, credentials, clauses, scan, run, publishing, turn, called, crossed, started, begun>>
    BY <1>1 DEF vars
  <2>2. SettingsType'
    BY <2>1 DEF IInv, SettingsType
  <2> QED BY <2>1, <2>2, NothingMoves
<1>2. ASSUME NEW t \in Tabs, NEW s \in Ids, Click(t, s) PROVE IInv'
  BY <1>2, StartNext, RescanNext, DeleteNext, PublishNext, UnpublishNext, InterrogateNext DEF Click
<1>3. CASE Next
  BY <1>2, <1>3, SettingsNext, RestartNext, RefreshNext, PublishedNext, StepNext, AnswerNext DEF Next
<1> QED BY <1>1, <1>3

(* Through any order of clicks from any number of tabs, runs that fail at  *)
(* any step, restarts and changes of the settings, the state of the audits *)
(* stays within the inductive invariant.                                   *)
THEOREM ScansInvariance == Spec => []IInv
<1>1. IInv /\ [Next]_vars => IInv'
  BY NextInv
<1> QED BY InitInv, <1>1, PTL DEF Spec

LEMMA IInvType == IInv => TypeOK
<1> SUFFICES ASSUME IInv PROVE TypeOK
  OBVIOUS
<1>1. ASSUME NEW s \in Ids
      PROVE  /\ scan[s].status \in ACTIVE \cup {"gone", "completed", "failed"}
             /\ {scan[s].tools, scan[s].research, scan[s].probes, scan[s].controls, scan[s].card.by}
                  \subseteq 0..begun
             /\ {scan[s].card.least, scan[s].card.most} \subseteq 0..100
             /\ scan[s].published \in BOOLEAN /\ scan[s].interactions \subseteq Turns
  <2>1. scan[s] \in RowRecords
    BY DEF IInv, StateType
  <2>2. {scan[s].tools, scan[s].research, scan[s].probes, scan[s].controls, scan[s].card.by} \subseteq 0..begun
    BY DEF IInv, ScansInv
  <2> QED BY <2>1, <2>2 DEF RowRecords, Statuses
<1>2. \A r \in Runs : run[r].pc = "idle" \/ (run[r].scan \in Ids /\ r <= begun)
  BY StartedAreIds DEF IInv, RunsInv, Active
<1>3. publishing \subseteq Ids
  BY StartedAreIds DEF IInv, ScansInv
<1> QED BY <1>1, <1>2, <1>3 DEF TypeOK, IInv, SettingsType

(* Whatever the server says of its tools and the model of the probes, only *)
(* safe tools are called; and an answer that was shown is kept with its    *)
(* scan, unless two questions were answered at once.                       *)
THEOREM ProbesAndAnswers == Spec => []Inv
<1>1. IInv => Inv
  BY IInvType DEF IInv, Inv
<1> QED BY <1>1, ScansInvariance, PTL

(* What is shown of a complete scan is of one run, and what is published   *)
(* is complete: for every interleaving but the overlaps they except.       *)
THEOREM ShownIsWhole == Spec => []FinishedIsWhole
<1>1. IInv => FinishedIsWhole
  BY DEF IInv, FinishedIsWhole
<1> QED BY <1>1, ScansInvariance, PTL
=============================================================================
