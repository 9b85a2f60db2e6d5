--------------------------- MODULE MigrationsProofs ---------------------------
(***************************************************************************)
(* Proofs about the trust-center migration, for any number of tabs, rows   *)
(* and phases, any source and any failures: what the row of a migration    *)
(* tells is true at every moment, and a migration completes only with      *)
(* every part and document of the source accounted for, and stays so.      *)
(***************************************************************************)
EXTENDS Migrations, FiniteSetTheorems, TLAPS

-----------------------------------------------------------------------------
(* Where a phase is *)

(* No session yet; asking the source; reading it; filing its documents.    *)
Early == {"load", "unconfigured", "requesting", "importing", "reconnect"}
Sessionless == Early \cup {"expired", "start"}
Requests == {"open", "opened", "agent", "requested", "nda", "awaiting"}
Finding == {"reopen", "reopened", "extract", "extracted", "list", "listed"}
Reading == Finding \cup {"copy", "copied"}
Filing == {"docs", "skip", "create", "upload", "count"}
Ends == {"idle", "catch", "closeFailed", "hung"}
Pcs == Sessionless \cup {"session"} \cup Requests \cup Reading \cup Filing \cup {"completed"} \cup Ends

RowRecords == [status : Statuses, session : 0..MaxRuns, nda : BOOLEAN, imported : 0..Len(Docs),
               log : SUBSET Lines]
RunRecords == [pc : Pcs, phase : {"none", "request", "import"}, row : 0..MaxRows, prior : 0..MaxRuns,
               handle : 0..MaxRuns, lines : SUBSET Lines, at : Nat, imported : Nat]
Artifacts == [run : Runs, doc : DOMAIN Docs, type : ARTIFACT_TYPES, bytes : BOOLEAN]

Active(r) == run[r].pc # "idle"

(* The phase may still write to its row. *)
Writing(x) == x.pc \notin {"idle", "closeFailed", "hung"}

StateType ==
  /\ configured \in BOOLEAN
  /\ migration \in [Rows -> RowRecords]
  /\ page \in [Tabs -> [Rows -> Statuses]]
  /\ run \in [Runs -> RunRecords]
  /\ live \subseteq Runs /\ asked \subseteq Rows
  /\ target \in [there : BOOLEAN, parts : [PartNames -> 0..MaxRuns], artifacts : SUBSET Artifacts]
  /\ IsFiniteSet(target.artifacts)
  /\ started \in 0..MaxRows /\ begun \in 0..MaxRuns

(* What does not exist yet is blank, and nothing refers to it. *)
RunsInv ==
  /\ \A m \in Rows : m > started => migration[m] = Gone
  /\ \A r \in Runs : Active(r) => run[r].row \in 1..started /\ r <= begun /\ run[r].phase # "none"
  /\ \A a \in target.artifacts : a.run <= begun

-----------------------------------------------------------------------------
(* What a phase has copied and filed *)

Mine(r, t) == {a \in t.artifacts : a.run = r}
Sent(t) == {a \in t.artifacts : a.bytes}
SentBy(r, t) == {a \in t.artifacts : a.run = r /\ a.bytes}

(* Document d is in the target, or named in the log, or had no URL. *)
Accounted(d, x, r, t) ==
  \/ \E a \in t.artifacts : a.run = r /\ a.doc = d /\ a.bytes
  \/ <<r, d>> \in x.lines
  \/ Docs[d].link = "bad"

(* Nothing is filed before the parts are copied, and they in their order.  *)
Copying(x, r, t) ==
  /\ x.pc \in Sessionless \cup {"session"} \cup Requests \cup Reading => Mine(r, t) = {} /\ x.imported = 0
  /\ x.pc \in Sessionless \cup {"session"} \cup Finding => x.at = 1
  /\ x.pc \in {"copy", "copied"} =>
       \A j \in DOMAIN Parts : j < x.at /\ Parts[j] \in Found => t.parts[Parts[j]] >= 1
  /\ x.pc = "copy" => PartsFrom(x.at) # {}

(* The documents before the one it is at are accounted for; that one may   *)
(* be in the target already, with its bytes once it is to be counted; and  *)
(* the count is that of the documents sent.                                *)
Filed(x, r, t) ==
  x.pc \in Filing =>
    /\ x.at \in 1..(Len(Docs) + 1) /\ (x.pc # "docs" => x.at <= Len(Docs))
    /\ x.imported < x.at
    /\ \A p \in Found : t.parts[p] >= 1
    /\ \A d \in DOMAIN Docs : d < x.at => Accounted(d, x, r, t)
    /\ \A a \in Mine(r, t) : a.doc < x.at \/ (a.doc = x.at /\ x.pc \in {"upload", "count"})
    /\ x.pc = "upload" => \E a \in Mine(r, t) : a.doc = x.at
    /\ x.pc = "upload" => \A a \in Mine(r, t) : a.doc = x.at => ~a.bytes
    /\ x.pc = "count" => \E a \in Mine(r, t) : a.doc = x.at /\ a.bytes
    /\ x.imported + (IF x.pc = "count" THEN 1 ELSE 0) <= Cardinality(SentBy(r, t))

Finished(x, r, t) ==
  x.pc = "completed" =>
    /\ \A p \in Found : t.parts[p] >= 1
    /\ \A d \in DOMAIN Docs : Accounted(d, x, r, t)

WorkInv ==
  /\ \A r \in Runs : Copying(run[r], r, target) /\ Filed(run[r], r, target) /\ Finished(run[r], r, target)
  /\ CountIsBacked

-----------------------------------------------------------------------------
(* What a row says *)

(* A phase says that it waits for a release only after it has asked, or   *)
(* an agent came back without.                                             *)
AskedInv ==
  /\ AwaitingWasAsked
  /\ "unasked" \notin troubles =>
       \A r \in Runs : run[r].pc \in {"requested", "nda", "awaiting"} => run[r].row \in asked

(* Unless a button was pressed on an outdated page, one phase at most      *)
(* writes to a row, and while it does the row is shown as active.          *)
SoleInv ==
  "stale" \notin troubles =>
    \A r \in Runs : Writing(run[r]) =>
      /\ \A o \in Runs : Writing(run[o]) /\ run[o].row = run[r].row => o = r
      /\ Row(r).status \in ACTIVE_STATUSES \cup {"gone"}

-----------------------------------------------------------------------------
(* Who holds a session *)

Unused(s) ==
  /\ s \notin live
  /\ \A m \in Rows : migration[m].session # s
  /\ \A o \in Runs : run[o].handle # s /\ run[o].prior # s

(* A phase without a session has none of its own yet; without credentials  *)
(* no phase gets that far.                                                 *)
SessionsInv ==
  /\ \A r \in Runs : r > begun \/ run[r].pc \in Sessionless => Unused(r)
  /\ \A r \in Runs : run[r].pc \in Sessionless \cup {"completed", "idle"} => run[r].handle = NoSession
  /\ ~configured => live = {} /\ \A r \in Runs : run[r].pc \in {"idle", "load", "unconfigured", "closeFailed", "hung"}
  /\ \A r \in Runs : run[r].pc = "unconfigured" /\ configured => ~target.there
  /\ ~target.there => "deleted" \in troubles
  /\ "deleted" \notin troubles => \A m \in 1..started : migration[m].status # "gone"

(* What a phase, x, and its row, y, know of the session the row names. *)
Remembers(x, y) ==
  /\ x.phase = "request" /\ x.pc \in Early => y.session = NoSession
  /\ x.pc \in {"importing", "reconnect"} => x.prior = y.session
  /\ x.pc \in {"expired", "start", "session", "completed"} => y.session \notin live
  /\ x.pc \in Requests \cup Reading \cup Filing => y.session = x.handle
  /\ x.pc = "catch" => y.session = x.handle \/ y.session \notin live

(* A phase takes the steps of its kind.                                    *)
PhasesInv ==
  \A r \in Runs : /\ run[r].pc \in {"requesting"} \cup Requests => run[r].phase = "request"
                  /\ run[r].pc \in {"importing", "reconnect"} => run[r].phase = "import"

KeptInv ==
  /\ SessionsAreKept
  /\ troubles \cap Leaks = {} => \A r \in Runs : Writing(run[r]) => Remembers(run[r], Row(r))

IInv ==
  /\ StateType /\ RunsInv /\ PhasesInv /\ WorkInv /\ AskedInv /\ SoleInv /\ SessionsInv /\ KeptInv

-----------------------------------------------------------------------------
(* What a step of a phase does *)

(* The phase goes on as before, but for its pc and lines it has added.     *)
Kin(x2, x) ==
  /\ x2.phase = x.phase /\ x2.row = x.row /\ x2.prior = x.prior /\ x2.handle = x.handle
  /\ x2.at = x.at /\ x2.imported = x.imported /\ x.lines \subseteq x2.lines

(* What may go wrong for a phase itself.                                   *)
Mishaps == {"fault", "unread", "unreached", "unclosed", "unasked", "hung"}

(* It moves itself, and of the rows only its own; what was deleted stays   *)
(* so and nothing else is deleted.                                         *)
Moved(r) ==
  /\ Active(r) /\ run[r].row \in Rows
  /\ migration' \in [Rows -> RowRecords] /\ run' \in [Runs -> RunRecords]
  /\ \A m \in Rows : m # run[r].row => migration'[m] = migration[m]
  /\ \A o \in Runs : o # r => run'[o] = run[o]
  /\ Row(r).status = "gone" => migration'[run[r].row] = Row(r)
  /\ Row(r).status # "gone" => migration'[run[r].row].status # "gone"
  /\ run'[r].pc # "idle" => run'[r].row = run[r].row /\ run'[r].phase = run[r].phase
  /\ UNCHANGED <<configured, page, started, begun>>
  /\ troubles \subseteq troubles' /\ troubles' \subseteq troubles \cup Mishaps

(* What it has copied and filed is what its pc says; what is in the target *)
(* stays there.                                                            *)
Works(r) ==
  /\ target' \in [there : BOOLEAN, parts : [PartNames -> 0..MaxRuns], artifacts : SUBSET Artifacts]
  /\ target'.there = target.there /\ IsFiniteSet(target'.artifacts)
  /\ \A p \in PartNames : target.parts[p] >= 1 => target'.parts[p] >= 1
  /\ \A o \in Runs : o # r => Mine(o, target') = Mine(o, target)
  /\ Sent(target) \subseteq Sent(target')
  /\ Copying(run'[r], r, target') /\ Filed(run'[r], r, target') /\ Finished(run'[r], r, target')
  /\ \/ migration'[run[r].row].imported = Row(r).imported
     \/ migration'[run[r].row].imported <= Cardinality(Sent(target'))

(* What it says of the migration. *)
Tells(r) ==
  /\ asked \subseteq asked' /\ asked' \subseteq Rows
  /\ run'[r].pc \in {"requested", "nda", "awaiting"} => run[r].row \in asked' \/ "unasked" \in troubles'
  /\ migration'[run[r].row].status = "awaiting_release" =>
       Row(r).status = "awaiting_release" \/ run[r].row \in asked' \/ "unasked" \in troubles'
  /\ Writing(run'[r]) =>
       /\ Writing(run[r])
       /\ migration'[run[r].row].status \in {Row(r).status} \cup ACTIVE_STATUSES
  /\ ~Writing(run[r]) => migration'[run[r].row] = Row(r)

Relies(y, s) == y.session = s /\ y.status \in {"awaiting_release", "importing"}

(* What it does to the sessions. *)
Holds(r) ==
  /\ live' \subseteq live \cup {r} /\ (run[r].pc # "start" => live' \subseteq live)
  /\ migration'[run[r].row].session \in {Row(r).session, run[r].handle}
  /\ run'[r].prior \in {run[r].prior, Row(r).session, NoSession}
  /\ run'[r].handle \in {run[r].handle, run[r].prior, NoSession} \cup (IF run[r].pc = "start" THEN {r} ELSE {})
  /\ run'[r].pc \in Sessionless => run[r].pc \in Sessionless \ {"start"} /\ run'[r].handle = NoSession
  /\ run'[r].pc \in {"completed", "idle"} => run'[r].handle = NoSession
  /\ ~configured => run'[r].pc \in {"idle", "load", "unconfigured", "closeFailed", "hung"} /\ live' \subseteq live
  /\ run'[r].pc = "unconfigured" /\ configured => ~target.there
  /\ troubles' \cap Leaks = {} =>
       /\ Writing(run'[r]) => Remembers(run[r], Row(r))'
       /\ \A s \in live' :
            s = run[r].handle \/ Relies(Row(r), s) \/ s \notin live =>
              run'[r].handle = s \/ Relies(migration'[run[r].row], s)

StepTo(r) == Moved(r) /\ Works(r) /\ Tells(r) /\ Holds(r)

-----------------------------------------------------------------------------
(* Facts every step needs *)

LEMMA BoundsType == Len(Docs) \in Nat /\ MaxRows \in Nat /\ MaxRuns \in Nat /\ DOMAIN Docs = 1..Len(Docs)
BY SourceAssumption, BoundsAssumption

LEMMA ActiveType ==
  ASSUME IInv, NEW r \in Runs, Active(r)
  PROVE  /\ run[r].row \in Rows /\ run[r].row \in 1..started /\ r \in 1..begun
         /\ run[r] \in RunRecords /\ Row(r) \in RowRecords
<1>1. run[r].row \in 1..started /\ r <= begun
  BY DEF IInv, RunsInv
<1>2. run[r].row \in Rows
  BY <1>1, BoundsType DEF IInv, StateType, Rows
<1>3. r \in 1..begun
  BY <1>1 DEF IInv, StateType, Runs
<1> QED BY <1>1, <1>2, <1>3 DEF IInv, StateType, Row

LEMMA IdleType == Idle \in RunRecords
BY BoundsType DEF Idle, RunRecords, Pcs, Ends, NoSession

LEMMA GoesTo ==
  ASSUME IInv, NEW r \in Runs, NEW pc \in Pcs, Goes(r, pc)
  PROVE  /\ run' \in [Runs -> RunRecords] /\ \A o \in Runs : o # r => run'[o] = run[o]
         /\ run'[r].pc = pc /\ Kin(run'[r], run[r])
<1>1. run' = [run EXCEPT ![r] = [run[r] EXCEPT !.pc = pc]]
  BY DEF Goes
<1>2. run \in [Runs -> RunRecords]
  BY DEF IInv, StateType
<1>3. [run[r] EXCEPT !.pc = pc] \in RunRecords
  BY <1>2 DEF RunRecords
<1> QED BY <1>1, <1>2, <1>3 DEF Kin, RunRecords

LEMMA LoggedType ==
  ASSUME IInv, NEW r \in Runs, NEW line \in 0..Len(Docs)
  PROVE  Logged(r, line) \in SUBSET Lines /\ run[r].lines \subseteq Logged(r, line)
<1>1. run[r].lines \in SUBSET Lines
  BY DEF IInv, StateType, RunRecords
<1> QED BY <1>1 DEF Logged, Lines

(* The row becomes y, and the phase goes on as x.                          *)
LEMMA BecomesTo ==
  ASSUME IInv, NEW r \in Runs, Active(r), NEW y \in RowRecords, NEW x \in RunRecords,
         migration' = [migration EXCEPT ![run[r].row] = y], run' = [run EXCEPT ![r] = x]
  PROVE  /\ migration' \in [Rows -> RowRecords] /\ run' \in [Runs -> RunRecords]
         /\ \A m \in Rows : m # run[r].row => migration'[m] = migration[m]
         /\ \A o \in Runs : o # r => run'[o] = run[o]
         /\ migration'[run[r].row] = y /\ run'[r] = x
BY ActiveType DEF IInv, StateType

LEMMA PersistTo ==
  ASSUME IInv, NEW r \in Runs, Active(r), NEW row \in RowRecords, NEW line \in 0..NoLine, NEW pc \in Pcs,
         Persist(r, row, line, pc)
  PROVE  /\ Row(r).status # "gone"
         /\ migration' \in [Rows -> RowRecords] /\ run' \in [Runs -> RunRecords]
         /\ \A m \in Rows : m # run[r].row => migration'[m] = migration[m]
         /\ \A o \in Runs : o # r => run'[o] = run[o]
         /\ run'[r].pc = pc /\ Kin(run'[r], run[r])
         /\ migration'[run[r].row].status = row.status /\ migration'[run[r].row].session = row.session
         /\ migration'[run[r].row].imported = row.imported
<1> DEFINE lines == IF line = NoLine THEN run[r].lines ELSE Logged(r, line)
           y == IF line = NoLine THEN row ELSE [row EXCEPT !.log = Logged(r, line)]
           x == [run[r] EXCEPT !.pc = pc, !.lines = lines]
<1>1. line # NoLine => line \in 0..Len(Docs)
  BY BoundsType DEF NoLine
<1>2. run[r] \in RunRecords
  BY DEF IInv, StateType
<1>3. lines \in SUBSET Lines /\ run[r].lines \subseteq lines
  BY <1>1, <1>2, LoggedType DEF RunRecords
<1>4. y \in RowRecords /\ y.status = row.status /\ y.session = row.session /\ y.imported = row.imported
  BY <1>1, LoggedType DEF RowRecords
<1>5. Row(r).status # "gone" /\ migration' = [migration EXCEPT ![run[r].row] = y]
      /\ run' = [run EXCEPT ![r].pc = pc, ![r].lines = IF line = NoLine THEN @ ELSE Logged(r, line)]
  BY DEF Persist
<1>6. run' = [run EXCEPT ![r] = x]
  BY <1>2, <1>5 DEF IInv, StateType
<1> HIDE DEF y, lines
<1>7. x \in RunRecords /\ x.pc = pc /\ Kin(x, run[r])
  BY <1>2, <1>3 DEF RunRecords, Kin
<1> HIDE DEF x
<1>8. /\ migration' \in [Rows -> RowRecords] /\ run' \in [Runs -> RunRecords]
      /\ \A m \in Rows : m # run[r].row => migration'[m] = migration[m]
      /\ \A o \in Runs : o # r => run'[o] = run[o]
      /\ migration'[run[r].row] = y /\ run'[r] = x
  BY <1>4, <1>5, <1>6, <1>7, BecomesTo
<1> QED BY <1>4, <1>5, <1>7, <1>8

(* The pcs before the parts are copied.                                    *)
PreWork == Sessionless \cup {"session"} \cup Finding \cup Requests

(* A step that leaves the target and the count alone, before the copying   *)
(* or at the end of the phase, does no work.                               *)
LEMMA WorksOn ==
  ASSUME IInv, NEW r \in Runs, UNCHANGED target,
         migration'[run[r].row].imported = Row(r).imported,
         \/ run'[r].pc \in Ends
         \/ /\ run[r].pc \in PreWork /\ run'[r].pc \in PreWork
            /\ run'[r].at = run[r].at /\ run'[r].imported = run[r].imported
            /\ run'[r].pc \in Requests \/ run[r].pc \notin Requests
  PROVE  Works(r)
<1>1. Copying(run[r], r, target)
  BY DEF IInv, WorkInv
<1>2. CASE run'[r].pc \in Ends
  <2>1. Copying(run'[r], r, target) /\ Filed(run'[r], r, target) /\ Finished(run'[r], r, target)
    BY <1>2 DEF Copying, Filed, Finished, Ends, Sessionless, Early, Requests, Reading, Finding, Filing
  <2> QED BY <2>1 DEF Works, IInv, StateType
<1>3. CASE /\ run[r].pc \in PreWork /\ run'[r].pc \in PreWork
           /\ run'[r].at = run[r].at /\ run'[r].imported = run[r].imported
           /\ run'[r].pc \in Requests \/ run[r].pc \notin Requests
  <2>1. Copying(run'[r], r, target) /\ Filed(run'[r], r, target) /\ Finished(run'[r], r, target)
    BY <1>1, <1>3 DEF Copying, Filed, Finished, PreWork, Sessionless, Early, Requests, Reading, Finding, Filing
  <2> QED BY <2>1 DEF Works, IInv, StateType
<1> QED BY <1>2, <1>3

(* A step that moves the phase on without a change of its session or the   *)
(* row's.                                                                  *)
LEMMA HoldsOn ==
  ASSUME IInv, NEW r \in Runs, Active(r), UNCHANGED <<live, configured, target>>, troubles \subseteq troubles',
         run[r].pc \in Requests \cup Reading \cup Filing, run'[r].pc \in Requests \cup Reading \cup Filing,
         run'[r].handle = run[r].handle, run'[r].prior = run[r].prior, run'[r].row = run[r].row,
         migration'[run[r].row].session = Row(r).session, migration'[run[r].row].status = Row(r).status
  PROVE  Holds(r)
<1>1. Writing(run[r]) /\ configured
  BY DEF Writing, IInv, SessionsInv, Requests, Reading, Finding, Filing
<1>2. ASSUME troubles \cap Leaks = {} PROVE Remembers(run[r], Row(r))'
  <2>1. Remembers(run[r], Row(r))
    BY <1>1, <1>2 DEF IInv, KeptInv
  <2> QED BY <2>1 DEF Remembers, Row, Requests, Reading, Finding, Filing, Early
<1>3. troubles' \cap Leaks = {} => troubles \cap Leaks = {}
  OBVIOUS
<1> QED BY <1>1, <1>2, <1>3 DEF Holds, Requests, Reading, Finding, Filing, Sessionless, Early, Relies, IInv, StateType

-----------------------------------------------------------------------------
(* Both phases *)

(* The rows are left alone and the phase goes on, or ends.                 *)
LEMMA GoesOn ==
  ASSUME IInv, NEW r \in Runs, Active(r), NEW pc \in Pcs, Goes(r, pc),
         UNCHANGED <<configured, migration, page, started, begun>>,
         troubles \subseteq troubles', troubles' \subseteq troubles \cup Mishaps
  PROVE  /\ Moved(r) /\ run'[r].pc = pc /\ Kin(run'[r], run[r])
         /\ migration'[run[r].row] = Row(r)
<1>1. /\ run' \in [Runs -> RunRecords] /\ \A o \in Runs : o # r => run'[o] = run[o]
      /\ run'[r].pc = pc /\ Kin(run'[r], run[r])
  BY GoesTo
<1>2. migration \in [Rows -> RowRecords] /\ run[r].row \in Rows
  BY ActiveType DEF IInv, StateType
<1> QED BY <1>1, <1>2 DEF Moved, Kin, Row

LEMMA CallFailsTo == ASSUME IInv, NEW r \in Runs, CallFails(r) PROVE StepTo(r)
<1>1. /\ run[r].pc \in Calls /\ Active(r) /\ Goes(r, "catch")
      /\ UNCHANGED <<configured, migration, page, live, asked, target, started, begun, troubles>>
  BY DEF CallFails, Active, Calls
<1>2. "catch" \in Pcs
  BY DEF Pcs, Ends
<1>3. /\ Moved(r) /\ run'[r].pc = "catch" /\ Kin(run'[r], run[r])
      /\ migration'[run[r].row] = Row(r)
  BY <1>1, <1>2, GoesOn
<1>4. Works(r)
  BY <1>1, <1>3, WorksOn DEF Ends
<1>5. Tells(r)
  BY <1>1, <1>3 DEF Tells, Writing, Calls, IInv, StateType
<1>6. Holds(r)
  <2>1. Writing(run[r]) /\ configured
    BY <1>1 DEF Writing, Calls, IInv, SessionsInv
  <2>2. ASSUME troubles \cap Leaks = {} PROVE Remembers(run[r], Row(r))'
    <3>1. Remembers(run[r], Row(r))
      BY <2>1, <2>2 DEF IInv, KeptInv
    <3> QED BY <1>1, <1>3, <3>1 DEF Remembers, Row, Kin, Calls, Requests, Reading, Finding, Filing, Early
  <2> QED BY <1>1, <1>3, <2>1, <2>2 DEF Holds, Kin, Calls, Sessionless, Early, Relies
<1> QED BY <1>3, <1>4, <1>5, <1>6 DEF StepTo

(* A phase that hangs keeps its session.                                   *)
LEMMA HangsTo == ASSUME IInv, NEW r \in Runs, Hangs(r) PROVE StepTo(r)
<1>1. /\ run[r].pc \in Calls \cup {"reconnect", "docs", "closeFailed"} /\ Active(r) /\ Goes(r, "hung")
      /\ UNCHANGED <<configured, migration, page, live, asked, target, started, begun>>
      /\ troubles' = troubles \cup {"hung"}
  BY DEF Hangs, Active, Calls, Fault
<1>2. "hung" \in Pcs /\ troubles \subseteq troubles' /\ troubles' \subseteq troubles \cup Mishaps
  BY <1>1 DEF Pcs, Ends, Mishaps
<1>3. /\ Moved(r) /\ run'[r].pc = "hung" /\ Kin(run'[r], run[r])
      /\ migration'[run[r].row] = Row(r)
  BY <1>1, <1>2, GoesOn
<1>4. Works(r)
  BY <1>1, <1>3, WorksOn DEF Ends
<1>5. Tells(r)
  BY <1>1, <1>3 DEF Tells, Writing, Calls, IInv, StateType
<1>6. Holds(r)
  BY <1>1, <1>3 DEF Holds, Kin, Calls, Sessionless, Early, Relies, Writing
<1> QED BY <1>3, <1>4, <1>5, <1>6 DEF StepTo

(* A write that fails is a fault, or the row was deleted.                  *)
LEMMA WriteFailsTo == ASSUME IInv, NEW r \in Runs, WriteFails(r) PROVE StepTo(r)
<1>1. /\ run[r].pc \in Writes /\ Active(r)
      /\ UNCHANGED <<configured, migration, page, live, asked, target, started, begun>>
      /\ \/ Row(r).status = "gone" /\ troubles' = troubles
         \/ troubles' = troubles \cup {"fault"}
  BY DEF WriteFails, Active, Writes, Fault
<1>2. ~(troubles' \cap Leaks = {})
  <2>1. Row(r).status = "gone" => "deleted" \in troubles
    BY <1>1, ActiveType DEF IInv, SessionsInv, Row
  <2> QED BY <1>1, <2>1 DEF Leaks
<1>3. CASE run' = [run EXCEPT ![r] = Idle] /\ run[r].pc \in {"unconfigured", "catch"}
  <2>1. run' \in [Runs -> RunRecords] /\ run'[r] = Idle /\ \A o \in Runs : o # r => run'[o] = run[o]
    BY <1>3, IdleType DEF IInv, StateType
  <2>2. Idle.pc = "idle" /\ Idle.handle = NoSession /\ Idle.prior = NoSession
    BY DEF Idle
  <2>3. migration'[run[r].row] = Row(r)
    BY <1>1 DEF Row
  <2>4. Moved(r)
    BY <1>1, <2>1, <2>2, <2>3, ActiveType DEF Moved, Mishaps, IInv, StateType
  <2>5. Works(r)
    BY <1>1, <2>1, <2>2, <2>3, WorksOn DEF Ends
  <2>6. Tells(r)
    BY <1>1, <2>1, <2>2, <2>3 DEF Tells, Writing, IInv, StateType
  <2>7. Holds(r)
    BY <1>1, <1>2, <2>1, <2>2, <2>3 DEF Holds, Sessionless, Early
  <2> QED BY <2>4, <2>5, <2>6, <2>7 DEF StepTo
<1>4. CASE Goes(r, "catch") /\ run[r].pc \notin {"unconfigured", "catch"}
  <2>1. "catch" \in Pcs
    BY DEF Pcs, Ends
  <2>2. /\ Moved(r) /\ run'[r].pc = "catch" /\ Kin(run'[r], run[r])
        /\ migration'[run[r].row] = Row(r)
    BY <1>1, <1>4, <2>1, GoesOn DEF Mishaps
  <2>3. Works(r)
    BY <1>1, <2>2, WorksOn DEF Ends
  <2>4. Tells(r)
    BY <1>1, <2>2 DEF Tells, Writing, Writes, IInv, StateType
  <2>5. configured
    BY <1>1, <1>4 DEF IInv, SessionsInv, Writes
  <2>6. Holds(r)
    BY <1>1, <1>2, <2>2, <2>5 DEF Holds, Kin, Sessionless, Early
  <2> QED BY <2>2, <2>3, <2>4, <2>6 DEF StepTo
<1> QED BY <1>3, <1>4 DEF WriteFails

(* A phase that has failed says so, and keeps its session till it closes.  *)
LEMMA FailTo == ASSUME IInv, NEW r \in Runs, Fail(r) PROVE StepTo(r)
<1> DEFINE row == [Row(r) EXCEPT !.status = "failed"]
<1>1. /\ run[r].pc = "catch" /\ Active(r) /\ Persist(r, row, Ran, "closeFailed")
      /\ UNCHANGED <<configured, page, live, asked, target, started, begun, troubles>>
  BY DEF Fail, Active
<1>2. /\ row \in RowRecords /\ row.status = "failed" /\ row.session = Row(r).session
      /\ row.imported = Row(r).imported
  BY <1>1, ActiveType DEF RowRecords, Statuses
<1> HIDE DEF row
<1>3. "closeFailed" \in Pcs /\ Ran \in 0..NoLine
  BY BoundsType DEF Pcs, Ends, Ran, NoLine
<1>4. /\ Row(r).status # "gone"
      /\ migration' \in [Rows -> RowRecords] /\ run' \in [Runs -> RunRecords]
      /\ \A m \in Rows : m # run[r].row => migration'[m] = migration[m]
      /\ \A o \in Runs : o # r => run'[o] = run[o]
      /\ run'[r].pc = "closeFailed" /\ Kin(run'[r], run[r])
      /\ migration'[run[r].row].status = "failed" /\ migration'[run[r].row].session = Row(r).session
      /\ migration'[run[r].row].imported = Row(r).imported
  BY <1>1, <1>2, <1>3, PersistTo
<1>5. Moved(r)
  BY <1>1, <1>4, ActiveType DEF Moved, Kin
<1>6. Works(r)
  BY <1>1, <1>4, WorksOn DEF Ends
<1>7. Tells(r)
  BY <1>1, <1>4 DEF Tells, Writing, IInv, StateType
<1>8. Holds(r)
  <2>1. Writing(run[r]) /\ configured
    BY <1>1 DEF Writing, IInv, SessionsInv
  <2>2. ASSUME troubles \cap Leaks = {}
        PROVE  \A s \in live : s = run[r].handle \/ Relies(Row(r), s) => run'[r].handle = s
    <3>1. Remembers(run[r], Row(r))
      BY <2>1, <2>2 DEF IInv, KeptInv
    <3> QED BY <1>1, <1>4, <3>1 DEF Remembers, Kin, Relies
  <2> QED BY <1>1, <1>4, <2>1, <2>2 DEF Holds, Kin, Sessionless, Early, Writing
<1> QED BY <1>5, <1>6, <1>7, <1>8 DEF StepTo

(* Closing ends no other session, and leaves its own open only as a leak.  *)
LEMMA CloseSessionDoes ==
  ASSUME NEW r \in Runs, closeSession(r)
  PROVE  /\ live' \subseteq live /\ \A s \in live : s = run[r].handle \/ s \in live'
         /\ troubles \subseteq troubles' /\ troubles' \subseteq troubles \cup {"unclosed"}
         /\ troubles' \cap Leaks = {} => live' = live \ {run[r].handle} /\ troubles' = troubles
BY DEF closeSession, Fault, Leaks

LEMMA CloseFailedTo == ASSUME IInv, NEW r \in Runs, CloseFailed(r) PROVE StepTo(r)
<1>1. /\ run[r].pc = "closeFailed" /\ Active(r)
      /\ closeSession(r) /\ run' = [run EXCEPT ![r] = Idle]
      /\ UNCHANGED <<configured, migration, page, asked, target, started, begun>>
  BY DEF CloseFailed, Active
<1>2. run' \in [Runs -> RunRecords] /\ run'[r] = Idle /\ \A o \in Runs : o # r => run'[o] = run[o]
  BY <1>1, IdleType DEF IInv, StateType
<1>3. Idle.pc = "idle" /\ Idle.handle = NoSession /\ Idle.prior = NoSession
  BY DEF Idle
<1>4. migration'[run[r].row] = Row(r)
  BY <1>1 DEF Row
<1>5. Moved(r)
  BY <1>1, <1>2, <1>3, <1>4, ActiveType, CloseSessionDoes DEF Moved, Mishaps, IInv, StateType
<1>6. Works(r)
  BY <1>1, <1>2, <1>3, <1>4, WorksOn DEF Ends
<1>7. Tells(r)
  BY <1>1, <1>2, <1>3, <1>4 DEF Tells, Writing, IInv, StateType
<1>8. Holds(r)
  BY <1>1, <1>2, <1>3, <1>4, CloseSessionDoes DEF Holds, Sessionless, Early, Writing, Relies
<1> QED BY <1>5, <1>6, <1>7, <1>8 DEF StepTo

(* A phase that could not read its row has done nothing.                   *)
LEMMA LoadFailsTo == ASSUME IInv, NEW r \in Runs, LoadFails(r) PROVE StepTo(r)
<1>1. /\ run[r].pc = "load" /\ Active(r) /\ run' = [run EXCEPT ![r] = Idle]
      /\ UNCHANGED <<configured, migration, page, live, asked, target, started, begun>>
      /\ troubles' = troubles \cup {"unread"} /\ run[r].handle = NoSession /\ NoSession \notin live
  BY DEF LoadFails, Active, Fault, IInv, SessionsInv, Sessionless, Early, StateType, Runs, NoSession
<1>2. run' \in [Runs -> RunRecords] /\ run'[r] = Idle /\ \A o \in Runs : o # r => run'[o] = run[o]
  BY <1>1, IdleType DEF IInv, StateType
<1>3. Idle.pc = "idle" /\ Idle.handle = NoSession /\ Idle.prior = NoSession
  BY DEF Idle
<1>4. migration'[run[r].row] = Row(r)
  BY <1>1 DEF Row
<1>5. Moved(r)
  BY <1>1, <1>2, <1>3, <1>4, ActiveType DEF Moved, Mishaps, IInv, StateType
<1>6. Works(r)
  BY <1>1, <1>2, <1>3, <1>4, WorksOn DEF Ends
<1>7. Tells(r)
  BY <1>1, <1>2, <1>3, <1>4 DEF Tells, Writing, IInv, StateType
<1>8. Holds(r)
  BY <1>1, <1>2, <1>3, <1>4 DEF Holds, Sessionless, Early, Writing, Relies
<1> QED BY <1>5, <1>6, <1>7, <1>8 DEF StepTo

(* The row is read, if it is there.                                        *)
LEMMA LoadTo == ASSUME IInv, NEW r \in Runs, Load(r) PROVE StepTo(r)
<1>1. /\ run[r].pc = "load" /\ Active(r)
      /\ UNCHANGED <<configured, migration, page, live, asked, target, started, begun, troubles>>
  BY DEF Load, Active
<1>2. migration'[run[r].row] = Row(r)
  BY <1>1 DEF Row
<1>3. Row(r) \in RowRecords /\ run[r] \in RunRecords /\ run[r].handle = NoSession
  BY <1>1, ActiveType DEF IInv, SessionsInv, Sessionless, Early
<1>4. CASE Row(r).status = "gone"
  <2>1. run' = [run EXCEPT ![r] = Idle]
    BY <1>4 DEF Load
  <2>2. run' \in [Runs -> RunRecords] /\ run'[r] = Idle /\ \A o \in Runs : o # r => run'[o] = run[o]
    BY <2>1, IdleType DEF IInv, StateType
  <2>3. Idle.pc = "idle" /\ Idle.handle = NoSession /\ Idle.prior = NoSession
    BY DEF Idle
  <2>4. Moved(r)
    BY <1>1, <1>2, <2>2, <2>3, ActiveType DEF Moved, IInv, StateType
  <2>5. Works(r)
    BY <1>1, <1>2, <2>2, <2>3, WorksOn DEF Ends
  <2>6. Tells(r)
    BY <1>1, <1>2, <2>2, <2>3 DEF Tells, Writing, IInv, StateType
  <2>7. ~(troubles \cap Leaks = {})
    BY <1>1, <1>4, ActiveType DEF IInv, SessionsInv, Row, Leaks
  <2>8. Holds(r)
    BY <1>1, <1>2, <2>2, <2>3, <2>7 DEF Holds, Sessionless, Early, Writing
  <2> QED BY <2>4, <2>5, <2>6, <2>8 DEF StepTo
<1>5. CASE Row(r).status # "gone"
  <2> DEFINE pc == IF ~configured \/ (run[r].phase = "import" /\ ~target.there) THEN "unconfigured"
                   ELSE IF run[r].phase = "import" THEN "importing" ELSE "requesting"
             x == [run[r] EXCEPT !.prior = Row(r).session, !.lines = Row(r).log, !.pc = pc]
  <2>1. run' = [run EXCEPT ![r] = x]
    BY <1>3, <1>5 DEF Load, IInv, StateType
  <2>2. pc \in {"unconfigured", "importing", "requesting"}
        /\ (pc = "unconfigured" => ~configured \/ ~target.there) /\ (pc # "unconfigured" => configured)
        /\ (pc = "importing" => run[r].phase # "request")
    OBVIOUS
  <2> HIDE DEF pc
  <2>3. /\ x \in RunRecords /\ x.pc = pc /\ x.phase = run[r].phase /\ x.row = run[r].row
        /\ x.handle = NoSession /\ x.prior = Row(r).session /\ x.at = run[r].at /\ x.imported = run[r].imported
    BY <1>3, <2>2 DEF RunRecords, RowRecords, Pcs, Sessionless, Early
  <2> HIDE DEF x
  <2>4. run' \in [Runs -> RunRecords] /\ run'[r] = x /\ \A o \in Runs : o # r => run'[o] = run[o]
    BY <2>1, <2>3 DEF IInv, StateType
  <2>5. Moved(r)
    BY <1>1, <1>2, <2>3, <2>4, ActiveType DEF Moved, IInv, StateType
  <2>6. Works(r)
    BY <1>1, <1>2, <2>2, <2>3, <2>4, WorksOn DEF PreWork, Finding, Sessionless, Early, Requests
  <2>7. Tells(r)
    BY <1>1, <1>2, <2>2, <2>3, <2>4 DEF Tells, Writing, IInv, StateType
  <2>8. ASSUME troubles \cap Leaks = {} PROVE Remembers(run[r], Row(r))'
    <3>1. Remembers(run[r], Row(r))
      BY <1>1, <2>8 DEF IInv, KeptInv, Writing
    <3>2. Row(r)' = Row(r)
      BY <1>1, <2>3, <2>4 DEF Row
    <3> QED
      BY <1>1, <2>2, <2>3, <2>4, <3>1, <3>2
      DEF Remembers, Sessionless, Early, Requests, Reading, Finding, Filing
  <2>9. Holds(r)
    BY <1>1, <1>2, <1>3, <2>2, <2>3, <2>4, <2>8 DEF Holds, Sessionless, Early, Writing, Relies
  <2> QED BY <2>5, <2>6, <2>7, <2>9 DEF StepTo
<1> QED BY <1>4, <1>5

(* Without credentials there is no session to lose.                        *)
LEMMA UnconfiguredTo == ASSUME IInv, NEW r \in Runs, Unconfigured(r) PROVE StepTo(r)
<1> DEFINE row == [Row(r) EXCEPT !.status = "failed"]
<1>1. /\ run[r].pc = "unconfigured" /\ Active(r) /\ Persist(r, row, Ran, "closeFailed")
      /\ UNCHANGED <<configured, page, live, asked, target, started, begun, troubles>>
  BY DEF Unconfigured, Active
<1>2. /\ row \in RowRecords /\ row.status = "failed" /\ row.session = Row(r).session
      /\ row.imported = Row(r).imported
  BY <1>1, ActiveType DEF RowRecords, Statuses
<1> HIDE DEF row
<1>3. "closeFailed" \in Pcs /\ Ran \in 0..NoLine
  BY BoundsType DEF Pcs, Ends, Ran, NoLine
<1>4. /\ Row(r).status # "gone"
      /\ migration' \in [Rows -> RowRecords] /\ run' \in [Runs -> RunRecords]
      /\ \A m \in Rows : m # run[r].row => migration'[m] = migration[m]
      /\ \A o \in Runs : o # r => run'[o] = run[o]
      /\ run'[r].pc = "closeFailed" /\ Kin(run'[r], run[r])
      /\ migration'[run[r].row].status = "failed" /\ migration'[run[r].row].session = Row(r).session
      /\ migration'[run[r].row].imported = Row(r).imported
  BY <1>1, <1>2, <1>3, PersistTo
<1>5. Moved(r)
  BY <1>1, <1>4, ActiveType DEF Moved, Kin
<1>6. Works(r)
  BY <1>1, <1>4, WorksOn DEF Ends
<1>7. Tells(r)
  BY <1>1, <1>4 DEF Tells, Writing, IInv, StateType
<1>8. Holds(r)
  <2>1. troubles \cap Leaks = {} => live = {}
    BY <1>1 DEF IInv, SessionsInv, Leaks
  <2> QED BY <1>1, <1>4, <2>1 DEF Holds, Kin, Sessionless, Early, Writing
<1> QED BY <1>5, <1>6, <1>7, <1>8 DEF StepTo

(* A session of its own: nobody has named it before.                       *)
LEMMA StartedTo ==
  ASSUME IInv, NEW r \in Runs, run[r].pc = "start", live' = live \cup {r},
         NEW x \in RunRecords, x = [run[r] EXCEPT !.handle = r, !.pc = "session"],
         run' = [run EXCEPT ![r] = x],
         UNCHANGED <<configured, migration, page, asked, target, started, begun, troubles>>
  PROVE  StepTo(r)
<1>1. /\ run[r].pc = "start" /\ Active(r) /\ live' = live \cup {r}
      /\ UNCHANGED <<configured, migration, page, asked, target, started, begun, troubles>>
  BY DEF Active
<1>2. run[r] \in RunRecords /\ r \in 0..MaxRuns
  BY <1>1, ActiveType, BoundsType DEF Runs
<1>4. /\ x \in RunRecords /\ x.pc = "session" /\ x.phase = run[r].phase /\ x.row = run[r].row
      /\ x.handle = r /\ x.prior = run[r].prior /\ x.at = run[r].at /\ x.imported = run[r].imported
  BY <1>2 DEF RunRecords
<1>5. run' \in [Runs -> RunRecords] /\ run'[r] = x /\ \A o \in Runs : o # r => run'[o] = run[o]
  BY DEF IInv, StateType
<1>6. migration'[run[r].row] = Row(r)
  BY <1>1 DEF Row
<1>7. Moved(r)
  BY <1>1, <1>4, <1>5, <1>6, ActiveType DEF Moved, IInv, StateType
<1>8. Works(r)
  BY <1>1, <1>4, <1>5, <1>6, WorksOn DEF PreWork, Finding, Sessionless, Requests
<1>9. Tells(r)
  BY <1>1, <1>4, <1>5, <1>6 DEF Tells, Writing, IInv, StateType
<1>10. Unused(r) /\ configured /\ run[r].handle = NoSession
  BY <1>1 DEF IInv, SessionsInv, Sessionless
<1>11. ASSUME troubles \cap Leaks = {} PROVE Remembers(run[r], Row(r))'
  <2>1. Remembers(run[r], Row(r))
    BY <1>1, <1>11 DEF IInv, KeptInv, Writing
  <2>2. Row(r)' = Row(r) /\ Row(r).session # r
    BY <1>1, <1>4, <1>5, <1>10, ActiveType DEF Row, Unused
  <2> QED
    BY <1>1, <1>4, <1>5, <2>1, <2>2 DEF Remembers, Early, Requests, Reading, Finding, Filing
<1>12. NoSession \notin live
  BY DEF IInv, StateType, Runs, NoSession
<1>13. Holds(r)
  BY <1>1, <1>4, <1>5, <1>6, <1>10, <1>11, <1>12 DEF Holds, Sessionless, Early, Writing, Relies
<1> QED BY <1>7, <1>8, <1>9, <1>13 DEF StepTo

LEMMA StartSessionTo == ASSUME IInv, NEW r \in Runs, startSession(r) PROVE StepTo(r)
<1>1. CASE run' = [run EXCEPT ![r].handle = r, ![r].pc = "session"] /\ UNCHANGED troubles
  <2> DEFINE x == [run[r] EXCEPT !.handle = r, !.pc = "session"]
  <2>1. run[r].pc = "start" /\ Active(r) /\ r \in 0..MaxRuns
    BY BoundsType DEF startSession, Active, Runs
  <2>2. x \in RunRecords
    BY <2>1, ActiveType DEF RunRecords, Pcs
  <2>3. run' = [run EXCEPT ![r] = x]
    BY <1>1 DEF IInv, StateType
  <2>4. /\ live' = live \cup {r}
        /\ UNCHANGED <<configured, migration, page, asked, target, started, begun, troubles>>
    BY <1>1 DEF startSession
  <2> HIDE DEF x
  <2>5. x = [run[r] EXCEPT !.handle = r, !.pc = "session"]
    BY DEF x
  <2> QED BY <2>1, <2>2, <2>3, <2>4, <2>5, StartedTo
<1>2. CASE Goes(r, "catch") /\ troubles' = troubles \cup {"unclosed"}
  <2>1. /\ run[r].pc = "start" /\ Active(r) /\ live' = live \cup {r}
        /\ UNCHANGED <<configured, migration, page, asked, target, started, begun>>
    BY DEF startSession, Active
  <2>2. "catch" \in Pcs /\ troubles \subseteq troubles' /\ troubles' \subseteq troubles \cup Mishaps
        /\ ~(troubles' \cap Leaks = {})
    BY <1>2 DEF Pcs, Ends, Mishaps, Leaks
  <2>3. /\ Moved(r) /\ run'[r].pc = "catch" /\ Kin(run'[r], run[r])
        /\ migration'[run[r].row] = Row(r)
    BY <1>2, <2>1, <2>2, GoesOn
  <2>4. Works(r)
    BY <2>1, <2>3, WorksOn DEF Ends
  <2>5. Tells(r)
    BY <2>1, <2>3 DEF Tells, Writing, IInv, StateType
  <2>6. configured
    BY <2>1 DEF IInv, SessionsInv
  <2>7. Holds(r)
    BY <2>1, <2>2, <2>3, <2>6 DEF Holds, Kin, Sessionless, Early
  <2> QED BY <2>3, <2>4, <2>5, <2>7 DEF StepTo
<1> QED BY <1>1, <1>2 DEF startSession, Fault

(* The row names the session; one it named before is closed.               *)
LEMMA StoreSessionTo == ASSUME IInv, NEW r \in Runs, StoreSession(r) PROVE StepTo(r)
<1> DEFINE row == [Row(r) EXCEPT !.session = run[r].handle]
           pc == IF run[r].phase = "import" THEN "reopen" ELSE "open"
<1>1. /\ run[r].pc = "session" /\ Active(r) /\ Persist(r, row, NoLine, pc)
      /\ UNCHANGED <<configured, page, live, asked, target, started, begun, troubles>>
  BY DEF StoreSession, Active
<1>2. /\ row \in RowRecords /\ row.status = Row(r).status /\ row.session = run[r].handle
      /\ row.imported = Row(r).imported
  BY <1>1, ActiveType, SourceAssumption DEF RowRecords, Statuses, RunRecords
<1> HIDE DEF row
<1>3. pc \in {"reopen", "open"} /\ pc \in Pcs /\ NoLine \in 0..NoLine
  BY BoundsType DEF Pcs, Reading, Finding, Requests, Ran, NoLine
<1> HIDE DEF pc
<1>4. /\ Row(r).status # "gone"
      /\ migration' \in [Rows -> RowRecords] /\ run' \in [Runs -> RunRecords]
      /\ \A m \in Rows : m # run[r].row => migration'[m] = migration[m]
      /\ \A o \in Runs : o # r => run'[o] = run[o]
      /\ run'[r].pc = pc /\ Kin(run'[r], run[r])
      /\ migration'[run[r].row].status = Row(r).status /\ migration'[run[r].row].session = run[r].handle
      /\ migration'[run[r].row].imported = Row(r).imported
  BY <1>1, <1>2, <1>3, PersistTo
<1>5. Moved(r)
  BY <1>1, <1>4, ActiveType DEF Moved, Kin
<1>6. Works(r)
  BY <1>1, <1>3, <1>4, WorksOn DEF Kin, PreWork, Finding, Sessionless, Early, Requests
<1>7. Tells(r)
  BY <1>1, <1>3, <1>4 DEF Tells, Writing, IInv, StateType, AskedInv, ACTIVE_STATUSES
<1>8. Holds(r)
  <2>1. Writing(run[r]) /\ configured
    BY <1>1 DEF Writing, IInv, SessionsInv
  <2>2. Row(r)' = migration'[run[r].row] /\ NoSession \notin live
    BY <1>3, <1>4 DEF Row, Kin, IInv, StateType, Runs, NoSession
  <2>3. ASSUME troubles \cap Leaks = {}
        PROVE  /\ Remembers(run[r], Row(r))'
               /\ \A s \in live : s = run[r].handle \/ Relies(Row(r), s) =>
                    run'[r].handle = s \/ Relies(migration'[run[r].row], s)
    <3>1. Remembers(run[r], Row(r))
      BY <2>1, <2>3 DEF IInv, KeptInv
    <3>2. run[r].handle = NoSession \/ run[r].pc \notin Sessionless
      BY DEF IInv, SessionsInv
    <3>3. Remembers(run[r], Row(r))'
      BY <1>1, <1>3, <1>4, <2>2, <3>1, <3>2
      DEF Remembers, Kin, Sessionless, Early, Requests, Reading, Finding, Filing
    <3>4. ASSUME NEW s \in live, s = run[r].handle \/ Relies(Row(r), s)
          PROVE  run'[r].handle = s \/ Relies(migration'[run[r].row], s)
      BY <1>1, <1>4, <2>2, <3>1, <3>2, <3>4 DEF Remembers, Relies, Kin, Early
    <3> QED BY <3>3, <3>4
  <2>4. run[r].pc \in Sessionless => run[r].handle = NoSession
    BY DEF IInv, SessionsInv
  <2> QED BY <1>1, <1>3, <1>4, <2>1, <2>3, <2>4 DEF Holds, Kin, Sessionless, Early
<1> QED BY <1>5, <1>6, <1>7, <1>8 DEF StepTo

-----------------------------------------------------------------------------
(* The request *)

LEMMA RequestingTo == ASSUME IInv, NEW r \in Runs, Requesting(r) PROVE StepTo(r)
<1> DEFINE row == [Row(r) EXCEPT !.status = "requesting"]
           pc == "start"
<1>1. /\ run[r].pc = "requesting" /\ Active(r) /\ Persist(r, row, Ran, pc)
      /\ UNCHANGED <<configured, page, live, asked, target, started, begun, troubles>>
  BY DEF Requesting, Active
<1>2. /\ row \in RowRecords /\ row.status = "requesting" /\ row.session = Row(r).session
      /\ row.imported = Row(r).imported
  BY <1>1, ActiveType, SourceAssumption DEF RowRecords, Statuses, RunRecords
<1> HIDE DEF row
<1>3. pc \in {"start"} /\ pc \in Pcs /\ Ran \in 0..NoLine
  BY BoundsType DEF Pcs, Sessionless, Ran, NoLine
<1> HIDE DEF pc
<1>4. /\ Row(r).status # "gone"
      /\ migration' \in [Rows -> RowRecords] /\ run' \in [Runs -> RunRecords]
      /\ \A m \in Rows : m # run[r].row => migration'[m] = migration[m]
      /\ \A o \in Runs : o # r => run'[o] = run[o]
      /\ run'[r].pc = pc /\ Kin(run'[r], run[r])
      /\ migration'[run[r].row].status = "requesting" /\ migration'[run[r].row].session = Row(r).session
      /\ migration'[run[r].row].imported = Row(r).imported
  BY <1>1, <1>2, <1>3, PersistTo
<1>5. Moved(r)
  BY <1>1, <1>4, ActiveType DEF Moved, Kin
<1>6. Works(r)
  BY <1>1, <1>3, <1>4, WorksOn DEF Kin, PreWork, Finding, Sessionless, Early, Requests
<1>7. Tells(r)
  BY <1>1, <1>3, <1>4 DEF Tells, Writing, IInv, StateType, AskedInv, ACTIVE_STATUSES
<1>8. Holds(r)
  <2>1. Writing(run[r]) /\ configured /\ run[r].handle = NoSession
    BY <1>1 DEF Writing, IInv, SessionsInv, Sessionless, Early
  <2>2. Row(r)' = migration'[run[r].row] /\ NoSession \notin live
    BY <1>3, <1>4 DEF Row, Kin, IInv, StateType, Runs, NoSession
  <2>3. ASSUME troubles \cap Leaks = {}
        PROVE  Row(r).session = NoSession
    <3>1. Remembers(run[r], Row(r)) /\ run[r].phase = "request"
      BY <1>1, <2>1, <2>3 DEF IInv, KeptInv, PhasesInv
    <3> QED BY <1>1, <3>1 DEF Remembers, Early
  <2>4. ASSUME troubles \cap Leaks = {} PROVE Remembers(run[r], Row(r))'
    BY <1>1, <1>3, <1>4, <2>2, <2>3, <2>4 DEF Remembers, Early, Requests, Reading, Finding, Filing, Kin
  <2> QED BY <1>1, <1>3, <1>4, <2>1, <2>2, <2>3, <2>4 DEF Holds, Kin, Sessionless, Early, Relies
<1> QED BY <1>5, <1>6, <1>7, <1>8 DEF StepTo

LEMMA OpenTo == ASSUME IInv, NEW r \in Runs, Open(r) PROVE StepTo(r)
<1>1. /\ run[r].pc = "open" /\ Active(r) /\ Goes(r, "opened")
      /\ UNCHANGED <<configured, migration, page, live, asked, target, started, begun, troubles>>
  BY DEF Open, Active
<1>2. "opened" \in Pcs
  BY DEF Pcs, Requests
<1>3. /\ Moved(r) /\ run'[r].pc = "opened" /\ Kin(run'[r], run[r])
      /\ migration'[run[r].row] = Row(r)
  BY <1>1, <1>2, GoesOn
<1>4. Works(r)
  BY <1>1, <1>3, WorksOn DEF Kin, PreWork, Finding, Requests
<1>5. Tells(r)
  BY <1>1, <1>3 DEF Tells, Writing, IInv, StateType
<1>6. Holds(r)
  BY <1>1, <1>3, HoldsOn DEF Kin, Requests
<1> QED BY <1>3, <1>4, <1>5, <1>6 DEF StepTo

(* Whether the agent asked or not.                                         *)
LEMMA RequestAccessTo == ASSUME IInv, NEW r \in Runs, RequestAccess(r) PROVE StepTo(r)
<1>1. /\ run[r].pc = "agent" /\ Active(r) /\ Goes(r, "requested")
      /\ \/ asked' = asked \cup {run[r].row} /\ troubles' = troubles
         \/ asked' = asked /\ troubles' = troubles \cup {"unasked"}
      /\ UNCHANGED <<configured, migration, page, live, target, started, begun>>
  BY DEF RequestAccess, Active, Fault
<1>2. "requested" \in Pcs /\ troubles \subseteq troubles' /\ troubles' \subseteq troubles \cup Mishaps
  BY <1>1 DEF Pcs, Requests, Mishaps
<1>3. /\ Moved(r) /\ run'[r].pc = "requested" /\ Kin(run'[r], run[r])
      /\ migration'[run[r].row] = Row(r)
  BY <1>1, <1>2, GoesOn
<1>4. Works(r)
  BY <1>1, <1>3, WorksOn DEF Kin, PreWork, Finding, Requests
<1>5. Tells(r)
  BY <1>1, <1>3, ActiveType DEF Tells, Writing, IInv, StateType
<1>6. Holds(r)
  BY <1>1, <1>2, <1>3, HoldsOn DEF Kin, Requests
<1> QED BY <1>3, <1>4, <1>5, <1>6 DEF StepTo

LEMMA StoreNdaTo == ASSUME IInv, NEW r \in Runs, StoreNda(r) PROVE StepTo(r)
<1> DEFINE row == [Row(r) EXCEPT !.nda = Nda]
           pc == "awaiting"
<1>1. /\ run[r].pc = "nda" /\ Active(r) /\ Persist(r, row, NoLine, pc)
      /\ UNCHANGED <<configured, page, live, asked, target, started, begun, troubles>>
  BY DEF StoreNda, Active
<1>2. /\ row \in RowRecords /\ row.status = Row(r).status /\ row.session = Row(r).session
      /\ row.imported = Row(r).imported
  BY <1>1, ActiveType, SourceAssumption DEF RowRecords, Statuses, RunRecords
<1> HIDE DEF row
<1>3. pc \in {"awaiting"} /\ pc \in Pcs /\ NoLine \in 0..NoLine
  BY BoundsType DEF Pcs, Requests, Ran, NoLine
<1> HIDE DEF pc
<1>4. /\ Row(r).status # "gone"
      /\ migration' \in [Rows -> RowRecords] /\ run' \in [Runs -> RunRecords]
      /\ \A m \in Rows : m # run[r].row => migration'[m] = migration[m]
      /\ \A o \in Runs : o # r => run'[o] = run[o]
      /\ run'[r].pc = pc /\ Kin(run'[r], run[r])
      /\ migration'[run[r].row].status = Row(r).status /\ migration'[run[r].row].session = Row(r).session
      /\ migration'[run[r].row].imported = Row(r).imported
  BY <1>1, <1>2, <1>3, PersistTo
<1>5. Moved(r)
  BY <1>1, <1>4, ActiveType DEF Moved, Kin
<1>6. Works(r)
  BY <1>1, <1>3, <1>4, WorksOn DEF Kin, PreWork, Finding, Sessionless, Early, Requests
<1>7. Tells(r)
  BY <1>1, <1>3, <1>4 DEF Tells, Writing, IInv, StateType, AskedInv, ACTIVE_STATUSES
<1>8. Holds(r)
  BY <1>1, <1>3, <1>4, HoldsOn DEF Kin, Requests, Reading, Finding, Filing
<1> QED BY <1>5, <1>6, <1>7, <1>8 DEF StepTo

(* The session is left to the row, which names it and waits.               *)
LEMMA AwaitTo == ASSUME IInv, NEW r \in Runs, Await(r) PROVE StepTo(r)
<1> DEFINE y == [Row(r) EXCEPT !.status = "awaiting_release", !.log = Logged(r, Ran)]
<1>1. /\ run[r].pc = "awaiting" /\ Active(r) /\ Row(r).status # "gone"
      /\ migration' = [migration EXCEPT ![run[r].row] = y] /\ run' = [run EXCEPT ![r] = Idle]
      /\ UNCHANGED <<configured, page, live, asked, target, started, begun, troubles>>
  BY ActiveType DEF Await, Active, Row, IInv, StateType
<1>2. /\ y \in RowRecords /\ y.status = "awaiting_release" /\ y.session = Row(r).session
      /\ y.imported = Row(r).imported
  <2>1. Logged(r, Ran) \in SUBSET Lines
    BY LoggedType, BoundsType DEF Ran
  <2> QED BY <1>1, <2>1, ActiveType DEF RowRecords, Statuses
<1> HIDE DEF y
<1>3. /\ migration' \in [Rows -> RowRecords] /\ run' \in [Runs -> RunRecords]
      /\ \A m \in Rows : m # run[r].row => migration'[m] = migration[m]
      /\ \A o \in Runs : o # r => run'[o] = run[o]
      /\ migration'[run[r].row] = y /\ run'[r] = Idle
  BY <1>1, <1>2, IdleType, BecomesTo
<1>4. Idle.pc = "idle" /\ Idle.handle = NoSession /\ Idle.prior = NoSession
  BY DEF Idle
<1>5. Moved(r)
  BY <1>1, <1>2, <1>3, <1>4, ActiveType DEF Moved
<1>6. Works(r)
  BY <1>1, <1>2, <1>3, <1>4, WorksOn DEF Ends
<1>7. Tells(r)
  BY <1>1, <1>2, <1>3, <1>4 DEF Tells, Writing, IInv, StateType, AskedInv
<1>8. Holds(r)
  <2>1. Writing(run[r]) /\ configured
    BY <1>1 DEF Writing, IInv, SessionsInv
  <2>2. ASSUME troubles \cap Leaks = {} PROVE Row(r).session = run[r].handle
    <3>1. Remembers(run[r], Row(r))
      BY <2>1, <2>2 DEF IInv, KeptInv
    <3> QED BY <1>1, <3>1 DEF Remembers, Requests
  <2> QED BY <1>1, <1>2, <1>3, <1>4, <2>1, <2>2 DEF Holds, Sessionless, Early, Writing, Relies
<1> QED BY <1>5, <1>6, <1>7, <1>8 DEF StepTo

-----------------------------------------------------------------------------
(* The import *)

LEMMA ImportingTo == ASSUME IInv, NEW r \in Runs, Importing(r) PROVE StepTo(r)
<1> DEFINE row == [Row(r) EXCEPT !.status = "importing"]
           pc == IF run[r].prior = NoSession THEN "start" ELSE "reconnect"
<1>1. /\ run[r].pc = "importing" /\ Active(r) /\ Persist(r, row, Ran, pc)
      /\ UNCHANGED <<configured, page, live, asked, target, started, begun, troubles>>
  BY DEF Importing, Active
<1>2. /\ row \in RowRecords /\ row.status = "importing" /\ row.session = Row(r).session
      /\ row.imported = Row(r).imported
  BY <1>1, ActiveType, SourceAssumption DEF RowRecords, Statuses, RunRecords
<1> HIDE DEF row
<1>3. pc \in {"start", "reconnect"} /\ pc \in Pcs /\ Ran \in 0..NoLine
  BY BoundsType DEF Pcs, Sessionless, Early, Ran, NoLine
<1> HIDE DEF pc
<1>4. /\ Row(r).status # "gone"
      /\ migration' \in [Rows -> RowRecords] /\ run' \in [Runs -> RunRecords]
      /\ \A m \in Rows : m # run[r].row => migration'[m] = migration[m]
      /\ \A o \in Runs : o # r => run'[o] = run[o]
      /\ run'[r].pc = pc /\ Kin(run'[r], run[r])
      /\ migration'[run[r].row].status = "importing" /\ migration'[run[r].row].session = Row(r).session
      /\ migration'[run[r].row].imported = Row(r).imported
  BY <1>1, <1>2, <1>3, PersistTo
<1>5. Moved(r)
  BY <1>1, <1>4, ActiveType DEF Moved, Kin
<1>6. Works(r)
  BY <1>1, <1>3, <1>4, WorksOn DEF Kin, PreWork, Finding, Sessionless, Early, Requests
<1>7. Tells(r)
  BY <1>1, <1>3, <1>4 DEF Tells, Writing, IInv, StateType, AskedInv, ACTIVE_STATUSES
<1>8. Holds(r)
  <2>1. Writing(run[r]) /\ configured
    BY <1>1 DEF Writing, IInv, SessionsInv
  <2>2. Row(r)' = migration'[run[r].row] /\ NoSession \notin live
    BY <1>3, <1>4 DEF Row, Kin, IInv, StateType, Runs, NoSession
  <2>3. ASSUME troubles \cap Leaks = {}
        PROVE  /\ Remembers(run[r], Row(r))'
               /\ \A s \in live : s = run[r].handle \/ Relies(Row(r), s) =>
                    run'[r].handle = s \/ Relies(migration'[run[r].row], s)
    <3>1. Remembers(run[r], Row(r))
      BY <2>1, <2>3 DEF IInv, KeptInv
    <3>2. run[r].handle = NoSession \/ run[r].pc \notin Sessionless
      BY DEF IInv, SessionsInv
    <3>5. run[r].phase # "request" /\ (pc = "start" => run[r].prior = NoSession)
      BY <1>1 DEF pc, IInv, PhasesInv
    <3>3. Remembers(run[r], Row(r))'
      BY <1>1, <1>3, <1>4, <2>2, <3>1, <3>2, <3>5
      DEF Remembers, Kin, Sessionless, Early, Requests, Reading, Finding, Filing
    <3>4. ASSUME NEW s \in live, s = run[r].handle \/ Relies(Row(r), s)
          PROVE  run'[r].handle = s \/ Relies(migration'[run[r].row], s)
      BY <1>1, <1>4, <2>2, <3>1, <3>2, <3>4 DEF Remembers, Relies, Kin, Early
    <3> QED BY <3>3, <3>4
  <2>4. run[r].pc \in Sessionless => run[r].handle = NoSession
    BY DEF IInv, SessionsInv
  <2> QED BY <1>1, <1>3, <1>4, <2>1, <2>3, <2>4 DEF Holds, Kin, Sessionless, Early
<1> QED BY <1>5, <1>6, <1>7, <1>8 DEF StepTo

(* The session the row names is the phase's now, or it is closed.          *)
LEMMA ResumeSessionTo == ASSUME IInv, NEW r \in Runs, resumeSession(r) PROVE StepTo(r)
<1>1. /\ run[r].pc = "reconnect" /\ Active(r)
      /\ UNCHANGED <<configured, migration, page, live, asked, target, started, begun>>
  BY DEF resumeSession, Active
<1>2. migration'[run[r].row] = Row(r)
  BY <1>1 DEF Row
<1>3. Writing(run[r]) /\ configured /\ run[r].handle = NoSession /\ NoSession \notin live /\ run[r].phase # "request"
  BY <1>1 DEF Writing, IInv, SessionsInv, PhasesInv, Sessionless, Early, StateType, Runs, NoSession
<1>4. troubles \cap Leaks = {} => run[r].prior = Row(r).session
  BY <1>1, <1>3 DEF IInv, KeptInv, Remembers
<1>5. CASE run[r].prior \in live /\ run' = [run EXCEPT ![r].handle = run[r].prior, ![r].pc = "reopen"]
           /\ troubles' = troubles
  <2> DEFINE x == [run[r] EXCEPT !.handle = run[r].prior, !.pc = "reopen"]
  <2>1. run[r] \in RunRecords
    BY <1>1, ActiveType
  <2>2. run' = [run EXCEPT ![r] = x]
    BY <1>5, <2>1 DEF IInv, StateType
  <2>3. /\ x \in RunRecords /\ x.pc = "reopen" /\ x.phase = run[r].phase /\ x.row = run[r].row
        /\ x.handle = run[r].prior /\ x.prior = run[r].prior /\ x.at = run[r].at /\ x.imported = run[r].imported
    BY <2>1 DEF RunRecords, Pcs, Reading, Finding
  <2> HIDE DEF x
  <2>4. run' \in [Runs -> RunRecords] /\ run'[r] = x /\ \A o \in Runs : o # r => run'[o] = run[o]
    BY <2>2, <2>3 DEF IInv, StateType
  <2>5. Moved(r)
    BY <1>1, <1>2, <1>5, <2>3, <2>4, ActiveType DEF Moved, IInv, StateType
  <2>6. Works(r)
    BY <1>1, <1>2, <2>3, <2>4, WorksOn DEF PreWork, Finding, Sessionless, Early, Requests
  <2>7. Tells(r)
    BY <1>1, <1>2, <2>3, <2>4 DEF Tells, Writing, IInv, StateType
  <2>8. ASSUME troubles \cap Leaks = {} PROVE Remembers(run[r], Row(r))'
    <3>1. Row(r)' = Row(r)
      BY <1>1, <2>3, <2>4 DEF Row
    <3> QED BY <1>1, <1>4, <2>3, <2>4, <2>8, <3>1 DEF Remembers, Early, Requests, Reading, Finding, Filing
  <2>9. Holds(r)
    BY <1>1, <1>2, <1>3, <1>5, <2>3, <2>4, <2>8 DEF Holds, Sessionless, Early, Relies
  <2> QED BY <2>5, <2>6, <2>7, <2>9 DEF StepTo
<1>6. CASE /\ Goes(r, "expired")
           /\ \/ troubles' = troubles /\ run[r].prior \notin live
              \/ troubles' = troubles \cup {"unreached"}
  <2>1. "expired" \in Pcs
    BY DEF Pcs, Sessionless
  <2>2. /\ Moved(r) /\ run'[r].pc = "expired" /\ Kin(run'[r], run[r])
    BY <1>1, <1>6, <2>1, GoesOn DEF Mishaps
  <2>3. Works(r)
    BY <1>1, <1>2, <2>2, WorksOn DEF Kin, PreWork, Finding, Sessionless, Early, Requests
  <2>4. Tells(r)
    BY <1>1, <1>2, <2>2 DEF Tells, Writing, IInv, StateType
  <2>5. ASSUME troubles' \cap Leaks = {} PROVE Remembers(run[r], Row(r))'
    <3>1. Row(r)' = Row(r)
      BY <1>1, <2>2 DEF Row, Kin
    <3>2. Row(r).session \notin live
      <4>1. troubles' # troubles \cup {"unreached"}
        BY <2>5 DEF Leaks
      <4>2. troubles \cap Leaks = {} /\ run[r].prior \notin live
        BY <1>6, <2>5, <4>1
      <4> QED BY <1>4, <4>2
    <3> QED BY <1>1, <2>2, <3>1, <3>2 DEF Remembers, Early, Requests, Reading, Finding, Filing
  <2>6. Holds(r)
    BY <1>1, <1>2, <1>3, <2>2, <2>5 DEF Holds, Kin, Sessionless, Early, Relies
  <2> QED BY <2>2, <2>3, <2>4, <2>6 DEF StepTo
<1>7. troubles' = troubles \/ troubles' = troubles \cup {"unreached"}
  BY DEF resumeSession, Fault
<1> QED BY <1>5, <1>6, <1>7 DEF resumeSession, Fault

LEMMA ReopenTo == ASSUME IInv, NEW r \in Runs, Reopen(r) PROVE StepTo(r)
<1>1. /\ run[r].pc = "reopen" /\ Active(r) /\ Goes(r, "reopened")
      /\ UNCHANGED <<configured, migration, page, live, asked, target, started, begun, troubles>>
  BY DEF Reopen, Active
<1>2. "reopened" \in Pcs
  BY DEF Pcs, Reading, Finding
<1>3. /\ Moved(r) /\ run'[r].pc = "reopened" /\ Kin(run'[r], run[r])
      /\ migration'[run[r].row] = Row(r)
  BY <1>1, <1>2, GoesOn
<1>4. Works(r)
  BY <1>1, <1>3, WorksOn DEF Kin, PreWork, Finding, Sessionless, Early, Requests
<1>5. Tells(r)
  BY <1>1, <1>3 DEF Tells, Writing, IInv, StateType
<1>6. Holds(r)
  BY <1>1, <1>3, HoldsOn DEF Kin, Reading, Finding
<1> QED BY <1>3, <1>4, <1>5, <1>6 DEF StepTo

-----------------------------------------------------------------------------
(* Copying the parts and filing the documents *)

(* The next part is the first that is left.                                *)
LEMMA NextPartIs ==
  ASSUME NEW i, PartsFrom(i) # {}
  PROVE  NextPart(i) \in PartsFrom(i) /\ \A k \in PartsFrom(i) : NextPart(i) <= k
<1>1. PartsFrom(i) \subseteq {1, 2, 3, 4, 5, 6, 7}
  BY DEF PartsFrom, Parts
<1> DEFINE S == PartsFrom(i)
<1> HIDE DEF S
<1>2. S \subseteq {1, 2, 3, 4, 5, 6, 7} /\ S # {}
  BY <1>1 DEF S
<1>3. \E j \in S : \A k \in S : j <= k
  <2>1. 1 \in S \/ 2 \in S \/ 3 \in S \/ 4 \in S \/ 5 \in S \/ 6 \in S \/ 7 \in S
    BY <1>2
  <2> QED BY <1>2, <2>1
<1> QED BY <1>3 DEF S, NextPart

LEMMA PartsType == DOMAIN Parts \subseteq Nat /\ (\A p \in Found : \E j \in DOMAIN Parts : p = Parts[j])
                   /\ \A j \in DOMAIN Parts : Parts[j] \in PartNames
<1>1. DOMAIN Parts = 1..7
  BY DEF Parts
<1> QED BY <1>1, SourceAssumption DEF PartNames

(* Once no part is left, the documents are begun with nothing filed.       *)
LEMMA DocsBegin ==
  ASSUME IInv, NEW r \in Runs, NEW x \in RunRecords, NEW i \in Nat,
         x.pc = "docs", x.at = 1, x.imported = 0, Mine(r, target) = {}, PartsFrom(i) = {},
         \A j \in DOMAIN Parts : j < i /\ Parts[j] \in Found => target.parts[Parts[j]] >= 1
  PROVE  Copying(x, r, target) /\ Filed(x, r, target) /\ Finished(x, r, target)
<1>1. ASSUME NEW p \in Found PROVE target.parts[p] >= 1
  <2>1. PICK j \in DOMAIN Parts : p = Parts[j]
    BY PartsType
  <2>2. j \in Nat /\ ~(j >= i)
    BY <2>1, PartsType DEF PartsFrom
  <2> QED BY <2>1, <2>2
<1>2. Cardinality(SentBy(r, target)) \in Nat
  <2>1. SentBy(r, target) \subseteq target.artifacts
    BY DEF SentBy
  <2> QED BY <2>1, FS_Subset, FS_CardinalityType DEF IInv, StateType
<1>3. Copying(x, r, target) /\ Finished(x, r, target)
  BY DEF Copying, Finished, Sessionless, Early, Requests, Reading, Finding
<1>4. Filed(x, r, target)
  BY <1>1, <1>2, BoundsType DEF Filed
<1> QED BY <1>3, <1>4

LEMMA ExtractTo == ASSUME IInv, NEW r \in Runs, Extract(r) PROVE StepTo(r)
<1> DEFINE pc == IF run[r].pc = "extract" THEN "extracted" ELSE "listed"
<1>1. /\ run[r].pc \in {"extract", "list"} /\ Active(r) /\ Goes(r, pc)
      /\ UNCHANGED <<configured, migration, page, live, asked, target, started, begun, troubles>>
  BY DEF Extract, Active
<1>2. pc \in {"extracted", "listed"} /\ pc \in Pcs
  BY DEF Pcs, Reading, Finding
<1> HIDE DEF pc
<1>3. /\ Moved(r) /\ run'[r].pc = pc /\ Kin(run'[r], run[r])
      /\ migration'[run[r].row] = Row(r)
  BY <1>1, <1>2, GoesOn
<1>4. Works(r)
  BY <1>1, <1>2, <1>3, WorksOn DEF Kin, PreWork, Finding, Sessionless, Early, Requests
<1>5. Tells(r)
  BY <1>1, <1>2, <1>3 DEF Tells, Writing, IInv, StateType
<1>6. Holds(r)
  BY <1>1, <1>2, <1>3, HoldsOn DEF Kin, Reading, Finding
<1> QED BY <1>3, <1>4, <1>5, <1>6 DEF StepTo

(* A line of the log stands between two calls.                             *)
LEMMA LogsType ==
  /\ DOMAIN Logs = {"opened", "requested", "expired", "reopened", "extracted", "listed"}
  /\ Logs["opened"] = "agent" /\ Logs["requested"] = "nda" /\ Logs["expired"] = "start"
  /\ Logs["reopened"] = "extract" /\ Logs["extracted"] = "list"
  /\ Logs["listed"] = IF PartsFrom(1) = {} THEN "docs" ELSE "copy"
BY DEF Logs

LEMMA LogTo == ASSUME IInv, NEW r \in Runs, Log(r) PROVE StepTo(r)
<1> DEFINE row == Row(r)
           pc == Logs[run[r].pc]
<1>1. /\ run[r].pc \in DOMAIN Logs /\ Active(r) /\ Persist(r, row, Ran, pc)
      /\ UNCHANGED <<configured, page, live, asked, target, started, begun, troubles>>
  BY LogsType DEF Log, Active
<1>2. /\ run[r].pc = "opened" => pc = "agent"
      /\ run[r].pc = "requested" => pc = "nda"
      /\ run[r].pc = "expired" => pc = "start"
      /\ run[r].pc = "reopened" => pc = "extract"
      /\ run[r].pc = "extracted" => pc = "list"
      /\ run[r].pc = "listed" => pc \in {"docs", "copy"} /\ (pc = "docs" <=> PartsFrom(1) = {})
      /\ run[r].pc \in {"opened", "requested", "expired", "reopened", "extracted", "listed"}
  BY <1>1, LogsType
<1> HIDE DEF pc
<1>3. pc \in Pcs /\ Ran \in 0..NoLine
  BY <1>2, BoundsType DEF Pcs, Sessionless, Requests, Reading, Finding, Filing, Ran, NoLine
<1>4. row \in RowRecords /\ row = Row(r)
  BY <1>1, ActiveType
<1> HIDE DEF row
<1>5. /\ Row(r).status # "gone"
      /\ migration' \in [Rows -> RowRecords] /\ run' \in [Runs -> RunRecords]
      /\ \A m \in Rows : m # run[r].row => migration'[m] = migration[m]
      /\ \A o \in Runs : o # r => run'[o] = run[o]
      /\ run'[r].pc = pc /\ Kin(run'[r], run[r])
      /\ migration'[run[r].row].status = Row(r).status /\ migration'[run[r].row].session = Row(r).session
      /\ migration'[run[r].row].imported = Row(r).imported
  BY <1>1, <1>3, <1>4, PersistTo
<1>6. Moved(r)
  BY <1>1, <1>2, <1>5, ActiveType DEF Moved, Kin
<1>7. Works(r)
  <2>1. CASE run[r].pc # "listed"
    BY <1>1, <1>2, <1>5, <2>1, WorksOn DEF Kin, PreWork, Finding, Sessionless, Early, Requests
  <2>2. CASE run[r].pc = "listed"
    <3>1. Mine(r, target) = {} /\ run[r].imported = 0 /\ run[r].at = 1
      BY <2>2 DEF IInv, WorkInv, Copying, Reading, Finding
    <3>2. run'[r] \in RunRecords /\ run'[r].at = 1 /\ run'[r].imported = 0
      BY <1>5, <3>1 DEF Kin
    <3>3. DOMAIN Parts \subseteq Nat /\ \A j \in DOMAIN Parts : ~(j < 1)
      BY DEF Parts
    <3>4. CASE pc = "docs"
      <4>1. Copying(run'[r], r, target) /\ Filed(run'[r], r, target) /\ Finished(run'[r], r, target)
        BY <1>2, <1>5, <2>2, <3>1, <3>2, <3>3, <3>4, DocsBegin
      <4> QED BY <1>1, <1>5, <4>1 DEF Works, IInv, StateType
    <3>5. CASE pc = "copy"
      <4>1. Copying(run'[r], r, target) /\ Filed(run'[r], r, target) /\ Finished(run'[r], r, target)
        BY <1>2, <1>5, <2>2, <3>1, <3>2, <3>3, <3>5
        DEF Copying, Filed, Finished, Filing, Sessionless, Early, Requests, Finding
      <4> QED BY <1>1, <1>5, <4>1 DEF Works, IInv, StateType
    <3> QED BY <1>2, <2>2, <3>4, <3>5
  <2> QED BY <2>1, <2>2
<1>8. Tells(r)
  BY <1>1, <1>2, <1>5 DEF Tells, Writing, IInv, StateType, AskedInv, ACTIVE_STATUSES
<1>9. Holds(r)
  <2>1. CASE run[r].pc # "expired"
    BY <1>1, <1>2, <1>5, <2>1, HoldsOn DEF Kin, Requests, Reading, Finding, Filing
  <2>2. CASE run[r].pc = "expired"
    <3>1. Writing(run[r]) /\ configured /\ run[r].handle = NoSession
      BY <2>2 DEF Writing, IInv, SessionsInv, Sessionless
    <3>2. Row(r)' = migration'[run[r].row] /\ NoSession \notin live
      BY <1>5 DEF Row, Kin, IInv, StateType, Runs, NoSession
    <3>3. ASSUME troubles \cap Leaks = {}
          PROVE  Remembers(run[r], Row(r))' /\ Row(r).session \notin live
      <4>1. Remembers(run[r], Row(r))
        BY <3>1, <3>3 DEF IInv, KeptInv
      <4> QED
        BY <1>1, <1>2, <1>5, <2>2, <3>2, <4>1 DEF Remembers, Kin, Early, Requests, Reading, Finding, Filing
    <3> QED BY <1>1, <1>2, <1>5, <2>2, <3>1, <3>2, <3>3 DEF Holds, Kin, Sessionless, Early, Relies
  <2> QED BY <2>1, <2>2
<1> QED BY <1>6, <1>7, <1>8, <1>9 DEF StepTo

(* A part is in the target once it is copied, and those before it stay.    *)
LEMMA CopyTo == ASSUME IInv, NEW r \in Runs, Copy(r) PROVE StepTo(r)
<1> DEFINE n == NextPart(run[r].at)
           x == [run[r] EXCEPT !.pc = "copied", !.at = n + 1]
<1>1. /\ run[r].pc = "copy" /\ Active(r)
      /\ target' = [target EXCEPT !.parts[Parts[n]] = r]
      /\ UNCHANGED <<configured, migration, page, live, asked, started, begun, troubles>>
  BY DEF Copy, Active
<1>2. run[r] \in RunRecords /\ r \in 1..MaxRuns /\ r >= 1 /\ run[r].row \in Rows
  BY <1>1, ActiveType DEF Runs
<1>3. run' = [run EXCEPT ![r] = x]
  BY <1>2 DEF Copy, IInv, StateType
<1>4. PartsFrom(run[r].at) # {} /\ Mine(r, target) = {} /\ run[r].imported = 0
      /\ \A j \in DOMAIN Parts : j < run[r].at /\ Parts[j] \in Found => target.parts[Parts[j]] >= 1
  BY <1>1 DEF IInv, WorkInv, Copying, Reading, Finding
<1>5. n \in PartsFrom(run[r].at) /\ \A k \in PartsFrom(run[r].at) : n <= k
  BY <1>4, NextPartIs
<1>6. n \in DOMAIN Parts /\ n \in Nat /\ Parts[n] \in PartNames
  BY <1>5, PartsType DEF PartsFrom
<1> HIDE DEF n
<1>7. /\ x \in RunRecords /\ x.pc = "copied" /\ x.phase = run[r].phase /\ x.row = run[r].row
      /\ x.handle = run[r].handle /\ x.prior = run[r].prior /\ x.at = n + 1 /\ x.imported = 0
  <2>1. n + 1 \in Nat /\ run[r].imported = 0
    BY <1>4, <1>6
  <2> QED BY <1>2, <2>1 DEF RunRecords, Pcs, Reading, Finding
<1> HIDE DEF x
<1>8. run' \in [Runs -> RunRecords] /\ run'[r] = x /\ \A o \in Runs : o # r => run'[o] = run[o]
  BY <1>3, <1>7 DEF IInv, StateType
<1>9. migration'[run[r].row] = Row(r)
  BY <1>1 DEF Row
<1>10. Moved(r)
  BY <1>1, <1>2, <1>7, <1>8, <1>9 DEF Moved, IInv, StateType
<1>11. Works(r)
  <2>1. /\ target \in [there : BOOLEAN, parts : [PartNames -> 0..MaxRuns], artifacts : SUBSET Artifacts]
        /\ IsFiniteSet(target.artifacts)
    BY DEF IInv, StateType
  <2>2. /\ target' \in [there : BOOLEAN, parts : [PartNames -> 0..MaxRuns], artifacts : SUBSET Artifacts]
        /\ target'.there = target.there /\ target'.artifacts = target.artifacts
        /\ target'.parts = [target.parts EXCEPT ![Parts[n]] = r]
    <3> DEFINE ps == [target.parts EXCEPT ![Parts[n]] = r]
    <3>1. r \in 0..MaxRuns
      BY <1>2, BoundsType
    <3>2. ps \in [PartNames -> 0..MaxRuns]
      BY <2>1, <3>1
    <3>3. target' = [target EXCEPT !.parts = ps]
      BY <1>1, <2>1
    <3> HIDE DEF ps
    <3>4. target' \in [there : BOOLEAN, parts : [PartNames -> 0..MaxRuns], artifacts : SUBSET Artifacts]
          /\ target'.there = target.there /\ target'.artifacts = target.artifacts /\ target'.parts = ps
      BY <2>1, <3>2, <3>3
    <3> QED BY <3>4 DEF ps
  <2>3. \A p \in PartNames : target'.parts[p] = IF p = Parts[n] THEN r ELSE target.parts[p]
    BY <1>6, <2>1, <2>2
  <2>4. ASSUME NEW j \in DOMAIN Parts, j < n + 1, Parts[j] \in Found PROVE target'.parts[Parts[j]] >= 1
    <3>1. j \in Nat /\ Parts[j] \in PartNames /\ run[r].at \in Nat
      BY <1>2, PartsType DEF RunRecords
    <3>2. j < run[r].at \/ j \in PartsFrom(run[r].at)
      BY <2>4, <3>1 DEF PartsFrom
    <3>3. j < run[r].at \/ j = n
      BY <1>5, <1>6, <2>4, <3>1, <3>2
    <3> QED BY <1>2, <1>4, <2>3, <2>4, <3>1, <3>3
  <2>5. Copying(x, r, target') /\ Filed(x, r, target') /\ Finished(x, r, target')
    BY <1>4, <1>7, <2>2, <2>4
    DEF Copying, Filed, Finished, Filing, Mine, Sessionless, Early, Requests, Finding
  <2>6. \A p \in PartNames : target.parts[p] >= 1 => target'.parts[p] >= 1
    BY <1>2, <2>3
  <2> QED BY <1>8, <1>9, <2>1, <2>2, <2>5, <2>6 DEF Works, Mine, Sent
<1>12. Tells(r)
  BY <1>1, <1>7, <1>8, <1>9 DEF Tells, Writing, IInv, StateType
<1>13. Holds(r)
  <2>1. Writing(run[r]) /\ configured
    BY <1>1 DEF Writing, IInv, SessionsInv
  <2>2. ASSUME troubles \cap Leaks = {} PROVE Remembers(run[r], Row(r))'
    <3>1. Remembers(run[r], Row(r))
      BY <2>1, <2>2 DEF IInv, KeptInv
    <3> QED BY <1>1, <1>7, <1>8, <3>1 DEF Remembers, Row, Requests, Reading, Finding, Filing, Early
  <2> QED BY <1>1, <1>7, <1>8, <1>9, <2>1, <2>2
      DEF Holds, Requests, Reading, Finding, Filing, Sessionless, Early, Relies
<1> QED BY <1>10, <1>11, <1>12, <1>13 DEF StepTo

(* The next part, or the documents once no part is left.                   *)
LEMMA CopiedTo == ASSUME IInv, NEW r \in Runs, Copied(r) PROVE StepTo(r)
<1> DEFINE more == PartsFrom(run[r].at) # {}
           y == [Row(r) EXCEPT !.log = Logged(r, Ran)]
           pc == IF more THEN "copy" ELSE "docs"
           at == IF more THEN run[r].at ELSE 1
           x == [run[r] EXCEPT !.pc = pc, !.lines = Logged(r, Ran), !.at = at]
<1>1. /\ run[r].pc = "copied" /\ Active(r) /\ Row(r).status # "gone"
      /\ UNCHANGED <<configured, page, live, asked, target, started, begun, troubles>>
  BY DEF Copied, Active
<1>2. run[r] \in RunRecords /\ run[r].row \in Rows /\ Row(r) \in RowRecords
  BY <1>1, ActiveType
<1>3. migration' = [migration EXCEPT ![run[r].row] = y] /\ run' = [run EXCEPT ![r] = x]
  BY <1>2 DEF Copied, Row, IInv, StateType
<1>4. Logged(r, Ran) \in SUBSET Lines
  BY LoggedType, BoundsType DEF Ran
<1>5. y \in RowRecords /\ y.status = Row(r).status /\ y.session = Row(r).session /\ y.imported = Row(r).imported
  BY <1>2, <1>4 DEF RowRecords
<1> HIDE DEF y
<1>6. pc \in {"copy", "docs"} /\ (pc = "copy" => more /\ at = run[r].at) /\ (pc = "docs" => ~more /\ at = 1) /\ at \in Nat
  BY <1>2 DEF RunRecords
<1> HIDE DEF pc, at
<1>7. /\ x \in RunRecords /\ x.pc = pc /\ x.phase = run[r].phase /\ x.row = run[r].row
      /\ x.handle = run[r].handle /\ x.prior = run[r].prior /\ x.at = at /\ x.imported = run[r].imported
  BY <1>2, <1>4, <1>6 DEF RunRecords, Pcs, Reading, Finding, Filing
<1> HIDE DEF x
<1>8. /\ migration' \in [Rows -> RowRecords] /\ run' \in [Runs -> RunRecords]
      /\ \A m \in Rows : m # run[r].row => migration'[m] = migration[m]
      /\ \A o \in Runs : o # r => run'[o] = run[o]
      /\ migration'[run[r].row] = y /\ run'[r] = x
  BY <1>1, <1>3, <1>5, <1>7, BecomesTo
<1>9. Moved(r)
  BY <1>1, <1>2, <1>5, <1>7, <1>8 DEF Moved
<1>10. Works(r)
  <2>1. Mine(r, target) = {} /\ run[r].imported = 0 /\ run[r].at \in Nat
        /\ \A j \in DOMAIN Parts : j < run[r].at /\ Parts[j] \in Found => target.parts[Parts[j]] >= 1
    BY <1>1, <1>2 DEF IInv, WorkInv, Copying, Reading, Finding, RunRecords
  <2>2. Copying(x, r, target) /\ Filed(x, r, target) /\ Finished(x, r, target)
    <3>1. CASE pc = "copy"
      BY <1>6, <1>7, <2>1, <3>1 DEF Copying, Filed, Finished, Filing, Sessionless, Early, Requests, Finding
    <3>2. CASE pc = "docs"
      BY <1>6, <1>7, <2>1, <3>2, DocsBegin
    <3> QED BY <1>6, <3>1, <3>2
  <2> QED BY <1>1, <1>5, <1>8, <2>2 DEF Works, IInv, StateType
<1>11. Tells(r)
  BY <1>1, <1>5, <1>6, <1>7, <1>8 DEF Tells, Writing, IInv, StateType
<1>12. Holds(r)
  BY <1>1, <1>5, <1>6, <1>7, <1>8, HoldsOn DEF Reading, Finding, Filing
<1> QED BY <1>9, <1>10, <1>11, <1>12 DEF StepTo

(* The document it is at is dealt with, and the next one begun.            *)
LEMMA DocumentDone ==
  ASSUME IInv, NEW r \in Runs, NEW x \in RunRecords, run[r].pc \in {"docs", "skip", "count"},
         x.pc = "docs", x.at = run[r].at + 1, run[r].at <= Len(Docs), run[r].lines \subseteq x.lines,
         Accounted(run[r].at, x, r, target),
         x.imported = run[r].imported + (IF run[r].pc = "count" THEN 1 ELSE 0)
  PROVE  Copying(x, r, target) /\ Filed(x, r, target) /\ Finished(x, r, target)
<1>1. Copying(x, r, target) /\ Finished(x, r, target)
  BY DEF Copying, Finished, Sessionless, Early, Requests, Reading, Finding
<1>2. run[r] \in RunRecords /\ Filed(run[r], r, target) /\ run[r].pc \in Filing
  BY DEF IInv, WorkInv, StateType, Filing
<1>3. run[r].at \in Nat /\ run[r].imported \in Nat
  BY <1>2 DEF RunRecords
<1>4. x.at \in 1..(Len(Docs) + 1) /\ x.imported < x.at /\ x.imported <= Cardinality(SentBy(r, target))
  BY <1>2, <1>3, BoundsType DEF Filed
<1>5. ASSUME NEW d \in DOMAIN Docs, d < x.at PROVE Accounted(d, x, r, target)
  <2>1. d < run[r].at \/ d = run[r].at
    BY <1>3, <1>5, BoundsType
  <2>2. CASE d < run[r].at
    <3>1. Accounted(d, run[r], r, target)
      BY <1>2, <2>2 DEF Filed
    <3> QED BY <3>1 DEF Accounted
  <2> QED BY <2>1, <2>2
<1>6. ASSUME NEW a \in Mine(r, target) PROVE a.doc < x.at
  <2>1. a.doc < run[r].at \/ a.doc = run[r].at
    BY <1>2 DEF Filed
  <2>2. a.doc \in Nat
    BY BoundsType DEF Mine, IInv, StateType, Artifacts
  <2> QED BY <1>3, <2>1, <2>2
<1>7. Filed(x, r, target)
  BY <1>2, <1>3, <1>4, <1>5, <1>6 DEF Filed
<1> QED BY <1>1, <1>7

LEMMA DocumentTo == ASSUME IInv, NEW r \in Runs, Document(r) PROVE StepTo(r)
<1>1. /\ run[r].pc = "docs" /\ Active(r) /\ Left(r)
      /\ UNCHANGED <<configured, migration, page, live, asked, target, started, begun, troubles>>
  BY DEF Document, Active
<1>2. run[r] \in RunRecords /\ run[r].row \in Rows /\ run[r].at \in 1..Len(Docs) /\ run[r].at \in Nat
  BY <1>1, ActiveType, BoundsType DEF Left, RunRecords
<1>3. migration'[run[r].row] = Row(r)
  BY <1>1 DEF Row
<1>4. CASE Doc(r).link = "bad" /\ run' = [run EXCEPT ![r].at = @ + 1]
  <2> DEFINE x == [run[r] EXCEPT !.at = run[r].at + 1]
  <2>1. run' = [run EXCEPT ![r] = x]
    BY <1>2, <1>4 DEF IInv, StateType
  <2>2. /\ x \in RunRecords /\ x.pc = "docs" /\ x.phase = run[r].phase /\ x.row = run[r].row
        /\ x.handle = run[r].handle /\ x.prior = run[r].prior /\ x.at = run[r].at + 1
        /\ x.imported = run[r].imported /\ x.lines = run[r].lines
    BY <1>1, <1>2 DEF RunRecords
  <2> HIDE DEF x
  <2>3. run' \in [Runs -> RunRecords] /\ run'[r] = x /\ \A o \in Runs : o # r => run'[o] = run[o]
    BY <2>1, <2>2 DEF IInv, StateType
  <2>4. Moved(r)
    BY <1>1, <1>2, <1>3, <2>2, <2>3 DEF Moved, IInv, StateType
  <2>5. Accounted(run[r].at, x, r, target)
    BY <1>4 DEF Accounted, Doc
  <2>6. x.imported = run[r].imported + (IF run[r].pc = "count" THEN 1 ELSE 0)
    BY <1>1, <1>2, <2>2 DEF RunRecords
  <2>7. Copying(x, r, target) /\ Filed(x, r, target) /\ Finished(x, r, target)
    BY <1>1, <1>2, <2>2, <2>5, <2>6, BoundsType, DocumentDone
  <2>8. Works(r)
    BY <1>1, <1>3, <2>3, <2>7 DEF Works, IInv, StateType
  <2>9. Tells(r)
    BY <1>1, <1>3, <2>2, <2>3 DEF Tells, Writing, IInv, StateType
  <2>10. Holds(r)
    BY <1>1, <1>3, <2>2, <2>3, HoldsOn DEF Filing
  <2> QED BY <2>4, <2>8, <2>9, <2>10 DEF StepTo
<1>5. ASSUME NEW pc \in {"create", "skip"}, Goes(r, pc) PROVE StepTo(r)
  <2>1. pc \in Pcs
    BY DEF Pcs, Filing
  <2>2. Moved(r) /\ run'[r].pc = pc /\ Kin(run'[r], run[r])
    BY <1>1, <1>5, <2>1, GoesOn
  <2>3. Copying(run'[r], r, target) /\ Filed(run'[r], r, target) /\ Finished(run'[r], r, target)
    <3>1. Filed(run[r], r, target)
      BY DEF IInv, WorkInv
    <3>2. Copying(run'[r], r, target) /\ Finished(run'[r], r, target)
      BY <2>2 DEF Copying, Finished, Sessionless, Early, Requests, Reading, Finding
    <3>3. \A d \in DOMAIN Docs : Accounted(d, run[r], r, target) => Accounted(d, run'[r], r, target)
      BY <2>2 DEF Accounted, Kin
    <3>4. Filed(run'[r], r, target)
      BY <1>1, <1>2, <2>2, <3>1, <3>3 DEF Filed, Kin, Filing
    <3> QED BY <3>2, <3>4
  <2>4. Works(r)
    BY <1>1, <1>3, <2>3 DEF Works, IInv, StateType
  <2>5. Tells(r)
    BY <1>1, <1>3, <2>2 DEF Tells, Writing, IInv, StateType
  <2>6. Holds(r)
    BY <1>1, <1>3, <2>2, HoldsOn DEF Kin, Filing
  <2> QED BY <2>2, <2>4, <2>5, <2>6 DEF StepTo
<1>6. CASE absoluteUrl(Doc(r).link)
  <2>1. PICK file \in downloadFile(Doc(r).link) : Goes(r, IF file THEN "create" ELSE "skip")
    BY <1>6 DEF Document
  <2> QED BY <1>5, <2>1
<1> QED BY <1>4, <1>6 DEF Document, absoluteUrl

(* A document passed over is named in the log.                             *)
LEMMA SkipTo == ASSUME IInv, NEW r \in Runs, Skip(r) PROVE StepTo(r)
<1> DEFINE lines == Logged(r, run[r].at)
           y == [Row(r) EXCEPT !.log = lines]
           x == [run[r] EXCEPT !.pc = "docs", !.at = run[r].at + 1, !.lines = lines]
<1>1. /\ run[r].pc = "skip" /\ Active(r) /\ Row(r).status # "gone"
      /\ UNCHANGED <<configured, page, live, asked, target, started, begun, troubles>>
  BY DEF Skip, Active
<1>2. run[r] \in RunRecords /\ run[r].row \in Rows /\ Row(r) \in RowRecords
  BY <1>1, ActiveType
<1>3. run[r].at \in 1..Len(Docs) /\ run[r].at \in Nat
  BY <1>1, <1>2, BoundsType DEF IInv, WorkInv, Filed, Filing, RunRecords
<1>4. migration' = [migration EXCEPT ![run[r].row] = y] /\ run' = [run EXCEPT ![r] = x]
  BY <1>2 DEF Skip, Onward, Row, IInv, StateType, RunRecords
<1>5. lines \in SUBSET Lines /\ run[r].lines \subseteq lines /\ <<r, run[r].at>> \in lines
  BY <1>3, LoggedType, BoundsType DEF Logged
<1> HIDE DEF lines
<1>6. y \in RowRecords /\ y.status = Row(r).status /\ y.session = Row(r).session /\ y.imported = Row(r).imported
  BY <1>2, <1>5 DEF RowRecords
<1> HIDE DEF y
<1>7. /\ x \in RunRecords /\ x.pc = "docs" /\ x.phase = run[r].phase /\ x.row = run[r].row
      /\ x.handle = run[r].handle /\ x.prior = run[r].prior /\ x.at = run[r].at + 1
      /\ x.imported = run[r].imported /\ x.lines = lines
  <2>1. run[r].at + 1 \in Nat /\ lines \in SUBSET Lines
    BY <1>3, <1>5
  <2> QED BY <1>2, <2>1 DEF RunRecords, Pcs, Filing
<1> HIDE DEF x
<1>8. /\ migration' \in [Rows -> RowRecords] /\ run' \in [Runs -> RunRecords]
      /\ \A m \in Rows : m # run[r].row => migration'[m] = migration[m]
      /\ \A o \in Runs : o # r => run'[o] = run[o]
      /\ migration'[run[r].row] = y /\ run'[r] = x
  BY <1>1, <1>4, <1>6, <1>7, BecomesTo
<1>9. Moved(r)
  BY <1>1, <1>2, <1>6, <1>7, <1>8 DEF Moved
<1>10. Works(r)
  <2>1. Accounted(run[r].at, x, r, target)
    BY <1>5, <1>7 DEF Accounted
  <2>2. x.imported = run[r].imported + (IF run[r].pc = "count" THEN 1 ELSE 0)
    BY <1>1, <1>2, <1>7 DEF RunRecords
  <2>3. Copying(x, r, target) /\ Filed(x, r, target) /\ Finished(x, r, target)
    BY <1>1, <1>3, <1>5, <1>7, <2>1, <2>2, BoundsType, DocumentDone
  <2> QED BY <1>1, <1>6, <1>8, <2>3 DEF Works, IInv, StateType
<1>11. Tells(r)
  BY <1>1, <1>6, <1>7, <1>8 DEF Tells, Writing, IInv, StateType
<1>12. Holds(r)
  BY <1>1, <1>6, <1>7, <1>8, HoldsOn DEF Filing
<1> QED BY <1>9, <1>10, <1>11, <1>12 DEF StepTo

(* Whatever the model answers, a document is filed under one of the types. *)
LEMMA LabelType == ASSUME NEW doc PROVE labelDocument(doc) \in ARTIFACT_TYPES
<1> DEFINE hits == {i \in DOMAIN Rules : Rules[i][1] \in doc.words}
<1>1. DOMAIN Rules = {1, 2, 3, 4, 5, 6, 7, 8, 9} /\ \A i \in DOMAIN Rules : Rules[i][2] \in ARTIFACT_TYPES
  <2>1. DOMAIN Rules = 1..9
    BY DEF Rules
  <2>2. /\ Rules[1][2] = "soc2_type2" /\ Rules[2][2] = "iso_27001" /\ Rules[3][2] = "pentest"
        /\ Rules[4][2] = "insurance_coi" /\ Rules[5][2] = "dpa" /\ Rules[6][2] = "sbom"
        /\ Rules[7][2] = "subprocessor_list" /\ Rules[8][2] = "architecture" /\ Rules[9][2] = "financials"
    BY DEF Rules
  <2>3. ASSUME NEW i \in 1..9 PROVE i \in {1, 2, 3, 4, 5, 6, 7, 8, 9}
    OBVIOUS
  <2>4. 1..9 = {1, 2, 3, 4, 5, 6, 7, 8, 9}
    BY <2>3
  <2> QED BY <2>1, <2>2, <2>4 DEF ARTIFACT_TYPES
<1>2. ASSUME hits # {} PROVE \E i \in hits : \A j \in hits : i <= j
  <2>1. hits \subseteq {1, 2, 3, 4, 5, 6, 7, 8, 9}
    BY <1>1
  <2> HIDE DEF hits
  <2>2. \/ 1 \in hits \/ 2 \in hits \/ 3 \in hits \/ 4 \in hits \/ 5 \in hits
        \/ 6 \in hits \/ 7 \in hits \/ 8 \in hits \/ 9 \in hits
    BY <1>2, <2>1
  <2> QED BY <2>1, <2>2
<1>3. ASSUME hits # {} PROVE (CHOOSE i \in hits : \A j \in hits : i <= j) \in DOMAIN Rules
  BY <1>2, <1>3
<1>4. "policy" \in ARTIFACT_TYPES
  BY DEF ARTIFACT_TYPES
<1> QED BY <1>1, <1>3, <1>4 DEF labelDocument, heuristicType

(* The artifact is there, without its file.                                *)
LEMMA CreateArtifactTo == ASSUME IInv, NEW r \in Runs, createArtifact(r) PROVE StepTo(r)
<1> DEFINE a == Artifact(r, labelDocument(Doc(r)), FALSE)
<1>1. /\ run[r].pc = "create" /\ Active(r) /\ Goes(r, "upload")
      /\ target' = [target EXCEPT !.artifacts = @ \cup {a}]
      /\ UNCHANGED <<configured, migration, page, live, asked, started, begun, troubles>>
  BY DEF createArtifact, Active
<1>2. run[r] \in RunRecords /\ run[r].row \in Rows
  BY <1>1, ActiveType
<1>3. run[r].at \in DOMAIN Docs /\ run[r].at \in Nat /\ Filed(run[r], r, target)
  BY <1>1, <1>2, BoundsType DEF IInv, WorkInv, Filed, Filing, RunRecords
<1>4. a \in Artifacts /\ a.run = r /\ a.doc = run[r].at /\ a.bytes = FALSE
  BY <1>3, LabelType DEF Artifact, Artifacts
<1> HIDE DEF a
<1>5. "upload" \in Pcs
  BY DEF Pcs, Filing
<1>6. /\ Moved(r) /\ run'[r].pc = "upload" /\ Kin(run'[r], run[r])
      /\ migration'[run[r].row] = Row(r)
  BY <1>1, <1>5, GoesOn
<1>7. Works(r)
  <2>1. /\ target \in [there : BOOLEAN, parts : [PartNames -> 0..MaxRuns], artifacts : SUBSET Artifacts]
        /\ IsFiniteSet(target.artifacts)
    BY DEF IInv, StateType
  <2>2. /\ target' \in [there : BOOLEAN, parts : [PartNames -> 0..MaxRuns], artifacts : SUBSET Artifacts]
        /\ target'.there = target.there /\ target'.parts = target.parts
        /\ target'.artifacts = target.artifacts \cup {a}
    BY <1>1, <1>4, <2>1
  <2>3. IsFiniteSet(target'.artifacts)
    BY <2>1, <2>2, FS_AddElement
  <2>4. \A o \in Runs : o # r => Mine(o, target') = Mine(o, target)
    BY <1>4, <2>2 DEF Mine
  <2>5. Sent(target') = Sent(target) /\ SentBy(r, target') = SentBy(r, target)
    BY <1>4, <2>2 DEF Sent, SentBy
  <2>6. Mine(r, target') = Mine(r, target) \cup {a}
    BY <1>4, <2>2 DEF Mine
  <2>7. \A d \in DOMAIN Docs : Accounted(d, run[r], r, target) => Accounted(d, run'[r], r, target')
    BY <1>6, <2>2 DEF Accounted, Kin
  <2>8. Copying(run'[r], r, target') /\ Finished(run'[r], r, target')
    BY <1>6 DEF Copying, Finished, Sessionless, Early, Requests, Reading, Finding
  <2>9. Filed(run'[r], r, target')
    <3>1. \A b \in Mine(r, target) : b.doc < run[r].at /\ b.doc \in Nat
      BY <1>1, <1>3, BoundsType DEF Filed, Filing, Mine, IInv, StateType, Artifacts
    <3>2. run'[r].at = run[r].at /\ run'[r].imported = run[r].imported
      BY <1>6 DEF Kin
    <3>3. \A p \in Found : target'.parts[p] >= 1
      BY <1>1, <1>3, <2>2 DEF Filed, Filing
    <3>4. \A b \in Mine(r, target') : b.doc < run[r].at \/ b = a
      BY <2>6, <3>1
    <3>5. \A b \in Mine(r, target') : b.doc = run[r].at => ~b.bytes
      BY <1>3, <1>4, <2>6, <3>1
    <3>6. \E b \in Mine(r, target') : b.doc = run[r].at
      BY <1>4, <2>6
    <3>7. \A d \in DOMAIN Docs : d < run[r].at => Accounted(d, run'[r], r, target')
      BY <1>1, <1>3, <2>7 DEF Filed, Filing
    <3>8. run[r].imported < run[r].at /\ run[r].imported <= Cardinality(SentBy(r, target')) /\ run[r].at \in 1..(Len(Docs) + 1)
          /\ run[r].at <= Len(Docs) /\ run[r].imported \in Nat
      BY <1>1, <1>2, <1>3, <2>5 DEF Filed, Filing, RunRecords
    <3> QED BY <1>4, <1>6, <3>2, <3>3, <3>4, <3>5, <3>6, <3>7, <3>8 DEF Filed
  <2> QED BY <1>6, <2>2, <2>3, <2>4, <2>5, <2>8, <2>9 DEF Works
<1>8. Tells(r)
  BY <1>1, <1>6 DEF Tells, Writing, IInv, StateType
<1>9. Holds(r)
  <2>1. Writing(run[r]) /\ configured
    BY <1>1 DEF Writing, IInv, SessionsInv
  <2>2. ASSUME troubles \cap Leaks = {} PROVE Remembers(run[r], Row(r))'
    <3>1. Remembers(run[r], Row(r))
      BY <2>1, <2>2 DEF IInv, KeptInv
    <3> QED BY <1>1, <1>6, <3>1 DEF Remembers, Row, Kin, Requests, Reading, Finding, Filing, Early
  <2> QED BY <1>1, <1>6, <2>1, <2>2
      DEF Holds, Kin, Requests, Reading, Finding, Filing, Sessionless, Early, Relies
<1> QED BY <1>6, <1>7, <1>8, <1>9 DEF StepTo

(* Its file is there too: one document more is sent.                       *)
LEMMA UploadTo == ASSUME IInv, NEW r \in Runs, uploadArtifactContent(r) PROVE StepTo(r)
<1> DEFINE f == [a \in target.artifacts |->
                   IF a.run = r /\ a.doc = run[r].at THEN [a EXCEPT !.bytes = TRUE] ELSE a]
           sent == {f[a] : a \in target.artifacts}
<1>1. /\ run[r].pc = "upload" /\ Active(r) /\ Goes(r, "count")
      /\ target' = [target EXCEPT !.artifacts = sent]
      /\ UNCHANGED <<configured, migration, page, live, asked, started, begun, troubles>>
  BY DEF uploadArtifactContent, Active
<1>2. run[r] \in RunRecords /\ run[r].row \in Rows
  BY <1>1, ActiveType
<1>3. run[r].at \in DOMAIN Docs /\ run[r].at \in Nat /\ Filed(run[r], r, target)
  BY <1>1, <1>2, BoundsType DEF IInv, WorkInv, Filed, Filing, RunRecords
<1>4. /\ target \in [there : BOOLEAN, parts : [PartNames -> 0..MaxRuns], artifacts : SUBSET Artifacts]
      /\ IsFiniteSet(target.artifacts)
  BY DEF IInv, StateType
<1>5. \A a \in target.artifacts : a.run = r /\ a.doc = run[r].at => ~a.bytes
  BY <1>1, <1>3 DEF Filed, Filing, Mine
<1>6. \A a \in target.artifacts :
        /\ f[a] \in Artifacts /\ f[a].run = a.run /\ f[a].doc = a.doc
        /\ a.run # r \/ a.doc # run[r].at => f[a] = a
        /\ a.run = r /\ a.doc = run[r].at => f[a].bytes
  BY <1>4 DEF Artifacts
<1>7. f \in [target.artifacts -> sent] /\ \A c \in sent : \E a \in target.artifacts : f[a] = c
  OBVIOUS
<1> HIDE DEF f
<1>8. \A c \in sent : c \in Artifacts
  BY <1>6
<1>9. IsFiniteSet(sent)
  <2>1. f \in Surjection(target.artifacts, sent)
    BY <1>7 DEF Surjection
  <2> QED BY <1>4, <2>1, FS_Surjection
<1>10. /\ \A a \in target.artifacts : f[a] \in sent
       /\ \A c \in sent : \E a \in target.artifacts : c = f[a]
  OBVIOUS
<1> HIDE DEF sent
<1>11. /\ target' \in [there : BOOLEAN, parts : [PartNames -> 0..MaxRuns], artifacts : SUBSET Artifacts]
       /\ target'.there = target.there /\ target'.parts = target.parts /\ target'.artifacts = sent
  BY <1>1, <1>4, <1>8
<1>12. "count" \in Pcs
  BY DEF Pcs, Filing
<1>13. /\ Moved(r) /\ run'[r].pc = "count" /\ Kin(run'[r], run[r])
       /\ migration'[run[r].row] = Row(r)
  BY <1>1, <1>12, GoesOn
<1>14. \A a \in target.artifacts : a.bytes => a \in target'.artifacts
  BY <1>5, <1>6, <1>10, <1>11
<1>15. PICK b \in target.artifacts : b.run = r /\ b.doc = run[r].at
  BY <1>1, <1>3 DEF Filed, Filing, Mine
<1>16. f[b] \in target'.artifacts /\ f[b].run = r /\ f[b].doc = run[r].at /\ f[b].bytes
  BY <1>6, <1>10, <1>11, <1>15
<1>17. Cardinality(SentBy(r, target)) \in Nat /\ Cardinality(SentBy(r, target)) + 1 <= Cardinality(SentBy(r, target'))
  <2>1. SentBy(r, target) \subseteq target.artifacts /\ SentBy(r, target') \subseteq target'.artifacts
    BY DEF SentBy
  <2>2. IsFiniteSet(SentBy(r, target)) /\ IsFiniteSet(SentBy(r, target'))
    BY <1>4, <1>9, <1>11, <2>1, FS_Subset
  <2>3. f[b] \notin SentBy(r, target)
    BY <1>5, <1>16 DEF SentBy
  <2>4. SentBy(r, target) \cup {f[b]} \subseteq SentBy(r, target')
    BY <1>14, <1>16 DEF SentBy
  <2>5. Cardinality(SentBy(r, target) \cup {f[b]}) = Cardinality(SentBy(r, target)) + 1
    BY <2>2, <2>3, FS_AddElement
  <2> QED BY <2>2, <2>4, <2>5, FS_Subset, FS_CardinalityType
<1>18. Works(r)
  <2>1. \A o \in Runs : o # r => Mine(o, target') = Mine(o, target)
    BY <1>6, <1>10, <1>11 DEF Mine
  <2>2. Sent(target) \subseteq Sent(target')
    BY <1>14 DEF Sent
  <2>3. \A d \in DOMAIN Docs : Accounted(d, run[r], r, target) => Accounted(d, run'[r], r, target')
    BY <1>13, <1>14 DEF Accounted, Kin
  <2>4. Copying(run'[r], r, target') /\ Finished(run'[r], r, target')
    BY <1>13 DEF Copying, Finished, Sessionless, Early, Requests, Reading, Finding
  <2>5. Filed(run'[r], r, target')
    <3>1. run'[r].at = run[r].at /\ run'[r].imported = run[r].imported
      BY <1>13 DEF Kin
    <3>2. \A p \in Found : target'.parts[p] >= 1
      BY <1>1, <1>3, <1>11 DEF Filed, Filing
    <3>3. ASSUME NEW c \in Mine(r, target') PROVE c.doc < run[r].at \/ c.doc = run[r].at
      <4>1. PICK a \in target.artifacts : c = f[a]
        BY <1>10, <1>11 DEF Mine
      <4>2. a \in Mine(r, target) /\ c.doc = a.doc
        BY <1>6, <4>1 DEF Mine
      <4> QED BY <1>1, <1>3, <4>2 DEF Filed, Filing
    <3>4. f[b] \in Mine(r, target') /\ f[b].doc = run[r].at /\ f[b].bytes
      BY <1>16 DEF Mine
    <3>5. \A d \in DOMAIN Docs : d < run[r].at => Accounted(d, run'[r], r, target')
      BY <1>1, <1>3, <2>3 DEF Filed, Filing
    <3>6. /\ run[r].imported < run[r].at /\ run[r].at \in 1..(Len(Docs) + 1) /\ run[r].at <= Len(Docs)
          /\ run[r].imported \in Nat /\ run[r].imported <= Cardinality(SentBy(r, target))
      BY <1>1, <1>2, <1>3 DEF Filed, Filing, RunRecords
    <3>7. Cardinality(SentBy(r, target')) \in Nat /\ run[r].imported + 1 <= Cardinality(SentBy(r, target'))
      <4>1. SentBy(r, target') \subseteq target'.artifacts
        BY DEF SentBy
      <4>2. Cardinality(SentBy(r, target')) \in Nat
        BY <1>9, <1>11, <4>1, FS_Subset, FS_CardinalityType
      <4> QED BY <1>17, <3>6, <4>2
    <3> QED BY <1>13, <3>1, <3>2, <3>3, <3>4, <3>5, <3>6, <3>7 DEF Filed
  <2> QED BY <1>9, <1>11, <1>13, <2>1, <2>2, <2>4, <2>5 DEF Works
<1>19. Tells(r)
  BY <1>1, <1>13 DEF Tells, Writing, IInv, StateType
<1>20. Holds(r)
  <2>1. Writing(run[r]) /\ configured
    BY <1>1 DEF Writing, IInv, SessionsInv
  <2>2. ASSUME troubles \cap Leaks = {} PROVE Remembers(run[r], Row(r))'
    <3>1. Remembers(run[r], Row(r))
      BY <2>1, <2>2 DEF IInv, KeptInv
    <3> QED BY <1>1, <1>13, <3>1 DEF Remembers, Row, Kin, Requests, Reading, Finding, Filing, Early
  <2> QED BY <1>1, <1>13, <2>1, <2>2
      DEF Holds, Kin, Requests, Reading, Finding, Filing, Sessionless, Early, Relies
<1> QED BY <1>13, <1>18, <1>19, <1>20 DEF StepTo

(* The row's count becomes that of the documents this phase has sent.      *)
LEMMA CountTo == ASSUME IInv, NEW r \in Runs, Count(r) PROVE StepTo(r)
<1> DEFINE lines == Logged(r, Ran)
           n == run[r].imported + 1
           y == [Row(r) EXCEPT !.imported = n, !.log = lines]
           x == [run[r] EXCEPT !.pc = "docs", !.at = run[r].at + 1, !.lines = lines, !.imported = n]
<1>1. /\ run[r].pc = "count" /\ Active(r) /\ Row(r).status # "gone"
      /\ UNCHANGED <<configured, page, live, asked, target, started, begun, troubles>>
  BY DEF Count, Active
<1>2. run[r] \in RunRecords /\ run[r].row \in Rows /\ Row(r) \in RowRecords
  BY <1>1, ActiveType
<1>3. /\ run[r].at \in 1..Len(Docs) /\ run[r].at \in Nat /\ run[r].imported < run[r].at
      /\ run[r].imported \in Nat /\ n \in 0..Len(Docs) /\ n <= Cardinality(SentBy(r, target))
      /\ \E a \in target.artifacts : a.run = r /\ a.doc = run[r].at /\ a.bytes
  BY <1>1, <1>2, BoundsType DEF IInv, WorkInv, Filed, Filing, RunRecords, Mine
<1>4. migration' = [migration EXCEPT ![run[r].row] = y] /\ run' = [run EXCEPT ![r] = x]
  BY <1>2 DEF Count, Onward, Row, IInv, StateType, RunRecords
<1>5. lines \in SUBSET Lines /\ run[r].lines \subseteq lines
  BY LoggedType, BoundsType DEF Ran
<1>6. run[r].at + 1 \in Nat /\ n \in Nat /\ n = run[r].imported + (IF run[r].pc = "count" THEN 1 ELSE 0)
  BY <1>1, <1>3
<1> HIDE DEF lines, n
<1>7. y \in RowRecords /\ y.status = Row(r).status /\ y.session = Row(r).session /\ y.imported = n
  BY <1>2, <1>3, <1>5 DEF RowRecords
<1> HIDE DEF y
<1>8. /\ x \in RunRecords /\ x.pc = "docs" /\ x.phase = run[r].phase /\ x.row = run[r].row
      /\ x.handle = run[r].handle /\ x.prior = run[r].prior /\ x.at = run[r].at + 1
      /\ x.imported = n /\ x.lines = lines
  BY <1>2, <1>5, <1>6 DEF RunRecords, Pcs, Filing
<1> HIDE DEF x
<1>9. /\ migration' \in [Rows -> RowRecords] /\ run' \in [Runs -> RunRecords]
      /\ \A m \in Rows : m # run[r].row => migration'[m] = migration[m]
      /\ \A o \in Runs : o # r => run'[o] = run[o]
      /\ migration'[run[r].row] = y /\ run'[r] = x
  BY <1>1, <1>4, <1>7, <1>8, BecomesTo
<1>10. Moved(r)
  BY <1>1, <1>2, <1>7, <1>8, <1>9 DEF Moved
<1>11. Works(r)
  <2>1. Accounted(run[r].at, x, r, target)
    BY <1>3 DEF Accounted
  <2>2. Copying(x, r, target) /\ Filed(x, r, target) /\ Finished(x, r, target)
    BY <1>1, <1>3, <1>5, <1>6, <1>8, <2>1, BoundsType, DocumentDone
  <2>3. n <= Cardinality(Sent(target))
    <3>1. SentBy(r, target) \subseteq Sent(target) /\ Sent(target) \subseteq target.artifacts
      BY DEF SentBy, Sent
    <3>2. IsFiniteSet(target.artifacts)
      BY DEF IInv, StateType
    <3>3. /\ Cardinality(SentBy(r, target)) <= Cardinality(Sent(target))
          /\ Cardinality(SentBy(r, target)) \in Nat /\ Cardinality(Sent(target)) \in Nat
      BY <3>1, <3>2, FS_Subset, FS_CardinalityType
    <3> QED BY <1>3, <1>6, <3>3
  <2> QED BY <1>1, <1>7, <1>9, <2>2, <2>3 DEF Works, IInv, StateType
<1>12. Tells(r)
  BY <1>1, <1>7, <1>8, <1>9 DEF Tells, Writing, IInv, StateType
<1>13. Holds(r)
  BY <1>1, <1>7, <1>8, <1>9, HoldsOn DEF Filing
<1> QED BY <1>10, <1>11, <1>12, <1>13 DEF StepTo

(* The session is closed with everything accounted for.                    *)
LEMMA CloseTo == ASSUME IInv, NEW r \in Runs, Close(r) PROVE StepTo(r)
<1> DEFINE x == [run[r] EXCEPT !.handle = NoSession, !.pc = "completed"]
<1>1. /\ run[r].pc = "docs" /\ Active(r) /\ ~Left(r) /\ closeSession(r)
      /\ UNCHANGED <<configured, migration, page, asked, target, started, begun>>
  BY DEF Close, Active
<1>2. run[r] \in RunRecords /\ run[r].row \in Rows
  BY <1>1, ActiveType
<1>3. run' = [run EXCEPT ![r] = x]
  BY <1>2 DEF Close, IInv, StateType
<1>4. /\ x \in RunRecords /\ x.pc = "completed" /\ x.phase = run[r].phase /\ x.row = run[r].row
      /\ x.handle = NoSession /\ x.prior = run[r].prior /\ x.lines = run[r].lines
  <2>1. NoSession \in 0..MaxRuns
    BY BoundsType DEF NoSession
  <2> QED BY <1>2, <2>1 DEF RunRecords, Pcs
<1> HIDE DEF x
<1>5. run' \in [Runs -> RunRecords] /\ run'[r] = x /\ \A o \in Runs : o # r => run'[o] = run[o]
  BY <1>3, <1>4 DEF IInv, StateType
<1>6. migration'[run[r].row] = Row(r)
  BY <1>1 DEF Row
<1>7. Moved(r)
  BY <1>1, <1>2, <1>4, <1>5, <1>6, CloseSessionDoes DEF Moved, Mishaps, IInv, StateType
<1>8. Works(r)
  <2>1. run[r].at \in 1..(Len(Docs) + 1) /\ run[r].at \notin 1..Len(Docs) /\ Filed(run[r], r, target)
    BY <1>1, BoundsType DEF IInv, WorkInv, Filed, Filing, Left
  <2>2. \A d \in DOMAIN Docs : d < run[r].at
    BY <2>1, BoundsType
  <2>3. Finished(x, r, target)
    BY <1>1, <1>4, <2>1, <2>2 DEF Finished, Filed, Filing, Accounted
  <2>4. Copying(x, r, target) /\ Filed(x, r, target)
    BY <1>4 DEF Copying, Filed, Filing, Sessionless, Early, Requests, Reading, Finding
  <2> QED BY <1>1, <1>5, <1>6, <2>3, <2>4 DEF Works, IInv, StateType
<1>9. Tells(r)
  BY <1>1, <1>4, <1>5, <1>6 DEF Tells, Writing, IInv, StateType
<1>10. Holds(r)
  <2>1. Writing(run[r]) /\ configured
    BY <1>1 DEF Writing, IInv, SessionsInv
  <2>2. ASSUME troubles' \cap Leaks = {} PROVE Remembers(run[r], Row(r))' /\ Row(r).session = run[r].handle
    <3>1. Remembers(run[r], Row(r))
      BY <1>1, <2>1, <2>2, CloseSessionDoes DEF IInv, KeptInv
    <3>2. Row(r)' = Row(r) /\ Row(r).session = run[r].handle
      BY <1>1, <1>4, <1>5, <3>1 DEF Row, Remembers, Filing
    <3> QED BY <1>1, <1>4, <1>5, <2>2, <3>2, CloseSessionDoes DEF Remembers, Requests, Reading, Finding, Filing, Early
  <2> QED BY <1>1, <1>4, <1>5, <1>6, <2>1, <2>2, CloseSessionDoes
      DEF Holds, Sessionless, Early, Relies
<1> QED BY <1>7, <1>8, <1>9, <1>10 DEF StepTo

LEMMA CompleteTo == ASSUME IInv, NEW r \in Runs, Complete(r) PROVE StepTo(r)
<1> DEFINE y == [Row(r) EXCEPT !.status = "completed", !.log = Logged(r, Ran)]
<1>1. /\ run[r].pc = "completed" /\ Active(r) /\ Row(r).status # "gone"
      /\ migration' = [migration EXCEPT ![run[r].row] = y] /\ run' = [run EXCEPT ![r] = Idle]
      /\ UNCHANGED <<configured, page, live, asked, target, started, begun, troubles>>
  BY ActiveType DEF Complete, Active, Row, IInv, StateType
<1>2. /\ y \in RowRecords /\ y.status = "completed" /\ y.session = Row(r).session
      /\ y.imported = Row(r).imported
  <2>1. Logged(r, Ran) \in SUBSET Lines
    BY LoggedType, BoundsType DEF Ran
  <2> QED BY <1>1, <2>1, ActiveType DEF RowRecords, Statuses
<1> HIDE DEF y
<1>3. /\ migration' \in [Rows -> RowRecords] /\ run' \in [Runs -> RunRecords]
      /\ \A m \in Rows : m # run[r].row => migration'[m] = migration[m]
      /\ \A o \in Runs : o # r => run'[o] = run[o]
      /\ migration'[run[r].row] = y /\ run'[r] = Idle
  BY <1>1, <1>2, IdleType, BecomesTo
<1>4. Idle.pc = "idle" /\ Idle.handle = NoSession /\ Idle.prior = NoSession
  BY DEF Idle
<1>5. Moved(r)
  BY <1>1, <1>2, <1>3, <1>4, ActiveType DEF Moved
<1>6. Works(r)
  BY <1>1, <1>2, <1>3, <1>4, WorksOn DEF Ends
<1>7. Tells(r)
  BY <1>1, <1>2, <1>3, <1>4 DEF Tells, Writing, IInv, StateType, AskedInv
<1>8. Holds(r)
  <2>1. Writing(run[r]) /\ configured
    BY <1>1 DEF Writing, IInv, SessionsInv
  <2>2. ASSUME troubles \cap Leaks = {}
        PROVE  Row(r).session \notin live /\ run[r].handle \notin live
    <3>1. Remembers(run[r], Row(r))
      BY <2>1, <2>2 DEF IInv, KeptInv
    <3>2. run[r].handle = NoSession /\ NoSession \notin live
      BY <1>1 DEF IInv, SessionsInv, StateType, Runs, NoSession
    <3> QED BY <1>1, <3>1, <3>2 DEF Remembers
  <2> QED BY <1>1, <1>2, <1>3, <1>4, <2>1, <2>2 DEF Holds, Sessionless, Early, Writing, Relies
<1> QED BY <1>5, <1>6, <1>7, <1>8 DEF StepTo

-----------------------------------------------------------------------------
(* Every step of a phase *)

LEMMA AdvanceTo == ASSUME IInv, NEW r \in Runs, Advance(r) PROVE StepTo(r)
BY WriteFailsTo, CallFailsTo, HangsTo, LogTo, LoadFailsTo, FailTo, CloseFailedTo, LoadTo, UnconfiguredTo, StartSessionTo, StoreSessionTo,
   RequestingTo, OpenTo, RequestAccessTo, StoreNdaTo, AwaitTo, ImportingTo, ResumeSessionTo,
   ReopenTo, ExtractTo, CopyTo, CopiedTo, DocumentTo, SkipTo, CreateArtifactTo, UploadTo,
   CountTo, CloseTo, CompleteTo DEF Advance

(* The phase takes the steps of its kind.                                  *)
Phased(x) ==
  /\ x.pc \in {"requesting"} \cup Requests => x.phase = "request"
  /\ x.pc \in {"importing", "reconnect"} => x.phase = "import"

LEMMA AdvancePhased == ASSUME IInv, NEW r \in Runs, Advance(r) PROVE Phased(run'[r])
<1>1. Moved(r)
  BY AdvanceTo DEF StepTo
<1>2. run'[r].pc # "idle" => run'[r].phase = run[r].phase
  BY <1>1 DEF Moved
<1>3. run \in [Runs -> RunRecords] /\ run[r] \in RunRecords /\ Phased(run[r])
  BY DEF IInv, StateType, PhasesInv, Phased
<1>4. run'[r].pc # "idle" => run[r].phase \in {"request", "import"}
  BY <1>1, <1>3 DEF Moved, IInv, RunsInv, RunRecords
<1>5. ASSUME WriteFails(r) \/ CallFails(r) \/ Hangs(r) \/ LoadFails(r) \/ Fail(r) \/ CloseFailed(r) \/ Unconfigured(r) \/ Await(r)
             \/ Complete(r) \/ Close(r)
      PROVE  run'[r].pc \in Ends \cup {"completed"}
  BY <1>3, <1>5 DEF WriteFails, CallFails, Hangs, LoadFails, Fail, CloseFailed, Unconfigured, Await, Complete, Close, Goes,
                    Persist, Idle, Ends, RunRecords, IInv, StateType
<1>6. ASSUME Requesting(r) \/ startSession(r) \/ resumeSession(r) \/ Reopen(r) \/ Extract(r)
      PROVE  run'[r].pc \in {"start", "session", "catch", "reopen", "reopened", "expired", "extracted", "listed"}
  BY <1>3, <1>6 DEF Requesting, startSession, resumeSession, Reopen, Extract, Goes, Persist,
                    RunRecords, IInv, StateType
<1>12. ASSUME Log(r)
       PROVE  \/ run'[r].pc \in {"start", "extract", "list", "docs", "copy"}
              \/ run'[r].pc \in Requests /\ run[r].pc \in Requests
  <2>1. run'[r].pc = Logs[run[r].pc] /\ run[r].pc \in DOMAIN Logs
    BY <1>3, <1>12 DEF Log, Persist, RunRecords, IInv, StateType
  <2> QED BY <2>1, LogsType DEF Requests
<1>7. ASSUME Copy(r) \/ Copied(r) \/ Document(r) \/ Skip(r) \/ createArtifact(r)
             \/ uploadArtifactContent(r) \/ Count(r)
      PROVE  run'[r].pc \in {"copied"} \cup {"copy"} \cup Filing
  <2>1. CASE Copy(r)
    <3>1. run' = [run EXCEPT ![r].pc = "copied", ![r].at = NextPart(@) + 1]
      BY <2>1 DEF Copy
    <3> QED BY <1>3, <3>1 DEF RunRecords, IInv, StateType
  <2>2. CASE Copied(r)
    BY <1>3, <2>2 DEF Copied, Filing, RunRecords, IInv, StateType
  <2>3. CASE Document(r)
    BY <1>3, <2>3 DEF Document, Goes, Filing, RunRecords, IInv, StateType
  <2>4. CASE Skip(r) \/ Count(r)
    BY <1>3, <2>4 DEF Skip, Count, Onward, Filing, RunRecords, IInv, StateType
  <2>5. CASE createArtifact(r) \/ uploadArtifactContent(r)
    <3>1. Goes(r, "upload") \/ Goes(r, "count")
      BY <2>5 DEF createArtifact, uploadArtifactContent
    <3> QED BY <1>3, <3>1 DEF Goes, Filing, RunRecords, IInv, StateType
  <2> QED BY <1>7, <2>1, <2>2, <2>3, <2>4, <2>5
<1>8. ASSUME Load(r)
      PROVE  /\ run'[r].pc \in {"idle", "unconfigured", "importing", "requesting"}
             /\ run'[r].pc = "importing" => run[r].phase = "import"
             /\ run'[r].pc = "requesting" => run[r].phase # "import"
  BY <1>3, <1>8 DEF Load, Idle, RunRecords, IInv, StateType
<1>9. ASSUME StoreSession(r)
      PROVE  run'[r].pc \in {"open", "reopen"} /\ (run'[r].pc = "open" => run[r].phase # "import")
  BY <1>3, <1>9 DEF StoreSession, Persist, RunRecords, IInv, StateType
<1>10. ASSUME Open(r) \/ RequestAccess(r) \/ StoreNda(r)
       PROVE  run'[r].pc \in Requests /\ run[r].pc \in Requests
  BY <1>3, <1>10 DEF Open, RequestAccess, StoreNda, Goes, Persist, Requests, RunRecords, IInv, StateType
<1>11. ASSUME Importing(r) PROVE run'[r].pc \in {"start", "reconnect"} /\ run[r].pc = "importing"
  BY <1>3, <1>11 DEF Importing, Persist, RunRecords, IInv, StateType
<1> QED
  BY <1>2, <1>3, <1>4, <1>5, <1>6, <1>7, <1>8, <1>9, <1>10, <1>11, <1>12
  DEF Advance, Phased, Requests, Filing, Ends

LEMMA SentCount ==
  ASSUME IInv
  PROVE  /\ IsFiniteSet(Sent(target)) /\ Cardinality(Sent(target)) \in Nat
         /\ \A m \in Rows : migration[m].imported \in Nat /\ migration[m].imported <= Cardinality(Sent(target))
<1>1. Sent(target) \subseteq target.artifacts
  BY DEF Sent
<1>2. IsFiniteSet(Sent(target)) /\ Cardinality(Sent(target)) \in Nat
  BY <1>1, FS_Subset, FS_CardinalityType DEF IInv, StateType
<1>3. \A m \in Rows : migration[m].imported \in Nat
  BY BoundsType DEF IInv, StateType, RowRecords
<1> QED BY <1>2, <1>3 DEF IInv, WorkInv, CountIsBacked, Sent

LEMMA StepWork == ASSUME IInv, NEW r \in Runs, Moved(r), Works(r) PROVE WorkInv'
<1>1. ASSUME NEW o \in Runs, o # r
      PROVE  Copying(run'[o], o, target') /\ Filed(run'[o], o, target') /\ Finished(run'[o], o, target')
  <2>1. run'[o] = run[o] /\ Mine(o, target') = Mine(o, target)
        /\ \A p \in PartNames : target.parts[p] >= 1 => target'.parts[p] >= 1
    BY <1>1 DEF Moved, Works
  <2>2. SentBy(o, target') = SentBy(o, target)
    <3>1. SentBy(o, target) = {a \in Mine(o, target) : a.bytes} /\ SentBy(o, target') = {a \in Mine(o, target') : a.bytes}
      BY DEF SentBy, Mine
    <3> QED BY <2>1, <3>1
  <2>3. \A d \in DOMAIN Docs : Accounted(d, run[o], o, target) => Accounted(d, run[o], o, target')
    <3>1. \A a : a \in target'.artifacts /\ a.run = o <=> a \in target.artifacts /\ a.run = o
      BY <2>1 DEF Mine
    <3> QED BY <3>1 DEF Accounted
  <2>4. \A p \in Found : p \in PartNames
    BY SourceAssumption
  <2>5. Copying(run[o], o, target) /\ Filed(run[o], o, target) /\ Finished(run[o], o, target)
    BY DEF IInv, WorkInv
  <2>6. Copying(run[o], o, target')
    BY <2>1, <2>4, <2>5, PartsType DEF Copying
  <2>7. Filed(run[o], o, target')
    BY <2>1, <2>2, <2>3, <2>4, <2>5 DEF Filed
  <2>8. Finished(run[o], o, target')
    BY <2>1, <2>3, <2>4, <2>5 DEF Finished
  <2> QED BY <2>1, <2>6, <2>7, <2>8
<1>2. Copying(run'[r], r, target') /\ Filed(run'[r], r, target') /\ Finished(run'[r], r, target')
  BY DEF Works
<1>3. CountIsBacked'
  <2>1. Sent(target') \subseteq target'.artifacts /\ IsFiniteSet(target'.artifacts) /\ Sent(target) \subseteq Sent(target')
    BY DEF Sent, Works
  <2>2. /\ Cardinality(Sent(target)) <= Cardinality(Sent(target')) /\ Cardinality(Sent(target')) \in Nat
    BY <2>1, FS_Subset, FS_CardinalityType
  <2>3. \A m \in Rows : \/ migration'[m].imported = migration[m].imported
                        \/ migration'[m].imported <= Cardinality(Sent(target'))
    BY DEF Moved, Works, Row
  <2>4. \A m \in Rows : migration'[m].imported <= Cardinality(Sent(target'))
    BY <2>2, <2>3, SentCount
  <2> QED BY <2>4 DEF CountIsBacked, Sent
<1> QED BY <1>1, <1>2, <1>3 DEF WorkInv

LEMMA StepTells == ASSUME IInv, NEW r \in Runs, Moved(r), Tells(r) PROVE AskedInv' /\ SoleInv'
<1>1. AskedInv'
  <2>1. AskedInv /\ asked \subseteq asked' /\ page' = page /\ troubles \subseteq troubles'
    BY DEF IInv, Moved, Tells
  <2>2. "unasked" \notin troubles' => \A m \in Rows : migration'[m].status = "awaiting_release" => m \in asked'
    BY <2>1 DEF Moved, Tells, Row, AskedInv, AwaitingWasAsked
  <2>3. "unasked" \notin troubles' =>
          \A o \in Runs : run'[o].pc \in {"requested", "nda", "awaiting"} => run'[o].row \in asked'
    BY <2>1 DEF Moved, Tells, AskedInv
  <2> QED BY <2>1, <2>2, <2>3 DEF AskedInv, AwaitingWasAsked
<1>2. ASSUME "stale" \notin troubles', NEW q \in Runs, Writing(run'[q])
      PROVE  /\ \A o \in Runs : Writing(run'[o]) /\ run'[o].row = run'[q].row => o = q
             /\ migration'[run'[q].row].status \in ACTIVE_STATUSES \cup {"gone"}
  <2>1. "stale" \notin troubles /\ SoleInv
    BY <1>2 DEF Moved, IInv
  <2>2. \A o \in Runs : Writing(run'[o]) => Writing(run[o]) /\ run'[o].row = run[o].row
    <3>1. Writing(run'[r]) => run'[r].row = run[r].row
      BY DEF Moved, Writing
    <3> QED BY <3>1 DEF Moved, Tells
  <2>3. Row(q).status \in ACTIVE_STATUSES \cup {"gone"} /\ run[q].row \in Rows
    <3>1. Active(q)
      BY <1>2, <2>2 DEF Active, Writing
    <3> QED BY <1>2, <2>1, <2>2, <3>1, ActiveType DEF SoleInv
  <2>4. migration'[run[q].row].status \in {Row(q).status} \cup ACTIVE_STATUSES
    <3>1. CASE q = r
      BY <1>2, <3>1 DEF Tells
    <3>2. CASE q # r /\ run[q].row = run[r].row
      <4>1. ~Writing(run[r])
        BY <1>2, <2>1, <2>2, <3>2 DEF SoleInv
      <4> QED BY <3>2, <4>1 DEF Tells, Row
    <3>3. CASE run[q].row # run[r].row
      BY <2>3, <3>3 DEF Moved, Row
    <3> QED BY <3>1, <3>2, <3>3
  <2> QED BY <1>2, <2>1, <2>2, <2>3, <2>4 DEF SoleInv
<1> QED BY <1>1, <1>2 DEF SoleInv, Row

LEMMA StepSessions == ASSUME IInv, NEW r \in Runs, Moved(r), Works(r), Holds(r) PROVE SessionsInv'
<1>1. r \in 1..begun /\ run[r].row \in 1..started /\ begun \in Nat /\ started \in Nat
  BY ActiveType, BoundsType DEF Moved, IInv, StateType
<1>2. ASSUME NEW q \in Runs, q > begun' \/ run'[q].pc \in Sessionless PROVE Unused(q)'
  <2>1. q # NoSession
    BY DEF Runs, NoSession
  <2>2. CASE q = r
    <3>1. run[r].pc \in Sessionless \ {"start"} /\ run'[r].handle = NoSession
      BY <1>1, <1>2, <2>2 DEF Moved, Holds
    <3>2. Unused(r)
      BY <3>1 DEF IInv, SessionsInv
    <3>3. r \notin live'
      BY <3>1, <3>2 DEF Holds, Unused
    <3>4. \A m \in Rows : migration'[m].session # r
      BY <3>2 DEF Unused, Moved, Holds, Row
    <3>5. \A o \in Runs : run'[o].handle # r /\ run'[o].prior # r
      BY <2>1, <2>2, <3>1, <3>2 DEF Unused, Moved, Holds, Row
    <3> QED BY <2>2, <3>3, <3>4, <3>5 DEF Unused
  <2>3. CASE q # r
    <3>1. Unused(q)
      BY <1>2, <2>3 DEF IInv, SessionsInv, Moved
    <3>2. q \notin live'
      BY <2>3, <3>1 DEF Holds, Unused
    <3>3. \A m \in Rows : migration'[m].session # q
      BY <3>1 DEF Unused, Moved, Holds, Row
    <3>4. \A o \in Runs : run'[o].handle # q /\ run'[o].prior # q
      BY <2>1, <2>3, <3>1 DEF Unused, Moved, Holds, Row
    <3> QED BY <3>2, <3>3, <3>4 DEF Unused
  <2> QED BY <2>2, <2>3
<1>3. \A q \in Runs : run'[q].pc \in Sessionless \cup {"completed", "idle"} => run'[q].handle = NoSession
  BY DEF IInv, SessionsInv, Moved, Holds
<1>4. ~configured' => live' = {} /\ \A q \in Runs : run'[q].pc \in {"idle", "load", "unconfigured", "closeFailed", "hung"}
  BY DEF IInv, SessionsInv, Moved, Holds
<1>5. \A q \in Runs : run'[q].pc = "unconfigured" /\ configured' => ~target'.there
  BY DEF IInv, SessionsInv, Moved, Holds, Works
<1>6. ~target'.there => "deleted" \in troubles'
  BY DEF IInv, SessionsInv, Moved, Works
<1>7. "deleted" \notin troubles' => \A m \in 1..started' : migration'[m].status # "gone"
  <2>1. 1..started \subseteq Rows
    BY BoundsType DEF IInv, StateType, Rows
  <2> QED BY <2>1 DEF IInv, SessionsInv, Moved, Row
<1> QED BY <1>2, <1>3, <1>4, <1>5, <1>6, <1>7 DEF SessionsInv

LEMMA StepKept == ASSUME IInv, NEW r \in Runs, Moved(r), Tells(r), Holds(r) PROVE KeptInv'
<1> SUFFICES ASSUME troubles' \cap Leaks = {}
             PROVE  /\ \A s \in live' : \/ \E q \in Runs : run'[q].handle = s
                                        \/ \E m \in Rows : Relies(migration'[m], s)
                    /\ \A q \in Runs : Writing(run'[q]) => Remembers(run[q], Row(q))'
  BY DEF KeptInv, SessionsAreKept, Relies
<1>1. troubles \cap Leaks = {} /\ "stale" \notin troubles
  BY DEF Moved, Leaks
<1>2. ASSUME NEW s \in live'
      PROVE  \/ \E q \in Runs : run'[q].handle = s
             \/ \E m \in Rows : Relies(migration'[m], s)
  <2>1. run[r].row \in Rows
    BY DEF Moved
  <2>2. s = run[r].handle \/ Relies(Row(r), s) \/ s \notin live =>
              run'[r].handle = s \/ Relies(migration'[run[r].row], s)
    BY <1>2 DEF Holds
  <2>3. CASE s \notin live
    BY <2>1, <2>2, <2>3
  <2>4. CASE s \in live
    <3>1. (\E q \in Runs : run[q].handle = s) \/ \E m \in Rows : Relies(migration[m], s)
      BY <1>1, <2>4 DEF IInv, KeptInv, SessionsAreKept, Relies
    <3>2. ASSUME NEW q \in Runs, run[q].handle = s, q # r PROVE run'[q].handle = s
      BY <3>2 DEF Moved
    <3>3. ASSUME NEW m \in Rows, Relies(migration[m], s), m # run[r].row PROVE Relies(migration'[m], s)
      BY <3>3 DEF Moved
    <3> QED BY <2>1, <2>2, <3>1, <3>2, <3>3 DEF Row
  <2> QED BY <2>3, <2>4
<1>3. ASSUME NEW q \in Runs, Writing(run'[q]) PROVE Remembers(run[q], Row(q))'
  <2>1. CASE q = r
    BY <1>3, <2>1 DEF Holds
  <2>2. CASE q # r
    <3>1. run'[q] = run[q] /\ Writing(run[q]) /\ Remembers(run[q], Row(q))
      BY <1>1, <1>3, <2>2 DEF Moved, IInv, KeptInv
    <3>2. run[q].row \in Rows
      BY <3>1, ActiveType DEF Active, Writing
    <3>3. Row(q)' = Row(q)
      <4>1. CASE run[q].row = run[r].row
        <5>1. ~Writing(run[r])
          BY <1>1, <2>2, <3>1, <4>1 DEF IInv, SoleInv
        <5> QED BY <3>1, <4>1, <5>1 DEF Tells, Row
      <4>2. CASE run[q].row # run[r].row
        BY <3>1, <3>2, <4>2 DEF Moved, Row
      <4> QED BY <4>1, <4>2
    <3>4. Row(q).session \notin live => Row(q).session \notin live'
      <4>1. run[r].pc = "start" => Row(q).session # r
        BY <3>2 DEF IInv, SessionsInv, Unused, Sessionless, Row
      <4> QED BY <4>1 DEF Holds
    <3> QED BY <3>1, <3>3, <3>4 DEF Remembers
  <2> QED BY <2>1, <2>2
<1> QED BY <1>2, <1>3

LEMMA StepNext == ASSUME IInv, NEW r \in Runs, Advance(r) PROVE IInv'
<1>1. Moved(r) /\ Works(r) /\ Tells(r) /\ Holds(r)
  BY AdvanceTo DEF StepTo
<1>2. StateType'
  BY <1>1 DEF IInv, StateType, Moved, Works, Tells, Holds
<1>3. RunsInv'
  <2>1. run[r].row \in 1..started /\ r \in 1..begun /\ run[r].phase # "none" /\ run[r].row <= started
    BY <1>1, ActiveType, BoundsType DEF IInv, StateType, RunsInv, Moved
  <2>2. \A m \in Rows : m > started' => migration'[m] = Gone
    <3>1. ASSUME NEW m \in Rows, m > started PROVE m # run[r].row
      BY <2>1, <3>1, BoundsType DEF IInv, StateType, Rows
    <3> QED BY <1>1, <3>1 DEF IInv, RunsInv, Moved
  <2>3. \A q \in Runs : run'[q].pc # "idle" => run'[q].row \in 1..started' /\ q <= begun' /\ run'[q].phase # "none"
    BY <1>1, <2>1 DEF IInv, RunsInv, Moved, Active
  <2>4. ASSUME NEW a \in target'.artifacts PROVE a.run <= begun'
    <3>1. a.run \in Runs
      BY <1>1 DEF Works, Artifacts
    <3>2. CASE a.run = r
      BY <1>1, <2>1, <3>2 DEF Moved
    <3>3. CASE a.run # r
      <4>1. a \in Mine(a.run, target')
        BY DEF Mine
      <4>2. a \in Mine(a.run, target)
        BY <1>1, <3>1, <3>3, <4>1 DEF Works
      <4> QED BY <1>1, <4>2 DEF Mine, IInv, RunsInv, Moved
    <3> QED BY <3>2, <3>3
  <2> QED BY <2>2, <2>3, <2>4 DEF RunsInv, Active
<1>4. PhasesInv'
  <2>1. Phased(run'[r])
    BY AdvancePhased
  <2> QED BY <1>1, <2>1 DEF IInv, PhasesInv, Phased, Moved
<1> QED BY <1>1, <1>2, <1>3, <1>4, StepWork, StepTells, StepSessions, StepKept DEF IInv

-----------------------------------------------------------------------------
(* Buttons *)

(* Row m becomes y and a phase begins on it: what it shows is active, no   *)
(* other phase writes to it unless the click was stale, and no session it  *)
(* was keeping is forgotten.                                               *)
LEMMA BeginsNext ==
  ASSUME IInv, NEW t \in Tabs, NEW m \in Rows, NEW phase \in {"request", "import"}, NEW y \in RowRecords,
         Begins(m, phase), Answers(t), migration' = [migration EXCEPT ![m] = y],
         UNCHANGED <<configured, live, asked, target>>, troubles \subseteq troubles',
         started' \in 0..MaxRows, m <= started', \A o \in Rows : o > started' => o > started /\ o # m,
         \A o \in Rows : o <= started => o <= started', \A o \in Rows : o <= started' => o <= started \/ o = m,
         y.status \in ACTIVE_STATUSES, y.imported = migration[m].imported,
         y.session \in {migration[m].session, NoSession},
         "stale" \notin troubles' => \A o \in Runs : ~(Writing(run[o]) /\ run[o].row = m),
         troubles' \cap Leaks = {} =>
           /\ \A s \in live : Relies(migration[m], s) => Relies(y, s)
           /\ phase = "request" => y.session = NoSession
  PROVE  IInv'
<1> DEFINE n == begun + 1
           x == [Idle EXCEPT !.pc = "load", !.phase = phase, !.row = m]
<1>1. n \in Runs /\ begun' = n /\ n > begun /\ begun \in Nat /\ n \in Nat
      /\ run' = [run EXCEPT ![n] = x] /\ \A r \in Runs : r > n => r > begun
  BY BoundsType DEF Begins, Runs, IInv, StateType
<1>2. m \in 0..MaxRows /\ m \in Nat /\ started \in Nat /\ started' \in Nat /\ Rows \subseteq Nat
  BY BoundsType DEF Rows, IInv, StateType
<1>3. /\ x \in RunRecords /\ x.pc = "load" /\ x.phase = phase /\ x.row = m /\ x.prior = NoSession
      /\ x.handle = NoSession /\ x.at = 1 /\ x.imported = 0
  <2>1. "load" \in Pcs
    BY DEF Pcs, Sessionless, Early
  <2>2. /\ x.pc = "load" /\ x.phase = phase /\ x.row = m /\ x.prior = NoSession
        /\ x.handle = NoSession /\ x.at = 1 /\ x.imported = 0
    BY DEF Idle
  <2> QED BY <1>2, <2>1, <2>2, IdleType DEF RunRecords
<1> HIDE DEF x
<1>4. /\ migration' \in [Rows -> RowRecords] /\ run' \in [Runs -> RunRecords]
      /\ \A o \in Rows : o # m => migration'[o] = migration[o]
      /\ \A o \in Runs : o # n => run'[o] = run[o]
      /\ migration'[m] = y /\ run'[n] = x
  BY <1>1, <1>3 DEF IInv, StateType
<1>5. /\ page' \in [Tabs -> [Rows -> Statuses]]
      /\ \A u \in Tabs, o \in Rows : page'[u][o] = IF u = t THEN migration'[o].status ELSE page[u][o]
  <2>1. \A o \in Rows : migration'[o].status \in Statuses
    BY <1>4 DEF RowRecords
  <2> QED BY <2>1 DEF Answers, IInv, StateType
<1>6. ~Active(n) /\ Unused(n)
  BY <1>1 DEF IInv, RunsInv, SessionsInv
<1> HIDE DEF n
<1>7. StateType'
  <2>1. begun' \in 0..MaxRuns
    BY <1>1, BoundsType DEF Runs
  <2> QED BY <1>4, <1>5, <2>1 DEF IInv, StateType
<1>8. RunsInv'
  <2>1. \A o \in Rows : o > started' => migration'[o] = Gone
    BY <1>4 DEF IInv, RunsInv
  <2>2. ASSUME NEW r \in Runs, run'[r].pc # "idle"
        PROVE  run'[r].row \in 1..started' /\ r <= begun' /\ run'[r].phase # "none"
    <3>1. CASE r = n
      BY <1>1, <1>2, <1>3, <1>4, <3>1 DEF Rows
    <3>2. CASE r # n
      <4>1. run'[r] = run[r] /\ run[r].row \in 1..started /\ r <= begun /\ run[r].phase # "none" /\ run[r].row \in Rows
            /\ r \in 1..begun
        BY <1>4, <2>2, <3>2, ActiveType DEF IInv, RunsInv, Active
      <4> QED BY <1>1, <1>2, <4>1
    <3> QED BY <3>1, <3>2
  <2>3. \A a \in target'.artifacts : a.run <= begun'
    <3>1. \A a \in target.artifacts : a.run <= begun /\ a.run \in Nat
      BY BoundsType DEF IInv, RunsInv, StateType, Artifacts, Runs
    <3> QED BY <1>1, <3>1
  <2> QED BY <2>1, <2>2, <2>3 DEF RunsInv, Active
<1>9. PhasesInv'
  BY <1>3, <1>4 DEF IInv, PhasesInv, Requests
<1>10. WorkInv'
  <2>1. Mine(n, target) = {}
    <3>1. ASSUME NEW a \in target.artifacts PROVE a.run # n
      <4>1. a.run <= begun /\ a.run \in Nat
        BY BoundsType DEF IInv, RunsInv, StateType, Artifacts, Runs
      <4> QED BY <1>1, <4>1
    <3> QED BY <3>1 DEF Mine
  <2>2. Copying(x, n, target) /\ Filed(x, n, target) /\ Finished(x, n, target)
    BY <1>3, <2>1 DEF Copying, Filed, Finished, Filing
  <2>3. \A r \in Runs : Copying(run'[r], r, target') /\ Filed(run'[r], r, target') /\ Finished(run'[r], r, target')
    BY <1>4, <2>2 DEF IInv, WorkInv
  <2>4. \A o \in Rows : migration'[o].imported = migration[o].imported
    BY <1>4
  <2> QED BY <2>3, <2>4 DEF IInv, WorkInv, CountIsBacked
<1>11. AskedInv'
  <2>1. "unasked" \notin troubles => \A o \in Rows : migration'[o].status = "awaiting_release" => o \in asked
    BY <1>4 DEF IInv, AskedInv, AwaitingWasAsked, ACTIVE_STATUSES
  <2>2. "unasked" \notin troubles => \A u \in Tabs, o \in Rows : page'[u][o] = "awaiting_release" => o \in asked
    BY <1>5, <2>1 DEF IInv, AskedInv, AwaitingWasAsked
  <2>3. "unasked" \notin troubles => \A r \in Runs : run'[r].pc \in {"requested", "nda", "awaiting"} => run'[r].row \in asked
    BY <1>3, <1>4 DEF IInv, AskedInv
  <2> QED BY <2>1, <2>2, <2>3 DEF AskedInv, AwaitingWasAsked
<1>12. SoleInv'
  <2> SUFFICES ASSUME "stale" \notin troubles', NEW q \in Runs, Writing(run'[q])
               PROVE  /\ \A o \in Runs : Writing(run'[o]) /\ run'[o].row = run'[q].row => o = q
                      /\ migration'[run'[q].row].status \in ACTIVE_STATUSES \cup {"gone"}
    BY DEF SoleInv, Row
  <2>1. SoleInv /\ "stale" \notin troubles
    BY DEF IInv
  <2>2. \A o \in Runs : o # n => run'[o] = run[o] /\ ~(Writing(run[o]) /\ run[o].row = m)
    BY <1>4
  <2>3. CASE q = n
    BY <1>3, <1>4, <2>2, <2>3
  <2>4. CASE q # n
    <3>1. Writing(run[q]) /\ run[q].row # m /\ run'[q] = run[q]
      BY <2>2, <2>4
    <3>2. run[q].row \in Rows
      BY <3>1, ActiveType DEF Active, Writing
    <3>3. migration'[run[q].row].status \in ACTIVE_STATUSES \cup {"gone"}
      BY <1>4, <2>1, <3>1, <3>2 DEF SoleInv, Row
    <3>4. \A o \in Runs : Writing(run'[o]) /\ run'[o].row = run[q].row => o = q
      BY <1>3, <1>4, <2>1, <3>1 DEF SoleInv
    <3> QED BY <3>1, <3>3, <3>4
  <2> QED BY <2>3, <2>4
<1>13. SessionsInv'
  <2>1. ASSUME NEW q \in Runs, q > begun' \/ run'[q].pc \in Sessionless PROVE Unused(q)'
    <3>1. Unused(q)
      BY <1>1, <1>4, <1>6, <2>1 DEF IInv, SessionsInv
    <3>2. q # NoSession
      BY DEF Runs, NoSession
    <3>3. \A o \in Rows : migration'[o].session # q
      BY <1>4, <3>1, <3>2 DEF Unused
    <3>4. \A o \in Runs : run'[o].handle # q /\ run'[o].prior # q
      BY <1>3, <1>4, <3>1, <3>2 DEF Unused
    <3> QED BY <3>1, <3>3, <3>4 DEF Unused
  <2>2. \A q \in Runs : run'[q].pc \in Sessionless \cup {"completed", "idle"} => run'[q].handle = NoSession
    BY <1>3, <1>4 DEF IInv, SessionsInv
  <2>3. ~configured' => live' = {} /\ \A q \in Runs : run'[q].pc \in {"idle", "load", "unconfigured", "closeFailed", "hung"}
    BY <1>3, <1>4 DEF IInv, SessionsInv
  <2>4. \A q \in Runs : run'[q].pc = "unconfigured" /\ configured' => ~target'.there
    BY <1>3, <1>4 DEF IInv, SessionsInv
  <2>5. ~target'.there => "deleted" \in troubles'
    BY DEF IInv, SessionsInv
  <2>6. ASSUME "deleted" \notin troubles', NEW o \in 1..started' PROVE migration'[o].status # "gone"
    <3>1. o \in Rows /\ o \in Nat /\ (o <= started \/ o = m)
      <4>1. o \in Rows /\ o <= started'
        BY <1>2, BoundsType DEF Rows
      <4> QED BY <1>2, <4>1
    <3>2. CASE o = m
      BY <1>4, <3>2 DEF ACTIVE_STATUSES
    <3>3. CASE o # m
      <4>1. o \in 1..started /\ "deleted" \notin troubles
        BY <1>2, <2>6, <3>1, <3>3
      <4> QED BY <1>4, <3>1, <3>3, <4>1 DEF IInv, SessionsInv
    <3> QED BY <3>2, <3>3
  <2> QED BY <2>1, <2>2, <2>3, <2>4, <2>5, <2>6 DEF SessionsInv
<1>14. KeptInv'
  <2> SUFFICES ASSUME troubles' \cap Leaks = {}
               PROVE  /\ \A s \in live' : \/ \E q \in Runs : run'[q].handle = s
                                          \/ \E o \in Rows : Relies(migration'[o], s)
                      /\ \A q \in Runs : Writing(run'[q]) => Remembers(run[q], Row(q))'
    BY DEF KeptInv, SessionsAreKept, Relies
  <2>1. troubles \cap Leaks = {} /\ "stale" \notin troubles'
    BY DEF Leaks
  <2>2. ASSUME NEW s \in live
        PROVE  (\E q \in Runs : run'[q].handle = s) \/ \E o \in Rows : Relies(migration'[o], s)
    <3>1. (\E q \in Runs : run[q].handle = s) \/ \E o \in Rows : Relies(migration[o], s)
      BY <2>1, <2>2 DEF IInv, KeptInv, SessionsAreKept, Relies
    <3>2. run[n].handle # s
      <4>1. run[n].handle = NoSession /\ NoSession \notin live
        BY <1>1, <1>6 DEF IInv, SessionsInv, Active, StateType, Runs, NoSession
      <4> QED BY <2>2, <4>1
    <3>3. \A o \in Rows : Relies(migration[o], s) => Relies(migration'[o], s)
      BY <1>4, <2>2
    <3> QED BY <1>4, <3>1, <3>2, <3>3
  <2>3. ASSUME NEW q \in Runs, Writing(run'[q]) PROVE Remembers(run[q], Row(q))'
    <3>1. CASE q = n
      <4>1. Row(q)' = y /\ run'[q] = x
        BY <1>3, <1>4, <3>1 DEF Row
      <4> QED BY <1>3, <4>1 DEF Remembers, Early, Requests, Reading, Finding, Filing
    <3>2. CASE q # n
      <4>1. run'[q] = run[q] /\ Writing(run[q]) /\ Remembers(run[q], Row(q)) /\ run[q].row # m
        BY <1>4, <2>1, <2>3, <3>2 DEF IInv, KeptInv
      <4>2. run[q].row \in Rows
        BY <4>1, ActiveType DEF Active, Writing
      <4>3. Row(q)' = Row(q)
        BY <1>4, <4>1, <4>2 DEF Row
      <4> QED BY <4>1, <4>3 DEF Remembers
    <3> QED BY <3>1, <3>2
  <2> QED BY <2>2, <2>3
<1> QED BY <1>7, <1>8, <1>9, <1>10, <1>11, <1>12, <1>13, <1>14 DEF IInv

LEMMA StartNext == ASSUME IInv, NEW t \in Tabs, NEW m \in Rows, startMigration(t, m) PROVE IInv'
<1> DEFINE y == [migration[m] EXCEPT !.status = "pending"]
<1>1. /\ m = started + 1 /\ started' = m /\ Begins(m, "request") /\ Answers(t)
      /\ migration' = [migration EXCEPT ![m] = y]
      /\ UNCHANGED <<configured, live, asked, target, troubles>>
  BY DEF startMigration, IInv, StateType
<1>2. started \in Nat /\ MaxRows \in Nat /\ m \in 1..MaxRows /\ Rows = 1..MaxRows /\ m > started
  BY <1>1, BoundsType DEF IInv, StateType, Rows
<1>3. migration[m] = Gone
  BY <1>2 DEF IInv, RunsInv
<1>4. /\ y \in RowRecords /\ y.status = "pending" /\ y.session = NoSession
      /\ y.imported = migration[m].imported /\ migration[m].status = "gone"
  <2>1. migration[m] \in RowRecords /\ "pending" \in Statuses
    BY DEF Statuses, IInv, StateType
  <2>2. migration[m].session = NoSession /\ migration[m].status = "gone"
    BY <1>3 DEF Gone
  <2> QED BY <2>1, <2>2 DEF RowRecords
<1> HIDE DEF y
<1>5. \A o \in Runs : ~(Writing(run[o]) /\ run[o].row = m)
  BY <1>2, ActiveType DEF Active, Writing
<1>6. /\ started' \in 0..MaxRows /\ m <= started' /\ \A o \in Rows : o > started' => o > started /\ o # m
      /\ \A o \in Rows : o <= started => o <= started'
      /\ \A o \in Rows : o <= started' => o <= started \/ o = m
  BY <1>1, <1>2
<1>7. y.status \in ACTIVE_STATUSES /\ \A s \in live : ~Relies(migration[m], s)
  BY <1>4 DEF ACTIVE_STATUSES, Relies
<1> QED BY <1>1, <1>4, <1>5, <1>6, <1>7, BeginsNext

(* The row a button is offered on is there.                                *)
LEMMA OnRow ==
  ASSUME IInv, NEW m \in Rows, migration[m].status # "gone"
  PROVE  /\ started \in 0..MaxRows /\ m <= started /\ \A o \in Rows : o > started => o # m
<1>1. started \in 0..MaxRows /\ \A o \in Rows : o \in Nat
  BY BoundsType DEF IInv, StateType, Rows
<1>2. ~(m > started)
  BY DEF IInv, RunsInv, Gone
<1> QED BY <1>1, <1>2, BoundsType

(* A click on a page up to date finds nobody writing to the row, as it     *)
(* waits or has failed.                                                    *)
LEMMA NobodyWrites ==
  ASSUME IInv, NEW m \in Rows, "stale" \notin troubles, migration[m].status \in {"awaiting_release", "failed"}
  PROVE  \A o \in Runs : ~(Writing(run[o]) /\ run[o].row = m)
BY DEF IInv, SoleInv, Row, ACTIVE_STATUSES

LEMMA ResumeNext == ASSUME IInv, NEW t \in Tabs, NEW m \in Rows, resumeMigration(t, m) PROVE IInv'
<1> DEFINE y == [migration[m] EXCEPT !.status = "importing"]
<1>1. /\ page[t][m] = "awaiting_release" /\ migration[m].status # "gone" /\ Begins(m, "import") /\ Answers(t)
      /\ migration' = [migration EXCEPT ![m] = y] /\ Clicked(t, m)
      /\ UNCHANGED <<configured, live, asked, target, started>>
  BY DEF resumeMigration, Offered, IInv, StateType
<1>2. /\ y \in RowRecords /\ y.status = "importing" /\ y.session = migration[m].session
      /\ y.imported = migration[m].imported
  BY DEF RowRecords, Statuses, IInv, StateType
<1> HIDE DEF y
<1>3. "stale" \notin troubles' => "stale" \notin troubles /\ migration[m].status = "awaiting_release"
  BY <1>1 DEF Clicked, Fault
<1>4. "stale" \notin troubles' => \A o \in Runs : ~(Writing(run[o]) /\ run[o].row = m)
  BY <1>3, NobodyWrites
<1>5. \A s \in live : Relies(migration[m], s) => Relies(y, s)
  BY <1>2 DEF Relies
<1>6. /\ started' \in 0..MaxRows /\ m <= started' /\ \A o \in Rows : o > started' => o > started /\ o # m
      /\ \A o \in Rows : o <= started => o <= started'
      /\ \A o \in Rows : o <= started' => o <= started \/ o = m
  BY <1>1, OnRow
<1>7. y.status \in ACTIVE_STATUSES /\ troubles \subseteq troubles'
  BY <1>1, <1>2 DEF ACTIVE_STATUSES, Clicked, Fault
<1> QED BY <1>1, <1>2, <1>4, <1>5, <1>6, <1>7, BeginsNext

LEMMA RetryNext == ASSUME IInv, NEW t \in Tabs, NEW m \in Rows, retryMigration(t, m) PROVE IInv'
<1> DEFINE y == [migration[m] EXCEPT !.status = "pending", !.session = NoSession]
<1>1. /\ page[t][m] = "failed" /\ migration[m].status # "gone" /\ Begins(m, "request") /\ Answers(t)
      /\ migration' = [migration EXCEPT ![m] = y] /\ Clicked(t, m)
      /\ UNCHANGED <<configured, live, asked, target, started>>
  BY DEF retryMigration, Offered, IInv, StateType
<1>2. /\ y \in RowRecords /\ y.status = "pending" /\ y.session = NoSession
      /\ y.imported = migration[m].imported
  <2>1. NoSession \in 0..MaxRuns
    BY BoundsType DEF NoSession
  <2> QED BY <2>1 DEF RowRecords, Statuses, IInv, StateType
<1> HIDE DEF y
<1>3. "stale" \notin troubles' => "stale" \notin troubles /\ migration[m].status = "failed"
  BY <1>1 DEF Clicked, Fault
<1>4. "stale" \notin troubles' => \A o \in Runs : ~(Writing(run[o]) /\ run[o].row = m)
  BY <1>3, NobodyWrites
<1>5. troubles' \cap Leaks = {} => \A s \in live : ~Relies(migration[m], s)
  BY <1>3 DEF Relies, Leaks
<1>6. /\ started' \in 0..MaxRows /\ m <= started' /\ \A o \in Rows : o > started' => o > started /\ o # m
      /\ \A o \in Rows : o <= started => o <= started'
      /\ \A o \in Rows : o <= started' => o <= started \/ o = m
  BY <1>1, OnRow
<1>7. y.status \in ACTIVE_STATUSES /\ troubles \subseteq troubles'
  BY <1>1, <1>2 DEF ACTIVE_STATUSES, Clicked, Fault
<1> QED BY <1>1, <1>2, <1>4, <1>5, <1>6, <1>7, BeginsNext

LEMMA DeleteNext == ASSUME IInv, NEW t \in Tabs, NEW m \in Rows, deleteMigration(t, m) PROVE IInv'
<1>1. /\ migration' = [migration EXCEPT ![m] = Gone] /\ Answers(t) /\ troubles' = troubles \cup {"deleted"}
      /\ UNCHANGED <<configured, run, live, asked, target, started, begun>>
  BY DEF deleteMigration
<1>2. Gone \in RowRecords /\ Gone.status = "gone" /\ Gone.session = NoSession /\ Gone.imported = 0
  BY BoundsType DEF Gone, RowRecords, Statuses, NoSession
<1>3. /\ migration' \in [Rows -> RowRecords] /\ migration'[m] = Gone
      /\ \A o \in Rows : o # m => migration'[o] = migration[o]
  BY <1>1, <1>2 DEF IInv, StateType
<1>4. /\ page' \in [Tabs -> [Rows -> Statuses]]
      /\ \A u \in Tabs, o \in Rows : page'[u][o] = IF u = t THEN migration'[o].status ELSE page[u][o]
  <2>1. \A o \in Rows : migration'[o].status \in Statuses
    BY <1>3 DEF RowRecords
  <2> QED BY <1>1, <2>1 DEF Answers, IInv, StateType
<1>5. StateType' /\ RunsInv' /\ PhasesInv'
  BY <1>1, <1>3, <1>4 DEF IInv, StateType, RunsInv, PhasesInv, Active
<1>6. WorkInv'
  <2>1. \A o \in Rows : migration'[o].imported <= Cardinality(Sent(target))
    BY <1>2, <1>3, SentCount
  <2> QED BY <1>1, <2>1 DEF IInv, WorkInv, CountIsBacked, Sent
<1>7. AskedInv'
  <2>1. "unasked" \notin troubles => \A o \in Rows : migration'[o].status = "awaiting_release" => o \in asked
    BY <1>2, <1>3 DEF IInv, AskedInv, AwaitingWasAsked
  <2> QED BY <1>1, <1>4, <2>1 DEF IInv, AskedInv, AwaitingWasAsked
<1>8. SoleInv'
  <2>1. ASSUME NEW q \in Runs, Writing(run[q])
        PROVE  run[q].row \in Rows
    BY <2>1, ActiveType DEF Active, Writing
  <2> QED BY <1>1, <1>2, <1>3, <2>1 DEF IInv, SoleInv, Row
<1>9. SessionsInv'
  <2>1. \A q \in Runs : Unused(q) => Unused(q)'
    BY <1>1, <1>2, <1>3 DEF Unused, Runs, NoSession
  <2> QED BY <1>1, <2>1 DEF IInv, SessionsInv
<1>10. KeptInv'
  BY <1>1 DEF KeptInv, SessionsAreKept, Leaks
<1> QED BY <1>5, <1>6, <1>7, <1>8, <1>9, <1>10 DEF IInv

-----------------------------------------------------------------------------
(* The page and the world *)

LEMMA RefreshNext == ASSUME IInv, NEW t \in Tabs, Refresh(t) PROVE IInv'
<1>1. /\ page' = [page EXCEPT ![t] = Shown]
      /\ UNCHANGED <<configured, migration, run, live, asked, target, started, begun, troubles>>
  BY DEF Refresh
<1>2. /\ page' \in [Tabs -> [Rows -> Statuses]]
      /\ \A u \in Tabs, o \in Rows : page'[u][o] = IF u = t THEN migration[o].status ELSE page[u][o]
  <2>1. \A o \in Rows : migration[o].status \in Statuses
    BY DEF IInv, StateType, RowRecords
  <2> QED BY <1>1, <2>1 DEF Shown, IInv, StateType
<1>3. StateType'
  BY <1>1, <1>2 DEF IInv, StateType
<1>4. AskedInv'
  BY <1>1, <1>2 DEF IInv, AskedInv, AwaitingWasAsked
<1>5. RunsInv' /\ PhasesInv' /\ WorkInv' /\ SoleInv' /\ SessionsInv' /\ KeptInv'
  BY <1>1
  DEF IInv, RunsInv, PhasesInv, WorkInv, SoleInv, SessionsInv, KeptInv, Active, Copying, Filed, Finished,
      CountIsBacked, Row, Unused, SessionsAreKept, Remembers
<1> QED BY <1>3, <1>4, <1>5 DEF IInv

LEMMA ExpireNext == ASSUME IInv, NEW s \in Runs, Expire(s) PROVE IInv'
<1>1. /\ live' = live \ {s} /\ troubles' = troubles \cup {"expired"}
      /\ UNCHANGED <<configured, migration, page, run, asked, target, started, begun>>
  BY DEF Expire, Fault
<1>2. StateType'
  BY <1>1 DEF IInv, StateType
<1>3. RunsInv' /\ PhasesInv' /\ WorkInv' /\ AskedInv' /\ SoleInv'
  BY <1>1
  DEF IInv, RunsInv, PhasesInv, WorkInv, SoleInv, AskedInv, AwaitingWasAsked, Active, Copying, Filed, Finished,
      CountIsBacked, Row
<1>4. SessionsInv'
  BY <1>1 DEF IInv, SessionsInv, Unused
<1>5. KeptInv'
  <2>1. troubles' \ {"expired"} = troubles \ {"expired"} /\ (troubles' \cap Leaks = {} => troubles \cap Leaks = {})
    BY <1>1
  <2>2. SessionsAreKept'
    BY <1>1, <2>1 DEF IInv, KeptInv, SessionsAreKept
  <2>3. \A q \in Runs : Remembers(run[q], Row(q)) => Remembers(run[q], Row(q))'
    BY <1>1 DEF Remembers, Row
  <2> QED BY <1>1, <2>1, <2>2, <2>3 DEF IInv, KeptInv
<1> QED BY <1>2, <1>3, <1>4, <1>5 DEF IInv

LEMMA StopNext == ASSUME IInv, Stop PROVE IInv'
<1>1. /\ run' = [r \in Runs |-> Idle] /\ troubles' = troubles \cup {"stopped"}
      /\ UNCHANGED <<configured, migration, page, live, asked, target, started, begun>>
  BY DEF Stop, Fault
<1>2. run' \in [Runs -> RunRecords] /\ \A r \in Runs : run'[r] = Idle
  BY <1>1, IdleType
<1>3. Idle.pc = "idle" /\ Idle.handle = NoSession /\ Idle.prior = NoSession
  BY DEF Idle
<1>4. StateType' /\ RunsInv' /\ PhasesInv' /\ AskedInv' /\ SoleInv'
  BY <1>1, <1>2, <1>3
  DEF IInv, StateType, RunsInv, PhasesInv, AskedInv, AwaitingWasAsked, SoleInv, Active, Writing, Requests
<1>5. WorkInv'
  BY <1>1, <1>2, <1>3
  DEF IInv, WorkInv, CountIsBacked, Copying, Filed, Finished, Sessionless, Early, Requests, Reading, Finding, Filing
<1>6. SessionsInv'
  <2>1. \A q \in Runs : q # NoSession
    BY DEF Runs, NoSession
  <2>2. \A q \in Runs : Unused(q) => Unused(q)'
    BY <1>1, <1>2, <1>3, <2>1 DEF Unused
  <2> QED BY <1>1, <1>2, <1>3, <2>2 DEF IInv, SessionsInv, Sessionless, Early
<1>7. KeptInv'
  BY <1>1 DEF KeptInv, SessionsAreKept, Leaks
<1> QED BY <1>4, <1>5, <1>6, <1>7 DEF IInv

LEMMA TargetDeletedNext == ASSUME IInv, TargetDeleted PROVE IInv'
<1>1. /\ target' = [target EXCEPT !.there = FALSE] /\ troubles' = troubles \cup {"deleted"}
      /\ UNCHANGED <<configured, migration, page, run, live, asked, started, begun>>
  BY DEF TargetDeleted, Fault
<1>2. /\ target' \in [there : BOOLEAN, parts : [PartNames -> 0..MaxRuns], artifacts : SUBSET Artifacts]
      /\ target'.there = FALSE /\ target'.parts = target.parts /\ target'.artifacts = target.artifacts
  BY <1>1 DEF IInv, StateType
<1>3. StateType' /\ RunsInv' /\ PhasesInv' /\ AskedInv' /\ SoleInv'
  BY <1>1, <1>2
  DEF IInv, StateType, RunsInv, PhasesInv, AskedInv, AwaitingWasAsked, SoleInv, Active, Row
<1>4. WorkInv'
  <2>1. \A r \in Runs : /\ Copying(run[r], r, target) => Copying(run[r], r, target')
                        /\ Filed(run[r], r, target) => Filed(run[r], r, target')
                        /\ Finished(run[r], r, target) => Finished(run[r], r, target')
    BY <1>2 DEF Copying, Filed, Finished, Mine, SentBy, Accounted
  <2> QED BY <1>1, <1>2, <2>1 DEF IInv, WorkInv, CountIsBacked
<1>5. SessionsInv'
  BY <1>1, <1>2 DEF IInv, SessionsInv, Unused
<1>6. KeptInv'
  BY <1>1 DEF KeptInv, SessionsAreKept, Leaks
<1> QED BY <1>3, <1>4, <1>5, <1>6 DEF IInv

-----------------------------------------------------------------------------
(* The inductive invariant *)

LEMMA InitInv == ASSUME Init PROVE IInv
<1>1. Gone \in RowRecords /\ Gone.status = "gone" /\ Gone.session = NoSession /\ Gone.imported = 0
  BY BoundsType DEF Gone, RowRecords, Statuses, NoSession
<1>2. Idle \in RunRecords /\ Idle.pc = "idle" /\ Idle.handle = NoSession /\ Idle.prior = NoSession
  BY IdleType DEF Idle
<1>3. /\ migration \in [Rows -> RowRecords] /\ \A m \in Rows : migration[m] = Gone
      /\ run \in [Runs -> RunRecords] /\ \A r \in Runs : run[r] = Idle
      /\ page \in [Tabs -> [Rows -> Statuses]] /\ \A t \in Tabs, m \in Rows : page[t][m] = "gone"
  BY <1>1, <1>2 DEF Init, Statuses
<1>4. /\ configured \in BOOLEAN /\ live = {} /\ asked = {} /\ target.artifacts = {} /\ target.there
      /\ target \in [there : BOOLEAN, parts : [PartNames -> 0..MaxRuns], artifacts : SUBSET Artifacts]
      /\ started = 0 /\ begun = 0 /\ troubles = {}
  BY BoundsType DEF Init
<1>5. IsFiniteSet({}) /\ Cardinality({}) = 0
  BY FS_EmptySet
<1>6. StateType
  BY <1>3, <1>4, <1>5, BoundsType DEF StateType
<1>7. RunsInv /\ PhasesInv /\ AskedInv /\ SoleInv
  BY <1>1, <1>2, <1>3, <1>4
  DEF RunsInv, PhasesInv, AskedInv, AwaitingWasAsked, SoleInv, Active, Writing, Requests
<1>8. WorkInv
  <2>1. Sent(target) = {}
    BY <1>4 DEF Sent
  <2>2. \A m \in Rows : migration[m].imported <= Cardinality(Sent(target))
    BY <1>1, <1>3, <1>5, <2>1
  <2>3. CountIsBacked
    BY <2>2 DEF CountIsBacked, Sent
  <2> QED BY <1>2, <1>3, <2>3
          DEF WorkInv, Copying, Filed, Finished, Sessionless, Early, Requests, Reading, Finding, Filing
<1>9. SessionsInv
  <2>1. \A q \in Runs : q # NoSession
    BY DEF Runs, NoSession
  <2> QED BY <1>1, <1>2, <1>3, <1>4, <2>1 DEF SessionsInv, Unused, Sessionless, Early
<1>10. KeptInv
  BY <1>2, <1>3, <1>4 DEF KeptInv, SessionsAreKept, Writing
<1> QED BY <1>6, <1>7, <1>8, <1>9, <1>10 DEF IInv

LEMMA NextInv == ASSUME IInv, [Next]_vars PROVE IInv'
<1>1. CASE UNCHANGED vars
  <2>1. StateType' /\ RunsInv' /\ PhasesInv'
    BY <1>1 DEF vars, IInv, StateType, RunsInv, PhasesInv, Active
  <2>2. WorkInv' /\ AskedInv' /\ SoleInv'
    BY <1>1
    DEF vars, IInv, WorkInv, AskedInv, AwaitingWasAsked, SoleInv, Copying, Filed, Finished, CountIsBacked, Row
  <2>3. SessionsInv' /\ KeptInv'
    BY <1>1 DEF vars, IInv, SessionsInv, KeptInv, Row, Unused, SessionsAreKept, Remembers
  <2> QED BY <2>1, <2>2, <2>3 DEF IInv
<1>2. CASE Next
  BY <1>2, RefreshNext, StartNext, ResumeNext, RetryNext, DeleteNext, StepNext, ExpireNext, StopNext,
     TargetDeletedNext DEF Next
<1> QED BY <1>1, <1>2

(***************************************************************************)
(* The invariant of the migrations: what a phase has copied and filed is   *)
(* what its place in the code says, at most one phase writes to a row      *)
(* while the pages are up to date, and every open session is its phase's   *)
(* or the row's (migration.ts:104-267 and 343-515).                        *)
(***************************************************************************)
THEOREM MigrationsInvariance == Spec => []IInv
<1>1. Init => IInv
  BY InitInv
<1>2. IInv /\ [Next]_vars => IInv'
  BY NextInv
<1> QED BY <1>1, <1>2, PTL DEF Spec

-----------------------------------------------------------------------------
(* What the runs check *)

(***************************************************************************)
(* What the row of a migration tells is true at every moment, whatever     *)
(* fails: its values are of their types, its count is backed by documents  *)
(* in the target, it awaits a release only once access was asked for, and  *)
(* no session is left running that nothing refers to.                      *)
(***************************************************************************)
THEOREM RowsAreTrue == Spec => []RowIsTrue
<1>1. ASSUME IInv PROVE RowIsTrue
  <2>1. TypeOK
    <3>1. migration \in [Rows -> [status : Statuses, session : 0..MaxRuns, nda : BOOLEAN,
                                  imported : 0..Len(Docs), log : SUBSET Lines]]
      BY <1>1 DEF IInv, StateType, RowRecords
    <3>2. \A r \in Runs : run[r].row \in 0..MaxRows /\ run[r].handle \in 0..MaxRuns /\ run[r].lines \subseteq Lines
      BY <1>1 DEF IInv, StateType, RunRecords
    <3>3. \A a \in target.artifacts : a.type \in ARTIFACT_TYPES
      BY <1>1 DEF IInv, StateType, Artifacts
    <3> QED BY <1>1, <3>1, <3>2, <3>3 DEF IInv, StateType, TypeOK
  <2> QED BY <1>1, <2>1 DEF RowIsTrue, IInv, WorkInv, AskedInv, KeptInv
<1> QED BY <1>1, MigrationsInvariance, PTL

(* A step that completes a migration accounts for all of the source.       *)
LEMMA CompleteAccounts ==
  ASSUME IInv, NEW r \in Runs, Complete(r)
  PROVE  /\ \A p \in Found : target.parts[p] >= 1
         /\ \A d \in DOMAIN Docs :
              \/ \E a \in target.artifacts : a.run = r /\ a.doc = d /\ a.bytes
              \/ <<r, d>> \in migration'[run[r].row].log
              \/ Docs[d].link = "bad"
<1>1. run[r].pc = "completed" /\ run[r].row \in Rows /\ Row(r) \in RowRecords
  BY ActiveType DEF Complete, Active
<1>2. Finished(run[r], r, target)
  BY DEF IInv, WorkInv
<1>3. migration'[run[r].row].log = Logged(r, Ran)
  BY <1>1 DEF Complete, Row, RowRecords, IInv, StateType
<1> QED BY <1>1, <1>2, <1>3 DEF Finished, Accounted, Logged

(* No step takes a row from completed, or from awaiting its release other  *)
(* than by Resume, unless a click was stale.                               *)
LEMMA StepStays ==
  ASSUME IInv, [Next]_vars, NEW m \in Rows, "stale" \notin troubles'
  PROVE  /\ migration[m].status = "completed" => migration'[m].status \in {"completed", "gone"}
         /\ migration[m].status = "awaiting_release" =>
              migration'[m].status \in {"awaiting_release", "importing", "gone"}
<1>1. CASE migration' = migration
  BY <1>1
<1>2. ASSUME NEW r \in Runs, Advance(r) PROVE migration'[m] = migration[m]
                                              \/ migration[m].status \in ACTIVE_STATUSES \cup {"gone"}
  <2>1. Moved(r) /\ Tells(r)
    BY <1>2, AdvanceTo DEF StepTo
  <2>2. "stale" \notin troubles
    BY <2>1 DEF Moved
  <2>3. CASE m # run[r].row \/ ~Writing(run[r])
    BY <2>1, <2>3 DEF Moved, Tells, Row
  <2>4. CASE m = run[r].row /\ Writing(run[r])
    BY <2>2, <2>4 DEF IInv, SoleInv, Row
  <2> QED BY <2>3, <2>4
<1>3. ASSUME NEW t \in Tabs, NEW o \in Rows, startMigration(t, o) PROVE migration'[m] = migration[m] \/ migration[m].status = "gone"
  <2>1. o > started /\ migration' = [migration EXCEPT ![o].status = "pending"]
    BY <1>3, BoundsType DEF startMigration, IInv, StateType
  <2>2. migration[o].status = "gone"
    BY <2>1 DEF IInv, RunsInv, Gone
  <2> QED BY <2>1, <2>2 DEF IInv, StateType
<1>4. ASSUME NEW t \in Tabs, NEW o \in Rows, resumeMigration(t, o)
      PROVE  migration'[m] = migration[m] \/ (migration[m].status = "awaiting_release" /\ migration'[m].status = "importing")
  <2>1. page[t][o] = "awaiting_release" /\ migration' = [migration EXCEPT ![o].status = "importing"]
        /\ page[t][o] = migration[o].status
    BY <1>4 DEF resumeMigration, Offered, Clicked, Fault
  <2> QED BY <2>1 DEF IInv, StateType, RowRecords
<1>5. ASSUME NEW t \in Tabs, NEW o \in Rows, retryMigration(t, o)
      PROVE  migration'[m] = migration[m] \/ migration[m].status = "failed"
  <2>1. page[t][o] = "failed" /\ page[t][o] = migration[o].status
        /\ migration' = [migration EXCEPT ![o].status = "pending", ![o].session = NoSession]
    BY <1>5 DEF retryMigration, Offered, Clicked, Fault
  <2> QED BY <2>1 DEF IInv, StateType
<1>6. ASSUME NEW t \in Tabs, NEW o \in Rows, deleteMigration(t, o)
      PROVE  migration'[m] = migration[m] \/ migration'[m].status = "gone"
  BY <1>6 DEF deleteMigration, Gone, IInv, StateType
<1>7. \/ migration' = migration \/ \E r \in Runs : Advance(r)
      \/ \E t \in Tabs, o \in Rows :
           startMigration(t, o) \/ resumeMigration(t, o) \/ retryMigration(t, o) \/ deleteMigration(t, o)
  BY DEF Next, vars, Refresh, Expire, Stop, TargetDeleted
<1> QED BY <1>1, <1>2, <1>3, <1>4, <1>5, <1>6, <1>7 DEF ACTIVE_STATUSES

(***************************************************************************)
(* A migration completes only with every part and document of the source   *)
(* in the target or named in its log, put there by the phase that          *)
(* completes it; and it stays completed, as one that waits waits, unless a *)
(* button was pressed on an outdated page (migration.ts:462-515).          *)
(***************************************************************************)
THEOREM CompletionsHold == Spec => CompletionHolds
<1>1. Spec => CompletedAccountsForAll
  <2>1. IInv /\ [Next]_vars =>
          [\A r \in Runs : Complete(r) =>
             /\ \A p \in Found : target.parts[p] >= 1
             /\ \A d \in DOMAIN Docs :
                  \/ \E a \in target.artifacts : a.run = r /\ a.doc = d /\ a.bytes
                  \/ <<r, d>> \in migration'[run[r].row].log
                  \/ Docs[d].link = "bad"]_vars
    BY CompleteAccounts
  <2> QED BY <2>1, MigrationsInvariance, PTL DEF Spec, CompletedAccountsForAll
<1>2. Spec => CompletedStays
  <2>1. IInv /\ [Next]_vars =>
          [\A m \in Rows :
             \/ "stale" \in troubles'
             \/ /\ migration[m].status = "completed" => migration'[m].status \in {"completed", "gone"}
                /\ migration[m].status = "awaiting_release" =>
                     migration'[m].status \in {"awaiting_release", "importing", "gone"}]_vars
    BY StepStays
  <2> QED BY <2>1, MigrationsInvariance, PTL DEF Spec, CompletedStays
<1> QED BY <1>1, <1>2 DEF CompletionHolds
=============================================================================
