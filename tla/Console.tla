------------------------------ MODULE Console ------------------------------
(***************************************************************************)
(* The owner's console (apps/web/src/app/(app)/tc/[vendorId]): the pages   *)
(* that edit a section of the trust center, and the server actions behind  *)
(* them.  A section is a list.  A page shows the list it was rendered      *)
(* with, the owner edits what is shown, and saving replaces the whole list *)
(* on the network.  Some actions read the list, merge and replace it, and  *)
(* some make artifacts on the way: each is a sequence of calls, any of     *)
(* which may fail and leave the calls before it done.                      *)
(*                                                                         *)
(* A row of a list is a name and one more property: a control's            *)
(* description, a standard's link to its evidence, a claim that is a list  *)
(* with one choice, a question's answer.  The model keeps whether a row    *)
(* has it ("more", or for evidence the artifact's id) or not ("plain"),    *)
(* and one row per name.                                                   *)
(***************************************************************************)
EXTENDS Sdk

CONSTANTS
  Tabs,        \* the owner's and the admins' browser tabs
  Sections,    \* the sections with a page, among AllSections
  Names,       \* names of rows
  MaxTouched,  \* rows edited on one page
  FirstRows    \* the rows every section starts with

AllSections ==
  {"controls", "badges", "claims", "faqs", "updates", "subprocessors", "dataTypes"}

ASSUME SectionsAssumption == Sections \subseteq AllSections
ASSUME FirstRowsAssumption == FirstRows \subseteq Names /\ MaxTouched \in Nat

VARIABLES
  lists,  \* the network's sections: section -> name -> "more", an id, or "plain"
  page    \* the tabs: what each shows, and the action it waits for

consoleVars == <<lists, page>>

Idle == [do |-> "none", todo |-> <<>>, given |-> <<>>, base |-> <<>>,
         row |-> "none", id |-> "none", key |-> 0]

Nowhere == [at |-> "none", shown |-> <<>>, draft |-> <<>>, touched |-> {},
            options |-> {}, dirty |-> FALSE, unguarded |-> FALSE, next |-> "none", job |-> Idle]

ConsoleInit ==
  /\ lists = [s \in Sections |->
               [n \in FirstRows |-> IF s = "badges" THEN "plain" ELSE "more"]]
  /\ page = [t \in Tabs |-> Nowhere]

-----------------------------------------------------------------------------
(* What saving makes of the rows of a form, per section.                   *)
(* saveControls knows the category, name and status of a row, and no       *)
(* description.                                                            *)
saveControls(rows) == [n \in DOMAIN rows |-> "plain"]

(* A question without an answer is left out. *)
saveFaqs(rows) == [n \in {m \in DOMAIN rows : rows[m] = "more"} |-> "more"]

(* An update's body, a data type's tick and a subprocessor's details come  *)
(* along with its name; a standard's evidence in a hidden input.           *)
saveUpdates(rows) == rows
saveDataTypes(rows) == rows
saveSubprocessors(rows) == rows
saveBadges(rows) == rows

(* The catalog of claims, as far as the model's names go: those that are   *)
(* there at first are lists of choices. *)
CLAIMS == [n \in Names |-> IF n \in FirstRows THEN "multiselect" ELSE "boolean"]

(* valueToString joins a list with commas, and parseClaimValue makes a     *)
(* list of what has a comma: a list of one choice comes back as a text.    *)
valueToString(value) == "plain"
parseClaimValue(raw) == raw

saveAttestations(rows) == [n \in DOMAIN rows |-> parseClaimValue(valueToString(rows[n]))]

Submitted(s, rows) ==
  CASE s = "controls" -> saveControls(rows) [] s = "faqs" -> saveFaqs(rows)
    [] s = "updates" -> saveUpdates(rows)   [] s = "dataTypes" -> saveDataTypes(rows)
    [] s = "badges" -> saveBadges(rows)     [] s = "claims" -> saveAttestations(rows)
    [] s = "subprocessors" -> saveSubprocessors(rows)

(* The editors of compliance and attestations keep their rows in React     *)
(* state, which a redirect to the same route does not reset: they go on    *)
(* showing what was submitted.  The other forms are uncontrolled and show  *)
(* the list as it is rendered again.                                       *)
KeepsItsRows(s) == s \in {"badges", "claims"}

(* Their rows are added and removed with buttons, which fire no input or   *)
(* change event; in the other forms an edit is typed.                      *)
IsTyped(s) == ~KeepsItsRows(s)

-----------------------------------------------------------------------------
(* A page is rendered with the list as it is, in a form with a few blank   *)
(* rows behind it ...                                                      *)
Rendered(s, rows) == [Nowhere EXCEPT !.at = s, !.shown = rows, !.draft = rows]

ControlsPage(rows) == Rendered("controls", rows)
FaqPage(rows) == Rendered("faqs", rows)
UpdatesPage(rows) == Rendered("updates", rows)
DataCollectedPage(rows) == Rendered("dataTypes", rows)
SubprocessorsPage(rows) == Rendered("subprocessors", rows)

(* A link to an artifact that is gone is none: _evidence_summary finds     *)
(* nothing to show.                                                        *)
Evidenced(rows) ==
  [n \in DOMAIN rows |-> IF rows[n] \in Ids \ DOMAIN artifacts THEN "plain" ELSE rows[n]]

(* ... or in an editor, with the artifacts for rows to name as evidence.   *)
CompliancePage(rows) ==
  [Rendered("badges", Evidenced(rows)) EXCEPT !.options = DOMAIN artifacts]

(* initialRow makes a list of a text again, where the catalog says list. *)
initialRow(n, value) == IF CLAIMS[n] = "multiselect" THEN "more" ELSE value

AttestationsPage(rows) ==
  [Rendered("claims", rows) EXCEPT !.options = DOMAIN artifacts,
     !.draft = [n \in DOMAIN rows |-> initialRow(n, rows[n])]]

Loaded(s, rows) ==
  CASE s = "controls" -> ControlsPage(rows) [] s = "faqs" -> FaqPage(rows)
    [] s = "updates" -> UpdatesPage(rows)   [] s = "dataTypes" -> DataCollectedPage(rows)
    [] s = "badges" -> CompliancePage(rows) [] s = "claims" -> AttestationsPage(rows)
    [] s = "subprocessors" -> SubprocessorsPage(rows)

Waiting(t) == page[t].job.do # "none"

Open(t, s) ==
  /\ Counted
  /\ page' = [page EXCEPT ![t] = Loaded(s, lists[s])]
  /\ UNCHANGED <<lists, network>>

(* Mutant of Follow: the guard asks only where an editor is shown. *)
FollowUnasked(t, s) ==
  /\ ~Waiting(t)
  /\ page[t].at # s /\ page[t].next = "none"
  /\ Open(t, s)

(* FormGuard: a link followed from a page with typed, unsubmitted input    *)
(* asks first.                                                             *)
Follow(t, s) ==
  /\ ~Waiting(t)
  /\ page[t].at # s /\ page[t].next = "none"
  /\ IF page[t].dirty
     THEN /\ page' = [page EXCEPT ![t].next = s]
          /\ UNCHANGED <<lists, network, acts>>
     ELSE Open(t, s)

StayOnPage(t) ==
  /\ page[t].next # "none"
  /\ page' = [page EXCEPT ![t].next = "none"]
  /\ UNCHANGED <<lists, network, acts>>

LeaveAnyway(t) ==
  /\ page[t].next # "none"
  /\ Open(t, page[t].next)

-----------------------------------------------------------------------------
Editable(t) == page[t].at \in Sections /\ ~Waiting(t) /\ page[t].next = "none"

Touchable(t, n) == Editable(t) /\ Cardinality(page[t].touched \cup {n}) <= MaxTouched

Edited(t, n, rows) ==
  [page EXCEPT ![t].draft = rows, ![t].touched = @ \cup {n},
               ![t].dirty = @ \/ IsTyped(page[t].at), ![t].unguarded = FALSE]

(* A blank row is filled in, or a row is picked from a catalog; a picked   *)
(* one, and a control, have no more than their name at first.              *)
Fillable(s) == IF s \in {"controls", "badges", "claims"} THEN {"plain"} ELSE {"plain", "more"}

AddRow(t, n) ==
  /\ Touchable(t, n)
  /\ n \notin DOMAIN page[t].draft
  /\ \E more \in Fillable(page[t].at) : page' = Edited(t, n, Item(n, more) ++ page[t].draft)
  /\ UNCHANGED <<lists, network, acts>>

(* "...or link existing evidence": one of the artifacts the page listed.   *)
LinkEvidence(t, n, id) ==
  /\ Touchable(t, n) /\ page[t].at = "badges"
  /\ n \in DOMAIN page[t].draft /\ id \in page[t].options \ {page[t].draft[n]}
  /\ page' = Edited(t, n, Item(n, id) ++ page[t].draft)
  /\ UNCHANGED <<lists, network, acts>>

(* A row is blanked, or removed. *)
RemoveRow(t, n) ==
  /\ Touchable(t, n)
  /\ n \in DOMAIN page[t].draft
  /\ page' = Edited(t, n, [m \in DOMAIN page[t].draft \ {n} |-> page[t].draft[m]])
  /\ UNCHANGED <<lists, network, acts>>

-----------------------------------------------------------------------------
(* A server action starts: its calls are to be made in order. *)
Started(t, do, todo, given) ==
  page' = [page EXCEPT ![t].dirty = FALSE,
             ![t].job = [Idle EXCEPT !.do = do, !.todo = todo, !.given = given]]

(* The section's form is submitted. *)
Save(t) ==
  /\ Editable(t) /\ Counted
  /\ Started(t, "save", <<"replace">>, Submitted(page[t].at, page[t].draft))
  /\ UNCHANGED <<lists, network>>

(* saveBadges uploads each file before it goes on to the next, and the     *)
(* list goes last.                                                         *)
FilesThenList(count) ==
  [i \in 1 .. 2 * count + 1 |->
     IF i > 2 * count THEN "replace" ELSE IF i % 2 = 1 THEN "create" ELSE "upload"]

(* saveBadges with files dropped on the row n: the form is submitted at    *)
(* once, and each file becomes an artifact.                                *)
DropFiles(t, n, count) ==
  /\ Editable(t) /\ page[t].at = "badges" /\ n \in DOMAIN page[t].draft
  /\ page' = [page EXCEPT ![t].dirty = FALSE,
                ![t].job = [Idle EXCEPT !.do = "drop", !.todo = FilesThenList(count),
                              !.given = Submitted("badges", page[t].draft), !.row = n]]
  /\ Counted
  /\ UNCHANGED <<lists, network>>

(* The actions that merge what they are given into the list as they read   *)
(* it: autofillAttestations, addLibraryControls and parseControls.  Each   *)
(* has a form of its own, and FormGuard takes its submit for the page's.   *)
Merge(t, do, given) ==
  /\ Editable(t) /\ Counted
  /\ Started(t, do, <<"read", "replace">>, given)
  /\ UNCHANGED <<lists, network>>

(* The keys of an uploaded questionnaire, of which autofill takes those    *)
(* that the catalog knows, by key or by label.                             *)
parseQuestionnairePairs(answered) == answered
resolveClaim(keys) == keys \cap DOMAIN CLAIMS

coerceClaimValue(type) == IF type = "multiselect" THEN "more" ELSE "plain"

Autofill(t, answered) ==
  LET matched == resolveClaim(parseQuestionnairePairs(answered))
  IN /\ page[t].at = "claims" /\ matched # {}
     /\ Merge(t, "autofill", [n \in matched |-> coerceClaimValue(CLAIMS[n])])

(* ControlsLibraryPicker: any number of the library's controls, which have *)
(* descriptions.                                                           *)
AddLibrary(t, selected) ==
  /\ page[t].at = "controls" /\ selected # {}
  /\ Merge(t, "library", [n \in selected |-> "more"])

(* A control standard is parsed into rows of category, name and status. *)
parseControlText(text) == [n \in text |-> "plain"]

Import(t, text) ==
  page[t].at = "controls" /\ text # {} /\ Merge(t, "import", parseControlText(text))

(* autofillAttestations: a recognized claim gets the answer, whatever it   *)
(* was; the others stay.                                                   *)
Autofilled(existing, given) == given ++ existing

(* Mutant of Appended: the list becomes what was picked. *)
OnlyPicked(existing, given) == given

(* addLibraryControls: what is there stays as it is, description included, *)
(* and a control already there is not added again.                         *)
Appended(existing, given) == existing ++ given

(* parseControls copies what is there without its description. *)
ImportedAfter(existing, given) == Submitted("controls", existing) ++ given

Merged(do, existing, given) ==
  CASE do = "autofill" -> Autofilled(existing, given)
    [] do = "library" -> Appended(existing, given)
    [] do = "import" -> ImportedAfter(existing, given)

-----------------------------------------------------------------------------
(* app/error.tsx takes the place of a page whose action threw. *)
Broken == [Nowhere EXCEPT !.at = "error"]

(* The artifacts that a page lists are those there were when it was        *)
(* rendered, however long ago.                                             *)
Listed == Ids \ unused

ArtifactForm(t, todo, id) ==
  /\ page[t].at = "none" /\ ~Waiting(t) /\ Counted
  /\ page' = [page EXCEPT ![t].job = [Idle EXCEPT !.do = "artifact", !.todo = todo, !.id = id]]
  /\ UNCHANGED <<lists, network>>

(* addArtifact and addSbom make one and, when a file came with the form,   *)
(* upload its content; addQuestionnaires makes one for each that was       *)
(* picked.                                                                 *)
MakeOne(file) == IF file THEN <<"create", "upload">> ELSE <<"create">>

AddArtifact(t, file) == unused # {} /\ ArtifactForm(t, MakeOne(file), "none")
AddSbom(t, file) == unused # {} /\ ArtifactForm(t, MakeOne(file), "none")

QuestionnairePicker(count) == [i \in 1 .. count |-> "create"]

AddQuestionnaires(t, count) ==
  unused # {} /\ ArtifactForm(t, QuestionnairePicker(count), "none")

UploadNewVersion(t, id) == ArtifactForm(t, <<"upload">>, id)
EditArtifact(t, id) == ArtifactForm(t, <<"update">>, id)
DeleteArtifact(t, id) == ArtifactForm(t, <<"delete">>, id)

(* The pages with these forms. *)
ArtifactsPage(t) ==
  \/ \E file \in BOOLEAN : AddArtifact(t, file)
  \/ \E count \in 1 .. 2 : AddQuestionnaires(t, count)

SbomPage(t) == \E file \in BOOLEAN : AddSbom(t, file)

ArtifactPage(t) ==
  \E id \in Listed : UploadNewVersion(t, id) \/ EditArtifact(t, id) \/ DeleteArtifact(t, id)

(* saveSettings sends every setting as the form has it; the NDA's box is   *)
(* the one that a visitor's page depends on.                               *)
SaveSettings(t, nda_required, outcome) ==
  /\ page[t].at = "none" /\ ~Waiting(t) /\ Counted
  /\ nda' = IF Done(outcome) THEN nda_required ELSE nda
  /\ page' = IF Throws(outcome) THEN [page EXCEPT ![t] = Broken] ELSE page
  /\ UNCHANGED <<lists, artifacts, unused>>

(* Its form may be as old as any page, so the box may be set or not. *)
SettingsPage(t) ==
  \E nda_required \in BOOLEAN, outcome \in Outcomes : SaveSettings(t, nda_required, outcome)

-----------------------------------------------------------------------------
Todo(t) == Head(page[t].job.todo)

RestOf(t) == [page[t].job EXCEPT !.todo = Tail(@)]

(* A form that is rendered again, but was not itself submitted, keeps the  *)
(* text typed into it in the inputs it was typed into: it lies over the    *)
(* rows rendered there now, those under, as its place has it.  FormGuard   *)
(* does not know of it any more.                                           *)
Rerendered(p, rows, under) ==
  LET typed == [n \in DOMAIN p.draft \cap p.touched |-> p.draft[n]]
      touched == p.touched \cup (under \cap DOMAIN rows)
  IN [Loaded(p.at, rows) EXCEPT
        !.draft = typed ++ [n \in DOMAIN rows \ under |-> rows[n]],
        !.touched = touched, !.unguarded = touched # {}]

(* Which rows those are is left open: one at most for each that was typed. *)
Under(t) ==
  {under \in SUBSET Names : Cardinality(under) <= Cardinality(page[t].touched)}

(* What the tab shows when the action is over: the editors keep their rows *)
(* and the other pages are rendered with the list as it is.                *)
Over(t, s, under) ==
  LET p == page[t]
      saved == p.job.do \in {"save", "drop"}
  IN IF s \notin Sections THEN Nowhere
     ELSE IF KeepsItsRows(s)
       THEN [p EXCEPT !.job = Idle, !.options = DOMAIN artifacts, !.dirty = FALSE,
               !.shown = IF saved THEN Submitted(s, p.draft) ELSE @,
               !.touched = IF saved THEN {} ELSE @]
     ELSE IF saved THEN Loaded(s, lists'[s])
     ELSE Rerendered(p, lists'[s], under)

(* parseControls, addLibraryControls and autofillAttestations find nothing *)
(* in what they are given: the page is only rendered again.                *)
NothingGiven(t) ==
  /\ Editable(t) /\ page[t].at \in {"controls", "claims"} /\ Counted
  /\ UNCHANGED <<lists, network>>
  /\ \E under \in Under(t) : page' = [page EXCEPT ![t] = Over(t, page[t].at, under)]

(* The action goes on with job, or is over, or its call threw. *)
Continued(t, outcome, job) ==
  \E under \in Under(t) :
    page' = [page EXCEPT ![t] =
               IF Throws(outcome) THEN Broken
               ELSE IF job.todo = <<>> THEN Over(t, page[t].at, under)
               ELSE [page[t] EXCEPT !.job = job]]

Getter == [s \in AllSections |->
  CASE s = "controls" -> "getOwnerControls" [] s = "badges" -> "getOwnerBadges"
    [] s = "claims" -> "getOwnerAttestations" [] s = "faqs" -> "getOwnerFaqs"
    [] s = "updates" -> "getOwnerUpdates" [] s = "dataTypes" -> "getOwnerDataTypes"
    [] s = "subprocessors" -> "getOwnerSubprocessors"]

Replacer == [s \in AllSections |->
  CASE s = "controls" -> "replaceControls" [] s = "badges" -> "replaceBadges"
    [] s = "claims" -> "replaceAttestations" [] s = "faqs" -> "replaceFaqs"
    [] s = "updates" -> "replaceUpdates" [] s = "dataTypes" -> "replaceDataTypes"
    [] s = "subprocessors" -> "replaceSubprocessors"]

ReadList(t, outcome) ==
  LET s == page[t].at job == RestOf(t)
  IN /\ Waiting(t) /\ Todo(t) = "read"
     /\ lists' = [lists EXCEPT ![s] = After(Getter[s], @, <<>>, outcome)]
     /\ Continued(t, outcome, [job EXCEPT !.base = lists[s],
                                 !.given = Merged(job.do, lists[s], @)])
     /\ UNCHANGED <<network, acts>>

(* replace_badges: "Only accept evidence links that point at one of this   *)
(* vendor's artifacts."                                                    *)
Stored(s, rows) == IF s = "badges" THEN Evidenced(rows) ELSE rows

ReplaceList(t, outcome) ==
  LET s == page[t].at job == RestOf(t)
  IN /\ Waiting(t) /\ Todo(t) = "replace"
     /\ lists' = [lists EXCEPT ![s] = After(Replacer[s], @, Stored(s, job.given), outcome)]
     /\ Continued(t, outcome, job)
     /\ UNCHANGED <<network, acts>>

CreateArtifact(t, outcome) ==
  LET id == CHOOSE x \in unused : TRUE
  IN /\ Waiting(t) /\ Todo(t) = "create"
     /\ Done(outcome) => unused # {}
     /\ artifacts' = After("createArtifact", artifacts, Item(id, FALSE), outcome)
     /\ unused' = IF Done(outcome) THEN unused \ {id} ELSE unused
     /\ Continued(t, outcome, [RestOf(t) EXCEPT !.id = id])
     /\ UNCHANGED <<lists, nda, acts>>

(* "if (!evidence_artifact_id) evidence_artifact_id = created.id": only a  *)
(* standard that has no evidence is linked to the file.                    *)
Linked(job) ==
  IF job.do = "drop" /\ job.given[job.row] = "plain"
  THEN [job EXCEPT !.given[job.row] = job.id]
  ELSE job

(* Mutant of UploadContent: a failed upload is passed over. *)
UploadIfItGoes(t, outcome) ==
  LET job == RestOf(t)
  IN /\ Waiting(t) /\ Todo(t) = "upload"
     /\ Done(outcome) => job.id \in DOMAIN artifacts
     /\ artifacts' = After("uploadArtifactContent", artifacts, Item(job.id, TRUE), outcome)
     /\ Continued(t, "answered", Linked(job))
     /\ UNCHANGED <<lists, unused, nda, acts>>

(* The content of an artifact that is gone is refused. *)
UploadContent(t, outcome) ==
  LET job == RestOf(t)
  IN /\ Waiting(t) /\ Todo(t) = "upload"
     /\ Done(outcome) => job.id \in DOMAIN artifacts
     /\ artifacts' = After("uploadArtifactContent", artifacts, Item(job.id, TRUE), outcome)
     /\ Continued(t, outcome, Linked(job))
     /\ UNCHANGED <<lists, unused, nda, acts>>

RemoveArtifact(t, outcome) ==
  LET job == RestOf(t)
  IN /\ Waiting(t) /\ Todo(t) = "delete"
     /\ Done(outcome) => job.id \in DOMAIN artifacts
     /\ artifacts' = After("deleteArtifact", artifacts, Item(job.id, TRUE), outcome)
     /\ Continued(t, outcome, job)
     /\ UNCHANGED <<lists, unused, nda, acts>>

(* A PATCH of an artifact's details leaves its content alone. *)
UpdateArtifact(t, outcome) ==
  LET job == RestOf(t)
      details == [id \in {job.id} \cap DOMAIN artifacts |-> artifacts[id]]
  IN /\ Waiting(t) /\ Todo(t) = "update"
     /\ Done(outcome) => job.id \in DOMAIN artifacts
     /\ artifacts' = After("updateArtifact", artifacts, details, outcome)
     /\ Continued(t, outcome, job)
     /\ UNCHANGED <<lists, unused, nda, acts>>

(* The next call of the action a tab waits for. *)
ConsoleCall(t) ==
  \E outcome \in Outcomes :
    \/ ReadList(t, outcome) \/ ReplaceList(t, outcome)
    \/ CreateArtifact(t, outcome) \/ UploadContent(t, outcome)
    \/ UpdateArtifact(t, outcome) \/ RemoveArtifact(t, outcome)

(* What the owner does. *)
EditMove(t) ==
  \/ \E n \in Names : AddRow(t, n) \/ RemoveRow(t, n)
  \/ \E n \in Names, id \in page[t].options : LinkEvidence(t, n, id)
  \/ Save(t) \/ NothingGiven(t)
  \/ \E n \in Names, count \in 1 .. 2 : DropFiles(t, n, count)
  \/ \E picked \in SUBSET Names :
       \/ Autofill(t, picked) \/ AddLibrary(t, picked) \/ Import(t, picked)

ArtifactMove(t) == ArtifactsPage(t) \/ SbomPage(t) \/ ArtifactPage(t) \/ SettingsPage(t)

ConsoleMove(t) ==
  \/ ~Waiting(t) /\ \E s \in Sections : Follow(t, s)
  \/ StayOnPage(t) \/ LeaveAnyway(t)
  \/ Editable(t) /\ EditMove(t)
  \/ page[t].at = "none" /\ ArtifactMove(t)
=============================================================================
