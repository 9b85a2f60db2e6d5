------------------------- MODULE TrustCenterPages -------------------------
(***************************************************************************)
(* The owner's console, the reviewers' Requests page and the visitors'     *)
(* public page, on one trust center: what one of them shows is what the    *)
(* others did before it was rendered.                                      *)
(***************************************************************************)
EXTENDS AccessDesk

pageVars == <<acts, network, consoleVars, deskVars>>

Init == SdkInit /\ ConsoleInit /\ DeskInit

(* The console leaves requests and keys alone. *)
Owner(t) == ConsoleMove(t) /\ UNCHANGED deskVars
OwnerCall(t) == ConsoleCall(t) /\ UNCHANGED deskVars

Next ==
  \/ \E t \in Tabs : Owner(t) \/ OwnerCall(t) \/ ReviewerMove(t) \/ DeskCall(t)
  \/ \E v \in Visitors : VisitorMove(v) \/ Serve(v) \/ Answer(v) \/ CallThrows(v)

Spec == Init /\ [][Next]_pageVars

-----------------------------------------------------------------------------
Values == {"more", "plain"} \cup Ids

IsRows(rows) == DOMAIN rows \subseteq Names /\ \A n \in DOMAIN rows : rows[n] \in Values

(* The variables have their types; an id is used or not, never both; and a *)
(* page that waits has a call to make.                                     *)
TypeOK ==
  /\ acts \in 0 .. MaxActs /\ nda \in BOOLEAN
  /\ DOMAIN artifacts \subseteq Ids \ unused
  /\ \A s \in Sections : IsRows(lists[s])
  /\ \A t \in Tabs :
       /\ page[t].at \in Sections => IsRows(page[t].draft) /\ IsRows(page[t].shown)
       /\ Waiting(t) <=> page[t].job.todo # <<>>
  /\ Made \subseteq Reqs /\ held \subseteq Nat /\ lost \subseteq Nat \X Losses
  /\ \A k \in keys : k.no \in 1 .. minted /\ k.req \in Made /\ k.ids \subseteq Ids

(* A modal that says it is busy waits for a call of its own, under way or  *)
(* queued, which will make it ready again, unless the browser's call       *)
(* threw: a call that another modal left behind, and that is answered      *)
(* first, neither makes it busy nor ready.                                 *)
(* (TrustCenterApp.tsx: setBusy(false) after the await, and DocumentViewer *)
(* dropping an answer that comes after it was unmounted.)                  *)
BusyHasItsCall ==
  \A v \in Visitors :
    /\ site[v].busy => site[v].result = "threw" \/ \E i \in DOMAIN site[v].calls : site[v].calls[i].mounted
    /\ \A i \in DOMAIN site[v].calls : site[v].calls[i].mounted =>
         site[v].busy /\ site[v].calls[i].kind \in
           IF site[v].modal = "request" THEN {"request", "contract"} ELSE {site[v].modal}

(* The two, one invariant. *)
Inv == TypeOK /\ BusyHasItsCall

(* When tab t replaces its section's list. *)
Replaces(t) ==
  /\ page[t].at \in Sections /\ Waiting(t) /\ Todo(t) = "replace"
  /\ page'[t].job # page[t].job

(* The rows an action knows as they are: those its page showed and its     *)
(* owner left alone, or, when it read the list to merge into it, all.      *)
Untouched(t) ==
  LET p == page[t]
      merges == p.job.do \in {"autofill", "library", "import"}
      seen == IF merges THEN p.job.base ELSE p.shown
  IN {n \in DOMAIN seen : /\ n \in DOMAIN lists[p.at] /\ seen[n] = lists[p.at][n]
                          /\ ~merges => n \notin p.touched \cup {p.job.row}}

(* A save, an import, an autofill or a pick from the library keeps every   *)
(* row of the section that it knew as it is and that nobody asked it to    *)
(* change: the row stays, and so does what else the row has, but for a     *)
(* control's description and a claim's list of one choice (saveControls    *)
(* and saveAttestations say why), and for a link to evidence that is gone. *)
(* (actions.ts: saveBadges, saveControls, addLibraryControls,              *)
(* parseControls, autofillAttestations, saveFaqs.)                         *)
UntouchedStays ==
  [][\A t \in Tabs : Replaces(t) =>
       LET s == page[t].at
           known == s \in {"controls", "claims"} /\ page[t].job.do # "library"
       IN \A n \in Untouched(t) :
            /\ n \in DOMAIN lists'[s]
            /\ known \/ lists'[s][n] = lists[s][n] \/ lists[s][n] \in Ids \ DOMAIN artifacts]_pageVars

(* Typed input is not left behind without a question: a form page whose    *)
(* rows were edited is left only through "Leave anyway", or by an action.  *)
(* (form-guard.tsx: "Warns before leaving a page with unsaved form input.")*)
LeavingAsks(t) ==
  page[t].at \in Sections /\ IsTyped(page[t].at) /\ page[t].touched # {} /\ page'[t].at # page[t].at
    => page[t].next # "none" \/ Waiting(t)

(* As the comment has it.  Another form of the page, submitted after the   *)
(* typing, clears the guard and leaves the input.                          *)
UnsavedInputWarns == [][\A t \in Tabs : LeavingAsks(t)]_pageVars

(* What the guard does ask: whatever was typed since another form of the   *)
(* page was last submitted.                                                *)
LeavingWarns == [][\A t \in Tabs : ~page[t].unguarded => LeavingAsks(t)]_pageVars

(* What the owner knows and what the owner types stays: both of the above. *)
EditsStay == UntouchedStays /\ LeavingWarns

(* Evidence that a dropped file made is there when a standard is linked to *)
(* it: the artifact has its content, unless it was deleted meanwhile.      *)
(* (saveBadges: an upload that fails must leave no standard pointing at an *)
(* empty artifact.)                                                        *)
EvidenceIsThere ==
  [][\A t \in Tabs : Replaces(t) /\ page[t].job.do = "drop" =>
       LET row == page[t].job.row
           id == page[t].job.given[row]
       IN id # page[t].draft[row] /\ id \in DOMAIN artifacts => artifacts[id]]_pageVars

(* Every live key is in its requester's hands, or on its way               *)
(* there, or it is known what it was lost to: an answer that was not heard,*)
(* a modal that was closed, nobody to mail it to, no mail server, a mail   *)
(* that failed.  (approveKey and applyRecommendation: the key the network  *)
(* shows once goes out in the mail; RequestAccessModal shows a key that    *)
(* was granted at once; a reclaimed key is mailed by the network.)         *)
OnItsWay(no) ==
  \/ \E t \in Tabs :
       page[t].job.do = "approve" /\ page[t].job.key = no /\ page[t].job.todo = <<"mail">>
  \/ \E v \in Visitors :
       site[v].calls # <<>> /\ Called(v).reply = "key" /\ Called(v).key = no

Accounted(no) == no \in held \/ (\E why \in Losses : <<no, why>> \in lost) \/ OnItsWay(no)

KeyReachesRequester == \A k \in keys : Accounted(k.no)

(* Whoever grants a request of chosen artifacts, the policy, a reviewer    *)
(* with a page however old, or a reclaim, no key for it opens them all.    *)
(* (manage.py approve: "a limited request is NOT silently widened to full  *)
(* access on manual approval".)                                            *)
GrantStaysNarrow == \A k \in keys : k.ids = {} => asked[k.req].wish = {}
-----------------------------------------------------------------------------
(* The inductive invariant.  What the network has, whatever the pages show:*)
(* sections of rows, artifacts under ids that are used, and answered       *)
(* questions.                                                              *)
DataHolds ==
  /\ acts \in 0 .. MaxActs /\ nda \in BOOLEAN
  /\ unused \subseteq Ids /\ DOMAIN artifacts \subseteq Ids \ unused
  /\ DOMAIN lists = Sections
  /\ \A s \in Sections :
       IsRows(lists[s]) /\ (s = "faqs" => \A n \in DOMAIN lists[s] : lists[s][n] = "more")

Merges == {"autofill", "library", "import"}

(* The page an action was called from. *)
Place(do) ==
  CASE do = "drop" -> {"badges"} [] do = "autofill" -> {"claims"}
    [] do \in {"library", "import"} -> {"controls"} [] do = "artifact" -> {"none"}
    [] do \in {"approve", "deny", "revoke"} -> {"requests"}
    [] do \in {"none", "save"} -> Sections \cup (IF do = "none" THEN {"none", "error", "requests"} ELSE {})

(* Files are left to be created and uploaded in turn, then the list. *)
FilesLeft(todo) ==
  /\ todo \in Seq({"create", "upload", "replace"})
  /\ \A i \in 1 .. Len(todo) :
       /\ todo[i] = "replace" <=> i = Len(todo)
       /\ i < Len(todo) => (todo[i] = "create" <=> todo[i + 1] = "upload")

(* The calls an action has left, the last ones of those it began with. *)
TodoHolds(j) ==
  \/ j.do = "none" /\ j.todo = <<>>
  \/ j.do = "save" /\ j.todo = <<"replace">>
  \/ j.do = "drop" /\ FilesLeft(j.todo) /\ j.todo # <<>>
     /\ (Head(j.todo) = "upload" => j.id \in Ids)
  \/ j.do \in Merges /\ j.todo \in {<<"read", "replace">>, <<"replace">>}
  \/ j.do = "artifact" /\ j.todo \in Seq({"create", "upload", "update", "delete"}) \ {<<>>}
  \/ j.do \in {"approve", "deny"}
     /\ \/ j.todo \in {<<"contact", j.do, "mail">>, <<j.do, "mail">>, <<"mail">>} /\ j.id # "nobody"
        \/ j.todo = <<j.do>> /\ j.id = "nobody"
  \/ j.do = "revoke" /\ j.todo = <<"revoke">>

(* What an action of page p will send is what was typed into the page, or  *)
(* what it read with what was picked.                                      *)
GivenHolds(p) ==
  LET j == p.job
  IN /\ j.do = "save" => j.given = Submitted(p.at, p.draft)
     /\ j.do = "drop" =>
          /\ DOMAIN j.given = DOMAIN p.draft /\ j.row \in DOMAIN p.draft
          /\ \A n \in DOMAIN p.draft \ {j.row} : j.given[n] = p.draft[n]
     /\ j.do \in {"drop"} \cup Merges => IsRows(j.given)
     /\ j.do \in Merges /\ j.todo = <<"replace">> => DOMAIN j.base \subseteq DOMAIN j.given
     /\ j.do = "library" /\ j.todo = <<"replace">> =>
          \A n \in DOMAIN j.base : j.given[n] = j.base[n]

(* A form shows what it was rendered with, but for the rows touched since, *)
(* and the guard knows of typed ones, but for those left unguarded; the    *)
(* editor of claims makes lists of choices again.                          *)
FormHolds(p) ==
  /\ IsRows(p.draft) /\ IsRows(p.shown)
  /\ \A n \in DOMAIN p.shown \ p.touched :
       n \in DOMAIN p.draft /\ (p.at # "claims" => p.draft[n] = p.shown[n])
  /\ p.at = "faqs" => \A n \in DOMAIN p.shown : p.shown[n] = "more"
  /\ IsTyped(p.at) /\ p.touched # {} /\ p.job.do = "none" => p.dirty \/ p.unguarded

(* A page, where the requests made are those in made.  While the guard     *)
(* asks, no action goes on.                                                *)
PageHolds(p, made) ==
  /\ DOMAIN p = DOMAIN Nowhere /\ DOMAIN p.job = DOMAIN Idle
  /\ p.at \in Sections \cup {"none", "error", "requests"}
  /\ p.at \in Place(p.job.do) /\ TodoHolds(p.job) /\ GivenHolds(p)
  /\ p.options \subseteq Ids
  /\ p.dirty => p.at \in Sections
  /\ p.next \in Sections \cup {"none"}
  /\ p.next # "none" => p.job.do = "none" /\ p.at \in Sections
  /\ p.at \in Sections => FormHolds(p)
  /\ p.job.do \in {"approve", "deny"} => p.job.row \in made
  /\ p.job.do = "approve" => p.job.given \subseteq Ids
  /\ p.job.key \in Nat

(* An artifact that was made has its content, or is gone. *)
Evident(id) == id \in Ids \ unused /\ (id \in DOMAIN artifacts => artifacts[id])

EvidenceHolds(p) ==
  p.job.do = "drop" /\ p.job.given[p.job.row] # p.draft[p.job.row] =>
    Evident(p.job.given[p.job.row])

Callings ==
  [kind : {"contract", "view"} \cup Forms, wish : SUBSET Ids, accepted : BOOLEAN,
   id : Ids \cup {"none"}, at : {"browser", "server"},
   reply : {"none", "error", "done", "key"}, key : Nat, mounted : BOOLEAN]

Sites ==
  [open : BOOLEAN, artifacts : SUBSET Ids, nda : BOOLEAN,
   modal : {"none", "view"} \cup Forms, busy : BOOLEAN,
   result : {"none", "error", "done", "threw"}, calls : Seq(Callings)]

(* A visitor's page: a call that is not answered has brought nothing, and  *)
(* one call at most is waited for, by the modal that is there.             *)
SiteHolds(s) ==
  /\ s \in Sites
  /\ \A i \in DOMAIN s.calls : s.calls[i].at = "browser" => s.calls[i].reply = "none"
  /\ s.busy => s.result = "threw" \/ \E i \in DOMAIN s.calls : s.calls[i].mounted
  /\ \A i \in DOMAIN s.calls : s.calls[i].mounted =>
       /\ s.busy
       /\ s.calls[i].kind \in IF s.modal = "request" THEN {"request", "contract"} ELSE {s.modal}
       /\ \A j \in DOMAIN s.calls : s.calls[j].mounted => i = j

DeskHolds ==
  /\ Made \subseteq Reqs /\ minted \in Nat
  /\ held \subseteq Nat /\ lost \subseteq Nat \X Losses
  /\ \A r \in Made :
       DOMAIN asked[r] = {"by", "wish", "status"} /\ asked[r].wish \subseteq Ids
  /\ \A k \in keys : k.no \in 1 .. minted /\ k.req \in Made /\ k.ids \subseteq Ids
  /\ GrantStaysNarrow

PagesInv ==
  /\ DataHolds /\ DeskHolds /\ KeyReachesRequester
  /\ DOMAIN page = Tabs /\ DOMAIN site = Visitors
  /\ \A t \in Tabs : PageHolds(page[t], Made) /\ EvidenceHolds(page[t])
  /\ \A v \in Visitors : SiteHolds(site[v])
=============================================================================
