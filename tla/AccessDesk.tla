---------------------------- MODULE AccessDesk ----------------------------
(***************************************************************************)
(* Access requests as the web sees them: the public trust center, where a  *)
(* visitor asks (apps/web/src/components/trust/TrustCenterApp.tsx and the  *)
(* server actions of apps/web/src/app/(public)/trust/[vendorId]), and the  *)
(* console's Requests page, where a reviewer decides.  A key's secret is   *)
(* shown once, in the answer to the call that made the key: whoever made   *)
(* the call has to pass it on.  What the network does with a call is one   *)
(* step here; AccessKeys has its interleavings.                            *)
(***************************************************************************)
EXTENDS Console

CONSTANTS
  Visitors,   \* browsers on the public page
  Reqs,       \* access requests that may be made
  FirstReqs   \* the requests that are pending at first

Forms == {"subscribe", "ask", "request", "reclaim", "dpa"}

ASSUME ReqsAssumption == FirstReqs \subseteq Reqs

VARIABLES
  asked,  \* the network's requests: id -> who asked for what, and its status
  keys,   \* live keys: [no, req, ids, by]; ids = {} opens every artifact
  minted, \* keys ever made
  site,   \* the visitors' pages
  held,   \* history: keys whose requester has them
  lost    \* history: keys nobody has, each with what became of it

deskVars == <<asked, keys, minted, site, held, lost>>

(* What becomes of a key whose requester does not get it: the answer it    *)
(* came in was not heard, or came to a modal that was closed; there was    *)
(* nobody to mail it to, no mail server to mail it with, the mail failed,  *)
(* or the network's own mail did not go.                                   *)
Losses == {"unheard", "closed", "unaddressed", "skipped", "failed", "unmailed"}

Made == DOMAIN asked
Unmade == Reqs \ Made

Call(kind, wish, accepted, id) ==
  [kind |-> kind, wish |-> wish, accepted |-> accepted, id |-> id,
   at |-> "browser", reply |-> "none", key |-> 0, mounted |-> TRUE]

Away == [open |-> FALSE, artifacts |-> {}, nda |-> FALSE, modal |-> "none",
         busy |-> FALSE, result |-> "none", calls |-> <<>>]

(* A visitor has the page open; the first requests are for chosen          *)
(* artifacts.                                                              *)
DeskInit ==
  /\ asked = [r \in FirstReqs |->
                [by |-> CHOOSE v \in Visitors : TRUE, wish |-> FirstIds, status |-> "pending"]]
  /\ keys = {} /\ minted = 0 /\ held = {} /\ lost = {}
  /\ site = [v \in Visitors |-> [Away EXCEPT !.open = TRUE, !.artifacts = FirstIds]]

-----------------------------------------------------------------------------
(* The public page.  PublicTrustCenter renders it with the profile as it   *)
(* is, and nothing on it is refreshed.                                     *)
Visit(v) ==
  /\ Counted
  /\ site[v].calls = <<>>
  /\ site' = [site EXCEPT ![v] = [Away EXCEPT !.open = TRUE,
                !.artifacts = DOMAIN artifacts, !.nda = nda]]
  /\ UNCHANGED <<consoleVars, network, asked, keys, minted, held, lost>>

(* A modal is mounted anew each time it is opened. *)
Mounted(v, modal) ==
  [site[v] EXCEPT !.modal = modal, !.busy = FALSE, !.result = "none"]

OpenModal(v, modal) ==
  /\ site[v].open /\ site[v].modal = "none" /\ Counted
  /\ site' = [site EXCEPT ![v] = Mounted(v, modal)]
  /\ UNCHANGED <<consoleVars, network, asked, keys, minted, held, lost>>

(* Mutant of CloseModal: the call's answer still reaches the page. *)
CloseListening(v) ==
  /\ site[v].modal # "none"
  /\ site' = [site EXCEPT ![v] = Mounted(v, "none")]
  /\ UNCHANGED <<consoleVars, network, acts, asked, keys, minted, held, lost>>

(* What a modal waits for when it is closed will be dropped: setResult on  *)
(* an unmounted component does nothing.                                    *)
Unheeded(calls) == [i \in DOMAIN calls |-> [calls[i] EXCEPT !.mounted = FALSE]]

CloseModal(v) ==
  /\ site[v].modal # "none"
  /\ site' = [site EXCEPT ![v] = [Mounted(v, "none") EXCEPT !.calls = Unheeded(@)]]
  /\ UNCHANGED <<consoleVars, network, acts, asked, keys, minted, held, lost>>

(* "Reclaim access" and "Never seen the Trust Center before? Request       *)
(* access" put the one modal in the place of the other.                    *)
SwitchModal(v) ==
  /\ site[v].modal \in {"request", "reclaim"} /\ site[v].result # "done"
  /\ site' = [site EXCEPT ![v] =
                [Mounted(v, IF site[v].modal = "request" THEN "reclaim" ELSE "request")
                   EXCEPT !.calls = Unheeded(@)]]
  /\ UNCHANGED <<consoleVars, network, acts, asked, keys, minted, held, lost>>

(* The browser calls a server action.  The modal is busy at once; Next     *)
(* sends the calls one at a time, the first is the one under way.          *)
Calling(v, kind, wish, accepted, id) ==
  /\ Counted
  /\ site' = [site EXCEPT ![v].busy = TRUE,
                ![v].calls = Append(@, Call(kind, wish, accepted, id))]
  /\ UNCHANGED <<consoleVars, network, asked, keys, minted, held, lost>>

(* When a modal's button works: it is disabled while a call is awaited,    *)
(* and a result that is good takes the form's place.  AskModal is a        *)
(* conversation and has no end.                                            *)
SubscribeModal(s) == ~s.busy /\ s.result # "done"
AskModal(s) == ~s.busy
ReclaimModal(s) == ~s.busy /\ s.result # "done"
DpaModal(s) == ~s.busy /\ s.result # "done"

Ready(s) ==
  CASE s.modal = "subscribe" -> SubscribeModal(s) [] s.modal = "ask" -> AskModal(s)
    [] s.modal = "reclaim" -> ReclaimModal(s)     [] s.modal = "dpa" -> DpaModal(s)
    [] OTHER -> FALSE

Submit(v) == Ready(site[v]) /\ Calling(v, site[v].modal, {}, FALSE, "none")

RequestAccessModal(s) == ~s.busy /\ s.result # "done"

(* "artifact_ids = data.accessLevel === "limited" ? data.artifactIds : []":*)
(* nothing ticked asks for everything.                                     *)
Wanted(level, ticked) == IF level = "limited" THEN ticked ELSE {}

(* The button waits for the NDA's box when the page says there is an NDA,  *)
(* and without one there is no box: the call says which the page was.      *)
RequestAccess(v, level, ticked, contract) ==
  /\ RequestAccessModal(site[v])
  /\ Calling(v, IF contract THEN "contract" ELSE "request", Wanted(level, ticked),
             site[v].nda, "none")

(* DocumentViewer fetches the address once, when it is mounted. *)
DocumentViewer(v, id) ==
  [Mounted(v, "view") EXCEPT !.busy = TRUE, !.calls = Append(@, Call("view", {}, FALSE, id))]

(* ResourcesSection lists every document under "All products", each with   *)
(* the ResourceRow whose "View / download" this is: only a public one has  *)
(* the button.  Which are public is left open: the page may offer any.     *)
ResourcesSection(s) == IF s.open THEN s.artifacts ELSE {}

View(v, id) ==
  /\ site[v].modal = "none" /\ id \in ResourcesSection(site[v])
  /\ Counted
  /\ site' = [site EXCEPT ![v] = DocumentViewer(v, id)]
  /\ UNCHANGED <<consoleVars, network, asked, keys, minted, held, lost>>

-----------------------------------------------------------------------------
(* The call under way, not yet answered. *)
Called(v) == Head(site[v].calls)

Serving(v, kinds) == site[v].calls # <<>> /\ Called(v).kind \in kinds /\ Called(v).at = "browser"

Replied(v, reply, key) ==
  site' = [site EXCEPT ![v].calls[1] = [@ EXCEPT !.at = "server", !.reply = reply, !.key = key]]

(* Every action catches what its call throws and answers with a message,   *)
(* askQuestion with an apology that is shown like an answer, and           *)
(* getPublicArtifactUrl with no address.                                   *)
Message(outcome) == IF Throws(outcome) THEN "error" ELSE "done"

subscribeToUpdates(outcome) == Message(outcome)
askQuestion(outcome) == "done"
submitDpa(outcome) == Message(outcome)
getPublicArtifactUrl(outcome) == Message(outcome)

Reply(kind, outcome) ==
  CASE kind = "subscribe" -> subscribeToUpdates(outcome) [] kind = "ask" -> askQuestion(outcome)
    [] kind = "dpa" -> submitDpa(outcome) [] kind = "view" -> getPublicArtifactUrl(outcome)

(* They leave no trace here.  A document that is gone has no address. *)
ServeOther(v, outcome) ==
  /\ Serving(v, {"subscribe", "ask", "dpa", "view"})
  /\ Called(v).kind = "view" /\ Done(outcome) => Called(v).id \in DOMAIN artifacts
  /\ Replied(v, Reply(Called(v).kind, outcome), 0)
  /\ UNCHANGED <<consoleVars, network, acts, asked, keys, minted, held, lost>>

(* A contract "requests full scope", whatever was ticked. *)
Wish(call) == IF call.kind = "contract" THEN {} ELSE call.wish

(* The network makes a key: its secret is in the answer to this call.      *)
NewKey(r, ids, by) == [no |-> minted + 1, req |-> r, ids |-> ids, by |-> by]

(* submitRequestAccess, and what the network makes of it: it refuses a     *)
(* request without the NDA it requires, keeps the others, and grants some  *)
(* at once.                                                                *)
ServeRequest(v, outcome, auto) ==
  LET call == Called(v)
      r == CHOOSE x \in Unmade : TRUE
      wish == Wish(call)
      key == NewKey(r, wish, "policy")
  IN /\ Serving(v, {"request", "contract"})
     /\ Done(outcome) => Unmade # {} /\ (nda => call.accepted)
     /\ auto => Done(outcome)
     /\ asked' = IF Done(outcome)
                 THEN After("requestAccess", asked,
                        Item(r, [by |-> v, wish |-> wish,
                                status |-> IF auto THEN "granted" ELSE "pending"]), outcome)
                 ELSE asked
     /\ keys' = IF auto THEN keys \cup {key} ELSE keys
     /\ minted' = IF auto THEN key.no ELSE minted
     /\ lost' = IF auto /\ Throws(outcome) THEN lost \cup {<<key.no, "unheard">>} ELSE lost
     /\ IF auto /\ ~Throws(outcome) THEN Replied(v, "key", key.no)
        ELSE Replied(v, Message(outcome), 0)
     /\ UNCHANGED <<consoleVars, network, acts, held>>

(* reclaimAccess: the network makes a new key for a granted request and    *)
(* mails it after its answer, which is the same when there is none; a mail *)
(* that cannot be sent is only logged.                                     *)
ServeReclaim(v, outcome) ==
  LET mine == {r \in Made : asked[r].by = v /\ asked[r].status = "granted"}
  IN /\ Serving(v, {"reclaim"})
     /\ IF Done(outcome) /\ mine # {}
        THEN \E r \in mine, mailed \in BOOLEAN :
               LET key == NewKey(r, asked[r].wish, "reclaim")
               IN /\ keys' = keys \cup {key} /\ minted' = key.no
                  /\ held' = IF mailed THEN held \cup {key.no} ELSE held
                  /\ lost' = IF mailed THEN lost ELSE lost \cup {<<key.no, "unmailed">>}
        ELSE UNCHANGED <<keys, minted, held, lost>>
     /\ Replied(v, Message(outcome), 0)
     /\ UNCHANGED <<consoleVars, network, acts, asked>>

(* The answer reaches the browser, and the next call is sent.  A key is on *)
(* the screen, once, if the modal that asked is still there.               *)
Answer(v) ==
  LET call == Called(v)
      shown == call.reply = "key" /\ call.mounted
  IN /\ site[v].calls # <<>> /\ call.at = "server"
     /\ site' = [site EXCEPT ![v].calls = Tail(@),
                   ![v].busy = @ /\ ~call.mounted,
                   ![v].result = IF ~call.mounted THEN @
                                 ELSE IF call.reply = "error" THEN "error" ELSE "done"]
     /\ held' = IF shown THEN held \cup {call.key} ELSE held
     /\ lost' = IF call.reply = "key" /\ ~shown THEN lost \cup {<<call.key, "closed">>} ELSE lost
     /\ UNCHANGED <<consoleVars, network, acts, asked, keys, minted>>

(* The browser does not hear from the web server: the call throws in the   *)
(* button's handler, and setBusy(false) behind it is not reached.          *)
CallThrows(v) ==
  LET call == Called(v)
  IN /\ site[v].calls # <<>>
     /\ site' = [site EXCEPT ![v].calls = Tail(@),
                   ![v].result = IF call.mounted THEN "threw" ELSE @]
     /\ lost' = IF call.reply = "key" THEN lost \cup {<<call.key, "unheard">>} ELSE lost
     /\ UNCHANGED <<consoleVars, network, acts, asked, keys, minted, held>>

-----------------------------------------------------------------------------
(* The Requests page: the requests and the artifacts as they are. *)
RequestsPage(requests) ==
  [Nowhere EXCEPT !.at = "requests", !.options = DOMAIN artifacts,
     !.shown = [r \in DOMAIN requests |-> requests[r].status]]

OpenRequests(t) ==
  /\ ~Waiting(t) /\ page[t].at \in {"none", "error"}
  /\ Counted
  /\ page' = [page EXCEPT ![t] = RequestsPage(asked)]
  /\ UNCHANGED <<lists, network, deskVars>>

(* approveKey and denyKey find out whom to write to before they decide. *)
Deciding(t, r, do, todo, ids) ==
  /\ ~Waiting(t) /\ Counted
  /\ page' = [page EXCEPT ![t].job = [Idle EXCEPT !.do = do, !.todo = todo, !.given = ids, !.row = r]]
  /\ UNCHANGED <<lists, network, deskVars>>

(* The page's three parts: the pending requests have a form that approves, *)
(* limited to what is ticked, and one that denies; a key has a button that *)
(* revokes it; the decided requests have none.                             *)
Pending(t, r) ==
  page[t].at = "requests" /\ r \in DOMAIN page[t].shown /\ page[t].shown[r] = "pending"

Issued(t, r) ==
  page[t].at = "requests" /\ r \in DOMAIN page[t].shown /\ \E k \in keys : k.req = r

(* Mutant of ApproveKey: the key is not mailed. *)
ApproveUnmailed(t, r, ticked) ==
  /\ Pending(t, r) /\ ticked \subseteq page[t].options
  /\ Deciding(t, r, "approve", <<"contact", "approve">>, ticked)

ApproveKey(t, r, ticked) ==
  /\ Pending(t, r) /\ ticked \subseteq page[t].options
  /\ Deciding(t, r, "approve", <<"contact", "approve", "mail">>, ticked)

DenyKey(t, r) ==
  /\ Pending(t, r)
  /\ Deciding(t, r, "deny", <<"contact", "deny", "mail">>, {})

(* "Apply: approve" and "Apply: deny" are approveKey, which then ticks     *)
(* nothing, and denyKey.                                                   *)
ApplyRecommendation(t, r, level) ==
  IF level = "approve" THEN ApproveKey(t, r, {}) ELSE DenyKey(t, r)

RevokeKey(t, r) ==
  /\ Issued(t, r)
  /\ Deciding(t, r, "revoke", <<"revoke">>, {})

(* A decision's action goes on with job, or is over and the page is        *)
(* rendered again.                                                         *)
Went(t, outcome, job, requests) ==
  page' = [page EXCEPT ![t] =
             IF Throws(outcome) THEN Broken
             ELSE IF job.todo = <<>> THEN RequestsPage(requests)
             ELSE [page[t] EXCEPT !.job = job]]

(* requesterContact: the request may name nobody to write to.  Then no     *)
(* mail is sent.                                                           *)
FindContact(t, outcome, named) ==
  /\ Waiting(t) /\ Todo(t) = "contact"
  /\ Went(t, outcome,
          IF named THEN RestOf(t)
          ELSE [RestOf(t) EXCEPT !.todo = <<page[t].job.do>>, !.id = "nobody"], asked)
  /\ UNCHANGED <<lists, network, acts, deskVars>>

(* Mutant of Opened: a grant is limited by what is ticked alone. *)
OnlyTicked(ticked, wish) == ticked

(* The artifacts an approval opens: those the reviewer ticked, or those    *)
(* the requester wished for.                                               *)
Opened(ticked, wish) == IF ticked # {} THEN ticked ELSE wish

Decided(r, status) == [asked EXCEPT ![r].status = status]

Approve(t, outcome) ==
  LET job == page[t].job
      r == job.row
      key == NewKey(r, Opened(job.given, asked[r].wish), "reviewer")
  IN /\ Waiting(t) /\ Todo(t) = "approve"
     /\ Done(outcome) => asked[r].status = "pending"
     /\ IF Done(outcome)
        THEN asked' = Decided(r, "granted") /\ keys' = keys \cup {key} /\ minted' = key.no
        ELSE UNCHANGED <<asked, keys, minted>>
     /\ lost' = CASE outcome = "unheard" -> lost \cup {<<key.no, "unheard">>}
                  [] outcome = "answered" /\ job.id = "nobody" -> lost \cup {<<key.no, "unaddressed">>}
                  [] OTHER -> lost
     /\ Went(t, outcome, [RestOf(t) EXCEPT !.key = key.no], asked')
     /\ UNCHANGED <<lists, network, acts, site, held>>

(* The network denies a request whatever its status. *)
Deny(t, outcome) ==
  /\ Waiting(t) /\ Todo(t) = "deny"
  /\ asked' = IF Done(outcome) THEN Decided(page[t].job.row, "denied") ELSE asked
  /\ Went(t, outcome, RestOf(t), asked')
  /\ UNCHANGED <<lists, network, acts, keys, minted, site, held, lost>>

Revoke(t, outcome) ==
  /\ Waiting(t) /\ Todo(t) = "revoke"
  /\ \E k \in {k \in keys : k.req = page[t].job.row} \cup {[req |-> "none"]} :
       keys' = IF Done(outcome) THEN keys \ {k} ELSE keys
  /\ Went(t, outcome, RestOf(t), asked)
  /\ UNCHANGED <<lists, network, acts, asked, minted, site, held, lost>>

(* sendMail throws when the mail server does; where none is configured it  *)
(* is skipped with a line in the log, and approveKey does not look.  The   *)
(* key is in this mail and nowhere else.                                   *)
SendMail(t, outcome) ==
  LET key == page[t].job.key
      isKey == page[t].job.do = "approve"
  IN /\ Waiting(t) /\ Todo(t) = "mail"
     /\ held' = IF isKey /\ Done(outcome) THEN held \cup {key} ELSE held
     /\ lost' = IF isKey /\ ~Done(outcome) THEN lost \cup {<<key, outcome>>} ELSE lost
     /\ Went(t, IF outcome = "skipped" THEN "answered" ELSE outcome, RestOf(t), asked)
     /\ UNCHANGED <<lists, network, acts, asked, keys, minted, site>>

-----------------------------------------------------------------------------
DeskCall(t) ==
  \/ SendMail(t, "skipped")
  \/ \E outcome \in Outcomes :
       \/ \E named \in BOOLEAN : FindContact(t, outcome, named)
       \/ Approve(t, outcome) \/ Deny(t, outcome) \/ Revoke(t, outcome) \/ SendMail(t, outcome)

Serve(v) ==
  \E outcome \in Outcomes :
    \/ ServeOther(v, outcome) \/ ServeReclaim(v, outcome)
    \/ \E auto \in BOOLEAN : ServeRequest(v, outcome, auto)

VisitorMove(v) ==
  \/ Visit(v) \/ CloseModal(v) \/ SwitchModal(v) \/ Submit(v)
  \/ \E modal \in Forms : OpenModal(v, modal)
  \/ /\ site[v].modal = "request"
     /\ \E level \in {"full", "limited"}, ticked \in SUBSET site[v].artifacts, contract \in BOOLEAN :
          RequestAccess(v, level, ticked, contract)
  \/ \E id \in Ids : View(v, id)

ReviewerMove(t) ==
  \/ OpenRequests(t)
  \/ \E r \in Made \cap DOMAIN page[t].shown :
       \/ \E ticked \in SUBSET page[t].options : ApproveKey(t, r, ticked)
       \/ DenyKey(t, r) \/ RevokeKey(t, r)
       \/ \E level \in {"approve", "caution"} : ApplyRecommendation(t, r, level)
=============================================================================
