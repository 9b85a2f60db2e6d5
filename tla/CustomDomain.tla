---------------------------- MODULE CustomDomain ----------------------------
(***************************************************************************)
(* The branding JSON of a trust center: the logos, and the custom domain   *)
(* the trust center is served on.  One column holds it all.  Every handler *)
(* of the network, and the certificate job, loads the vendor, works, and   *)
(* writes the whole column from what it loaded.  Owners call the handlers  *)
(* from browser tabs: the domain panel and the branding form, which act on *)
(* what the page showed when it was rendered.                              *)
(***************************************************************************)
EXTENDS Naturals, FiniteSets

CONSTANTS
  Tabs,       \* browser tabs of the owners; each has a call in flight at most
  Hosts,      \* host names an owner may serve the trust center on
  MaxCalls,   \* bound: calls ever begun in a tab
  MaxTurns    \* bound: times the edge changes, or the zone by hand

None == "none"
Job == "job"

ASSUME TabsAssumption == IsFiniteSet(Tabs) /\ Job \notin Tabs
ASSUME HostsAssumption == IsFiniteSet(Hosts) /\ None \notin Hosts
ASSUME BoundsAssumption == MaxCalls \in Nat /\ MaxTurns \in Nat

VARIABLES
  branding,  \* the column
  page,      \* what each tab shows
  call,      \* the call in flight of each tab, and of the job
  dns,       \* what the owner's zone publishes: hosts with the CNAME, TXT challenges
  edge,      \* what probing the host over HTTPS finds: _assess_tls
  proved,    \* history: challenges ever found in the zone
  begun, turns

vars == <<branding, page, call, dns, edge, proved, begun, turns>>

(* token: the verify_token, numbered by the call that made it.             *)
NoDomain == [host |-> None, token |-> 0, status |-> None, tls |-> None]

(* A logo is the number of the upload, 0 for none; its bytes are found as  *)
(* long as its storage key is kept beside it.                              *)
Blank == [logo |-> 0, logo_key |-> FALSE, wide |-> 0, wide_key |-> FALSE, domain |-> NoDomain]

Callers == Tabs \cup {Job}
Idle == [pc |-> "idle", does |-> None, host |-> None, id |-> 0, seen |-> Blank, ok |-> FALSE, raced |-> FALSE]
NoUrl == <<None, 0>>
Fresh == [host |-> None, verified |-> FALSE, logo |-> 0, asked |-> {}, offer |-> "detecting", url |-> NoUrl]

Init ==
  /\ branding = Blank
  /\ page = [t \in Tabs |-> Fresh]
  /\ call = [c \in Callers |-> Idle]
  /\ dns = [cname |-> {}, txt |-> {}]
  /\ edge = "blocked"
  /\ proved = {}
  /\ begun = 0
  /\ turns = 0

Verified(d) == d.status \in {"verified", "active"}

-----------------------------------------------------------------------------
(* The page: a render shows the column as it is now.  When the host, or    *)
(* whether it is verified, has changed, the DNS provider is asked for anew.*)

Shows(t, b) ==
  LET d == b.domain
      p == [page[t] EXCEPT !.host = d.host, !.verified = Verified(d), !.logo = b.logo] IN
  IF p.host = page[t].host /\ p.verified = page[t].verified THEN p
  ELSE [p EXCEPT !.offer = "detecting",
          !.asked = IF d.host = None \/ Verified(d) THEN @ ELSE @ \cup {d.host}]

Render(t) ==
  /\ call[t].pc = "idle"
  /\ page' = [page EXCEPT ![t] = Shows(t, branding)]
  /\ UNCHANGED <<branding, call, dns, edge, proved, begun, turns>>

(* Mutant of Arrives: an answer is shown whatever the page has become. *)
ArrivesLate(t, h) == page[t].offer = "detecting"

(* An answer for host h counts if the page shows h yet: else it has been   *)
(* cancelled.                                                              *)
Arrives(t, h) == page[t].host = h /\ ~page[t].verified /\ page[t].offer = "detecting"

(* discoverDomainConnect and detectDnsProvider answer: the provider's page *)
(* to apply the records of the host as registered then ("connect"), or a   *)
(* provider whose API takes a key ("auto"), or neither, or both failed.    *)
Told(t, h, found) ==
  IF Arrives(t, h)
  THEN [page[t] EXCEPT !.asked = @ \ {h}, !.offer = found,
          !.url = IF found = "connect" THEN <<h, branding.domain.token>> ELSE NoUrl]
  ELSE [page[t] EXCEPT !.asked = @ \ {h}]

Detect(t, h, found) ==
  /\ h \in page[t].asked
  /\ found = "connect" => branding.domain.host = h
  /\ page' = [page EXCEPT ![t] = Told(t, h, found)]
  /\ UNCHANGED <<branding, call, dns, edge, proved, begun, turns>>

-----------------------------------------------------------------------------
(* A call begins when the handler loads the vendor. *)
Load(c, does, host) ==
  /\ call[c].pc = "idle"
  /\ call' = [call EXCEPT ![c] =
       [Idle EXCEPT !.pc = "loaded", !.does = does, !.host = host, !.id = begun', !.seen = branding]]
  /\ UNCHANGED <<branding, page, dns, edge, proved, turns>>

Actions == {"set", "remove", "verify", "configure", "save", "logo", "wide"}

(* The panel's controls: which it offers depends on what it shows, and     *)
(* none while a call of the tab is in flight.                              *)
Offered(t, does, host) ==
  \/ does = "set" /\ page[t].host = None /\ host \in Hosts
  \/ does \in {"remove", "verify"} /\ page[t].host # None /\ host = None
  \/ does = "configure" /\ page[t].host # None /\ host = page[t].host
       /\ ~page[t].verified /\ page[t].offer \notin {"detecting", "none"}
  \/ does \in {"save", "logo", "wide"} /\ host = None

Click(t, does, host) ==
  /\ begun < MaxCalls
  /\ begun' = begun + 1
  /\ Offered(t, does, host)
  /\ Load(t, does, host)

(* The owner approves the records at the provider's own page: the CNAME    *)
(* and the challenge the apply URL was made with.                          *)
openConnect(t) ==
  /\ call[t].pc = "idle"
  /\ page[t].offer = "connect"
  /\ page[t].host # None /\ ~page[t].verified
  /\ dns' = [cname |-> dns.cname \cup {page[t].url[1]}, txt |-> dns.txt \cup {page[t].url}]
  /\ page' = [page EXCEPT ![t] = Shows(t, branding)]
  /\ UNCHANGED <<branding, call, edge, proved, begun, turns>>

(* The owner edits the zone by hand, as the panel instructs, or undoes it. *)
EditZone(txt, cname) ==
  /\ LET d == branding.domain IN
     /\ d.host # None
     /\ dns' = [cname |-> IF cname THEN dns.cname \cup {d.host} ELSE dns.cname \ {d.host},
                txt |-> IF txt THEN dns.txt \cup {<<d.host, d.token>>}
                        ELSE {x \in dns.txt : x[1] # d.host}]
  /\ dns' # dns
  /\ turns < MaxTurns
  /\ turns' = turns + 1
  /\ UNCHANGED <<branding, page, call, edge, proved, begun>>

-----------------------------------------------------------------------------
(* What the handler does between loading and writing. *)

(* verify_custom_domain: the TXT challenge or the CNAME is there; a lookup *)
(* that fails counts as not there.                                         *)
Lookup(t) ==
  LET d == call[t].seen.domain IN
  /\ call[t].pc = "loaded" /\ call[t].does = "verify" /\ d.host # None
  /\ \E ok \in {FALSE, <<d.host, d.token>> \in dns.txt \/ d.host \in dns.cname} :
       /\ call' = [call EXCEPT ![t].pc = "worked", ![t].ok = ok]
       /\ proved' = IF ok THEN proved \cup {<<d.host, d.token>>} ELSE proved
  /\ UNCHANGED <<branding, page, dns, edge, begun, turns>>

(* auto_configure_custom_domain_dns: the provider's API creates both       *)
(* records, or refuses the credentials.                                    *)
Upsert(t) ==
  LET d == call[t].seen.domain IN
  /\ call[t].pc = "loaded" /\ call[t].does = "configure" /\ d.host = call[t].host
  /\ dns' = [cname |-> dns.cname \cup {d.host}, txt |-> dns.txt \cup {<<d.host, d.token>>}]
  /\ call' = [call EXCEPT ![t].pc = "worked"]
  /\ UNCHANGED <<branding, page, edge, proved, begun, turns>>

(* The handler refuses (no domain configured, or another one; the provider *)
(* refuses), or the network is not reached.                                *)
Refuse(t) ==
  /\ call[t].pc = "loaded"
  /\ \/ call[t].does = "verify" /\ call[t].seen.domain.host = None
     \/ call[t].does = "configure"
     \/ call[t].does \in {"logo", "wide"}
  /\ call' = [call EXCEPT ![t] = Idle]
  /\ page' = [page EXCEPT ![t] = Shows(t, branding)]
  /\ UNCHANGED <<branding, dns, edge, proved, begun, turns>>

-----------------------------------------------------------------------------
(* The column each call writes, from the one it loaded. *)

(* Mutant of SavedDomain: the form's branding is all there is. *)
SavedDomainDropped(b) == NoDomain

SavedDomain(b) == b.domain

(* saveBranding: the form sends the logo's URL it shows and no wide logo's;*)
(* update_profile keeps a storage key while the URL is the one it had.     *)
Saved(b, logo) ==
  [logo |-> logo, logo_key |-> b.logo_key /\ logo = b.logo,
   wide |-> 0, wide_key |-> FALSE, domain |-> SavedDomain(b)]

Registered(b, host, id) ==
  [b EXCEPT !.domain = [host |-> host, token |-> id, status |-> "pending", tls |-> None]]

Assessed(b) ==
  [b EXCEPT !.domain.tls = edge, !.domain.status = IF edge = "active" THEN "active" ELSE "verified"]

(* Mutant of Checked: a failed lookup leaves the host to the job. *)
CheckedLater(b, ok) == IF ok THEN Assessed(b) ELSE [b EXCEPT !.domain.status = "verified"]

Checked(b, ok) == IF ok THEN Assessed(b) ELSE [b EXCEPT !.domain.status = "error"]

Writes(t) ==
  LET b == call[t].seen IN
  CASE call[t].does = "set" -> Registered(b, call[t].host, call[t].id)
    [] call[t].does = "remove" -> [b EXCEPT !.domain = NoDomain]
    [] call[t].does = "verify" -> Checked(b, call[t].ok)
    [] call[t].does = "configure" -> [b EXCEPT !.domain.status = "pending"]
    [] call[t].does = "save" -> Saved(b, page[t].logo)
    [] call[t].does = "logo" -> [b EXCEPT !.logo = call[t].id, !.logo_key = TRUE]
    [] OTHER -> [b EXCEPT !.wide = call[t].id, !.wide_key = TRUE]

(* A column equal to the one loaded is not written.  Whoever else holds a  *)
(* column loaded before is from now on behind.                             *)
Commit(c, b) ==
  /\ branding' = IF b = call[c].seen THEN branding ELSE b
  /\ call' = [d \in Callers |->
       IF d = c THEN Idle
       ELSE IF call[d].pc = "idle" THEN call[d] ELSE [call[d] EXCEPT !.raced = @ \/ b # call[c].seen]]

Answer(t) ==
  /\ call[t].pc = (IF call[t].does \in {"verify", "configure"} THEN "worked" ELSE "loaded")
  /\ Commit(t, Writes(t))
  /\ page' = [page EXCEPT ![t] = Shows(t, branding')]
  /\ UNCHANGED <<dns, edge, proved, begun, turns>>

-----------------------------------------------------------------------------
(* Mutant of ToProvision: a domain blocked on our side is not looked at. *)
ToProvisionUnblocked(d) == Verified(d) /\ d.tls \in {None, "provisioning"}

(* The certificate job takes up the domains that are verified and not live *)
ToProvision(d) == Verified(d) /\ d.tls # "active"

JobLoads ==
  /\ ToProvision(branding.domain)
  /\ UNCHANGED begun
  /\ Load(Job, "provision", None)

(* ... probes each, and writes what it found. *)
JobWrites ==
  /\ call[Job].pc = "loaded"
  /\ Commit(Job, Assessed(call[Job].seen))
  /\ UNCHANGED <<page, dns, edge, proved, begun, turns>>

EdgeStates == {"active", "provisioning", "blocked"}

(* The edge: our target resolves, and the certificate is issued, or not. *)
EdgeTurns(s) ==
  /\ turns < MaxTurns
  /\ s # edge
  /\ turns' = turns + 1
  /\ edge' = s
  /\ UNCHANGED <<branding, page, call, dns, proved, begun>>

-----------------------------------------------------------------------------
Next ==
  \/ \E t \in Tabs :
       \/ Render(t) \/ Lookup(t) \/ Upsert(t) \/ Refuse(t) \/ Answer(t) \/ openConnect(t)
       \/ \E h \in Hosts, found \in {"none", "connect", "auto"} : Detect(t, h, found)
       \/ \E does \in Actions, h \in Hosts \cup {None} : Click(t, does, h)
  \/ \E txt, cname \in BOOLEAN : EditZone(txt, cname)
  \/ \E s \in EdgeStates : EdgeTurns(s)
  \/ JobLoads \/ JobWrites

Spec == Init /\ [][Next]_vars

(* The job runs again and again; a request, once begun, is answered. *)
FairSpec ==
  /\ Spec
  /\ WF_vars(JobLoads) /\ WF_vars(JobWrites)
  /\ \A t \in Tabs : WF_vars(Lookup(t)) /\ WF_vars(Answer(t) \/ Refuse(t))

-----------------------------------------------------------------------------
(* The column, the pages and the calls hold values of their type, and the  *)
(* key of a logo's bytes is kept only beside its URL.                      *)
Statuses == {None, "pending", "error", "verified", "active"}
Numbers == 0..MaxCalls

DomainRecords == [host : Hosts \cup {None}, token : Numbers, status : Statuses, tls : EdgeStates \cup {None}]
Columns == [logo : Numbers, logo_key : BOOLEAN, wide : Numbers, wide_key : BOOLEAN, domain : DomainRecords]

HasKeys(b) == (b.logo_key => b.logo > 0) /\ (b.wide_key => b.wide > 0)

CallRecords ==
  {r \in [pc : {"idle", "loaded", "worked"}, does : Actions \cup {None, "provision"},
          host : Hosts \cup {None}, id : Numbers, seen : Columns, ok : BOOLEAN, raced : BOOLEAN] :
     HasKeys(r.seen)}
Pages == [host : Hosts \cup {None}, verified : BOOLEAN, logo : Numbers, asked : SUBSET Hosts,
          offer : {"detecting", "none", "connect", "auto"}, url : (Hosts \cup {None}) \X Numbers]

TypeOK ==
  /\ branding \in Columns /\ HasKeys(branding)
  /\ call \in [Callers -> CallRecords]
  /\ page \in [Tabs -> Pages]
  /\ dns \in [cname : SUBSET Hosts, txt : SUBSET (Hosts \X Numbers)]
  /\ edge \in EdgeStates
  /\ proved \subseteq Hosts \X Numbers
  /\ begun \in Numbers

(***************************************************************************)
(* "Only resolves domains that are verified/active" (public.py:37-39): a   *)
(* host is served only if the challenge made when it was registered, or    *)
(* the CNAME, was found in its zone since; whichever of the handlers and   *)
(* the job overlapped, and whatever column the last of them wrote back.    *)
(***************************************************************************)
ServedWasProved ==
  Verified(branding.domain) => <<branding.domain.host, branding.domain.token>> \in proved

(***************************************************************************)
(* A host comes and goes only as somebody registers or removes it: "a      *)
(* routine profile save must not drop it" (manage.py:385-386), nor does a  *)
(* logo, a check, a retry or the job, unless the column it writes back had *)
(* been changed since it was loaded.                                       *)
(***************************************************************************)
HostStays ==
  [][branding'.domain.host # branding.domain.host
       => \E c \in Callers :
            /\ call[c].pc # "idle" /\ call'[c].pc = "idle"
            /\ call[c].does \in {"set", "remove"} \/ call[c].raced]_vars

(***************************************************************************)
(* The panel never opens the provider's page of another host than the one  *)
(* it shows: an answer that comes late is dropped (custom-domain-panel.tsx *)
(* :45-64).                                                                *)
(***************************************************************************)
OfferIsForTheHost ==
  \A t \in Tabs : page[t].offer = "connect" => page[t].url[1] = page[t].host

(***************************************************************************)
(* What a call holds: it is the column as it is, unless another call wrote *)
(* since; if verified, it was proved; and the job holds a verified one.    *)
(***************************************************************************)
Holds(c) ==
  LET d == call[c].seen.domain IN
  /\ call[c].raced \/ call[c].seen = branding
  /\ Verified(d) => <<d.host, d.token>> \in proved
  /\ c = Job => call[c].does = "provision" /\ Verified(d)
  /\ c # Job => call[c].does \in Actions /\ call[c].id > 0
  /\ call[c].does = "verify" /\ call[c].pc = "worked" =>
       d.host # None /\ (call[c].ok => <<d.host, d.token>> \in proved)
  /\ call[c].does \in {"set", "configure"} => call[c].host \in Hosts

CallsInv == \A c \in Callers : call[c].pc # "idle" => Holds(c)

(***************************************************************************)
(* The types, what the panel offers and what the calls hold.               *)
(***************************************************************************)
Inv == TypeOK /\ OfferIsForTheHost /\ CallsInv

(***************************************************************************)
(* "so the UI can be honest and the poller can flip it to "active" later"  *)
(* (manage.py:1339-1341): a host that stays verified while the edge serves *)
(* it becomes active, also after the edge was blocked, and although the    *)
(* job and the handlers overwrite each other.                              *)
(***************************************************************************)
VerifiedGoesLive ==
  ~<>[](edge = "active" /\ branding.domain.status = "verified")

(***************************************************************************)
(* "Same preservation for the directly-uploaded wide logo" in a routine    *)
(* profile save (manage.py:371-380): it does not hold, for the form never  *)
(* sends the wide logo's URL.                                              *)
(***************************************************************************)
WideLogoStays ==
  [][branding.wide_key /\ ~branding'.wide_key
       => \E c \in Callers : call[c].raced /\ call'[c].pc = "idle"]_vars
=============================================================================
