---------------------- MODULE TrustCenterPagesProofs ----------------------
(***************************************************************************)
(* Proofs about the console, the Requests page and the public page: what a *)
(* key opens and whom it reaches, what of a section a save keeps, and what *)
(* evidence a standard is linked to.                                       *)
(***************************************************************************)
EXTENDS TrustCenterPages, SequenceTheorems, TLAPS

-----------------------------------------------------------------------------
(* Collections put behind one another. *)
LEMMA Behind ==
  ASSUME NEW f, NEW g, NEW x
  PROVE  /\ x \in DOMAIN (f ++ g) <=> x \in DOMAIN f \/ x \in DOMAIN g
         /\ x \in DOMAIN f => (f ++ g)[x] = f[x]
         /\ x \in DOMAIN g /\ x \notin DOMAIN f => (f ++ g)[x] = g[x]
  BY DEF ++

LEMMA OneMore ==
  ASSUME NEW x, NEW value, NEW f
  PROVE  /\ DOMAIN (Item(x, value) ++ f) = DOMAIN f \cup {x}
         /\ (Item(x, value) ++ f)[x] = value
         /\ \A y \in DOMAIN f \ {x} : (Item(x, value) ++ f)[y] = f[y]
<1>1. DOMAIN (Item(x, value) ++ f) = DOMAIN f \cup {x}
  BY Zenon DEF Item, ++
<1>2. (Item(x, value) ++ f)[x] = value
  BY Zenon DEF Item, ++
<1>3. \A y \in DOMAIN f \ {x} : (Item(x, value) ++ f)[y] = f[y]
  BY Zenon DEF Item, ++
<1> QED
  BY <1>1, <1>2, <1>3

(* Rows put behind rows are rows, and the first keep their place. *)
LEMMA RowsBehind ==
  ASSUME NEW f, NEW g, IsRows(f), IsRows(g)
  PROVE  /\ IsRows(f ++ g) /\ DOMAIN (f ++ g) = DOMAIN f \cup DOMAIN g
         /\ \A n \in DOMAIN f : (f ++ g)[n] = f[n]
<1>1. DOMAIN (f ++ g) = DOMAIN f \cup DOMAIN g
  BY Behind
<1>2. \A n \in DOMAIN f : (f ++ g)[n] = f[n]
  BY Behind
<1>3. ASSUME NEW n \in DOMAIN (f ++ g)
      PROVE  n \in Names /\ (f ++ g)[n] \in Values
  <2>1. CASE n \in DOMAIN f
    BY <2>1, Behind DEF IsRows
  <2>2. CASE n \notin DOMAIN f
    <3>1. n \in DOMAIN g /\ (f ++ g)[n] = g[n]
      BY <1>1, <1>3, <2>2, Behind
    <3> QED
      BY <3>1 DEF IsRows
  <2> QED
    BY <2>1, <2>2
<1> QED
  BY <1>1, <1>2, <1>3, Zenon DEF IsRows

LEMMA Methods ==
  ASSUME NEW verb, NEW as, NEW methods, NEW m
  PROVE  /\ m \in DOMAIN By(verb, as, methods) <=> m \in methods
         /\ m \in methods => By(verb, as, methods)[m].verb = verb
  BY DEF By

(* The client has a method as the first group has it that names it. *)
LEMMA FirstGroup ==
  ASSUME NEW m
  PROVE  /\ m \in DOMAIN ArtifactCalls /\ m \notin DOMAIN VendorCalls =>
              Client[m] = ArtifactCalls[m]
         /\ m \in DOMAIN SectionCalls /\ m \notin DOMAIN VendorCalls
            /\ m \notin DOMAIN ArtifactCalls => Client[m] = SectionCalls[m]
         /\ m \in DOMAIN PublicCalls /\ m \notin DOMAIN VendorCalls
            /\ m \notin DOMAIN ArtifactCalls /\ m \notin DOMAIN SectionCalls
            /\ m \notin DOMAIN AudienceCalls /\ m \notin DOMAIN CustomDomainCalls
            /\ m \notin DOMAIN KeyCalls => Client[m] = PublicCalls[m]
<1> DEFINE V2 == VendorCalls ++ ArtifactCalls
           V3 == V2 ++ SectionCalls
           A2 == CustomDomainCalls ++ KeyCalls
           A3 == A2 ++ PublicCalls
           C2 == ContentCalls ++ AccessCalls
<1>1. /\ m \in DOMAIN V2 <=> m \in DOMAIN VendorCalls \/ m \in DOMAIN ArtifactCalls
      /\ m \in DOMAIN ArtifactCalls /\ m \notin DOMAIN VendorCalls => V2[m] = ArtifactCalls[m]
  BY Behind
<1>2. /\ m \in DOMAIN A2 <=> m \in DOMAIN CustomDomainCalls \/ m \in DOMAIN KeyCalls
  BY Behind
<1> HIDE DEF V2, A2
<1>3. /\ m \in DOMAIN V3 <=> m \in DOMAIN V2 \/ m \in DOMAIN SectionCalls
      /\ m \in DOMAIN V2 => V3[m] = V2[m]
      /\ m \in DOMAIN SectionCalls /\ m \notin DOMAIN V2 => V3[m] = SectionCalls[m]
  BY Behind
<1>4. m \in DOMAIN PublicCalls => m \in DOMAIN A3 /\ (m \notin DOMAIN A2 => A3[m] = PublicCalls[m])
  BY Behind
<1>5. ContentCalls = V3 ++ AudienceCalls /\ AccessCalls = A3 ++ ReaderCalls
  BY DEF ContentCalls, AccessCalls, V2, A2
<1> HIDE DEF V3, A3
<1>6. /\ m \in DOMAIN ContentCalls <=> m \in DOMAIN V3 \/ m \in DOMAIN AudienceCalls
      /\ m \in DOMAIN V3 => ContentCalls[m] = V3[m]
  BY <1>5, Behind
<1>7. m \in DOMAIN A3 => m \in DOMAIN AccessCalls /\ AccessCalls[m] = A3[m]
  BY <1>5, Behind
<1>8. /\ m \in DOMAIN ContentCalls => m \in DOMAIN C2 /\ C2[m] = ContentCalls[m]
      /\ m \in DOMAIN AccessCalls /\ m \notin DOMAIN ContentCalls =>
           m \in DOMAIN C2 /\ C2[m] = AccessCalls[m]
  BY Behind
<1>9. Client = C2 ++ DocumentCalls
  BY DEF Client
<1> HIDE DEF C2
<1>10. m \in DOMAIN C2 => Client[m] = C2[m]
  BY <1>9, Behind
<1> QED
  BY <1>1, <1>2, <1>3, <1>4, <1>6, <1>7, <1>8, <1>10

LEMMA ArtifactVerbs ==
  /\ Client["createArtifact"].verb = "POST" /\ Client["uploadArtifactContent"].verb = "POST"
  /\ Client["updateArtifact"].verb = "PATCH" /\ Client["deleteArtifact"].verb = "DELETE"
<1>1. ASSUME NEW m \in {"createArtifact", "uploadArtifactContent", "updateArtifact",
                        "deleteArtifact"}
      PROVE  m \in DOMAIN ArtifactCalls /\ m \notin DOMAIN VendorCalls
  <2>1. m \in DOMAIN ArtifactCalls
    BY Behind, Methods DEF ArtifactCalls
  <2>2. m \notin DOMAIN VendorCalls
    BY Behind, Methods DEF VendorCalls
  <2> QED
    BY <2>1, <2>2
<1>2. /\ ArtifactCalls["createArtifact"].verb = "POST"
      /\ ArtifactCalls["uploadArtifactContent"].verb = "POST"
      /\ ArtifactCalls["updateArtifact"].verb = "PATCH"
      /\ ArtifactCalls["deleteArtifact"].verb = "DELETE"
  BY Behind, Methods DEF ArtifactCalls
<1> QED
  BY <1>1, <1>2, FirstGroup

LEMMA SectionVerbs ==
  ASSUME NEW s \in AllSections
  PROVE  Client[Getter[s]].verb = "GET" /\ Client[Replacer[s]].verb = "PUT"
<1> DEFINE Gets == {"getOwnerAttestations", "getOwnerSubprocessors", "getOwnerBadges",
              "getOwnerControls", "getOwnerDataTypes", "getOwnerFaqs", "getOwnerUpdates"}
           Puts == {"replaceAttestations", "replaceSubprocessors", "replaceBadges",
              "replaceControls", "replaceDataTypes", "replaceFaqs", "replaceUpdates"}
<1>1. Getter[s] \in Gets /\ Replacer[s] \in Puts
  BY DEF AllSections, Getter, Replacer
<1>2. ASSUME NEW m \in Gets \cup Puts
      PROVE  /\ m \in DOMAIN SectionCalls
             /\ m \notin DOMAIN VendorCalls /\ m \notin DOMAIN ArtifactCalls
             /\ SectionCalls[m].verb = IF m \in Gets THEN "GET" ELSE "PUT"
  <2>1. m \notin DOMAIN VendorCalls
    BY Behind, Methods DEF VendorCalls
  <2>2. m \notin DOMAIN ArtifactCalls
    BY Behind, Methods DEF ArtifactCalls
  <2>3. /\ m \in DOMAIN SectionCalls
        /\ SectionCalls[m].verb = IF m \in Gets THEN "GET" ELSE "PUT"
    BY Behind, Methods DEF SectionCalls
  <2> QED
    BY <2>1, <2>2, <2>3
<1>3. Getter[s] \in Gets /\ Replacer[s] \notin Gets
  BY <1>1
<1> HIDE DEF Gets, Puts
<1> QED
  BY <1>1, <1>2, <1>3, FirstGroup

LEMMA RequestVerb == Client["requestAccess"].verb = "POST"
<1> DEFINE m == "requestAccess"
<1>1. m \in DOMAIN PublicCalls /\ PublicCalls[m].verb = "POST"
  BY Behind, Methods DEF PublicCalls
<1>2. m \notin DOMAIN VendorCalls /\ m \notin DOMAIN ArtifactCalls
  BY Behind, Methods DEF VendorCalls, ArtifactCalls
<1>3. m \notin DOMAIN SectionCalls /\ m \notin DOMAIN AudienceCalls
  BY Behind, Methods DEF SectionCalls, AudienceCalls
<1>4. m \notin DOMAIN CustomDomainCalls /\ m \notin DOMAIN KeyCalls
  BY Behind, Methods DEF CustomDomainCalls, KeyCalls
<1> QED
  BY <1>1, <1>2, <1>3, <1>4, FirstGroup

(* What a call leaves of a collection, by its verb. *)
LEMMA AfterVerb ==
  ASSUME NEW m, NEW old, NEW given, NEW outcome
  PROVE  /\ Client[m].verb = "GET" => After(m, old, given, outcome) = old
         /\ Client[m].verb = "PUT" =>
              After(m, old, given, outcome) = IF Done(outcome) THEN given ELSE old
         /\ Client[m].verb \in {"POST", "PATCH"} =>
              After(m, old, given, outcome) = IF Done(outcome) THEN given ++ old ELSE old
         /\ Client[m].verb = "DELETE" =>
              After(m, old, given, outcome) =
                IF Done(outcome) THEN [x \in DOMAIN old \ DOMAIN given |-> old[x]] ELSE old
  BY DEF After

-----------------------------------------------------------------------------
(* Pages. *)
LEMMA NotSections ==
  /\ "none" \notin Sections /\ "error" \notin Sections /\ "requests" \notin Sections
  /\ Sections \subseteq AllSections
  BY SectionsAssumption DEF AllSections

LEMMA NoWork ==
  ASSUME NEW p, p.job = Idle
  PROVE  TodoHolds(p.job) /\ GivenHolds(p) /\ EvidenceHolds(p) /\ p.job.do = "none"
         /\ DOMAIN p.job = DOMAIN Idle /\ p.job.key \in Nat
<1>1. p.job.do = "none" /\ p.job.todo = <<>>
         /\ DOMAIN p.job = DOMAIN Idle /\ p.job.key \in Nat
  BY DEF Idle
<1>2. TodoHolds(p.job)
  BY <1>1 DEF TodoHolds
<1>3. GivenHolds(p)
  BY <1>1 DEF GivenHolds, Merges
<1>4. EvidenceHolds(p)
  BY <1>1 DEF EvidenceHolds
<1> QED
  BY <1>1, <1>2, <1>3, <1>4

(* A page without a form, on which no action goes on. *)
LEMMA PlainPage ==
  ASSUME NEW p, NEW made, p.at \in {"none", "error", "requests"}, p.options \subseteq Ids,
         ~p.dirty, p.next = "none", p.job = Idle, DOMAIN p = DOMAIN Nowhere
  PROVE  PageHolds(p, made) /\ EvidenceHolds(p)
<1>1. TodoHolds(p.job) /\ GivenHolds(p) /\ EvidenceHolds(p) /\ p.job.do = "none"
         /\ DOMAIN p.job = DOMAIN Idle /\ p.job.key \in Nat
  BY NoWork
<1>2. p.at \in Place(p.job.do) /\ p.at \notin Sections
  BY <1>1, NotSections DEF Place
<1> QED
  BY <1>1, <1>2 DEF PageHolds

LEMMA EmptyPages ==
  ASSUME NEW made
  PROVE  /\ PageHolds(Nowhere, made) /\ EvidenceHolds(Nowhere)
         /\ PageHolds(Broken, made) /\ EvidenceHolds(Broken)
         /\ DataHolds => \A requests : PageHolds(RequestsPage(requests), made)
                                       /\ EvidenceHolds(RequestsPage(requests))
<1>1. PageHolds(Nowhere, made) /\ EvidenceHolds(Nowhere)
  <2>1. Nowhere.at \in {"none", "error", "requests"} /\ Nowhere.options \subseteq Ids /\ ~Nowhere.dirty
        /\ Nowhere.next = "none" /\ Nowhere.job = Idle
    BY DEF Nowhere
  <2> QED
    BY <2>1, PlainPage
<1>2. PageHolds(Broken, made) /\ EvidenceHolds(Broken)
  <2>1. Broken.at \in {"none", "error", "requests"} /\ Broken.options \subseteq Ids /\ ~Broken.dirty
        /\ Broken.next = "none" /\ Broken.job = Idle /\ DOMAIN Broken = DOMAIN Nowhere
    BY DEF Broken, Nowhere
  <2> QED
    BY <2>1, PlainPage
<1>3. ASSUME DataHolds, NEW requests
      PROVE  PageHolds(RequestsPage(requests), made) /\ EvidenceHolds(RequestsPage(requests))
  <2> DEFINE q == RequestsPage(requests)
  <2>1. DOMAIN artifacts \subseteq Ids
    BY <1>3 DEF DataHolds
  <2>2. q.at \in {"none", "error", "requests"} /\ q.options \subseteq Ids /\ ~q.dirty
        /\ q.next = "none" /\ q.job = Idle /\ DOMAIN q = DOMAIN Nowhere
    BY <2>1 DEF RequestsPage, Nowhere
  <2> QED
    BY <2>2, PlainPage
<1> QED
  BY <1>1, <1>2, <1>3

(* What a form sends is made of rows, and an answered question of answers. *)
LEMMA SubmittedRows ==
  ASSUME NEW s \in Sections, NEW rows, IsRows(rows)
  PROVE  /\ IsRows(Submitted(s, rows))
         /\ s = "faqs" => \A n \in DOMAIN Submitted(s, rows) : Submitted(s, rows)[n] = "more"
         /\ s # "faqs" => DOMAIN Submitted(s, rows) = DOMAIN rows
         /\ s = "faqs" => \A n \in DOMAIN rows :
              rows[n] = "more" => n \in DOMAIN Submitted(s, rows)
         /\ s \notin {"controls", "claims", "faqs"} => Submitted(s, rows) = rows
<1>1. s \in AllSections
  BY NotSections
<1> QED
  BY <1>1 DEF AllSections, Submitted, saveControls, saveFaqs, saveUpdates, saveDataTypes,
     saveBadges, saveAttestations, saveSubprocessors, parseClaimValue, valueToString, IsRows, Values

(* Rows are rows whether or not what they link to is there. *)
LEMMA EvidencedRows ==
  ASSUME NEW rows, IsRows(rows)
  PROVE  /\ IsRows(Evidenced(rows)) /\ DOMAIN Evidenced(rows) = DOMAIN rows
         /\ \A n \in DOMAIN rows :
              Evidenced(rows)[n] = rows[n] \/ rows[n] \in Ids \ DOMAIN artifacts
  BY DEF Evidenced, IsRows, Values

(* What a page shows of a section's list. *)
ShownOf(s, rows) == IF s = "badges" THEN Evidenced(rows) ELSE rows

(* A page rendered with a section's list. *)
LEMMA LoadedPage ==
  ASSUME DataHolds, NEW s \in Sections, NEW rows, IsRows(rows),
         s = "faqs" => \A n \in DOMAIN rows : rows[n] = "more",
         NEW made
  PROVE  /\ PageHolds(Loaded(s, rows), made) /\ EvidenceHolds(Loaded(s, rows))
         /\ Loaded(s, rows).job = Idle /\ Loaded(s, rows).at = s
<1> DEFINE q == Loaded(s, rows)
           shown == ShownOf(s, rows)
<1>1. s \in AllSections /\ s # "none"
  BY NotSections
<1>2. DOMAIN artifacts \subseteq Ids
  BY DEF DataHolds
<1>2a. IsRows(shown) /\ (s = "faqs" => \A n \in DOMAIN shown : shown[n] = "more")
  BY EvidencedRows DEF ShownOf
<1>3. /\ q.at = s /\ q.shown = shown /\ q.touched = {} /\ ~q.dirty /\ q.next = "none"
      /\ q.job = Idle
  BY <1>1 DEF ShownOf, Loaded, ControlsPage, FaqPage, UpdatesPage, DataCollectedPage,
     SubprocessorsPage, CompliancePage, AttestationsPage, Rendered, Nowhere, AllSections
<1>3a. /\ DOMAIN q = DOMAIN Nowhere
       /\ q.options \subseteq Ids
       /\ s # "claims" => q.draft = shown
       /\ s = "claims" => q.draft = [n \in DOMAIN shown |-> initialRow(n, shown[n])]
  BY <1>1, <1>2 DEF ShownOf, Loaded, ControlsPage, FaqPage, UpdatesPage, DataCollectedPage,
     SubprocessorsPage, CompliancePage, AttestationsPage, Rendered, Nowhere, AllSections
<1> HIDE DEF q, shown
<1>4. IsRows(q.draft) /\ \A n \in DOMAIN shown : n \in DOMAIN q.draft
  BY <1>2a, <1>3a DEF IsRows, Values, initialRow
<1>5. \A n \in DOMAIN shown : s # "claims" => q.draft[n] = shown[n]
  BY <1>3a
<1>7. TodoHolds(q.job) /\ GivenHolds(q) /\ EvidenceHolds(q) /\ q.job.do = "none"
      /\ DOMAIN q.job = DOMAIN Idle /\ q.job.key \in Nat
  BY <1>3, NoWork
<1>8. FormHolds(q)
  BY <1>2a, <1>4, <1>5, <1>3 DEF FormHolds
<1>9. q.at \in Place(q.job.do)
  BY <1>3, <1>7 DEF Place
<1>10. PageHolds(q, made)
  BY <1>3, <1>3a, <1>7, <1>8, <1>9 DEF PageHolds
<1> QED
  BY <1>3, <1>7, <1>10 DEF q

-----------------------------------------------------------------------------
(* The calls an action has left: the next one says which action it is, and *)
(* what it leaves.                                                         *)
LEMMA FilesGoOn ==
  ASSUME NEW todo, FilesLeft(todo), todo # <<>>
  PROVE  /\ Head(todo) \in {"create", "upload", "replace"}
         /\ FilesLeft(Tail(todo))
         /\ Head(todo) = "replace" => Tail(todo) = <<>>
         /\ Head(todo) \in {"create", "upload"} => Tail(todo) # <<>>
         /\ Head(todo) = "create" => Head(Tail(todo)) = "upload"
         /\ Head(todo) = "upload" => Head(Tail(todo)) # "upload"
<1>0. PICK rest : rest = Tail(todo)
  OBVIOUS
<1>1. todo \in Seq({"create", "upload", "replace"}) /\ Len(todo) \in Nat \ {0}
  BY DEF FilesLeft
<1>2. /\ rest \in Seq({"create", "upload", "replace"}) /\ Len(rest) = Len(todo) - 1
      /\ Head(todo) = todo[1]
      /\ \A i \in 1 .. Len(rest) : rest[i] = todo[i + 1]
  BY <1>0, <1>1
<1>3. ASSUME NEW i \in 1 .. Len(rest)
      PROVE  /\ rest[i] = "replace" <=> i = Len(rest)
             /\ i < Len(rest) => (rest[i] = "create" <=> rest[i + 1] = "upload")
  <2>1. i + 1 \in 1 .. Len(todo) /\ (i + 1 = Len(todo) <=> i = Len(rest))
        /\ (i + 1 < Len(todo) <=> i < Len(rest))
    BY <1>1, <1>2
  <2>2. /\ todo[i + 1] = "replace" <=> i + 1 = Len(todo)
        /\ i + 1 < Len(todo) => (todo[i + 1] = "create" <=> todo[(i + 1) + 1] = "upload")
    BY <2>1 DEF FilesLeft
  <2>3. i < Len(rest) => rest[i + 1] = todo[(i + 1) + 1]
    BY <1>1, <1>2
  <2> QED
    BY <1>2, <2>1, <2>2, <2>3
<1>4. FilesLeft(rest)
  BY <1>2, <1>3 DEF FilesLeft
<1>5. /\ todo[1] \in {"create", "upload", "replace"}
      /\ todo[1] = "replace" <=> 1 = Len(todo)
      /\ 1 < Len(todo) => (todo[1] = "create" <=> todo[2] = "upload")
  <2>1. 1 \in 1 .. Len(todo) /\ 1 + 1 = 2
    BY <1>1
  <2>2. todo[1] \in {"create", "upload", "replace"}
    BY <1>1, <2>1
  <2>3. /\ todo[1] = "replace" <=> 1 = Len(todo)
        /\ 1 < Len(todo) => (todo[1] = "create" <=> todo[1 + 1] = "upload")
    BY <2>1 DEF FilesLeft
  <2> QED
    BY <2>1, <2>2, <2>3
<1>6. CASE Len(todo) = 1
  <2>1. Len(rest) = 0
    BY <1>1, <1>2, <1>6
  <2>2. rest = <<>>
    BY <1>2, <2>1, EmptySeq
  <2> QED
    BY <1>0, <1>2, <1>4, <1>5, <1>6, <2>2
<1>7. CASE Len(todo) # 1
  <2>1. Len(rest) \in Nat \ {0} /\ 1 < Len(todo)
    BY <1>1, <1>2, <1>7
  <2>2. rest # <<>> /\ Head(rest) = rest[1]
    BY <1>2, <2>1
  <2>3. rest[1] = todo[2]
    BY <1>2, <2>1
  <2> QED
    BY <1>0, <1>2, <1>4, <1>5, <1>7, <2>1, <2>2, <2>3
<1> QED
  BY <1>6, <1>7

LEMMA TodoGoesOn ==
  ASSUME NEW j, TodoHolds(j), j.do # "none"
  PROVE  /\ j.todo # <<>>
         /\ Head(j.todo) = "read" => j.do \in Merges /\ Tail(j.todo) = <<"replace">>
         /\ Head(j.todo) = "replace" =>
              /\ j.do \in {"save", "drop"} \cup Merges /\ Tail(j.todo) = <<>>
              /\ j.do \in Merges => j.todo = <<"replace">>
         /\ Head(j.todo) \in {"create", "upload"} =>
              \/ j.do = "drop" /\ FilesLeft(Tail(j.todo)) /\ Tail(j.todo) # <<>>
                 /\ (Head(j.todo) = "create" <=> Head(Tail(j.todo)) = "upload")
                 /\ (Head(j.todo) = "upload" => j.id \in Ids)
              \/ j.do = "artifact"
                 /\ Tail(j.todo) \in Seq({"create", "upload", "update", "delete"})
         /\ Head(j.todo) \in {"update", "delete"} =>
              j.do = "artifact" /\ Tail(j.todo) \in Seq({"create", "upload", "update", "delete"})
         /\ Head(j.todo) = "contact" =>
              j.do \in {"approve", "deny"} /\ j.id # "nobody" /\ Tail(j.todo) = <<j.do, "mail">>
         /\ Head(j.todo) \in {"approve", "deny"} =>
              /\ j.do = Head(j.todo)
              /\ \/ Tail(j.todo) = <<"mail">> /\ j.id # "nobody"
                 \/ Tail(j.todo) = <<>> /\ j.id = "nobody"
         /\ Head(j.todo) = "revoke" => j.do = "revoke" /\ Tail(j.todo) = <<>>
         /\ Head(j.todo) = "mail" =>
              j.do \in {"approve", "deny"} /\ Tail(j.todo) = <<>> /\ j.todo = <<"mail">>
         /\ Head(j.todo) # "mail" => j.todo # <<"mail">>
<1>0. Head(j.todo) # "mail" => j.todo # <<"mail">>
  OBVIOUS
<1>1. CASE j.do = "save" /\ j.todo = <<"replace">>
  BY <1>1 DEF Merges
<1>2. CASE j.do = "drop" /\ FilesLeft(j.todo) /\ j.todo # <<>>
           /\ (Head(j.todo) = "upload" => j.id \in Ids)
  BY <1>2, FilesGoOn DEF Merges
<1>3. CASE j.do \in Merges /\ j.todo \in {<<"read", "replace">>, <<"replace">>}
  <2>1. CASE j.todo = <<"read", "replace">>
    <3>1. j.todo # <<>> /\ Head(j.todo) = "read" /\ Tail(j.todo) = <<"replace">>
      BY <2>1
    <3> QED
      BY <1>3, <3>1
  <2>2. CASE j.todo = <<"replace">>
    <3>1. j.todo # <<>> /\ Head(j.todo) = "replace" /\ Tail(j.todo) = <<>>
      BY <2>2
    <3> QED
      BY <1>3, <2>2, <3>1
  <2> QED
    BY <1>3, <2>1, <2>2
<1>4. CASE j.do = "artifact" /\ j.todo \in Seq({"create", "upload", "update", "delete"}) \ {<<>>}
  <2>1. j.todo # <<>> /\ Tail(j.todo) \in Seq({"create", "upload", "update", "delete"})
        /\ Head(j.todo) \in {"create", "upload", "update", "delete"}
    BY <1>4
  <2> QED
    BY <1>4, <2>1
<1>5. CASE j.do \in {"approve", "deny"}
           /\ j.todo \in {<<"contact", j.do, "mail">>, <<j.do, "mail">>, <<"mail">>}
           /\ j.id # "nobody"
  <2>1. CASE j.todo = <<"contact", j.do, "mail">>
    BY <1>5, <2>1 DEF Merges
  <2>2. CASE j.todo = <<j.do, "mail">>
    BY <1>5, <2>2 DEF Merges
  <2>3. CASE j.todo = <<"mail">>
    BY <1>5, <2>3 DEF Merges
  <2> QED
    BY <1>5, <2>1, <2>2, <2>3
<1>6. CASE j.do = "revoke" /\ j.todo = <<"revoke">>
  BY <1>6 DEF Merges
<1>7. CASE j.do \in {"approve", "deny"} /\ j.todo = <<j.do>> /\ j.id = "nobody"
  <2>1. j.todo # <<>> /\ Head(j.todo) = j.do /\ Tail(j.todo) = <<>>
    BY <1>7
  <2> QED
    BY <1>7, <2>1 DEF Merges
<1> QED
  BY <1>0, <1>1, <1>2, <1>3, <1>4, <1>5, <1>6, <1>7 DEF TodoHolds

-----------------------------------------------------------------------------
(* A step that renders or changes one page leaves the others as they were. *)
LEMMA EvidenceKept ==
  ASSUME NEW p, EvidenceHolds(p), \A id : Evident(id) => Evident(id)'
  PROVE  EvidenceHolds(p)'
  BY DEF EvidenceHolds

LEMMA MoreMade ==
  ASSUME NEW p, NEW made, NEW more, PageHolds(p, made), made \subseteq more
  PROVE  PageHolds(p, more)
  BY DEF PageHolds

Becomes(t, q) ==
  DOMAIN page' = Tabs /\ page'[t] = q /\ \A x \in Tabs \ {t} : page'[x] = page[x]

LEMMA PagesKept ==
  ASSUME PagesInv, NEW t \in Tabs, NEW q,
         Becomes(t, q), PageHolds(q, Made), EvidenceHolds(q)',
         \A id : Evident(id) => Evident(id)', Made' = Made
  PROVE  /\ DOMAIN page' = Tabs
         /\ \A x \in Tabs : PageHolds(page[x], Made)' /\ EvidenceHolds(page[x])'
<1>1. DOMAIN page' = Tabs /\ page'[t] = q /\ \A x \in Tabs \ {t} : page'[x] = page[x]
  BY DEF Becomes
<1>2. ASSUME NEW x \in Tabs
      PROVE  PageHolds(page[x], Made)' /\ EvidenceHolds(page[x])'
  <2>1. PICK p : p = page'[x]
    OBVIOUS
  <2>2. PageHolds(p, Made) /\ EvidenceHolds(p)'
    <3>1. CASE x = t
      BY <1>1, <2>1, <3>1
    <3>2. CASE x # t
      <4>1. p = page[x]
        BY <1>1, <2>1, <3>2
      <4>2. PageHolds(p, Made) /\ EvidenceHolds(p)
        BY <4>1 DEF PagesInv
      <4> QED
        BY <4>2, EvidenceKept
    <3> QED
      BY <3>1, <3>2
  <2>3. PageHolds(page[x], Made)'
    BY <2>1, <2>2
  <2>4. EvidenceHolds(page[x])'
    BY <2>1, <2>2 DEF EvidenceHolds, Evident
  <2> QED
    BY <2>3, <2>4
<1> QED
  BY <1>1, <1>2

LEMMA SitesKept ==
  ASSUME PagesInv, UNCHANGED site
  PROVE  DOMAIN site' = Visitors /\ \A v \in Visitors : SiteHolds(site[v])'
  BY DEF PagesInv, SiteHolds, Sites, Callings

(* The owner's steps, the first calls of a decision, and what reviewers do *)
(* on their page: the tables of requests and keys stay.                    *)
LEMMA PageStep ==
  ASSUME PagesInv, NEW t \in Tabs, NEW q,
         Becomes(t, q), PageHolds(q, Made), EvidenceHolds(q)',
         \A id : Evident(id) => Evident(id)', DataHolds', UNCHANGED deskVars,
         page[t].job.todo # <<"mail">>
  PROVE  PagesInv'
<1>1. Made' = Made /\ UNCHANGED <<asked, keys, minted, site, held, lost>>
  BY DEF deskVars, Made
<1>2. DOMAIN page' = Tabs /\ \A x \in Tabs : PageHolds(page[x], Made)' /\ EvidenceHolds(page[x])'
  BY <1>1, PagesKept
<1>3. DOMAIN site' = Visitors /\ \A v \in Visitors : SiteHolds(site[v])'
  BY <1>1, SitesKept
<1>4. DeskHolds'
  BY <1>1 DEF PagesInv, DeskHolds, GrantStaysNarrow, Made
<1>5. ASSUME NEW no, OnItsWay(no)  PROVE OnItsWay(no)'
  <2>1. \A x \in Tabs : x # t => page'[x] = page[x]
    BY DEF Becomes
  <2> QED
    BY <1>1, <1>5, <2>1 DEF OnItsWay, Called
<1>6. KeyReachesRequester'
  BY <1>1, <1>5 DEF PagesInv, KeyReachesRequester, Accounted
<1> QED
  BY <1>2, <1>3, <1>4, <1>6 DEF PagesInv

(* ... and so does the network. *)
LEMMA QuietStep ==
  ASSUME PagesInv, NEW t \in Tabs, NEW q,
         Becomes(t, q), PageHolds(q, Made), EvidenceHolds(q),
         UNCHANGED <<lists, network, deskVars>>, Counted \/ UNCHANGED acts,
         page[t].job.todo # <<"mail">>
  PROVE  PagesInv'
<1>1. UNCHANGED <<lists, artifacts, unused, nda>>
  BY DEF network
<1>2. \A id : Evident(id) => Evident(id)'
  BY <1>1 DEF Evident
<1>3. EvidenceHolds(q)'
  BY <1>2, EvidenceKept
<1>4. DataHolds'
  BY <1>1, SdkAssumption DEF PagesInv, DataHolds, Counted
<1> QED
  BY <1>2, <1>3, <1>4, PageStep

LEMMA NotWaiting ==
  ASSUME PagesInv, NEW t \in Tabs, ~Waiting(t)
  PROVE  page[t].job.do = "none" /\ page[t].job.todo = <<>> /\ page[t].job.todo # <<"mail">>
<1>1. TodoHolds(page[t].job) /\ page[t].job.do = "none"
  BY DEF PagesInv, PageHolds, Waiting
<1>2. page[t].job.todo = <<>>
  BY <1>1 DEF TodoHolds, Merges
<1> QED
  BY <1>1, <1>2

LEMMA OpenHolds ==
  ASSUME PagesInv, NEW t \in Tabs, NEW s \in Sections, Open(t, s), UNCHANGED deskVars,
         page[t].job.do = "none"
  PROVE  PagesInv'
<1>1. PICK q : q = Loaded(s, lists[s])
  OBVIOUS
<1>2. DataHolds /\ IsRows(lists[s]) /\ (s = "faqs" => \A n \in DOMAIN lists[s] : lists[s][n] = "more")
  BY DEF PagesInv, DataHolds
<1>3. PageHolds(q, Made) /\ EvidenceHolds(q)
  BY <1>1, <1>2, LoadedPage
<1>4. Becomes(t, q)
  BY <1>1 DEF Open, Becomes, PagesInv
<1>5. page[t].job.todo # <<"mail">>
  BY NotWaiting DEF Waiting
<1>6. UNCHANGED <<lists, network, deskVars>> /\ Counted
  BY DEF Open
<1> QED
  BY <1>3, <1>4, <1>5, <1>6, QuietStep

(* The page with another answer to the form guard's question. *)
LEMMA NextHolds ==
  ASSUME PagesInv, NEW t \in Tabs, NEW next \in Sections \cup {"none"},
         page' = [page EXCEPT ![t].next = next],
         next # "none" => page[t].at \in Sections,
         page[t].job.do = "none", UNCHANGED <<lists, network, deskVars, acts>>
  PROVE  PagesInv'
<1>1. PICK q : q = page'[t]
  OBVIOUS
<1>2. Becomes(t, q)
  BY <1>1 DEF PagesInv, Becomes
<1>3. PICK p : p = page[t]
  OBVIOUS
<1>4. PageHolds(p, Made) /\ EvidenceHolds(p) /\ p.job.do = "none"
  BY <1>3 DEF PagesInv
<1>5. q = [p EXCEPT !.next = next]
  BY <1>1, <1>3 DEF PagesInv
<1>6. /\ q.at = p.at /\ q.shown = p.shown /\ q.draft = p.draft /\ q.touched = p.touched
      /\ q.options = p.options /\ q.dirty = p.dirty /\ q.job = p.job
      /\ q.unguarded = p.unguarded /\ q.next = next /\ DOMAIN q = DOMAIN Nowhere
  BY <1>4, <1>5 DEF PageHolds, Nowhere
<1>7. PageHolds(q, Made)
  BY <1>3, <1>4, <1>6 DEF PageHolds, FormHolds, GivenHolds
<1>8. EvidenceHolds(q)
  BY <1>4, <1>6 DEF EvidenceHolds
<1>9. page[t].job.todo # <<"mail">>
  BY NotWaiting DEF Waiting
<1> QED
  BY <1>2, <1>7, <1>8, <1>9, QuietStep

LEMMA MoveAbout ==
  ASSUME PagesInv, NEW t \in Tabs, UNCHANGED deskVars
  PROVE  /\ \A s \in Sections : Follow(t, s) => PagesInv'
         /\ StayOnPage(t) => PagesInv'
         /\ LeaveAnyway(t) => PagesInv'
<1>1. ASSUME NEW s \in Sections, Follow(t, s)  PROVE PagesInv'
  <2>1. page[t].job.do = "none"
    BY <1>1 DEF Follow, Waiting
  <2>2. CASE page[t].dirty
    <3>1. page[t].at \in Sections
      BY <2>2 DEF PagesInv, PageHolds
    <3> QED
      BY <1>1, <2>1, <2>2, <3>1, NextHolds DEF Follow
  <2>3. CASE ~page[t].dirty
    BY <1>1, <2>1, <2>3, OpenHolds DEF Follow
  <2> QED
    BY <2>2, <2>3
<1>2. page[t].next # "none" =>
        page[t].job.do = "none" /\ page[t].next \in Sections
  BY DEF PagesInv, PageHolds
<1>3. ASSUME StayOnPage(t)  PROVE PagesInv'
  BY <1>2, <1>3, NextHolds DEF StayOnPage
<1>4. ASSUME LeaveAnyway(t)  PROVE PagesInv'
  <2>1. PICK s \in Sections : s = page[t].next
    BY <1>2, <1>4 DEF LeaveAnyway
  <2> QED
    BY <1>2, <1>4, <2>1, OpenHolds DEF LeaveAnyway
<1> QED
  BY <1>1, <1>3, <1>4

-----------------------------------------------------------------------------
(* Edits: a row is touched, and the others are shown as they were.         *)
LEMMA EditHolds ==
  ASSUME PagesInv, NEW t \in Tabs, NEW n, NEW rows, Editable(t), IsRows(rows),
         \A m : m # n /\ m \in DOMAIN page[t].draft =>
                  m \in DOMAIN rows /\ rows[m] = page[t].draft[m],
         page' = Edited(t, n, rows), UNCHANGED <<lists, network, acts, deskVars>>
  PROVE  PagesInv'
<1>1. PICK p : p = page[t]
  OBVIOUS
<1>2. PICK q : q = page'[t]
  OBVIOUS
<1>3. Becomes(t, q)
  BY <1>2 DEF PagesInv, Becomes, Edited
<1>4. PageHolds(p, Made) /\ EvidenceHolds(p) /\ p.job.do = "none" /\ p.at \in Sections
      /\ p.next = "none"
  BY <1>1 DEF PagesInv, Editable, Waiting
<1>5. /\ q.at = p.at /\ q.shown = p.shown /\ q.options = p.options /\ q.next = p.next
      /\ q.job = p.job /\ q.draft = rows /\ q.touched = p.touched \cup {n}
      /\ q.dirty = (p.dirty \/ IsTyped(p.at)) /\ ~q.unguarded /\ DOMAIN q = DOMAIN p
  BY <1>1, <1>2, <1>4 DEF PagesInv, Edited, PageHolds, Nowhere
<1>6. FormHolds(q)
  <2>1. FormHolds(p)
    BY <1>4 DEF PageHolds
  <2>2. \A m \in DOMAIN q.shown \ q.touched :
          m \in DOMAIN q.draft /\ (q.at # "claims" => q.draft[m] = q.shown[m])
    BY <1>1, <1>5, <2>1 DEF FormHolds
  <2>3. q.dirty <=> p.dirty \/ IsTyped(p.at)
    BY <1>5
  <2> QED
    BY <1>5, <2>1, <2>2, <2>3 DEF FormHolds
<1>7. GivenHolds(q) /\ EvidenceHolds(q)
  BY <1>4, <1>5 DEF GivenHolds, EvidenceHolds, Merges
<1>8. PageHolds(q, Made)
  BY <1>4, <1>5, <1>6, <1>7 DEF PageHolds
<1>9. page[t].job.todo # <<"mail">>
  BY NotWaiting DEF Editable
<1> QED
  BY <1>3, <1>7, <1>8, <1>9, QuietStep

LEMMA Edits ==
  ASSUME PagesInv, NEW t \in Tabs, NEW n \in Names, UNCHANGED deskVars
  PROVE  /\ AddRow(t, n) => PagesInv'
         /\ RemoveRow(t, n) => PagesInv'
         /\ \A id \in page[t].options : LinkEvidence(t, n, id) => PagesInv'
<1>1. ASSUME Editable(t)
      PROVE  IsRows(page[t].draft) /\ page[t].options \subseteq Ids
  BY <1>1 DEF PagesInv, PageHolds, FormHolds, Editable
<1>2. ASSUME Editable(t), NEW value \in Values, NEW rows, rows = Item(n, value) ++ page[t].draft
      PROVE  /\ IsRows(rows)
             /\ \A m : m # n /\ m \in DOMAIN page[t].draft =>
                  m \in DOMAIN rows /\ rows[m] = page[t].draft[m]
  <2>1. \A m : /\ m \in DOMAIN rows <=> m = n \/ m \in DOMAIN page[t].draft
               /\ m = n => rows[m] = value
               /\ m \in DOMAIN page[t].draft /\ m # n => rows[m] = page[t].draft[m]
    <3>1. PICK draft : draft = page[t].draft
      OBVIOUS
    <3>2. rows = Item(n, value) ++ draft
      BY <1>2, <3>1
    <3>3. /\ DOMAIN rows = DOMAIN draft \cup {n} /\ rows[n] = value
          /\ \A m \in DOMAIN draft \ {n} : rows[m] = draft[m]
      <4>1. DOMAIN rows = DOMAIN draft \cup {n}
        BY <3>2, Zenon DEF Item, ++
      <4>2. rows[n] = value
        BY <3>2, Zenon DEF Item, ++
      <4>3. \A m \in DOMAIN draft \ {n} : rows[m] = draft[m]
        BY <3>2, Zenon DEF Item, ++
      <4> QED
        BY <4>1, <4>2, <4>3
    <3> QED
      BY <3>1, <3>3
  <2> QED
    BY <1>1, <1>2, <2>1 DEF IsRows
<1>3. ASSUME AddRow(t, n)  PROVE PagesInv'
  <2>1. PICK more \in Fillable(page[t].at) : page' = Edited(t, n, Item(n, more) ++ page[t].draft)
    BY <1>3 DEF AddRow
  <2>2. more \in Values
    BY <2>1 DEF Fillable, Values
  <2>3. PICK rows : rows = Item(n, more) ++ page[t].draft
    OBVIOUS
  <2>4. Editable(t) /\ UNCHANGED <<lists, network, acts>>
    BY <1>3 DEF AddRow, Touchable
  <2>5. page' = Edited(t, n, rows)
    BY <2>1, <2>3
  <2> QED
    BY <1>2, <2>2, <2>3, <2>4, <2>5, EditHolds
<1>4. ASSUME NEW id \in page[t].options, LinkEvidence(t, n, id)  PROVE PagesInv'
  <2>1. Editable(t) /\ UNCHANGED <<lists, network, acts>>
    BY <1>4 DEF LinkEvidence, Touchable
  <2>2. id \in Values
    BY <1>1, <2>1 DEF Values
  <2>3. PICK rows : rows = Item(n, id) ++ page[t].draft
    OBVIOUS
  <2>4. page' = Edited(t, n, rows)
    BY <1>4, <2>3 DEF LinkEvidence
  <2> QED
    BY <1>2, <2>1, <2>2, <2>3, <2>4, EditHolds
<1>5. ASSUME RemoveRow(t, n)  PROVE PagesInv'
  <2>1. Editable(t) /\ UNCHANGED <<lists, network, acts>>
    BY <1>5 DEF RemoveRow, Touchable
  <2>2. PICK rows : rows = [m \in DOMAIN page[t].draft \ {n} |-> page[t].draft[m]]
    OBVIOUS
  <2>3. page' = Edited(t, n, rows)
    BY <1>5, <2>2 DEF RemoveRow
  <2>4. IsRows(rows) /\ \A m : m # n /\ m \in DOMAIN page[t].draft =>
                  m \in DOMAIN rows /\ rows[m] = page[t].draft[m]
    BY <1>1, <2>1, <2>2 DEF IsRows
  <2> QED
    BY <2>1, <2>3, <2>4, EditHolds
<1> QED
  BY <1>3, <1>4, <1>5

-----------------------------------------------------------------------------
(* Actions begin.  A page on which an action begins stays as it is.        *)
LEMMA JobStarts ==
  ASSUME PagesInv, NEW t \in Tabs, ~Waiting(t), page[t].next = "none", NEW q, Becomes(t, q),
         q.at = page[t].at, q.shown = page[t].shown, q.draft = page[t].draft,
         q.touched = page[t].touched, q.options = page[t].options, q.next = page[t].next,
         q.dirty => page[t].dirty, DOMAIN q = DOMAIN page[t], DOMAIN q.job = DOMAIN Idle,
         q.job.do # "none", q.at \in Place(q.job.do), TodoHolds(q.job), GivenHolds(q),
         EvidenceHolds(q), q.job.do \in {"approve", "deny"} => q.job.row \in Made,
         q.job.do = "approve" => q.job.given \subseteq Ids, q.job.key = 0,
         Counted, UNCHANGED <<lists, network, deskVars>>
  PROVE  PagesInv'
<1>1. PICK p : p = page[t]
  OBVIOUS
<1>2. PageHolds(p, Made)
  BY <1>1 DEF PagesInv
<1>3. FormHolds(p) => FormHolds(q)
  BY <1>1 DEF FormHolds
<1>4. PageHolds(q, Made)
  BY <1>1, <1>2, <1>3 DEF PageHolds
<1>5. page[t].job.todo # <<"mail">>
  BY NotWaiting
<1> QED
  BY <1>4, <1>5, QuietStep

(* A form's own action, that no files come with. *)
LEMMA FormStarts ==
  ASSUME PagesInv, NEW t \in Tabs, Editable(t), NEW do \in {"save"} \cup Merges,
         NEW todo, NEW given, Started(t, do, todo, given),
         page[t].at \in Place(do), Counted, UNCHANGED <<lists, network, deskVars>>,
         do = "save" => todo = <<"replace">> /\ given = Submitted(page[t].at, page[t].draft),
         do # "save" => todo = <<"read", "replace">> /\ IsRows(given)
  PROVE  PagesInv'
<1>1. PICK q : q = page'[t]
  OBVIOUS
<1>2. Becomes(t, q)
  BY <1>1 DEF PagesInv, Becomes, Started
<1>3. DOMAIN page[t] = DOMAIN Nowhere /\ ~Waiting(t) /\ page[t].next = "none"
  BY DEF PagesInv, PageHolds, Editable
<1>4. q.job = [Idle EXCEPT !.do = do, !.todo = todo, !.given = given]
  BY <1>1, <1>3 DEF PagesInv, Started, Nowhere
<1>5. /\ q.at = page[t].at /\ q.shown = page[t].shown /\ q.draft = page[t].draft
      /\ q.touched = page[t].touched /\ q.options = page[t].options /\ q.next = page[t].next
      /\ ~q.dirty /\ DOMAIN q = DOMAIN page[t]
  BY <1>1, <1>3 DEF PagesInv, Started, Nowhere
<1>6. /\ q.job.do = do /\ q.job.todo = todo /\ q.job.given = given /\ q.job.key = 0
      /\ DOMAIN q.job = DOMAIN Idle
  BY <1>4 DEF Idle
<1>7. do # "none" /\ do \notin {"drop", "artifact", "approve", "deny", "revoke"}
  BY DEF Merges
<1>8. TodoHolds(q.job)
  BY <1>6 DEF TodoHolds, Merges
<1>9. <<"read", "replace">> # <<"replace">>
  OBVIOUS
<1>10. GivenHolds(q)
  BY <1>5, <1>6, <1>7, <1>9 DEF GivenHolds, Merges
<1>11. EvidenceHolds(q)
  BY <1>6, <1>7 DEF EvidenceHolds
<1> QED
  BY <1>2, <1>3, <1>5, <1>6, <1>7, <1>8, <1>10, <1>11, JobStarts

LEMMA FormActions ==
  ASSUME PagesInv, NEW t \in Tabs, Editable(t), UNCHANGED deskVars
  PROVE  /\ Save(t) => PagesInv'
         /\ \A picked \in SUBSET Names : Autofill(t, picked) => PagesInv'
         /\ \A picked \in SUBSET Names : AddLibrary(t, picked) => PagesInv'
         /\ \A picked \in SUBSET Names : Import(t, picked) => PagesInv'
<1>1. page[t].at \in Sections
  BY DEF Editable
<1>2. ASSUME Save(t)  PROVE PagesInv'
  <2>1. PICK given : given = Submitted(page[t].at, page[t].draft)
    OBVIOUS
  <2>2. Started(t, "save", <<"replace">>, given) /\ Counted /\ UNCHANGED <<lists, network>>
    BY <1>2, <2>1 DEF Save
  <2>3. page[t].at \in Place("save")
    BY <1>1 DEF Place
  <2> QED
    BY <2>1, <2>2, <2>3, FormStarts
<1>3. ASSUME NEW do \in Merges, NEW given, IsRows(given), Merge(t, do, given),
             page[t].at \in Place(do)
      PROVE  PagesInv'
  <2>1. Started(t, do, <<"read", "replace">>, given) /\ Counted /\ UNCHANGED <<lists, network>>
    BY <1>3 DEF Merge
  <2>2. do # "save"
    BY DEF Merges
  <2> QED
    BY <1>3, <2>1, <2>2, FormStarts
<1>4. ASSUME NEW picked \in SUBSET Names, Autofill(t, picked)  PROVE PagesInv'
  <2>1. PICK matched : matched = resolveClaim(parseQuestionnairePairs(picked))
    OBVIOUS
  <2>2. PICK given : given = [n \in matched |-> coerceClaimValue(CLAIMS[n])]
    OBVIOUS
  <2>3. IsRows(given)
    BY <2>1, <2>2 DEF IsRows, Values, resolveClaim, parseQuestionnairePairs, coerceClaimValue
  <2>4. page[t].at = "claims" /\ Merge(t, "autofill", given)
    BY <1>4, <2>1, <2>2 DEF Autofill
  <2>5. page[t].at \in Place("autofill") /\ "autofill" \in Merges
    BY <2>4 DEF Place, Merges
  <2> QED
    BY <1>3, <2>3, <2>4, <2>5
<1>5. ASSUME NEW picked \in SUBSET Names, AddLibrary(t, picked)  PROVE PagesInv'
  <2>1. PICK given : given = [n \in picked |-> "more"]
    OBVIOUS
  <2>2. IsRows(given)
    BY <2>1 DEF IsRows, Values
  <2>3. page[t].at = "controls" /\ Merge(t, "library", given)
    BY <1>5, <2>1 DEF AddLibrary
  <2>4. page[t].at \in Place("library") /\ "library" \in Merges
    BY <2>3 DEF Place, Merges
  <2> QED
    BY <1>3, <2>2, <2>3, <2>4
<1>6. ASSUME NEW picked \in SUBSET Names, Import(t, picked)  PROVE PagesInv'
  <2>1. PICK given : given = parseControlText(picked)
    OBVIOUS
  <2>2. IsRows(given)
    BY <2>1 DEF IsRows, Values, parseControlText
  <2>3. page[t].at = "controls" /\ Merge(t, "import", given)
    BY <1>6, <2>1 DEF Import
  <2>4. page[t].at \in Place("import") /\ "import" \in Merges
    BY <2>3 DEF Place, Merges
  <2> QED
    BY <1>3, <2>2, <2>3, <2>4
<1> QED
  BY <1>2, <1>4, <1>5, <1>6

LEMMA FilesBegin ==
  ASSUME NEW count \in 1 .. 2
  PROVE  /\ FilesLeft(FilesThenList(count)) /\ FilesThenList(count) # <<>>
         /\ Head(FilesThenList(count)) # "upload"
<1> DEFINE todo == FilesThenList(count)
<1>1. /\ todo \in Seq({"create", "upload", "replace"}) /\ Len(todo) = 2 * count + 1
      /\ todo # <<>> /\ Head(todo) = todo[1]
  BY DEF FilesThenList
<1>2. count = 1 \/ count = 2
  OBVIOUS
<1>3. CASE count = 1
  <2>1. Len(todo) = 3 /\ todo[1] = "create" /\ todo[2] = "upload" /\ todo[3] = "replace"
    BY <1>1, <1>3 DEF FilesThenList
  <2> HIDE DEF todo
  <2>2. ASSUME NEW i \in 1 .. Len(todo)
        PROVE  /\ todo[i] = "replace" <=> i = Len(todo)
               /\ i < Len(todo) => (todo[i] = "create" <=> todo[i + 1] = "upload")
    <3>1. i \in {1, 2, 3}
      BY <2>1
    <3> QED
      BY <2>1, <3>1
  <2>3. FilesLeft(todo)
    BY <1>1, <2>2 DEF FilesLeft
  <2> QED
    BY <1>1, <2>1, <2>3 DEF todo
<1>4. CASE count = 2
  <2>1. Len(todo) = 5 /\ todo[1] = "create" /\ todo[2] = "upload" /\ todo[3] = "create"
        /\ todo[4] = "upload" /\ todo[5] = "replace"
    BY <1>1, <1>4 DEF FilesThenList
  <2> HIDE DEF todo
  <2>2. ASSUME NEW i \in 1 .. Len(todo)
        PROVE  /\ todo[i] = "replace" <=> i = Len(todo)
               /\ i < Len(todo) => (todo[i] = "create" <=> todo[i + 1] = "upload")
    <3>1. i \in {1, 2, 3, 4, 5}
      BY <2>1
    <3> QED
      BY <2>1, <3>1
  <2>3. FilesLeft(todo)
    BY <1>1, <2>2 DEF FilesLeft
  <2> QED
    BY <1>1, <2>1, <2>3 DEF todo
<1> QED
  BY <1>2, <1>3, <1>4

LEMMA DropHolds ==
  ASSUME PagesInv, NEW t \in Tabs, NEW n \in Names, NEW count \in 1 .. 2, DropFiles(t, n, count),
         UNCHANGED deskVars
  PROVE  PagesInv'
<1>1. PICK q : q = page'[t]
  OBVIOUS
<1>2. PICK todo : todo = FilesThenList(count)
  OBVIOUS
<1>3. Becomes(t, q)
  BY <1>1 DEF PagesInv, Becomes, DropFiles
<1>4. /\ DOMAIN page[t] = DOMAIN Nowhere /\ ~Waiting(t) /\ page[t].next = "none"
      /\ page[t].at = "badges" /\ "badges" \in Sections
      /\ IsRows(page[t].draft) /\ n \in DOMAIN page[t].draft
  BY DEF PagesInv, PageHolds, FormHolds, Editable, DropFiles
<1>5. PICK given : given = Submitted("badges", page[t].draft)
  OBVIOUS
<1>6. given = page[t].draft
  BY <1>4, <1>5, SubmittedRows
<1>7. q.job = [Idle EXCEPT !.do = "drop", !.todo = todo, !.given = given, !.row = n]
  BY <1>1, <1>2, <1>4, <1>5 DEF PagesInv, DropFiles, Nowhere
<1>8. /\ q.at = page[t].at /\ q.shown = page[t].shown /\ q.draft = page[t].draft
      /\ q.touched = page[t].touched /\ q.options = page[t].options /\ q.next = page[t].next
      /\ ~q.dirty /\ DOMAIN q = DOMAIN page[t]
  BY <1>1, <1>4 DEF PagesInv, DropFiles, Nowhere
<1>9. q.job.do = "drop" /\ q.job.todo = todo /\ q.job.given = given /\ q.job.row = n
      /\ DOMAIN q.job = DOMAIN Idle /\ q.job.key = 0
  BY <1>7 DEF Idle
<1>10. TodoHolds(q.job)
  BY <1>2, <1>9, FilesBegin DEF TodoHolds
<1>11. GivenHolds(q)
  BY <1>4, <1>6, <1>8, <1>9 DEF GivenHolds, Merges
<1>12. EvidenceHolds(q)
  BY <1>6, <1>8, <1>9 DEF EvidenceHolds
<1>13. q.at \in Place(q.job.do)
  BY <1>4, <1>8, <1>9 DEF Place
<1>14. Counted /\ UNCHANGED <<lists, network>>
  BY DEF DropFiles
<1> QED
  BY <1>3, <1>4, <1>8, <1>9, <1>10, <1>11, <1>12, <1>13, <1>14, JobStarts

(* An artifact's own pages. *)
LEMMA ArtifactFormHolds ==
  ASSUME PagesInv, NEW t \in Tabs, NEW todo, NEW id, ArtifactForm(t, todo, id),
         todo \in Seq({"create", "upload", "update", "delete"}) \ {<<>>},
         UNCHANGED deskVars
  PROVE  PagesInv'
<1>1. PICK q : q = page'[t]
  OBVIOUS
<1>2. Becomes(t, q)
  BY <1>1 DEF PagesInv, Becomes, ArtifactForm
<1>3. DOMAIN page[t] = DOMAIN Nowhere /\ ~Waiting(t) /\ page[t].at = "none"
      /\ page[t].next = "none"
  BY NotSections DEF PagesInv, PageHolds, ArtifactForm
<1>4. q.job = [Idle EXCEPT !.do = "artifact", !.todo = todo, !.id = id]
  BY <1>1, <1>3 DEF PagesInv, ArtifactForm, Nowhere
<1>5. /\ q.at = page[t].at /\ q.shown = page[t].shown /\ q.draft = page[t].draft
      /\ q.touched = page[t].touched /\ q.options = page[t].options /\ q.next = page[t].next
      /\ q.dirty = page[t].dirty /\ DOMAIN q = DOMAIN page[t]
  BY <1>1, <1>3 DEF PagesInv, ArtifactForm, Nowhere
<1>6. q.job.do = "artifact" /\ q.job.todo = todo /\ q.job.key = 0 /\ DOMAIN q.job = DOMAIN Idle
  BY <1>4 DEF Idle
<1>7. TodoHolds(q.job)
  BY <1>6 DEF TodoHolds
<1>8. GivenHolds(q) /\ EvidenceHolds(q)
  BY <1>6 DEF GivenHolds, EvidenceHolds, Merges
<1>9. q.at \in Place(q.job.do)
  BY <1>3, <1>5, <1>6 DEF Place
<1>10. Counted /\ UNCHANGED <<lists, network>>
  BY DEF ArtifactForm
<1> QED
  BY <1>2, <1>3, <1>5, <1>6, <1>7, <1>8, <1>9, <1>10, JobStarts

LEMMA SettingsHold ==
  ASSUME PagesInv, NEW t \in Tabs, NEW nda_required \in BOOLEAN, NEW outcome \in Outcomes,
         SaveSettings(t, nda_required, outcome), UNCHANGED deskVars
  PROVE  PagesInv'
<1>1. PICK q : q = page'[t]
  OBVIOUS
<1>2. Becomes(t, q)
  BY <1>1 DEF PagesInv, Becomes, SaveSettings
<1>3. PICK p : p = page[t]
  OBVIOUS
<1>4. PageHolds(p, Made) /\ EvidenceHolds(p)
  BY <1>3 DEF PagesInv
<1>5. q = Broken \/ q = p
  BY <1>1, <1>3 DEF PagesInv, SaveSettings
<1>6. PageHolds(q, Made) /\ EvidenceHolds(q)
  BY <1>4, <1>5, EmptyPages
<1>7. UNCHANGED <<lists, artifacts, unused>> /\ Counted /\ nda' \in {nda, nda_required}
      /\ page[t].job.todo # <<"mail">>
  BY NotWaiting DEF SaveSettings
<1>8. \A id : Evident(id) => Evident(id)'
  BY <1>7 DEF Evident
<1>9. EvidenceHolds(q)'
  BY <1>6, <1>8, EvidenceKept
<1>10. DataHolds'
  BY <1>7, SdkAssumption DEF PagesInv, DataHolds, Counted
<1> QED
  BY <1>2, <1>6, <1>7, <1>8, <1>9, <1>10, PageStep

LEMMA ArtifactMoves ==
  ASSUME PagesInv, NEW t \in Tabs, ArtifactMove(t), UNCHANGED deskVars
  PROVE  PagesInv'
<1> DEFINE calls == {"create", "upload", "update", "delete"}
<1>1. CASE ArtifactsPage(t)
  <2>1. ASSUME NEW file \in BOOLEAN, AddArtifact(t, file)  PROVE PagesInv'
    <3>1. MakeOne(file) \in Seq(calls) \ {<<>>}
      BY DEF MakeOne
    <3> QED
      BY <2>1, <3>1, ArtifactFormHolds DEF AddArtifact
  <2>2. ASSUME NEW count \in 1 .. 2, AddQuestionnaires(t, count)  PROVE PagesInv'
    <3>1. QuestionnairePicker(count) \in Seq(calls) \ {<<>>}
      BY DEF QuestionnairePicker
    <3> QED
      BY <2>2, <3>1, ArtifactFormHolds DEF AddQuestionnaires
  <2> QED
    BY <1>1, <2>1, <2>2 DEF ArtifactsPage
<1>2. CASE SbomPage(t)
  <2>1. PICK file \in BOOLEAN : AddSbom(t, file)
    BY <1>2 DEF SbomPage
  <2>2. MakeOne(file) \in Seq(calls) \ {<<>>}
    BY DEF MakeOne
  <2> QED
    BY <2>1, <2>2, ArtifactFormHolds DEF AddSbom
<1>3. CASE ArtifactPage(t)
  <2>1. PICK id \in Listed :
          UploadNewVersion(t, id) \/ EditArtifact(t, id) \/ DeleteArtifact(t, id)
    BY <1>3 DEF ArtifactPage
  <2>2. {<<"upload">>, <<"update">>, <<"delete">>} \subseteq Seq(calls) \ {<<>>}
    OBVIOUS
  <2>3. PICK todo \in {<<"upload">>, <<"update">>, <<"delete">>} : ArtifactForm(t, todo, id)
    BY <2>1 DEF UploadNewVersion, EditArtifact, DeleteArtifact
  <2> QED
    BY <2>2, <2>3, ArtifactFormHolds
<1>4. CASE SettingsPage(t)
  BY <1>4, SettingsHold DEF SettingsPage
<1> QED
  BY <1>1, <1>2, <1>3, <1>4 DEF ArtifactMove

-----------------------------------------------------------------------------
(* The calls of the owner's actions.  What an action that is over leaves   *)
(* on its page.                                                            *)
LEMMA OverHolds ==
  ASSUME PagesInv, DataHolds', NEW t \in Tabs, page[t].next = "none", NEW under,
         NEW q, q = Over(t, page[t].at, under)
  PROVE  PageHolds(q, Made) /\ q.job = Idle
<1>1. PICK p : p = page[t]
  OBVIOUS
<1>2. PICK s : s = p.at
  OBVIOUS
<1>3. PageHolds(p, Made) /\ p.next = "none"
  BY <1>1 DEF PagesInv
<1>4. DataHolds
  BY DEF PagesInv
<1> DEFINE saved == p.job.do \in {"save", "drop"}
<1>5. CASE s \notin Sections
  <2>1. q = Nowhere
    BY <1>1, <1>2, <1>5 DEF Over
  <2>2. Nowhere.job = Idle
    BY DEF Nowhere
  <2> QED
    BY <2>1, <2>2, EmptyPages
<1>6. CASE s \in Sections /\ ~KeepsItsRows(s)
  <2>1. PICK rows : rows = lists'[s]
    OBVIOUS
  <2>2. IsRows(rows) /\ (s = "faqs" => \A n \in DOMAIN rows : rows[n] = "more")
    BY <1>6, <2>1 DEF DataHolds, IsRows
  <2>3. PICK l : l = Loaded(s, rows)
    OBVIOUS
  <2>4. PageHolds(l, Made) /\ l.job = Idle /\ l.at = s
    BY <1>4, <1>6, <2>2, <2>3, LoadedPage
  <2>5. CASE saved
    <3>1. q = l
      BY <1>1, <1>2, <1>6, <2>1, <2>3, <2>5 DEF Over
    <3> QED
      BY <2>4, <3>1
  <2>6. CASE ~saved
    <3>1. PICK typed : typed = [n \in DOMAIN p.draft \cap p.touched |-> p.draft[n]]
      OBVIOUS
    <3>2. PICK rest : rest = [n \in DOMAIN rows \ under |-> rows[n]]
      OBVIOUS
    <3>3. PICK touched : touched = p.touched \cup (under \cap DOMAIN rows)
      OBVIOUS
    <3>4. q = Rerendered(p, rows, under)
      BY <1>1, <1>2, <1>6, <2>1, <2>6 DEF Over
    <3>5. q = [l EXCEPT !.draft = typed ++ rest, !.touched = touched, !.unguarded = touched # {}]
      BY <1>2, <2>3, <3>1, <3>2, <3>3, <3>4 DEF Rerendered
    <3>6. /\ q.at = s /\ q.shown = l.shown /\ q.dirty = l.dirty /\ q.next = l.next
          /\ q.job = Idle /\ q.options = l.options /\ DOMAIN q = DOMAIN Nowhere
          /\ q.draft = typed ++ rest /\ q.touched = touched /\ q.unguarded = (touched # {})
      BY <2>4, <3>5 DEF PageHolds, Nowhere
    <3>7. s \in AllSections /\ s \notin {"badges", "claims"}
      BY <1>6, NotSections DEF KeepsItsRows
    <3>8. l.shown = rows
      BY <2>3, <3>7 DEF Loaded, ControlsPage, FaqPage, UpdatesPage, DataCollectedPage,
         SubprocessorsPage, Rendered, Nowhere, AllSections
    <3>9. IsRows(typed) /\ DOMAIN typed \subseteq p.touched
      BY <1>2, <1>3, <1>6, <3>1 DEF PageHolds, FormHolds, IsRows
    <3>10. IsRows(rest) /\ DOMAIN rest = DOMAIN rows \ under
           /\ \A n \in DOMAIN rest : rest[n] = rows[n]
      BY <2>2, <3>2 DEF IsRows
    <3>11. IsRows(typed ++ rest)
      BY <3>9, <3>10, RowsBehind
    <3>12. ASSUME NEW n \in DOMAIN rows \ touched
           PROVE  n \in DOMAIN (typed ++ rest) /\ (typed ++ rest)[n] = rows[n]
      <4>1. n \in DOMAIN rest /\ n \notin DOMAIN typed /\ rest[n] = rows[n]
        BY <3>3, <3>9, <3>10
      <4> QED
        BY <4>1, Behind
    <3>13. FormHolds(q)
      BY <2>2, <3>6, <3>8, <3>11, <3>12 DEF FormHolds
    <3>14. GivenHolds(q)
      BY <3>6, NoWork
    <3> QED
      BY <2>4, <3>6, <3>13, <3>14 DEF PageHolds
  <2> QED
    BY <2>5, <2>6
<1>7. CASE s \in Sections /\ KeepsItsRows(s)
  <2>2. q = [p EXCEPT !.job = Idle, !.options = DOMAIN artifacts, !.dirty = FALSE,
                      !.shown = IF saved THEN Submitted(s, p.draft) ELSE @,
                      !.touched = IF saved THEN {} ELSE @]
    BY <1>1, <1>2, <1>7 DEF Over
  <2>3. /\ q.at = s /\ q.draft = p.draft /\ ~q.dirty /\ q.next = "none"
        /\ q.job = Idle /\ q.options = DOMAIN artifacts /\ DOMAIN q = DOMAIN Nowhere
        /\ q.shown = IF saved THEN Submitted(s, p.draft) ELSE p.shown
        /\ q.touched = IF saved THEN {} ELSE p.touched
    BY <1>2, <1>3, <2>2 DEF PageHolds, Nowhere
  <2>4. s \in {"badges", "claims"} /\ s # "faqs" /\ ~IsTyped(s)
    BY <1>7 DEF KeepsItsRows, IsTyped
  <2>5. FormHolds(p)
    BY <1>2, <1>3, <1>7 DEF PageHolds
  <2>6. /\ IsRows(Submitted(s, p.draft)) /\ DOMAIN Submitted(s, p.draft) = DOMAIN p.draft
        /\ s = "badges" => Submitted(s, p.draft) = p.draft
    BY <1>7, <2>4, <2>5, SubmittedRows DEF FormHolds
  <2>7. FormHolds(q)
    <3>1. CASE saved
      BY <2>3, <2>4, <2>5, <2>6, <3>1 DEF FormHolds
    <3>2. CASE ~saved
      BY <1>2, <2>3, <2>4, <2>5, <3>2 DEF FormHolds
    <3> QED
      BY <3>1, <3>2
  <2>8. TodoHolds(q.job) /\ GivenHolds(q) /\ q.job.do = "none" /\ DOMAIN q.job = DOMAIN Idle
        /\ q.job.key \in Nat
    BY <2>3, NoWork
  <2>9. q.options \subseteq Ids
    BY <1>4, <2>3 DEF DataHolds
  <2>10. q.at \in Place(q.job.do)
    BY <1>7, <2>3, <2>8 DEF Place
  <2> QED
    BY <1>7, <2>3, <2>7, <2>8, <2>9, <2>10 DEF PageHolds
<1> QED
  BY <1>5, <1>6, <1>7

(* A form that is submitted with nothing in it. *)
LEMMA NothingHolds ==
  ASSUME PagesInv, NEW t \in Tabs, NothingGiven(t), UNCHANGED deskVars
  PROVE  PagesInv'
<1>1. Editable(t) /\ page[t].at \in {"controls", "claims"} /\ Counted /\ UNCHANGED <<lists, network>>
  BY DEF NothingGiven
<1>2. PICK under \in Under(t) : page' = [page EXCEPT ![t] = Over(t, page[t].at, under)]
  BY DEF NothingGiven
<1>3. PICK q : q = Over(t, page[t].at, under)
  OBVIOUS
<1>4. Becomes(t, q)
  BY <1>2, <1>3 DEF PagesInv, Becomes
<1>5. DataHolds'
  BY <1>1, SdkAssumption DEF PagesInv, DataHolds, Counted, network
<1>6. page[t].next = "none" /\ page[t].job.todo # <<"mail">>
  BY <1>1, NotWaiting DEF Editable
<1>7. PageHolds(q, Made) /\ q.job = Idle
  BY <1>3, <1>5, <1>6, OverHolds
<1>8. EvidenceHolds(q)
  BY <1>7, NoWork
<1> QED
  BY <1>1, <1>4, <1>6, <1>7, <1>8, QuietStep

(* A call is over: the page is broken, or the action's, or it goes on with *)
(* job j.                                                                  *)
LEMMA CallOver ==
  ASSUME PagesInv, DataHolds', NEW t \in Tabs, Waiting(t), NEW outcome, NEW j,
         Continued(t, outcome, j), \A id : Evident(id) => Evident(id)',
         UNCHANGED deskVars, page[t].job.todo # <<"mail">>,
         \A q : /\ ~Throws(outcome) /\ j.todo # <<>>
                /\ q.at = page[t].at /\ q.shown = page[t].shown /\ q.draft = page[t].draft
                /\ q.touched = page[t].touched /\ q.options = page[t].options
                /\ q.next = page[t].next /\ q.dirty = page[t].dirty
                /\ DOMAIN q = DOMAIN page[t] /\ q.job = j
                => PageHolds(q, Made) /\ EvidenceHolds(q)'
  PROVE  PagesInv'
<1>1. PICK q : q = page'[t]
  OBVIOUS
<1>2. Becomes(t, q)
  BY <1>1 DEF PagesInv, Becomes, Continued
<1>3. PageHolds(q, Made) /\ EvidenceHolds(q)'
  <2>1. CASE Throws(outcome)
    <3>1. q = Broken
      BY <1>1, <2>1 DEF PagesInv, Continued
    <3>2. PageHolds(q, Made) /\ EvidenceHolds(q)
      BY <3>1, EmptyPages
    <3> QED
      BY <3>2, EvidenceKept
  <2>2. CASE ~Throws(outcome) /\ j.todo = <<>>
    <3>1. PICK under \in Under(t) : q = Over(t, page[t].at, under)
      BY <1>1, <2>2 DEF PagesInv, Continued
    <3>0. page[t].next = "none"
      BY DEF PagesInv, PageHolds, Waiting
    <3>2. PageHolds(q, Made) /\ q.job = Idle
      BY <3>0, <3>1, OverHolds
    <3>3. EvidenceHolds(q)
      BY <3>2, NoWork
    <3> QED
      BY <3>2, <3>3, EvidenceKept
  <2>3. CASE ~Throws(outcome) /\ j.todo # <<>>
    <3>1. DOMAIN page[t] = DOMAIN Nowhere
      BY DEF PagesInv, PageHolds
    <3>2. q = [page[t] EXCEPT !.job = j]
      BY <1>1, <2>3 DEF PagesInv, Continued
    <3>3. /\ q.at = page[t].at /\ q.shown = page[t].shown /\ q.draft = page[t].draft
          /\ q.touched = page[t].touched /\ q.options = page[t].options
          /\ q.next = page[t].next /\ q.dirty = page[t].dirty
          /\ DOMAIN q = DOMAIN page[t] /\ q.job = j
      BY <3>1, <3>2 DEF Nowhere
    <3> QED
      BY <2>3, <3>3
  <2> QED
    BY <2>1, <2>2, <2>3
<1> QED
  BY <1>2, <1>3, PageStep

(* The action a page waits for, and what is left of it after this call. *)
LEMMA NextCall ==
  ASSUME PagesInv, NEW t \in Tabs, Waiting(t)
  PROVE  /\ PageHolds(page[t], Made) /\ EvidenceHolds(page[t])
         /\ DOMAIN page[t] = DOMAIN Nowhere /\ DOMAIN page[t].job = DOMAIN Idle
         /\ TodoHolds(page[t].job) /\ page[t].job.do # "none"
         /\ RestOf(t).do = page[t].job.do /\ RestOf(t).given = page[t].job.given
         /\ RestOf(t).base = page[t].job.base /\ RestOf(t).row = page[t].job.row
         /\ RestOf(t).id = page[t].job.id /\ RestOf(t).todo = Tail(page[t].job.todo)
         /\ RestOf(t).key = page[t].job.key /\ RestOf(t).key \in Nat
         /\ DOMAIN RestOf(t) = DOMAIN Idle
         /\ page[t].job.todo = <<"mail">> => Todo(t) = "mail"
<1>1. PICK p : p = page[t]
  OBVIOUS
<1>2. PageHolds(p, Made) /\ EvidenceHolds(p) /\ p.job.do # "none"
  BY <1>1 DEF PagesInv, Waiting
<1>3. DOMAIN p = DOMAIN Nowhere /\ DOMAIN p.job = DOMAIN Idle /\ TodoHolds(p.job)
      /\ p.job.key \in Nat
  BY <1>2 DEF PageHolds
<1>4. PICK r : r = RestOf(t)
  OBVIOUS
<1>5. r = [p.job EXCEPT !.todo = Tail(p.job.todo)]
  BY <1>1, <1>4 DEF RestOf
<1>6. /\ r.do = p.job.do /\ r.given = p.job.given /\ r.base = p.job.base /\ r.row = p.job.row
      /\ r.id = p.job.id /\ r.key = p.job.key /\ r.todo = Tail(p.job.todo)
      /\ DOMAIN r = DOMAIN Idle
  BY <1>3, <1>5 DEF Idle
<1>7. Head(<<"mail">>) = "mail"
  OBVIOUS
<1> QED
  BY <1>1, <1>2, <1>3, <1>4, <1>6, <1>7 DEF Todo

(* While an action merges, its page is a section's and is rendered.        *)
LEMMA MergedRows ==
  ASSUME NEW do \in Merges, NEW existing, NEW given, IsRows(existing), IsRows(given),
         do = "import" => "controls" \in Sections
  PROVE  /\ IsRows(Merged(do, existing, given))
         /\ DOMAIN existing \subseteq DOMAIN Merged(do, existing, given)
         /\ do = "library" =>
              \A n \in DOMAIN existing : Merged(do, existing, given)[n] = existing[n]
<1>1. CASE do = "autofill"
  <2>1. Merged(do, existing, given) = given ++ existing
    BY <1>1 DEF Merged, Autofilled
  <2>2. /\ IsRows(given ++ existing) /\ DOMAIN (given ++ existing) = DOMAIN given \cup DOMAIN existing
        /\ \A n \in DOMAIN given : (given ++ existing)[n] = given[n]
    BY RowsBehind
  <2> QED
    BY <1>1, <2>1, <2>2
<1>2. CASE do = "library"
  <2>1. Merged(do, existing, given) = existing ++ given
    BY <1>2 DEF Merged, Appended
  <2>2. /\ IsRows(existing ++ given) /\ DOMAIN (existing ++ given) = DOMAIN existing \cup DOMAIN given
        /\ \A n \in DOMAIN existing : (existing ++ given)[n] = existing[n]
    BY RowsBehind
  <2> QED
    BY <1>2, <2>1, <2>2
<1>3. CASE do = "import"
  <2>1. PICK rows : rows = Submitted("controls", existing)
    OBVIOUS
  <2>2. IsRows(rows) /\ DOMAIN rows = DOMAIN existing
    BY <1>3, <2>1, SubmittedRows
  <2>3. Merged(do, existing, given) = rows ++ given
    BY <1>3, <2>1 DEF Merged, ImportedAfter
  <2>4. /\ IsRows(rows ++ given) /\ DOMAIN (rows ++ given) = DOMAIN rows \cup DOMAIN given
        /\ \A n \in DOMAIN rows : (rows ++ given)[n] = rows[n]
    BY <2>2, RowsBehind
  <2> QED
    BY <1>3, <2>2, <2>3, <2>4
<1> QED
  BY <1>1, <1>2, <1>3 DEF Merges

LEMMA ReadHolds ==
  ASSUME PagesInv, NEW t \in Tabs, NEW outcome \in Outcomes, ReadList(t, outcome),
         UNCHANGED deskVars
  PROVE  PagesInv'
<1>1. PICK p : p = page[t]
  OBVIOUS
<1>2. PICK s : s = p.at
  OBVIOUS
<1>3. PICK rows : rows = lists[s]
  OBVIOUS
<1>4. PICK r : r = RestOf(t)
  OBVIOUS
<1>5. Waiting(t) /\ Todo(t) = "read" /\ UNCHANGED <<network, acts>>
  BY DEF ReadList
<1>6. PageHolds(p, Made) /\ TodoHolds(p.job) /\ p.job.do # "none" /\ DOMAIN r = DOMAIN Idle
      /\ r.do = p.job.do /\ r.given = p.job.given /\ r.todo = Tail(p.job.todo) /\ r.key \in Nat
      /\ page[t].job.todo # <<"mail">>
  BY <1>1, <1>4, <1>5, NextCall
<1>7. p.job.do \in Merges /\ r.todo = <<"replace">>
  BY <1>1, <1>5, <1>6, TodoGoesOn DEF Todo
<1>8. /\ s \in Sections /\ IsRows(p.job.given) /\ (p.job.do = "import" => s = "controls")
      /\ s \notin {"none", "error", "requests"}
  <2>1. s \in {"claims", "controls"} /\ (p.job.do = "import" => s = "controls")
    BY <1>2, <1>6, <1>7 DEF PageHolds, Place, Merges
  <2> QED
    BY <1>2, <1>6, <1>7, <2>1 DEF PageHolds, GivenHolds
<1>9. DataHolds /\ IsRows(rows) /\ DOMAIN lists = Sections
  BY <1>3, <1>8 DEF PagesInv, DataHolds
<1>10. DOMAIN lists' = Sections /\ \A x \in Sections : lists'[x] = lists[x]
  <2>1. Client[Getter[s]].verb = "GET"
    BY <1>8, NotSections, SectionVerbs
  <2>2. PICK m : m = Getter[s]
    OBVIOUS
  <2>3. PICK nothing : nothing = <<>>
    OBVIOUS
  <2>4. After(m, rows, nothing, outcome) = rows
    <3>1. Client[m].verb = "GET"
      BY <2>1, <2>2
    <3> QED
      BY <3>1, AfterVerb
  <2>5. lists' = [lists EXCEPT ![s] = rows]
    BY <1>1, <1>2, <1>3, <2>2, <2>3, <2>4 DEF ReadList
  <2> QED
    BY <1>3, <1>9, <2>5
<1>11. UNCHANGED <<artifacts, unused, nda, acts>>
  BY <1>5 DEF network
<1>12. DataHolds' /\ \A id : Evident(id) => Evident(id)'
  BY <1>9, <1>10, <1>11 DEF DataHolds, Evident
<1>13. PICK j : j = [r EXCEPT !.base = rows, !.given = Merged(r.do, rows, @)]
  OBVIOUS
<1>14. /\ j.do = p.job.do /\ j.todo = <<"replace">> /\ j.base = rows /\ j.key \in Nat
       /\ j.given = Merged(p.job.do, rows, p.job.given) /\ DOMAIN j = DOMAIN Idle
  BY <1>6, <1>7, <1>13 DEF Idle
<1>15. Continued(t, outcome, j)
  BY <1>1, <1>2, <1>3, <1>4, <1>13 DEF ReadList
<1>16. /\ IsRows(j.given) /\ DOMAIN j.base \subseteq DOMAIN j.given
       /\ j.do = "library" => \A n \in DOMAIN j.base : j.given[n] = j.base[n]
  BY <1>7, <1>8, <1>9, <1>14, MergedRows
<1>17. ASSUME NEW q,
              q.at = page[t].at /\ q.shown = page[t].shown /\ q.draft = page[t].draft,
              q.touched = page[t].touched /\ q.options = page[t].options,
              q.next = page[t].next /\ q.dirty = page[t].dirty,
              DOMAIN q = DOMAIN page[t] /\ q.job = j
       PROVE  PageHolds(q, Made) /\ EvidenceHolds(q)'
  <2>1. j.do \notin {"none", "save", "drop", "artifact", "approve", "deny", "revoke"}
    BY <1>7, <1>14 DEF Merges
  <2>2. TodoHolds(j)
    BY <1>7, <1>14 DEF TodoHolds
  <2>3. GivenHolds(q)
    BY <1>16, <1>17, <2>1 DEF GivenHolds
  <2>4. FormHolds(p) => FormHolds(q)
    BY <1>1, <1>17, <2>1 DEF FormHolds
  <2>5. PageHolds(q, Made)
    BY <1>1, <1>6, <1>14, <1>17, <2>1, <2>2, <2>3, <2>4 DEF PageHolds
  <2>6. EvidenceHolds(q)'
    BY <1>17, <2>1 DEF EvidenceHolds
  <2> QED
    BY <2>5, <2>6
<1> QED
  BY <1>5, <1>6, <1>12, <1>15, <1>17, CallOver

LEMMA ReplaceHolds ==
  ASSUME PagesInv, NEW t \in Tabs, NEW outcome \in Outcomes, ReplaceList(t, outcome),
         UNCHANGED deskVars
  PROVE  PagesInv'
<1>1. PICK p : p = page[t]
  OBVIOUS
<1>2. PICK s : s = p.at
  OBVIOUS
<1>3. PICK rows : rows = lists[s]
  OBVIOUS
<1>4. PICK j : j = RestOf(t)
  OBVIOUS
<1>5. Waiting(t) /\ Todo(t) = "replace" /\ UNCHANGED <<network, acts>>
  BY DEF ReplaceList
<1>6. PageHolds(p, Made) /\ TodoHolds(p.job) /\ p.job.do # "none"
      /\ j.given = p.job.given /\ j.todo = Tail(p.job.todo)
      /\ page[t].job.todo # <<"mail">>
  BY <1>1, <1>4, <1>5, NextCall
<1>7. p.job.do \in {"save", "drop"} \cup Merges /\ j.todo = <<>>
  BY <1>1, <1>5, <1>6, TodoGoesOn DEF Todo
<1>8. s \in Sections /\ (s = "faqs" => p.job.do = "save")
      /\ s \notin {"none", "error", "requests"}
  BY <1>2, <1>6, <1>7, NotSections DEF PageHolds, Place, Merges
<1>9. IsRows(j.given) /\ (s = "faqs" => \A n \in DOMAIN j.given : j.given[n] = "more")
  <2>1. CASE p.job.do = "save"
    <3>1. j.given = Submitted(s, p.draft) /\ IsRows(p.draft)
      BY <1>2, <1>6, <1>8, <2>1 DEF PageHolds, GivenHolds, FormHolds
    <3> QED
      BY <1>8, <3>1, SubmittedRows
  <2>2. CASE p.job.do # "save"
    BY <1>6, <1>7, <1>8, <2>2 DEF PageHolds, GivenHolds
  <2> QED
    BY <2>1, <2>2
<1>9a. PICK given : given = Stored(s, j.given)
  OBVIOUS
<1>9b. IsRows(given) /\ (s = "faqs" => \A n \in DOMAIN given : given[n] = "more")
  BY <1>9, <1>9a, EvidencedRows DEF Stored
<1>10. DataHolds /\ DOMAIN lists = Sections
  BY DEF PagesInv, DataHolds
<1>11. DOMAIN lists' = Sections /\ lists'[s] \in {given, lists[s]}
       /\ \A x \in Sections \ {s} : lists'[x] = lists[x]
  <2>1. Client[Replacer[s]].verb = "PUT"
    BY <1>8, NotSections, SectionVerbs
  <2>2. PICK m : m = Replacer[s]
    OBVIOUS
  <2>4. After(m, rows, given, outcome) \in {given, rows}
    <3>1. Client[m].verb = "PUT"
      BY <2>1, <2>2
    <3>2. After(m, rows, given, outcome) = IF Done(outcome) THEN given ELSE rows
      BY <3>1, AfterVerb
    <3> QED
      BY <3>2
  <2>5. lists' = [lists EXCEPT ![s] = After(m, rows, given, outcome)]
    BY <1>1, <1>2, <1>3, <1>4, <1>9a, <2>2 DEF ReplaceList
  <2> QED
    BY <1>3, <1>8, <1>10, <2>4, <2>5
<1>12. UNCHANGED <<artifacts, unused, nda, acts>>
  BY <1>5 DEF network
<1>13. DataHolds'
  <2>1. \A x \in Sections : IsRows(lists'[x])
          /\ (x = "faqs" => \A n \in DOMAIN lists'[x] : lists'[x][n] = "more")
    BY <1>9b, <1>10, <1>11 DEF DataHolds
  <2> QED
    BY <1>10, <1>11, <1>12, <2>1 DEF DataHolds, IsRows
<1>14. \A id : Evident(id) => Evident(id)'
  BY <1>12 DEF Evident
<1>15. Continued(t, outcome, j)
  BY <1>4 DEF ReplaceList
<1> QED
  BY <1>5, <1>6, <1>7, <1>13, <1>14, <1>15, CallOver

(* The page of an action that makes or changes artifacts, as it goes on. *)
LEMMA GoesOn ==
  ASSUME PagesInv, NEW t \in Tabs, Waiting(t), NEW q,
         q.at = page[t].at, q.shown = page[t].shown, q.draft = page[t].draft,
         q.touched = page[t].touched, q.options = page[t].options,
         q.next = page[t].next, q.dirty = page[t].dirty, DOMAIN q = DOMAIN page[t],
         q.job.do = page[t].job.do, q.job.do \in {"drop", "artifact"},
         DOMAIN q.job = DOMAIN Idle, TodoHolds(q.job), GivenHolds(q), q.job.key \in Nat
  PROVE  PageHolds(q, Made)
<1>1. PICK p : p = page[t]
  OBVIOUS
<1>2. PageHolds(p, Made) /\ p.next = "none" /\ q.next = "none"
  BY <1>1 DEF PagesInv, PageHolds, Waiting
<1>3. FormHolds(p) => FormHolds(q)
  BY <1>1 DEF FormHolds
<1> QED
  BY <1>1, <1>2, <1>3 DEF PageHolds

LEMMA CreateHolds ==
  ASSUME PagesInv, NEW t \in Tabs, NEW outcome \in Outcomes, CreateArtifact(t, outcome),
         UNCHANGED deskVars
  PROVE  PagesInv'
<1>1. PICK id : id = CHOOSE x \in unused : TRUE
  OBVIOUS
<1>2. PICK had : had = artifacts
  OBVIOUS
<1>3. PICK item : item = Item(id, FALSE)
  OBVIOUS
<1>4. /\ Waiting(t) /\ Todo(t) = "create" /\ UNCHANGED <<lists, nda, acts>>
      /\ Done(outcome) => id \in unused
      /\ artifacts' = After("createArtifact", had, item, outcome)
      /\ unused' = IF Done(outcome) THEN unused \ {id} ELSE unused
      /\ Continued(t, outcome, [RestOf(t) EXCEPT !.id = id])
  BY <1>1, <1>2, <1>3 DEF CreateArtifact
<1>5. DataHolds
  BY DEF PagesInv
<1>6. artifacts' = IF Done(outcome) THEN item ++ had ELSE had
  <2>1. Client["createArtifact"].verb = "POST"
    BY ArtifactVerbs
  <2>2. After("createArtifact", had, item, outcome) = IF Done(outcome) THEN item ++ had ELSE had
    BY <2>1, AfterVerb
  <2> QED
    BY <1>4, <2>2
<1>7. /\ DOMAIN (item ++ had) = DOMAIN had \cup {id}
      /\ \A x \in DOMAIN had \ {id} : (item ++ had)[x] = had[x]
  <2>1. DOMAIN (item ++ had) = DOMAIN had \cup {id}
    BY <1>3, Zenon DEF Item, ++
  <2>2. \A x \in DOMAIN had \ {id} : (item ++ had)[x] = had[x]
    BY <1>3, Zenon DEF Item, ++
  <2> QED
    BY <2>1, <2>2
<1>8. DataHolds'
  BY <1>2, <1>4, <1>5, <1>6, <1>7 DEF DataHolds, IsRows
<1>9. ASSUME NEW x, Evident(x)  PROVE Evident(x)'
  <2>1. x \in Ids \ unused' /\ (Done(outcome) => x # id)
    BY <1>4, <1>9 DEF Evident
  <2>2. x \in DOMAIN artifacts' => x \in DOMAIN had /\ artifacts'[x] = had[x]
    BY <1>6, <1>7, <2>1
  <2> QED
    BY <1>2, <1>9, <2>1, <2>2 DEF Evident
<1>10. PICK p : p = page[t]
  OBVIOUS
<1>11. PICK r : r = RestOf(t)
  OBVIOUS
<1>12. PICK j : j = [r EXCEPT !.id = id]
  OBVIOUS
<1>13. PageHolds(p, Made) /\ EvidenceHolds(p) /\ TodoHolds(p.job) /\ p.job.do # "none"
       /\ DOMAIN r = DOMAIN Idle /\ r.do = p.job.do /\ r.given = p.job.given
       /\ r.row = p.job.row /\ r.todo = Tail(p.job.todo) /\ page[t].job.todo # <<"mail">>
       /\ r.key \in Nat
  BY <1>4, <1>10, <1>11, NextCall
<1>14. /\ j.do = p.job.do /\ j.given = p.job.given /\ j.row = p.job.row /\ j.key \in Nat
       /\ j.todo = Tail(p.job.todo) /\ j.id = id /\ DOMAIN j = DOMAIN Idle
  BY <1>12, <1>13 DEF Idle
<1>15. Head(p.job.todo) = "create"
  BY <1>4, <1>10 DEF Todo
<1>16. \/ j.do = "drop" /\ FilesLeft(j.todo) /\ j.todo # <<>>
       \/ j.do = "artifact" /\ j.todo \in Seq({"create", "upload", "update", "delete"})
  BY <1>13, <1>14, <1>15, TodoGoesOn
<1>17. ASSUME NEW q, ~Throws(outcome), j.todo # <<>>,
              q.at = page[t].at /\ q.shown = page[t].shown /\ q.draft = page[t].draft,
              q.touched = page[t].touched /\ q.options = page[t].options,
              q.next = page[t].next /\ q.dirty = page[t].dirty,
              DOMAIN q = DOMAIN page[t] /\ q.job = j
       PROVE  PageHolds(q, Made) /\ EvidenceHolds(q)'
  <2>1. id \in Ids
    BY <1>4, <1>5, <1>17 DEF Throws, Done, DataHolds
  <2>2. TodoHolds(j)
    BY <1>14, <1>16, <1>17, <2>1 DEF TodoHolds
  <2>3. GivenHolds(q)
    BY <1>10, <1>13, <1>14, <1>16, <1>17, SMTT(40) DEF PageHolds, GivenHolds, Merges
  <2>4. PageHolds(q, Made)
    BY <1>4, <1>10, <1>14, <1>16, <1>17, <2>2, <2>3, GoesOn
  <2>5. EvidenceHolds(q)
    BY <1>10, <1>13, <1>14, <1>17 DEF EvidenceHolds
  <2> QED
    BY <1>9, <2>4, <2>5, EvidenceKept
<1>18. Continued(t, outcome, j)
  BY <1>4, <1>11, <1>12
<1> QED
  BY <1>4, <1>8, <1>9, <1>13, <1>17, <1>18, CallOver

(* The id a row is linked to becomes part of what will be saved. *)
LEMMA LinkedJob ==
  ASSUME NEW p, NEW j, j.do = p.job.do, j.given = p.job.given, j.row = p.job.row,
         DOMAIN j = DOMAIN Idle, GivenHolds(p), j.id \in Ids, j.do \in {"drop", "artifact"},
         NEW q, q.at = p.at, q.draft = p.draft, q.job = Linked(j)
  PROVE  /\ q.job.do = j.do /\ q.job.todo = j.todo /\ q.job.id = j.id /\ q.job.key = j.key
         /\ DOMAIN q.job = DOMAIN Idle /\ GivenHolds(q)
         /\ \/ q.job.row = p.job.row /\ q.job.given = p.job.given
            \/ q.job.row \in DOMAIN q.job.given /\ q.job.given[q.job.row] = j.id
<1>1. CASE j.do = "drop" /\ j.given[j.row] = "plain"
  <2>1. PICK k : k = q.job
    OBVIOUS
  <2>2. k = [j EXCEPT !.given[j.row] = j.id]
    BY <1>1, <2>1 DEF Linked
  <2>3. /\ k.do = j.do /\ k.todo = j.todo /\ k.id = j.id /\ k.row = j.row /\ k.key = j.key
        /\ DOMAIN k = DOMAIN Idle /\ k.given = [j.given EXCEPT ![j.row] = j.id]
    BY <2>2 DEF Idle
  <2>4. /\ DOMAIN j.given = DOMAIN p.draft /\ j.row \in DOMAIN p.draft /\ IsRows(j.given)
        /\ \A n \in DOMAIN p.draft \ {j.row} : j.given[n] = p.draft[n]
    BY <1>1 DEF GivenHolds
  <2>5. /\ DOMAIN k.given = DOMAIN p.draft /\ k.given[k.row] = j.id
        /\ \A n \in DOMAIN p.draft \ {k.row} : k.given[n] = p.draft[n]
    BY <2>3, <2>4
  <2>6. IsRows(k.given)
    <3>1. j.id \in Values
      BY DEF Values
    <3> QED
      BY <2>3, <2>4, <2>5, <3>1 DEF IsRows
  <2>7. GivenHolds(q)
    BY <1>1, <2>1, <2>3, <2>4, <2>5, <2>6 DEF GivenHolds, Merges
  <2> QED
    BY <2>1, <2>3, <2>4, <2>5, <2>7
<1>2. CASE ~(j.do = "drop" /\ j.given[j.row] = "plain")
  <2>1. q.job = j
    BY <1>2 DEF Linked
  <2>2. GivenHolds(q)
    BY <2>1 DEF GivenHolds, Merges
  <2> QED
    BY <2>1, <2>2
<1> QED
  BY <1>1, <1>2

LEMMA UploadHolds ==
  ASSUME PagesInv, NEW t \in Tabs, NEW outcome \in Outcomes, UploadContent(t, outcome),
         UNCHANGED deskVars
  PROVE  PagesInv'
<1>1. PICK r : r = RestOf(t)
  OBVIOUS
<1>2. PICK had : had = artifacts
  OBVIOUS
<1>3. PICK item : item = Item(r.id, TRUE)
  OBVIOUS
<1>4. /\ Waiting(t) /\ Todo(t) = "upload" /\ UNCHANGED <<lists, unused, nda, acts>>
      /\ Done(outcome) => r.id \in DOMAIN had
      /\ artifacts' = After("uploadArtifactContent", had, item, outcome)
      /\ Continued(t, outcome, Linked(r))
  BY <1>1, <1>2, <1>3 DEF UploadContent
<1>5. DataHolds
  BY DEF PagesInv
<1>6. artifacts' = IF Done(outcome) THEN item ++ had ELSE had
  <2>1. Client["uploadArtifactContent"].verb = "POST"
    BY ArtifactVerbs
  <2>2. After("uploadArtifactContent", had, item, outcome) = IF Done(outcome) THEN item ++ had ELSE had
    BY <2>1, AfterVerb
  <2> QED
    BY <1>4, <2>2
<1>7. /\ DOMAIN (item ++ had) = DOMAIN had \cup {r.id} /\ (item ++ had)[r.id] = TRUE
      /\ \A x \in DOMAIN had \ {r.id} : (item ++ had)[x] = had[x]
  <2>1. DOMAIN (item ++ had) = DOMAIN had \cup {r.id}
    BY <1>3, Zenon DEF Item, ++
  <2>2. (item ++ had)[r.id] = TRUE
    BY <1>3, Zenon DEF Item, ++
  <2>3. \A x \in DOMAIN had \ {r.id} : (item ++ had)[x] = had[x]
    BY <1>3, Zenon DEF Item, ++
  <2> QED
    BY <2>1, <2>2, <2>3
<1>8. DataHolds'
  BY <1>2, <1>4, <1>5, <1>6, <1>7 DEF DataHolds, IsRows
<1>9. ASSUME NEW x, Evident(x)  PROVE Evident(x)'
  <2>1. CASE Done(outcome) /\ x = r.id
    BY <1>4, <1>6, <1>7, <1>9, <2>1 DEF Evident
  <2>2. CASE ~(Done(outcome) /\ x = r.id)
    <3>1. x \in DOMAIN artifacts' => x \in DOMAIN had /\ artifacts'[x] = had[x]
      BY <1>4, <1>6, <1>7, <2>2
    <3> QED
      BY <1>2, <1>4, <1>9, <3>1 DEF Evident
  <2> QED
    BY <2>1, <2>2
<1>10. PICK p : p = page[t]
  OBVIOUS
<1>11. PageHolds(p, Made) /\ EvidenceHolds(p) /\ TodoHolds(p.job) /\ p.job.do # "none"
       /\ GivenHolds(p)
       /\ DOMAIN r = DOMAIN Idle /\ r.do = p.job.do /\ r.given = p.job.given
       /\ r.row = p.job.row /\ r.id = p.job.id /\ r.todo = Tail(p.job.todo)
       /\ r.key \in Nat /\ page[t].job.todo # <<"mail">>
  BY <1>1, <1>4, <1>10, NextCall DEF PageHolds
<1>12. Head(p.job.todo) = "upload"
  BY <1>4, <1>10 DEF Todo
<1>13. \/ r.do = "drop" /\ FilesLeft(r.todo) /\ r.todo # <<>>
       \/ r.do = "artifact" /\ r.todo \in Seq({"create", "upload", "update", "delete"})
  BY <1>11, <1>12, TodoGoesOn
<1>14. r.do = "drop" => Head(r.todo) # "upload"
  BY <1>11, <1>12, TodoGoesOn
<1>15. PICK j : j = Linked(r)
  OBVIOUS
<1>16. j.todo = r.todo
  <2>1. CASE r.do = "drop" /\ r.given[r.row] = "plain"
    <3>1. j = [r EXCEPT !.given[r.row] = r.id]
      BY <1>15, <2>1 DEF Linked
    <3> QED
      BY <1>11, <3>1 DEF Idle
  <2>2. CASE ~(r.do = "drop" /\ r.given[r.row] = "plain")
    BY <1>15, <2>2 DEF Linked
  <2> QED
    BY <2>1, <2>2
<1>17. ASSUME NEW q, ~Throws(outcome), j.todo # <<>>,
              q.at = page[t].at /\ q.shown = page[t].shown /\ q.draft = page[t].draft,
              q.touched = page[t].touched /\ q.options = page[t].options,
              q.next = page[t].next /\ q.dirty = page[t].dirty,
              DOMAIN q = DOMAIN page[t] /\ q.job = j
       PROVE  PageHolds(q, Made) /\ EvidenceHolds(q)'
  <2>1. Done(outcome) /\ r.id \in DOMAIN had /\ r.id \in Ids /\ r.id \notin unused
    BY <1>2, <1>4, <1>5, <1>17 DEF Throws, Done, DataHolds
  <2>2. /\ j.do = r.do /\ j.id = r.id /\ DOMAIN j = DOMAIN Idle /\ GivenHolds(q) /\ j.key = r.key
        /\ \/ j.row = p.job.row /\ j.given = p.job.given
           \/ j.row \in DOMAIN j.given /\ j.given[j.row] = r.id
    BY <1>10, <1>11, <1>13, <1>15, <1>17, <2>1, LinkedJob
  <2>3. TodoHolds(j)
    BY <1>13, <1>14, <1>16, <1>17, <2>2 DEF TodoHolds
  <2>4. PageHolds(q, Made)
    BY <1>4, <1>10, <1>11, <1>13, <1>17, <2>2, <2>3, GoesOn
  <2>5. Evident(r.id)'
    BY <1>4, <1>6, <1>7, <2>1 DEF Evident
  <2>6. EvidenceHolds(q)'
    <3>1. CASE j.row = p.job.row /\ j.given = p.job.given
      <4>1. EvidenceHolds(q)
        BY <1>10, <1>11, <1>17, <2>2, <3>1 DEF EvidenceHolds
      <4> QED
        BY <1>9, <4>1, EvidenceKept
    <3>2. CASE j.given[j.row] = r.id
      BY <1>17, <2>5, <3>2 DEF EvidenceHolds
    <3> QED
      BY <2>2, <3>1, <3>2
  <2> QED
    BY <2>4, <2>6
<1>18. Continued(t, outcome, j)
  BY <1>4, <1>15
<1> QED
  BY <1>4, <1>8, <1>9, <1>11, <1>17, <1>18, CallOver

(* A call that changes one of the artifacts that are there, or takes it    *)
(* out, for a page about artifacts.                                        *)
LEMMA ArtifactCallHolds ==
  ASSUME PagesInv, NEW t \in Tabs, NEW outcome \in Outcomes, Waiting(t),
         Todo(t) \in {"update", "delete"}, Continued(t, outcome, RestOf(t)),
         DOMAIN artifacts' \subseteq DOMAIN artifacts,
         \A x \in DOMAIN artifacts' : artifacts'[x] = artifacts[x],
         UNCHANGED <<lists, unused, nda, acts>>, UNCHANGED deskVars
  PROVE  PagesInv'
<1>1. PICK j : j = RestOf(t)
  OBVIOUS
<1>2. PICK p : p = page[t]
  OBVIOUS
<1>3. DataHolds'
  BY DEF PagesInv, DataHolds, IsRows
<1>4. \A id : Evident(id) => Evident(id)'
  BY DEF Evident
<1>5. PageHolds(p, Made) /\ EvidenceHolds(p) /\ TodoHolds(p.job) /\ p.job.do # "none"
      /\ DOMAIN j = DOMAIN Idle /\ j.do = p.job.do /\ j.given = p.job.given
      /\ j.row = p.job.row /\ j.todo = Tail(p.job.todo) /\ page[t].job.todo # <<"mail">>
      /\ j.key \in Nat
  BY <1>1, <1>2, NextCall
<1>6. Head(p.job.todo) \in {"update", "delete"}
  BY <1>2 DEF Todo
<1>7. j.do = "artifact" /\ j.todo \in Seq({"create", "upload", "update", "delete"})
  BY <1>5, <1>6, TodoGoesOn
<1>8. ASSUME NEW q, ~Throws(outcome), j.todo # <<>>,
             q.at = page[t].at /\ q.shown = page[t].shown /\ q.draft = page[t].draft,
             q.touched = page[t].touched /\ q.options = page[t].options,
             q.next = page[t].next /\ q.dirty = page[t].dirty,
             DOMAIN q = DOMAIN page[t] /\ q.job = j
      PROVE  PageHolds(q, Made) /\ EvidenceHolds(q)'
  <2>1. TodoHolds(j)
    BY <1>7, <1>8 DEF TodoHolds
  <2>2. GivenHolds(q)
    BY <1>7, <1>8 DEF GivenHolds, Merges
  <2>3. PageHolds(q, Made)
    BY <1>2, <1>5, <1>7, <1>8, <2>1, <2>2, GoesOn
  <2>4. EvidenceHolds(q)'
    BY <1>7, <1>8 DEF EvidenceHolds
  <2> QED
    BY <2>3, <2>4
<1>9. Continued(t, outcome, j)
  BY <1>1
<1> QED
  BY <1>3, <1>4, <1>5, <1>8, <1>9, CallOver

LEMMA RemoveHolds ==
  ASSUME PagesInv, NEW t \in Tabs, NEW outcome \in Outcomes, RemoveArtifact(t, outcome),
         UNCHANGED deskVars
  PROVE  PagesInv'
<1>1. PICK had : had = artifacts
  OBVIOUS
<1>2. PICK item : item = Item(RestOf(t).id, TRUE)
  OBVIOUS
<1>3. /\ Waiting(t) /\ Todo(t) = "delete" /\ UNCHANGED <<lists, unused, nda, acts>>
      /\ artifacts' = After("deleteArtifact", had, item, outcome)
      /\ Continued(t, outcome, RestOf(t))
  BY <1>1, <1>2 DEF RemoveArtifact
<1>4. artifacts' = IF Done(outcome) THEN [x \in DOMAIN had \ DOMAIN item |-> had[x]] ELSE had
  <2>1. Client["deleteArtifact"].verb = "DELETE"
    BY ArtifactVerbs
  <2>2. After("deleteArtifact", had, item, outcome) = IF Done(outcome) THEN [x \in DOMAIN had \ DOMAIN item |-> had[x]] ELSE had
    BY <2>1, AfterVerb
  <2> QED
    BY <1>3, <2>2
<1>5. /\ DOMAIN artifacts' \subseteq DOMAIN artifacts
      /\ \A x \in DOMAIN artifacts' : artifacts'[x] = artifacts[x]
  BY <1>1, <1>4
<1> QED
  BY <1>3, <1>5, ArtifactCallHolds

LEMMA UpdateHolds ==
  ASSUME PagesInv, NEW t \in Tabs, NEW outcome \in Outcomes, UpdateArtifact(t, outcome),
         UNCHANGED deskVars
  PROVE  PagesInv'
<1>1. PICK had : had = artifacts
  OBVIOUS
<1>2. PICK details : details = [id \in {RestOf(t).id} \cap DOMAIN artifacts |-> artifacts[id]]
  OBVIOUS
<1>3. /\ Waiting(t) /\ Todo(t) = "update" /\ UNCHANGED <<lists, unused, nda, acts>>
      /\ artifacts' = After("updateArtifact", had, details, outcome)
      /\ Continued(t, outcome, RestOf(t))
  BY <1>1, <1>2 DEF UpdateArtifact
<1>4. artifacts' = IF Done(outcome) THEN details ++ had ELSE had
  <2>1. Client["updateArtifact"].verb = "PATCH"
    BY ArtifactVerbs
  <2>2. After("updateArtifact", had, details, outcome) = IF Done(outcome) THEN details ++ had ELSE had
    BY <2>1, AfterVerb
  <2> QED
    BY <1>3, <2>2
<1>5. DOMAIN details \subseteq DOMAIN had /\ \A x \in DOMAIN details : details[x] = had[x]
  BY <1>1, <1>2
<1>6. DOMAIN (details ++ had) = DOMAIN had /\ \A x \in DOMAIN had : (details ++ had)[x] = had[x]
  BY <1>5, Behind
<1>7. /\ DOMAIN artifacts' \subseteq DOMAIN artifacts
      /\ \A x \in DOMAIN artifacts' : artifacts'[x] = artifacts[x]
  BY <1>1, <1>4, <1>6
<1> QED
  BY <1>3, <1>7, ArtifactCallHolds

LEMMA OwnerHolds ==
  ASSUME PagesInv, NEW t \in Tabs, Owner(t) \/ OwnerCall(t)
  PROVE  PagesInv'
<1>1. UNCHANGED deskVars
  BY DEF Owner, OwnerCall
<1>2. CASE ConsoleMove(t)
  <2>1. CASE Editable(t) /\ EditMove(t)
    BY <1>1, <2>1, Edits, FormActions, DropHolds, NothingHolds DEF EditMove
  <2>2. CASE page[t].at = "none" /\ ArtifactMove(t)
    BY <1>1, <2>2, ArtifactMoves
  <2> QED
    BY <1>1, <1>2, <2>1, <2>2, MoveAbout DEF ConsoleMove
<1>3. CASE ConsoleCall(t)
  <2>1. PICK outcome \in Outcomes :
          \/ ReadList(t, outcome) \/ ReplaceList(t, outcome)
          \/ CreateArtifact(t, outcome) \/ UploadContent(t, outcome)
          \/ UpdateArtifact(t, outcome) \/ RemoveArtifact(t, outcome)
    BY <1>3 DEF ConsoleCall
  <2> QED
    BY <1>1, <2>1, ReadHolds, ReplaceHolds, CreateHolds, UploadHolds, UpdateHolds, RemoveHolds
<1> QED
  BY <1>2, <1>3 DEF Owner, OwnerCall

-----------------------------------------------------------------------------
(* The Requests page.  A decision begins.                                  *)
LEMMA DecidingHolds ==
  ASSUME PagesInv, NEW t \in Tabs, NEW r \in Made, NEW do \in {"approve", "deny", "revoke"},
         NEW todo, NEW ids, Deciding(t, r, do, todo, ids), page[t].at = "requests",
         do = "approve" => ids \subseteq Ids,
         todo = IF do = "revoke" THEN <<"revoke">> ELSE <<"contact", do, "mail">>
  PROVE  PagesInv'
<1>1. PICK q : q = page'[t]
  OBVIOUS
<1>2. Becomes(t, q)
  BY <1>1 DEF PagesInv, Becomes, Deciding
<1>3. DOMAIN page[t] = DOMAIN Nowhere /\ ~Waiting(t) /\ page[t].next = "none"
  BY NotSections DEF PagesInv, PageHolds, Deciding
<1>4. q.job = [Idle EXCEPT !.do = do, !.todo = todo, !.given = ids, !.row = r]
  BY <1>1, <1>3 DEF PagesInv, Deciding, Nowhere
<1>5. /\ q.at = page[t].at /\ q.shown = page[t].shown /\ q.draft = page[t].draft
      /\ q.touched = page[t].touched /\ q.options = page[t].options /\ q.next = page[t].next
      /\ q.dirty = page[t].dirty /\ DOMAIN q = DOMAIN page[t]
  BY <1>1, <1>3 DEF PagesInv, Deciding, Nowhere
<1>6. q.job.do = do /\ q.job.todo = todo /\ q.job.given = ids /\ q.job.row = r
      /\ q.job.id # "nobody" /\ q.job.key = 0 /\ DOMAIN q.job = DOMAIN Idle
  BY <1>4 DEF Idle
<1>7. TodoHolds(q.job)
  BY <1>6 DEF TodoHolds
<1>8. GivenHolds(q) /\ EvidenceHolds(q)
  BY <1>6 DEF GivenHolds, EvidenceHolds, Merges
<1>9. q.at \in Place(q.job.do)
  BY <1>5, <1>6 DEF Place
<1>10. Counted /\ UNCHANGED <<lists, network, deskVars>>
  BY DEF Deciding
<1> QED
  BY <1>2, <1>3, <1>5, <1>6, <1>7, <1>8, <1>9, <1>10, JobStarts

LEMMA ReviewerMoves ==
  ASSUME PagesInv, NEW t \in Tabs, ReviewerMove(t)
  PROVE  PagesInv'
<1>1. CASE OpenRequests(t)
  <2>1. PICK requests : requests = asked
    OBVIOUS
  <2>2. PICK q : q = RequestsPage(requests)
    OBVIOUS
  <2>3. Becomes(t, q) /\ Counted /\ UNCHANGED <<lists, network, deskVars>> /\ ~Waiting(t)
    BY <1>1, <2>1, <2>2 DEF PagesInv, Becomes, OpenRequests
  <2>4. PageHolds(q, Made) /\ EvidenceHolds(q)
    BY <2>2, EmptyPages DEF PagesInv
  <2>5. page[t].job.todo # <<"mail">>
    BY <2>3, NotWaiting
  <2> QED
    BY <2>3, <2>4, <2>5, QuietStep
<1>2. page[t].options \subseteq Ids
  BY DEF PagesInv, PageHolds
<1>3. ASSUME NEW r \in Made, NEW ticked, ticked \subseteq Ids, ApproveKey(t, r, ticked)
      PROVE  PagesInv'
  <2>1. page[t].at = "requests"
        /\ Deciding(t, r, "approve", <<"contact", "approve", "mail">>, ticked)
    BY <1>3 DEF ApproveKey, Pending
  <2> QED
    BY <1>3, <2>1, DecidingHolds
<1>4. ASSUME NEW r \in Made, DenyKey(t, r)  PROVE PagesInv'
  <2>1. page[t].at = "requests" /\ Deciding(t, r, "deny", <<"contact", "deny", "mail">>, {})
    BY <1>4 DEF DenyKey, Pending
  <2> QED
    BY <2>1, DecidingHolds
<1>5. ASSUME NEW r \in Made, RevokeKey(t, r)  PROVE PagesInv'
  <2>1. page[t].at = "requests" /\ Deciding(t, r, "revoke", <<"revoke">>, {})
    BY <1>5 DEF RevokeKey, Issued
  <2> QED
    BY <2>1, DecidingHolds
<1>6. ASSUME NEW r \in Made, NEW level, ApplyRecommendation(t, r, level)  PROVE PagesInv'
  <2>1. ApproveKey(t, r, {}) \/ DenyKey(t, r)
    BY <1>6 DEF ApplyRecommendation
  <2> QED
    BY <1>3, <1>4, <2>1
<1> QED
  BY <1>1, <1>2, <1>3, <1>4, <1>5, <1>6 DEF ReviewerMove

(* A decision goes on with job, or is over. *)
LEMMA WentHolds ==
  ASSUME PagesInv, NEW t \in Tabs, Waiting(t), NEW outcome, NEW job, NEW requests,
         Went(t, outcome, job, requests), DOMAIN job = DOMAIN Idle,
         job.do = page[t].job.do, job.do \in {"approve", "deny", "revoke"},
         job.given = page[t].job.given, job.row = page[t].job.row, job.key \in Nat,
         job.todo # <<>> => TodoHolds(job), NEW q, q = page'[t]
  PROVE  /\ Becomes(t, q) /\ PageHolds(q, Made) /\ EvidenceHolds(q)
         /\ ~Throws(outcome) /\ job.todo # <<>> => q.job = job
<1>1. Becomes(t, q)
  BY DEF PagesInv, Becomes, Went
<1>2. PICK p : p = page[t]
  OBVIOUS
<1>3. PageHolds(p, Made) /\ p.job.do # "none" /\ DOMAIN p = DOMAIN Nowhere
  BY <1>2, NextCall
<1>4. q = IF Throws(outcome) THEN Broken
          ELSE IF job.todo = <<>> THEN RequestsPage(requests)
          ELSE [p EXCEPT !.job = job]
  BY <1>2 DEF PagesInv, Went
<1>5. CASE Throws(outcome)
  <2>1. q = Broken
    BY <1>4, <1>5
  <2> QED
    BY <1>1, <1>5, <2>1, EmptyPages
<1>6. CASE ~Throws(outcome) /\ job.todo = <<>>
  <2>1. q = RequestsPage(requests)
    BY <1>4, <1>6
  <2> QED
    BY <1>1, <1>6, <2>1, EmptyPages DEF PagesInv
<1>7. CASE ~Throws(outcome) /\ job.todo # <<>>
  <2>1. q = [p EXCEPT !.job = job]
    BY <1>4, <1>7
  <2>2. /\ q.at = p.at /\ q.shown = p.shown /\ q.draft = p.draft /\ q.touched = p.touched
        /\ q.options = p.options /\ q.next = p.next /\ q.dirty = p.dirty
        /\ DOMAIN q = DOMAIN p /\ q.job = job
    BY <1>3, <2>1 DEF Nowhere
  <2>3. GivenHolds(q) /\ EvidenceHolds(q)
    BY <2>2 DEF GivenHolds, EvidenceHolds, Merges
  <2>4. FormHolds(p) => FormHolds(q)
    BY <1>2, <1>3, <2>2 DEF FormHolds
  <2>5. PageHolds(q, Made)
    BY <1>2, <1>3, <1>7, <2>2, <2>3, <2>4 DEF PageHolds
  <2> QED
    BY <1>1, <1>7, <2>2, <2>3, <2>5
<1> QED
  BY <1>5, <1>6, <1>7

(* The call a decision makes next, and what it has left afterwards. *)
LEMMA NextDecision ==
  ASSUME PagesInv, NEW t \in Tabs, Waiting(t),
         Todo(t) \in {"contact", "approve", "deny", "revoke", "mail"},
         NEW j, j = page[t].job, NEW r, r = RestOf(t)
  PROVE  /\ DOMAIN r = DOMAIN Idle /\ r.do = j.do /\ r.given = j.given /\ r.row = j.row
         /\ r.id = j.id /\ r.key = j.key /\ r.key \in Nat /\ r.todo = Tail(j.todo)
         /\ j.do \in {"approve", "deny", "revoke"}
         /\ j.do \in {"approve", "deny"} => j.row \in Made
         /\ j.do = "approve" => j.given \subseteq Ids
         /\ Todo(t) \in {"approve", "deny"} => j.do = Todo(t)
         /\ Todo(t) = "contact" => j.do \in {"approve", "deny"}
         /\ r.todo # <<>> => TodoHolds(r)
         /\ Todo(t) = "approve" =>
              \/ r.todo = <<"mail">> /\ r.id # "nobody"
              \/ r.todo = <<>> /\ r.id = "nobody"
         /\ Todo(t) # "mail" => j.todo # <<"mail">>
<1>1. /\ TodoHolds(j) /\ j.do # "none" /\ PageHolds(page[t], Made)
      /\ DOMAIN r = DOMAIN Idle /\ r.do = j.do /\ r.given = j.given /\ r.row = j.row
      /\ r.id = j.id /\ r.key = j.key /\ r.key \in Nat /\ r.todo = Tail(j.todo)
      /\ j.todo = <<"mail">> => Todo(t) = "mail"
  BY NextCall
<1>2. Head(j.todo) = Todo(t)
  BY DEF Todo
<1>3. /\ Todo(t) = "contact" =>
           j.do \in {"approve", "deny"} /\ j.id # "nobody" /\ r.todo = <<j.do, "mail">>
      /\ Todo(t) \in {"approve", "deny"} =>
           /\ j.do = Todo(t)
           /\ \/ r.todo = <<"mail">> /\ j.id # "nobody"
              \/ r.todo = <<>> /\ j.id = "nobody"
      /\ Todo(t) = "revoke" => j.do = "revoke" /\ r.todo = <<>>
      /\ Todo(t) = "mail" => j.do \in {"approve", "deny"} /\ r.todo = <<>>
  BY <1>1, <1>2, TodoGoesOn
<1>4. r.todo # <<>> => TodoHolds(r)
  BY <1>1, <1>3 DEF TodoHolds
<1>5. /\ j.do \in {"approve", "deny"} => j.row \in Made
      /\ j.do = "approve" => j.given \subseteq Ids
  BY <1>1 DEF PageHolds
<1> QED
  BY <1>1, <1>3, <1>4, <1>5

(* A key is accounted for after a step of one page, when the step accounts *)
(* for the key in the mail that the page sends, and for the keys it makes. *)
LEMMA KeysStay ==
  ASSUME PagesInv, NEW t \in Tabs, NEW q, Becomes(t, q), UNCHANGED site,
         held \subseteq held', lost \subseteq lost',
         \A no : page[t].job.do = "approve" /\ page[t].job.key = no
                 /\ page[t].job.todo = <<"mail">> => Accounted(no)',
         \A k \in keys' \ keys : \A no : no = k.no => Accounted(no)'
  PROVE  KeyReachesRequester'
<1>1. \A x \in Tabs : x # t => page'[x] = page[x]
  BY DEF Becomes
<1>2. ASSUME NEW no, OnItsWay(no)  PROVE Accounted(no)'
  <2>1. CASE page[t].job.do = "approve" /\ page[t].job.key = no /\ page[t].job.todo = <<"mail">>
    BY <2>1
  <2>2. CASE ~(page[t].job.do = "approve" /\ page[t].job.key = no /\ page[t].job.todo = <<"mail">>)
    <3>1. OnItsWay(no)'
      BY <1>1, <1>2, <2>2 DEF OnItsWay, Called
    <3> QED
      BY <3>1 DEF Accounted
  <2> QED
    BY <2>1, <2>2
<1>3. ASSUME NEW no, Accounted(no)  PROVE Accounted(no)'
  <2>1. CASE no \in held \/ \E why \in Losses : <<no, why>> \in lost
    BY <2>1 DEF Accounted
  <2> QED
    BY <1>2, <1>3, <2>1 DEF Accounted
<1>4. ASSUME NEW k \in keys'  PROVE Accounted(k.no)'
  <2>1. PICK no : no = k.no
    OBVIOUS
  <2>2. Accounted(no)'
    <3>1. CASE k \in keys
      <4>1. Accounted(no)
        BY <2>1, <3>1 DEF PagesInv, KeyReachesRequester
      <4> QED
        BY <1>3, <4>1
    <3>2. CASE k \notin keys
      BY <2>1, <3>2
    <3> QED
      BY <3>1, <3>2
  <2> QED
    BY <2>1, <2>2 DEF Accounted, OnItsWay
<1> QED
  BY <1>4 DEF KeyReachesRequester

LEMMA DeskStep ==
  ASSUME PagesInv, NEW t \in Tabs, NEW q, Becomes(t, q), PageHolds(q, Made),
         EvidenceHolds(q), UNCHANGED <<lists, network, acts, site>>, Made' = Made,
         DeskHolds', KeyReachesRequester'
  PROVE  PagesInv'
<1>1. UNCHANGED <<lists, artifacts, unused, nda, acts>>
  BY DEF network
<1>2. \A id : Evident(id) => Evident(id)'
  BY <1>1 DEF Evident
<1>3. EvidenceHolds(q)'
  BY <1>2, EvidenceKept
<1>4. DataHolds'
  BY <1>1 DEF PagesInv, DataHolds
<1>5. DOMAIN page' = Tabs /\ \A x \in Tabs : PageHolds(page[x], Made)' /\ EvidenceHolds(page[x])'
  BY <1>2, <1>3, PagesKept
<1>6. DOMAIN site' = Visitors /\ \A v \in Visitors : SiteHolds(site[v])'
  BY SitesKept
<1> QED
  BY <1>4, <1>5, <1>6 DEF PagesInv

(* Finding out whom to write to, a denial and a revocation make no key. *)
LEMMA DenyHolds ==
  ASSUME PagesInv, NEW t \in Tabs, NEW outcome \in Outcomes, NEW named \in BOOLEAN,
         FindContact(t, outcome, named) \/ Deny(t, outcome) \/ Revoke(t, outcome)
  PROVE  PagesInv'
<1>1. PICK q : q = page'[t]
  OBVIOUS
<1>2. PICK requests : requests = IF Deny(t, outcome) THEN asked' ELSE asked
  OBVIOUS
<1>3. /\ Waiting(t) /\ Todo(t) \in {"contact", "deny", "revoke"}
      /\ UNCHANGED <<lists, network, acts, minted, site, held, lost>>
  BY DEF FindContact, Deny, Revoke, deskVars
<1>4. PICK r : r = RestOf(t)
  OBVIOUS
<1>5. PICK j : j = page[t].job
  OBVIOUS
<1>6. /\ DOMAIN r = DOMAIN Idle /\ r.do = j.do /\ r.given = j.given /\ r.row = j.row
      /\ r.key \in Nat /\ j.do \in {"approve", "deny", "revoke"}
      /\ j.do \in {"approve", "deny"} => j.row \in Made
      /\ Todo(t) \in {"approve", "deny"} => j.do = Todo(t)
      /\ Todo(t) = "contact" => j.do \in {"approve", "deny"}
      /\ r.todo # <<>> => TodoHolds(r)
      /\ j.todo # <<"mail">>
  BY <1>3, <1>4, <1>5, NextDecision
<1>7. PICK quiet : quiet = [r EXCEPT !.todo = <<j.do>>, !.id = "nobody"]
  OBVIOUS
<1>8. /\ DOMAIN quiet = DOMAIN Idle /\ quiet.do = j.do /\ quiet.given = j.given
      /\ quiet.row = j.row /\ quiet.key \in Nat /\ quiet.todo = <<j.do>> /\ quiet.id = "nobody"
  BY <1>6, <1>7 DEF Idle
<1>9. ASSUME Todo(t) = "contact"  PROVE TodoHolds(quiet)
  BY <1>6, <1>8, <1>9 DEF TodoHolds
<1>10. Becomes(t, q) /\ PageHolds(q, Made) /\ EvidenceHolds(q)
  <2>1. CASE Went(t, outcome, r, requests)
    BY <1>1, <1>3, <1>5, <1>6, <2>1, WentHolds
  <2>2. CASE Todo(t) = "contact" /\ Went(t, outcome, quiet, requests)
    BY <1>1, <1>3, <1>5, <1>6, <1>8, <1>9, <2>2, WentHolds
  <2>3. Deny(t, outcome) => Went(t, outcome, r, requests)
    BY <1>2, <1>4 DEF Deny
  <2>4. ~Deny(t, outcome) /\ Revoke(t, outcome) => Went(t, outcome, r, requests)
    BY <1>2, <1>4 DEF Revoke
  <2>5. ~Deny(t, outcome) /\ FindContact(t, outcome, named) =>
          \/ Went(t, outcome, r, requests)
          \/ Todo(t) = "contact" /\ Went(t, outcome, quiet, requests)
    BY <1>2, <1>4, <1>5, <1>7 DEF FindContact
  <2> QED
    BY <2>1, <2>2, <2>3, <2>4, <2>5
<1>11. keys' \subseteq keys
  BY DEF FindContact, Deny, Revoke, deskVars
<1>12. asked' = asked \/ (j.row \in Made /\ asked' = [asked EXCEPT ![j.row].status = "denied"])
  <2>1. CASE Deny(t, outcome)
    <3>1. Todo(t) = "deny"
      BY <2>1 DEF Deny
    <3> QED
      BY <1>5, <1>6, <2>1, <3>1 DEF Deny, Decided
  <2>2. CASE ~Deny(t, outcome)
    BY <2>2 DEF FindContact, Revoke, deskVars
  <2> QED
    BY <2>1, <2>2
<1>13. Made' = Made
  BY <1>12 DEF Made
<1>14. \A x \in Made : DOMAIN asked'[x] = DOMAIN asked[x] /\ asked'[x].wish = asked[x].wish
  BY <1>12 DEF PagesInv, DeskHolds, Made
<1>15. DeskHolds'
  <2>1. DeskHolds
    BY DEF PagesInv
  <2>2. GrantStaysNarrow'
    BY <1>11, <1>14, <2>1 DEF DeskHolds, GrantStaysNarrow
  <2>3. \A x \in Made : DOMAIN asked'[x] = {"by", "wish", "status"} /\ asked'[x].wish \subseteq Ids
    BY <1>14, <2>1 DEF DeskHolds
  <2> QED
    BY <1>3, <1>11, <1>13, <2>1, <2>2, <2>3 DEF DeskHolds
<1>16. KeyReachesRequester'
  BY <1>3, <1>5, <1>6, <1>10, <1>11, KeysStay
<1> QED
  BY <1>3, <1>10, <1>13, <1>15, <1>16, DeskStep

LEMMA ApproveHolds ==
  ASSUME PagesInv, NEW t \in Tabs, NEW outcome \in Outcomes, Approve(t, outcome)
  PROVE  PagesInv'
<1>1. PICK q : q = page'[t]
  OBVIOUS
<1>2. PICK requests : requests = asked'
  OBVIOUS
<1>3. PICK j : j = page[t].job
  OBVIOUS
<1>4. PICK r : r = RestOf(t)
  OBVIOUS
<1>5. PICK no : no = minted + 1
  OBVIOUS
<1>6. PICK key : key = [no |-> no, req |-> j.row, ids |-> Opened(j.given, asked[j.row].wish),
                        by |-> "reviewer"]
  OBVIOUS
<1>7. PICK job : job = [r EXCEPT !.key = no]
  OBVIOUS
<1>8. key = NewKey(j.row, Opened(j.given, asked[j.row].wish), "reviewer") /\ key.no = no
  BY <1>5, <1>6 DEF NewKey
<1>9. /\ Waiting(t) /\ Todo(t) = "approve"
      /\ UNCHANGED <<lists, network, acts, site, held>>
      /\ IF Done(outcome)
         THEN asked' = Decided(j.row, "granted") /\ keys' = keys \cup {key} /\ minted' = no
         ELSE UNCHANGED <<asked, keys, minted>>
      /\ lost' = CASE outcome = "unheard" -> lost \cup {<<no, "unheard">>}
                  [] outcome = "answered" /\ j.id = "nobody" -> lost \cup {<<no, "unaddressed">>}
                  [] OTHER -> lost
  BY <1>3, <1>8 DEF Approve
<1>10. Went(t, outcome, job, requests)
  BY <1>2, <1>3, <1>4, <1>7, <1>8 DEF Approve
<1>11. /\ DOMAIN r = DOMAIN Idle /\ r.do = j.do /\ r.given = j.given /\ r.row = j.row
       /\ r.id = j.id /\ j.do = "approve" /\ j.row \in Made /\ j.given \subseteq Ids
       /\ \/ r.todo = <<"mail">> /\ r.id # "nobody"
          \/ r.todo = <<>> /\ r.id = "nobody"
       /\ j.todo # <<"mail">>
  BY <1>3, <1>4, <1>9, NextDecision
<1>12. DeskHolds
  BY DEF PagesInv
<1>13. minted \in Nat /\ no \in Nat /\ no \in 1 .. no /\ 1 .. minted \subseteq 1 .. no
  BY <1>5, <1>12 DEF DeskHolds
<1>14. /\ DOMAIN job = DOMAIN Idle /\ job.do = j.do /\ job.given = j.given /\ job.row = j.row
       /\ job.todo = r.todo /\ job.id = j.id /\ job.key = no
  BY <1>7, <1>11 DEF Idle
<1>15. <<"mail">> # <<>>
  OBVIOUS
<1>16. job.todo # <<>> => TodoHolds(job)
  BY <1>11, <1>14, <1>15 DEF TodoHolds
<1>17. /\ Becomes(t, q) /\ PageHolds(q, Made) /\ EvidenceHolds(q)
       /\ ~Throws(outcome) /\ job.todo # <<>> => q.job = job
  BY <1>1, <1>3, <1>9, <1>10, <1>11, <1>13, <1>14, <1>16, WentHolds
<1>18. asked' = asked \/ asked' = [asked EXCEPT ![j.row].status = "granted"]
  BY <1>9 DEF Decided
<1>19. Made' = Made
  BY <1>18 DEF Made
<1>20. \A x \in Made : DOMAIN asked'[x] = DOMAIN asked[x] /\ asked'[x].wish = asked[x].wish
  BY <1>18 DEF PagesInv, DeskHolds, Made
<1>21. /\ \/ UNCHANGED <<keys, minted>>
          \/ keys' = keys \cup {key} /\ minted' = no
       /\ lost \subseteq lost' /\ lost' \subseteq lost \cup ({no} \X Losses)
  BY <1>9 DEF Losses
<1>22. key.req = j.row /\ key.ids \subseteq Ids /\ (key.ids = {} => asked[j.row].wish = {})
  BY <1>6, <1>11, <1>12 DEF Opened, DeskHolds
<1>23. DeskHolds'
  <2>1. \A x \in Made : DOMAIN asked'[x] = {"by", "wish", "status"} /\ asked'[x].wish \subseteq Ids
    BY <1>12, <1>20 DEF DeskHolds
  <2>2. \A k \in keys' :
          /\ k.no \in 1 .. minted' /\ k.req \in Made /\ k.ids \subseteq Ids
          /\ k.ids = {} => asked'[k.req].wish = {}
    BY <1>8, <1>11, <1>12, <1>13, <1>20, <1>21, <1>22 DEF DeskHolds, GrantStaysNarrow
  <2>3. minted' \in Nat /\ held' \subseteq Nat /\ lost' \subseteq Nat \X Losses
    BY <1>9, <1>12, <1>13, <1>21 DEF DeskHolds
  <2>4. GrantStaysNarrow'
    BY <2>2 DEF GrantStaysNarrow
  <2> QED
    BY <1>12, <1>19, <2>1, <2>2, <2>3, <2>4 DEF DeskHolds
<1>24. Done(outcome) => Accounted(no)'
  <2>1. CASE outcome = "unheard"
    BY <1>9, <2>1 DEF Accounted, Losses
  <2>2. CASE outcome = "answered" /\ j.id = "nobody"
    <3>1. <<no, "unaddressed">> \in lost'
      BY <1>9, <2>2
    <3> QED
      BY <3>1 DEF Accounted, Losses
  <2>3. CASE outcome = "answered" /\ j.id # "nobody"
    <3>1. job.todo = <<"mail">> /\ ~Throws(outcome)
      BY <1>11, <1>14, <2>3 DEF Throws
    <3>2. q.job.do = "approve" /\ q.job.key = no /\ q.job.todo = <<"mail">>
      BY <1>11, <1>14, <1>15, <1>17, <3>1
    <3>3. OnItsWay(no)'
      BY <1>1, <3>2 DEF OnItsWay
    <3> QED
      BY <3>3 DEF Accounted
  <2> QED
    BY <2>1, <2>2, <2>3 DEF Done
<1>25. \A k \in keys' \ keys : \A x : x = k.no => Accounted(x)'
  <2>1. keys' # keys => Done(outcome)
    BY <1>9
  <2>2. \A k \in keys' \ keys : k.no = no
    BY <1>8, <1>21
  <2> QED
    BY <1>24, <2>1, <2>2
<1>26. KeyReachesRequester'
  BY <1>3, <1>9, <1>11, <1>17, <1>21, <1>25, KeysStay
<1> QED
  BY <1>9, <1>17, <1>19, <1>23, <1>26, DeskStep

LEMMA MailHolds ==
  ASSUME PagesInv, NEW t \in Tabs, NEW outcome \in Outcomes \cup {"skipped"}, SendMail(t, outcome)
  PROVE  PagesInv'
<1>1. PICK q : q = page'[t]
  OBVIOUS
<1>2. PICK requests : requests = asked
  OBVIOUS
<1>3. PICK j : j = page[t].job
  OBVIOUS
<1>4. PICK no : no = j.key
  OBVIOUS
<1>5. PICK r : r = RestOf(t)
  OBVIOUS
<1>6. PICK heard : heard = IF outcome = "skipped" THEN "answered" ELSE outcome
  OBVIOUS
<1>7. /\ Waiting(t) /\ Todo(t) = "mail"
      /\ held' = IF j.do = "approve" /\ Done(outcome) THEN held \cup {no} ELSE held
      /\ lost' = IF j.do = "approve" /\ ~Done(outcome) THEN lost \cup {<<no, outcome>>} ELSE lost
      /\ Went(t, heard, r, requests)
      /\ UNCHANGED <<lists, network, acts, asked, keys, minted, site>>
  BY <1>2, <1>3, <1>4, <1>5, <1>6 DEF SendMail
<1>8. /\ DOMAIN r = DOMAIN Idle /\ r.do = j.do /\ r.given = j.given /\ r.row = j.row
      /\ r.key = no /\ r.key \in Nat /\ j.do \in {"approve", "deny", "revoke"}
      /\ r.todo # <<>> => TodoHolds(r)
  BY <1>3, <1>4, <1>5, <1>7, NextDecision
<1>9. Becomes(t, q) /\ PageHolds(q, Made) /\ EvidenceHolds(q)
  BY <1>1, <1>3, <1>7, <1>8, WentHolds
<1>10. Made' = Made
  BY <1>7 DEF Made
<1>11. ~Done(outcome) => outcome \in Losses
  BY DEF Done, Outcomes, Losses
<1>12. DeskHolds'
  <2>1. DeskHolds
    BY DEF PagesInv
  <2>2. held' \subseteq Nat /\ lost' \subseteq Nat \X Losses
    <3>1. held \subseteq Nat /\ lost \subseteq Nat \X Losses /\ no \in Nat
      BY <1>8, <2>1 DEF DeskHolds
    <3>2. ~Done(outcome) => <<no, outcome>> \in Nat \X Losses
      BY <1>11, <3>1
    <3> QED
      BY <1>7, <3>1, <3>2
  <2>3. GrantStaysNarrow'
    BY <1>7, <2>1 DEF DeskHolds, GrantStaysNarrow
  <2> QED
    BY <1>7, <1>10, <2>1, <2>2, <2>3 DEF DeskHolds
<1>13. ASSUME NEW x, j.do = "approve", x = no  PROVE Accounted(x)'
  BY <1>7, <1>11, <1>13 DEF Accounted
<1>14. held \subseteq held' /\ lost \subseteq lost' /\ keys' \ keys = {}
  BY <1>7
<1>15. KeyReachesRequester'
  BY <1>3, <1>4, <1>7, <1>9, <1>13, <1>14, KeysStay
<1> QED
  BY <1>7, <1>9, <1>10, <1>12, <1>15, DeskStep

LEMMA DeskCalls ==
  ASSUME PagesInv, NEW t \in Tabs, DeskCall(t)
  PROVE  PagesInv'
<1>1. CASE SendMail(t, "skipped")
  BY <1>1, MailHolds
<1>2. CASE ~SendMail(t, "skipped")
  <2>1. PICK outcome \in Outcomes :
          \/ \E named \in BOOLEAN : FindContact(t, outcome, named)
          \/ Approve(t, outcome) \/ Deny(t, outcome) \/ Revoke(t, outcome) \/ SendMail(t, outcome)
    BY <1>2 DEF DeskCall
  <2> QED
    BY <2>1, DenyHolds, ApproveHolds, MailHolds
<1> QED
  BY <1>1, <1>2

-----------------------------------------------------------------------------
(* The public page.  A step of one visitor leaves the other pages alone.   *)
LEMMA VisitorStep ==
  ASSUME PagesInv, NEW v \in Visitors, NEW s, site' = [site EXCEPT ![v] = s],
         SiteHolds(s), Made \subseteq Made', UNCHANGED <<consoleVars, network>>,
         Counted \/ UNCHANGED acts, DeskHolds', KeyReachesRequester'
  PROVE  PagesInv'
<1>1. UNCHANGED <<lists, page, artifacts, unused, nda>>
  BY DEF network, consoleVars
<1>2. DataHolds'
  BY <1>1, SdkAssumption DEF PagesInv, DataHolds, Counted
<1>3. PICK more : more = Made'
  OBVIOUS
<1>4. ASSUME NEW t \in Tabs  PROVE PageHolds(page[t], Made)' /\ EvidenceHolds(page[t])'
  <2>1. PICK p : p = page[t]
    OBVIOUS
  <2>2. PageHolds(p, Made) /\ EvidenceHolds(p) /\ page'[t] = p
    BY <1>1, <2>1 DEF PagesInv
  <2>3. PageHolds(p, more)
    <3>1. PICK made : made = Made
      OBVIOUS
    <3> QED
      BY <1>3, <2>2, <3>1, MoreMade
  <2>4. EvidenceHolds(p)'
    BY <1>1, <2>2, EvidenceKept DEF Evident
  <2>5. PageHolds(page[t], Made)'
    BY <1>3, <2>2, <2>3
  <2>6. EvidenceHolds(page[t])'
    BY <2>2, <2>4 DEF EvidenceHolds, Evident
  <2> QED
    BY <2>5, <2>6
<1>5. ASSUME NEW x \in Visitors  PROVE SiteHolds(site[x])'
  <2>1. PICK q : q = site'[x]
    OBVIOUS
  <2>2. SiteHolds(q)
    BY <2>1 DEF PagesInv
  <2> QED
    BY <2>1, <2>2 DEF SiteHolds, Sites, Callings
<1>6. DOMAIN page' = Tabs /\ DOMAIN site' = Visitors
  BY <1>1 DEF PagesInv
<1> QED
  BY <1>2, <1>4, <1>5, <1>6 DEF PagesInv

(* Every key is accounted for after a step of one visitor that accounts    *)
(* for the key in the answer under way, and for the keys it makes.         *)
LEMMA KeysGoOn ==
  ASSUME PagesInv, NEW v \in Visitors, NEW s, site' = [site EXCEPT ![v] = s],
         UNCHANGED page, held \subseteq held', lost \subseteq lost',
         \A no : site[v].calls # <<>> /\ Called(v).reply = "key" /\ Called(v).key = no
                 => Accounted(no)',
         \A k \in keys' \ keys : \A no : no = k.no => Accounted(no)'
  PROVE  KeyReachesRequester'
<1>1. \A x \in Visitors : x # v => site'[x] = site[x]
  BY DEF PagesInv
<1>2. ASSUME NEW no, OnItsWay(no)  PROVE Accounted(no)'
  <2>1. CASE site[v].calls # <<>> /\ Called(v).reply = "key" /\ Called(v).key = no
    BY <2>1
  <2>2. CASE ~(site[v].calls # <<>> /\ Called(v).reply = "key" /\ Called(v).key = no)
    <3>1. OnItsWay(no)'
      BY <1>1, <1>2, <2>2 DEF OnItsWay, Called
    <3> QED
      BY <3>1 DEF Accounted
  <2> QED
    BY <2>1, <2>2
<1>3. ASSUME NEW no, Accounted(no)  PROVE Accounted(no)'
  <2>1. CASE no \in held \/ \E why \in Losses : <<no, why>> \in lost
    BY <2>1 DEF Accounted
  <2> QED
    BY <1>2, <1>3, <2>1 DEF Accounted
<1>4. ASSUME NEW k \in keys'  PROVE Accounted(k.no)'
  <2>1. PICK no : no = k.no
    OBVIOUS
  <2>2. Accounted(no)'
    <3>1. CASE k \in keys
      <4>1. Accounted(no)
        BY <2>1, <3>1 DEF PagesInv, KeyReachesRequester
      <4> QED
        BY <1>3, <4>1
    <3>2. CASE k \notin keys
      BY <2>1, <3>2
    <3> QED
      BY <3>1, <3>2
  <2> QED
    BY <2>1, <2>2 DEF Accounted, OnItsWay
<1> QED
  BY <1>4 DEF KeyReachesRequester

(* The answer under way brings the key it brought before. *)
HeadKept(old, new) ==
  old # <<>> /\ Head(old).reply = "key" =>
    new # <<>> /\ Head(new).reply = "key" /\ Head(new).key = Head(old).key

(* A step that makes no key and brings none. *)
LEMMA QuietSite ==
  ASSUME PagesInv, NEW v \in Visitors, NEW s, site' = [site EXCEPT ![v] = s],
         SiteHolds(s), HeadKept(site[v].calls, s.calls),
         UNCHANGED <<consoleVars, network, asked, keys, minted, held, lost>>,
         Counted \/ UNCHANGED acts
  PROVE  PagesInv'
<1>1. Made' = Made /\ UNCHANGED page
  BY DEF Made, consoleVars
<1>2. DeskHolds'
  BY <1>1 DEF PagesInv, DeskHolds, GrantStaysNarrow
<1>3. site'[v] = s
  BY DEF PagesInv
<1>4. ASSUME NEW no, site[v].calls # <<>>, Called(v).reply = "key", Called(v).key = no
      PROVE  Accounted(no)'
  <2>1. s.calls # <<>> /\ Head(s.calls).reply = "key" /\ Head(s.calls).key = no
    BY <1>4 DEF HeadKept, Called
  <2>2. OnItsWay(no)'
    BY <1>3, <2>1 DEF OnItsWay, Called
  <2> QED
    BY <2>2 DEF Accounted
<1>5. KeyReachesRequester'
  BY <1>1, <1>4, KeysGoOn
<1> QED
  BY <1>1, <1>2, <1>5, VisitorStep

(* A page whose modal waits for nothing. *)
LEMMA CalmSite ==
  ASSUME NEW s \in Sites, ~s.busy, \A i \in DOMAIN s.calls : ~s.calls[i].mounted,
         \A i \in DOMAIN s.calls : s.calls[i].at = "browser" => s.calls[i].reply = "none"
  PROVE  SiteHolds(s)
  BY DEF SiteHolds

LEMMA VisitHolds ==
  ASSUME PagesInv, NEW v \in Visitors, Visit(v)
  PROVE  PagesInv'
<1>1. PICK s : s = [Away EXCEPT !.open = TRUE, !.artifacts = DOMAIN artifacts, !.nda = nda]
  OBVIOUS
<1>2. DOMAIN artifacts \subseteq Ids /\ nda \in BOOLEAN
  BY DEF PagesInv, DataHolds
<1>3. <<>> \in Seq(Callings)
  BY EmptySeq
<1>4. s \in Sites /\ s.calls = <<>> /\ ~s.busy
  BY <1>1, <1>2, <1>3 DEF Away, Sites
<1>5. SiteHolds(s)
  BY <1>4, CalmSite
<1>6. HeadKept(site[v].calls, s.calls)
  BY DEF Visit, HeadKept
<1>7. site' = [site EXCEPT ![v] = s]
  BY <1>1 DEF Visit
<1> QED
  BY <1>5, <1>6, <1>7, QuietSite DEF Visit

(* Calls that nothing waits for any more are otherwise the same. *)
LEMMA UnheededCalls ==
  ASSUME NEW calls \in Seq(Callings), NEW u, u = Unheeded(calls)
  PROVE  /\ u \in Seq(Callings) /\ DOMAIN u = DOMAIN calls /\ HeadKept(calls, u)
         /\ \A i \in DOMAIN calls :
              ~u[i].mounted /\ u[i].at = calls[i].at /\ u[i].reply = calls[i].reply
<1>1. DOMAIN calls = 1 .. Len(calls) /\ Len(calls) \in Nat
      /\ \A i \in 1 .. Len(calls) : calls[i] \in Callings
  OBVIOUS
<1>2. ASSUME NEW i \in DOMAIN calls, NEW c, c = calls[i]
      PROVE  /\ u[i] \in Callings /\ ~u[i].mounted /\ u[i].at = c.at
             /\ u[i].reply = c.reply /\ u[i].key = c.key
  <2>1. c \in Callings
    BY <1>1, <1>2
  <2>2. u[i] = [c EXCEPT !.mounted = FALSE]
    BY <1>2 DEF Unheeded
  <2> QED
    BY <2>1, <2>2 DEF Callings
<1>3. DOMAIN u = 1 .. Len(calls)
  BY <1>1 DEF Unheeded
<1>4. u \in Seq(Callings) /\ Len(u) = Len(calls)
  <2>1. u = [i \in 1 .. Len(calls) |-> u[i]]
    BY <1>1 DEF Unheeded
  <2>2. \A i \in 1 .. Len(calls) : u[i] \in Callings
    BY <1>1, <1>2
  <2>3. u \in [1 .. Len(calls) -> Callings]
    BY <2>1, <2>2
  <2> QED
    BY <1>1, <2>3
<1>5. HeadKept(calls, u)
  <2> SUFFICES ASSUME calls # <<>>
               PROVE  u # <<>> /\ Head(u).reply = Head(calls).reply /\ Head(u).key = Head(calls).key
    BY DEF HeadKept
  <2>1. 1 \in DOMAIN calls /\ Head(calls) = calls[1]
    BY <1>1
  <2>2. u # <<>> /\ Head(u) = u[1]
    BY <1>3, <1>4, <2>1
  <2> QED
    BY <1>2, <2>1, <2>2
<1> QED
  BY <1>1, <1>2, <1>3, <1>4, <1>5

(* A modal that is mounted, or unmounted, waits for nothing, and the calls *)
(* of the one it replaces are not its own.                                 *)
LEMMA MountedHolds ==
  ASSUME PagesInv, NEW v \in Visitors, NEW s, NEW modal \in {"none", "view"} \cup Forms,
         \/ s = Mounted(v, modal) /\ site[v].modal = "none"
         \/ s = [Mounted(v, modal) EXCEPT !.calls = Unheeded(@)]
  PROVE  /\ SiteHolds(s) /\ HeadKept(site[v].calls, s.calls)
         /\ s.modal = modal /\ \A i \in DOMAIN s.calls : ~s.calls[i].mounted
<1>1. PICK o : o = site[v]
  OBVIOUS
<1>2. SiteHolds(o) /\ o \in Sites /\ o.calls \in Seq(Callings)
  BY <1>1 DEF PagesInv, SiteHolds, Sites
<1>3. PICK m : m = [o EXCEPT !.modal = modal, !.busy = FALSE, !.result = "none"]
  OBVIOUS
<1>4. m = Mounted(v, modal)
  BY <1>1, <1>3 DEF Mounted
<1>5. m \in Sites /\ m.calls = o.calls /\ m.modal = modal /\ ~m.busy
  BY <1>2, <1>3 DEF Sites
<1>6. CASE s = m /\ o.modal = "none"
  <2>1. ASSUME NEW i \in DOMAIN o.calls  PROVE ~o.calls[i].mounted
    <3>1. o.calls[i] \in Callings
      BY <1>2
    <3>2. o.calls[i].kind # "none"
      BY <3>1 DEF Callings, Forms
    <3> QED
      BY <1>2, <1>6, <3>2 DEF SiteHolds
  <2>2. SiteHolds(s)
    BY <1>2, <1>5, <1>6, <2>1, CalmSite DEF SiteHolds
  <2> QED
    BY <1>1, <1>5, <1>6, <2>1, <2>2 DEF HeadKept
<1>7. CASE s = [m EXCEPT !.calls = Unheeded(@)]
  <2>1. PICK u : u = Unheeded(o.calls)
    OBVIOUS
  <2>2. /\ u \in Seq(Callings) /\ DOMAIN u = DOMAIN o.calls /\ HeadKept(o.calls, u)
        /\ \A i \in DOMAIN o.calls :
             ~u[i].mounted /\ u[i].at = o.calls[i].at /\ u[i].reply = o.calls[i].reply
    BY <1>2, <2>1, UnheededCalls
  <2>3. s = [m EXCEPT !.calls = u]
    BY <1>5, <1>7, <2>1 DEF Sites
  <2>4. s \in Sites /\ s.calls = u /\ ~s.busy /\ s.modal = modal
    BY <1>5, <2>2, <2>3 DEF Sites
  <2>5. SiteHolds(s)
    BY <1>2, <2>2, <2>4, CalmSite DEF SiteHolds
  <2> QED
    BY <1>1, <2>2, <2>4, <2>5
<1> QED
  BY <1>1, <1>4, <1>6, <1>7

LEMMA ModalMoves ==
  ASSUME PagesInv, NEW v \in Visitors
  PROVE  /\ \A modal \in Forms : OpenModal(v, modal) => PagesInv'
         /\ CloseModal(v) => PagesInv'
         /\ SwitchModal(v) => PagesInv'
<1>1. ASSUME NEW modal \in {"none"} \cup Forms, NEW s, site' = [site EXCEPT ![v] = s],
             \/ s = Mounted(v, modal) /\ site[v].modal = "none"
             \/ s = [Mounted(v, modal) EXCEPT !.calls = Unheeded(@)],
             UNCHANGED <<consoleVars, network, asked, keys, minted, held, lost>>,
             Counted \/ UNCHANGED acts
      PROVE  PagesInv'
  <2>1. SiteHolds(s) /\ HeadKept(site[v].calls, s.calls)
    BY <1>1, MountedHolds
  <2> QED
    BY <1>1, <2>1, QuietSite
<1>2. ASSUME NEW modal \in Forms, OpenModal(v, modal)  PROVE PagesInv'
  <2>1. PICK s : s = Mounted(v, modal)
    OBVIOUS
  <2>2. site' = [site EXCEPT ![v] = s] /\ site[v].modal = "none" /\ Counted
        /\ UNCHANGED <<consoleVars, network, asked, keys, minted, held, lost>>
    BY <1>2, <2>1 DEF OpenModal
  <2> QED
    BY <1>1, <2>1, <2>2
<1>3. ASSUME CloseModal(v)  PROVE PagesInv'
  <2>1. PICK s : s = [Mounted(v, "none") EXCEPT !.calls = Unheeded(@)]
    OBVIOUS
  <2>2. site' = [site EXCEPT ![v] = s]
        /\ UNCHANGED <<consoleVars, network, acts, asked, keys, minted, held, lost>>
    BY <1>3, <2>1 DEF CloseModal
  <2> QED
    BY <1>1, <2>1, <2>2
<1>4. ASSUME SwitchModal(v)  PROVE PagesInv'
  <2>1. PICK modal : modal = IF site[v].modal = "request" THEN "reclaim" ELSE "request"
    OBVIOUS
  <2>2. modal \in {"none"} \cup Forms
    BY <2>1 DEF Forms
  <2>3. PICK s : s = [Mounted(v, modal) EXCEPT !.calls = Unheeded(@)]
    OBVIOUS
  <2>4. site' = [site EXCEPT ![v] = s]
        /\ UNCHANGED <<consoleVars, network, acts, asked, keys, minted, held, lost>>
    BY <1>4, <2>1, <2>3 DEF SwitchModal
  <2> QED
    BY <1>1, <2>2, <2>3, <2>4
<1> QED
  BY <1>2, <1>3, <1>4

(* A modal that makes a call, behind calls that nothing waits for, is busy *)
(* with it.                                                                *)
LEMMA MoreCalls ==
  ASSUME NEW o \in Sites, SiteHolds(o), \A i \in DOMAIN o.calls : ~o.calls[i].mounted,
         NEW c \in Callings, c.at = "browser", c.reply = "none", c.mounted,
         c.kind = o.modal \/ (c.kind = "contract" /\ o.modal = "request"),
         NEW s, s = [o EXCEPT !.busy = TRUE, !.calls = Append(o.calls, c)]
  PROVE  SiteHolds(s) /\ HeadKept(o.calls, s.calls)
<1>1. PICK calls : calls = o.calls
  OBVIOUS
<1>2. calls \in Seq(Callings)
  BY <1>1 DEF Sites
<1>3. PICK n \in Nat : n = Len(calls)
  BY <1>2
<1>4. PICK more : more = Append(calls, c)
  OBVIOUS
<1>5. /\ more \in Seq(Callings) /\ DOMAIN calls = 1 .. n /\ DOMAIN more = 1 .. n + 1
      /\ more[n + 1] = c /\ \A i \in 1 .. n : more[i] = calls[i]
  BY <1>2, <1>3, <1>4, AppendProperties
<1>6. s \in Sites /\ s.calls = more /\ s.busy /\ s.modal = o.modal
  BY <1>1, <1>4, <1>5 DEF Sites
<1>7. \A i \in DOMAIN more : i \in DOMAIN calls \/ i = n + 1
  BY <1>5
<1>8. \A i \in DOMAIN more : more[i].mounted => i = n + 1
  BY <1>1, <1>5, <1>7
<1>9. SiteHolds(s)
  <2>1. \A i \in DOMAIN more : more[i].at = "browser" => more[i].reply = "none"
    BY <1>1, <1>5, <1>7 DEF SiteHolds
  <2>2. n + 1 \in DOMAIN more /\ more[n + 1].mounted
    BY <1>5
  <2>3. c.kind \in IF s.modal = "request" THEN {"request", "contract"} ELSE {s.modal}
    BY <1>6
  <2> QED
    BY <1>5, <1>6, <1>8, <2>1, <2>2, <2>3 DEF SiteHolds
<1>10. HeadKept(calls, more)
  <2>1. calls # <<>> => 1 \in 1 .. n /\ more # <<>> /\ Head(more) = more[1] /\ Head(calls) = calls[1]
    BY <1>2, <1>3, <1>5
  <2> QED
    BY <1>5, <2>1 DEF HeadKept
<1> QED
  BY <1>1, <1>6, <1>9, <1>10

(* The modal that calls is not busy: nothing is waited for. *)
LEMMA CallingHolds ==
  ASSUME PagesInv, NEW v \in Visitors, ~site[v].busy, NEW kind, NEW wish \in SUBSET Ids,
         NEW accepted \in BOOLEAN, Calling(v, kind, wish, accepted, "none"),
         kind \in {"contract", "view"} \cup Forms,
         kind = site[v].modal \/ (kind = "contract" /\ site[v].modal = "request")
  PROVE  PagesInv'
<1>1. PICK o : o = site[v]
  OBVIOUS
<1>2. o \in Sites /\ SiteHolds(o) /\ ~o.busy
  BY <1>1 DEF PagesInv, SiteHolds
<1>3. \A i \in DOMAIN o.calls : ~o.calls[i].mounted
  BY <1>2 DEF SiteHolds
<1>4. PICK c : c = Call(kind, wish, accepted, "none")
  OBVIOUS
<1>5. c \in Callings /\ c.at = "browser" /\ c.reply = "none" /\ c.mounted /\ c.kind = kind
  BY <1>4 DEF Call, Callings
<1>6. PICK s : s = [o EXCEPT !.busy = TRUE, !.calls = Append(o.calls, c)]
  OBVIOUS
<1>7. SiteHolds(s) /\ HeadKept(o.calls, s.calls)
  BY <1>1, <1>2, <1>3, <1>5, <1>6, MoreCalls
<1>8. site' = [site EXCEPT ![v] = s]
  BY <1>1, <1>2, <1>4, <1>6 DEF Calling, PagesInv, Sites
<1>9. UNCHANGED <<consoleVars, network, asked, keys, minted, held, lost>> /\ Counted
  BY DEF Calling
<1> QED
  BY <1>1, <1>7, <1>8, <1>9, QuietSite

LEMMA CallMoves ==
  ASSUME PagesInv, NEW v \in Visitors
  PROVE  /\ Submit(v) => PagesInv'
         /\ \A level, contract : \A ticked \in SUBSET site[v].artifacts :
              site[v].modal = "request" /\ RequestAccess(v, level, ticked, contract) => PagesInv'
         /\ \A id \in Ids : View(v, id) => PagesInv'
<1>1. site[v] \in Sites
  BY DEF PagesInv, SiteHolds
<1>2. ASSUME Submit(v)  PROVE PagesInv'
  <2>1. PICK modal : modal = site[v].modal
    OBVIOUS
  <2>2. modal \in Forms /\ ~site[v].busy
    BY <1>2, <2>1 DEF Submit, Ready, Forms, SubscribeModal, AskModal, ReclaimModal, DpaModal
  <2>3. Calling(v, modal, {}, FALSE, "none")
    BY <1>2, <2>1 DEF Submit
  <2>4. modal \in {"contract", "view"} \cup Forms /\ {} \in SUBSET Ids /\ FALSE \in BOOLEAN
    BY <2>2
  <2> QED
    BY <2>1, <2>2, <2>3, <2>4, CallingHolds
<1>3. ASSUME NEW level, NEW contract, NEW ticked \in SUBSET site[v].artifacts,
             site[v].modal = "request", RequestAccess(v, level, ticked, contract)
      PROVE  PagesInv'
  <2>1. PICK wish : wish = Wanted(level, ticked)
    OBVIOUS
  <2>2. PICK accepted : accepted = site[v].nda
    OBVIOUS
  <2>3. wish \in SUBSET Ids /\ accepted \in BOOLEAN
    BY <1>1, <2>1, <2>2 DEF Sites, Wanted
  <2>4. PICK kind : kind = IF contract THEN "contract" ELSE "request"
    OBVIOUS
  <2>5. ~site[v].busy /\ Calling(v, kind, wish, accepted, "none")
    BY <1>3, <2>1, <2>2, <2>4 DEF RequestAccess, RequestAccessModal
  <2>6. /\ kind \in {"contract", "view"} \cup Forms
        /\ kind = site[v].modal \/ (kind = "contract" /\ site[v].modal = "request")
    BY <1>3, <2>4 DEF Forms
  <2> QED
    BY <2>3, <2>5, <2>6, CallingHolds
<1>4. ASSUME NEW id \in Ids, View(v, id)  PROVE PagesInv'
  <2>1. PICK view : view = "view"
    OBVIOUS
  <2>2. PICK o : o = Mounted(v, view)
    OBVIOUS
  <2>3. site[v].modal = "none" /\ view \in {"none", "view"} \cup Forms
    BY <1>4, <2>1 DEF View
  <2>4. /\ SiteHolds(o) /\ HeadKept(site[v].calls, o.calls) /\ o.modal = view
        /\ \A i \in DOMAIN o.calls : ~o.calls[i].mounted
    BY <2>2, <2>3, MountedHolds
  <2>5. o \in Sites
    BY <2>4 DEF SiteHolds
  <2>6. PICK c : c = Call("view", {}, FALSE, id)
    OBVIOUS
  <2>7. c \in Callings /\ c.kind = view /\ c.at = "browser" /\ c.reply = "none" /\ c.mounted
    BY <2>1, <2>6 DEF Call, Callings
  <2>8. PICK s : s = [o EXCEPT !.busy = TRUE, !.calls = Append(o.calls, c)]
    OBVIOUS
  <2>9. SiteHolds(s) /\ HeadKept(o.calls, s.calls)
    BY <2>4, <2>5, <2>7, <2>8, MoreCalls
  <2>10. site' = [site EXCEPT ![v] = s]
    BY <1>4, <2>1, <2>2, <2>5, <2>6, <2>8 DEF View, DocumentViewer, Sites
  <2>11. HeadKept(site[v].calls, s.calls)
    BY <2>4, <2>9 DEF HeadKept
  <2>12. UNCHANGED <<consoleVars, network, asked, keys, minted, held, lost>> /\ Counted
    BY <1>4 DEF View
  <2> QED
    BY <2>9, <2>10, <2>11, <2>12, QuietSite
<1> QED
  BY <1>2, <1>3, <1>4

LEMMA VisitorMoves ==
  ASSUME PagesInv, NEW v \in Visitors, VisitorMove(v)
  PROVE  PagesInv'
  BY VisitHolds, ModalMoves, CallMoves DEF VisitorMove

(* The call under way. *)
LEMMA UnderWay ==
  ASSUME PagesInv, NEW v \in Visitors, site[v].calls # <<>>, NEW o, o = site[v],
         NEW c, c = Called(v)
  PROVE  /\ o \in Sites /\ SiteHolds(o) /\ o.calls \in Seq(Callings) /\ o.calls # <<>>
         /\ 1 \in DOMAIN o.calls /\ c = o.calls[1] /\ c = Head(o.calls) /\ c \in Callings
         /\ c.at = "browser" => c.reply = "none"
<1>1. SiteHolds(o) /\ o \in Sites
  <2>1. SiteHolds(o)
    BY DEF PagesInv
  <2> QED
    BY <2>1 DEF SiteHolds
<1>2. o.calls \in Seq(Callings) /\ o.calls # <<>>
  BY <1>1 DEF Sites
<1>3. 1 \in DOMAIN o.calls /\ c = o.calls[1] /\ c = Head(o.calls)
  BY <1>2 DEF Called
<1>4. c \in Callings
  BY <1>2, <1>3
<1> QED
  BY <1>1, <1>2, <1>3, <1>4 DEF SiteHolds

(* A call is served: it has a reply, which the page has not heard.         *)
LEMMA RepliedHolds ==
  ASSUME PagesInv, NEW v \in Visitors, NEW reply \in {"error", "done", "key"},
         NEW no \in Nat, Replied(v, reply, no), site[v].calls # <<>>,
         Called(v).at = "browser", NEW s, s = site'[v]
  PROVE  /\ SiteHolds(s) /\ site' = [site EXCEPT ![v] = s] /\ HeadKept(site[v].calls, s.calls)
         /\ s.calls # <<>> /\ Head(s.calls).reply = reply /\ Head(s.calls).key = no
         /\ Called(v).reply = "none"
<1>1. PICK o : o = site[v]
  OBVIOUS
<1>2. PICK was : was = Called(v)
  OBVIOUS
<1>3. /\ o \in Sites /\ SiteHolds(o) /\ o.calls \in Seq(Callings) /\ o.calls # <<>>
      /\ 1 \in DOMAIN o.calls /\ was = o.calls[1] /\ was = Head(o.calls)
      /\ was \in Callings /\ was.reply = "none"
  BY <1>1, <1>2, UnderWay
<1>4. PICK c : c = [was EXCEPT !.at = "server", !.reply = reply, !.key = no]
  OBVIOUS
<1>5. /\ c \in Callings /\ c.kind = was.kind /\ c.mounted = was.mounted
      /\ c.at = "server" /\ c.reply = reply /\ c.key = no
  BY <1>3, <1>4 DEF Callings
<1>6. PICK calls : calls = [o.calls EXCEPT ![1] = c]
  OBVIOUS
<1>7. /\ calls \in Seq(Callings) /\ DOMAIN calls = DOMAIN o.calls /\ calls[1] = c
      /\ \A i \in DOMAIN o.calls \ {1} : calls[i] = o.calls[i]
  BY <1>3, <1>5, <1>6, ExceptSeq
<1>8. calls # <<>> /\ Head(calls) = c
  BY <1>3, <1>7
<1>9. s = [o EXCEPT !.calls = calls]
  BY <1>1, <1>3, <1>4, <1>6 DEF Replied, PagesInv, Sites
<1>10. /\ s \in Sites /\ s.calls = calls /\ s.busy = o.busy /\ s.result = o.result
       /\ s.modal = o.modal
  BY <1>3, <1>7, <1>9 DEF Sites
<1>11. \A i \in DOMAIN o.calls :
         /\ calls[i].mounted = o.calls[i].mounted /\ calls[i].kind = o.calls[i].kind
         /\ calls[i].at = "browser" =>
              o.calls[i].at = "browser" /\ calls[i].reply = o.calls[i].reply
  BY <1>3, <1>5, <1>7
<1>12. SiteHolds(s)
  BY <1>3, <1>7, <1>10, <1>11 DEF SiteHolds
<1>13. site' = [site EXCEPT ![v] = s]
  BY DEF Replied, PagesInv
<1>14. HeadKept(o.calls, calls)
  BY <1>3 DEF HeadKept
<1> QED
  BY <1>1, <1>2, <1>3, <1>5, <1>8, <1>10, <1>12, <1>13, <1>14

LEMMA ServeOtherHolds ==
  ASSUME PagesInv, NEW v \in Visitors, NEW outcome \in Outcomes, ServeOther(v, outcome)
  PROVE  PagesInv'
<1>1. PICK reply : reply = Reply(Called(v).kind, outcome)
  OBVIOUS
<1>2. PICK no \in Nat : no = 0
  OBVIOUS
<1>3. Called(v).kind \in {"subscribe", "ask", "dpa", "view"}
      /\ site[v].calls # <<>> /\ Called(v).at = "browser" /\ Replied(v, reply, no)
  BY <1>1, <1>2 DEF ServeOther, Serving
<1>4. reply \in {"error", "done", "key"}
  BY <1>1, <1>3 DEF Reply, subscribeToUpdates, askQuestion, submitDpa, getPublicArtifactUrl,
     Message
<1>5. PICK s : s = site'[v]
  OBVIOUS
<1>6. SiteHolds(s) /\ site' = [site EXCEPT ![v] = s] /\ HeadKept(site[v].calls, s.calls)
  BY <1>3, <1>4, <1>5, RepliedHolds
<1>7. UNCHANGED <<consoleVars, network, acts, asked, keys, minted, held, lost>>
  BY DEF ServeOther
<1> QED
  BY <1>6, <1>7, QuietSite

(* A reclaim makes a key for a request that was granted, and mails it.     *)
LEMMA ReclaimHolds ==
  ASSUME PagesInv, NEW v \in Visitors, NEW outcome \in Outcomes, ServeReclaim(v, outcome)
  PROVE  PagesInv'
<1>1. PICK reply : reply = Message(outcome)
  OBVIOUS
<1>2. PICK none \in Nat : none = 0
  OBVIOUS
<1>3. reply \in {"error", "done", "key"}
  BY <1>1 DEF Message
<1>4. /\ Replied(v, reply, none) /\ site[v].calls # <<>> /\ Called(v).at = "browser"
      /\ UNCHANGED <<consoleVars, network, acts, asked>>
  BY <1>1, <1>2 DEF ServeReclaim, Serving
<1>5. PICK s : s = site'[v]
  OBVIOUS
<1>6. /\ SiteHolds(s) /\ site' = [site EXCEPT ![v] = s] /\ HeadKept(site[v].calls, s.calls)
      /\ Called(v).reply = "none"
  BY <1>3, <1>4, <1>5, RepliedHolds
<1>7. CASE UNCHANGED <<keys, minted, held, lost>>
  BY <1>4, <1>6, <1>7, QuietSite
<1>8. CASE ~UNCHANGED <<keys, minted, held, lost>>
  <2>1. PICK no : no = minted + 1
    OBVIOUS
  <2>2. PICK r \in Made : \E mailed \in BOOLEAN :
          /\ keys' = keys \cup {NewKey(r, asked[r].wish, "reclaim")} /\ minted' = no
          /\ held' = IF mailed THEN held \cup {no} ELSE held
          /\ lost' = IF mailed THEN lost ELSE lost \cup {<<no, "unmailed">>}
    BY <1>8, <2>1 DEF ServeReclaim, NewKey
  <2>3. PICK key : key = NewKey(r, asked[r].wish, "reclaim")
    OBVIOUS
  <2>4. key.no = no /\ key.req = r /\ key.ids = asked[r].wish
    BY <2>1, <2>3 DEF NewKey
  <2>5. DeskHolds
    BY DEF PagesInv
  <2>6. no \in Nat /\ no \in 1 .. no /\ 1 .. minted \subseteq 1 .. no
    BY <2>1, <2>5 DEF DeskHolds
  <2>7. /\ keys' = keys \cup {key} /\ held \subseteq held' /\ lost \subseteq lost'
        /\ held' \subseteq held \cup {no} /\ lost' \subseteq lost \cup {<<no, "unmailed">>}
        /\ no \in held' \/ <<no, "unmailed">> \in lost'
    BY <2>2, <2>3
  <2>8. Made' = Made /\ UNCHANGED page
    BY <1>4 DEF Made, consoleVars
  <2>9. DeskHolds'
    <3>1. held' \subseteq Nat /\ lost' \subseteq Nat \X Losses
      BY <2>5, <2>6, <2>7 DEF DeskHolds, Losses
    <3>2. \A k \in keys' :
            /\ k.no \in 1 .. minted' /\ k.req \in Made /\ k.ids \subseteq Ids
            /\ k.ids = {} => asked[k.req].wish = {}
      BY <2>2, <2>4, <2>5, <2>6, <2>7 DEF DeskHolds, GrantStaysNarrow
    <3>3. GrantStaysNarrow'
      BY <1>4, <3>2 DEF GrantStaysNarrow
    <3> QED
      BY <1>4, <2>2, <2>5, <2>6, <2>8, <3>1, <3>2, <3>3 DEF DeskHolds
  <2>10. Accounted(no)'
    BY <2>7 DEF Accounted, Losses
  <2>11. KeyReachesRequester'
    <3>1. \A k \in keys' \ keys : \A x : x = k.no => Accounted(x)'
      BY <2>4, <2>7, <2>10
    <3> QED
      BY <1>6, <2>7, <2>8, <3>1, KeysGoOn
  <2> QED
    BY <1>4, <1>6, <2>8, <2>9, <2>11, VisitorStep
<1> QED
  BY <1>7, <1>8

(* What a request asks for is some of the artifacts. *)
LEMMA WishHolds ==
  ASSUME PagesInv, NEW v \in Visitors, site[v].calls # <<>>
  PROVE  Wish(Called(v)) \in SUBSET Ids
<1>1. PICK c : c = Called(v)
  OBVIOUS
<1>2. PICK o : o = site[v]
  OBVIOUS
<1>3. c \in Callings
  BY <1>1, <1>2, UnderWay
<1>4. c.wish \in SUBSET Ids
  BY <1>3 DEF Callings
<1> QED
  BY <1>1, <1>4 DEF Wish

(* The network keeps a request: it is pending, or granted with a key, and  *)
(* the key is in the answer unless that is lost.                           *)
LEMMA KeptHolds ==
  ASSUME PagesInv, NEW v \in Visitors, NEW reply \in {"error", "done", "key"},
         NEW num \in Nat, NEW r \in Unmade, NEW wish \in SUBSET Ids,
         NEW status, NEW no, no = minted + 1, NEW key, key = NewKey(r, wish, "policy"),
         Replied(v, reply, num), site[v].calls # <<>>, Called(v).at = "browser",
         asked' = Item(r, [by |-> v, wish |-> wish, status |-> status]) ++ asked,
         \/ UNCHANGED <<keys, minted, lost>>
         \/ keys' = keys \cup {key} /\ minted' = no /\ lost' = lost \cup {<<no, "unheard">>}
         \/ keys' = keys \cup {key} /\ minted' = no /\ lost' = lost /\ reply = "key" /\ num = no,
         UNCHANGED <<consoleVars, network, acts, held>>
  PROVE  PagesInv'
<1>1. PICK rec : rec = [by |-> v, wish |-> wish, status |-> status]
  OBVIOUS
<1>2. DOMAIN rec = {"by", "wish", "status"} /\ rec.wish = wish
  BY <1>1
<1>3. PICK old : old = asked
  OBVIOUS
<1>4. asked' = Item(r, rec) ++ old
  BY <1>1, <1>3
<1>5. /\ DOMAIN asked' = DOMAIN old \cup {r} /\ asked'[r] = rec
      /\ \A x \in DOMAIN old \ {r} : asked'[x] = old[x]
  <2>1. PICK new : new = Item(r, rec) ++ old
    OBVIOUS
  <2>2. /\ DOMAIN new = DOMAIN old \cup {r} /\ new[r] = rec
        /\ \A x \in DOMAIN old \ {r} : new[x] = old[x]
    <3>1. DOMAIN new = DOMAIN old \cup {r}
      BY <2>1, Zenon DEF Item, ++
    <3>2. new[r] = rec
      BY <2>1, Zenon DEF Item, ++
    <3>3. \A x \in DOMAIN old \ {r} : new[x] = old[x]
      BY <2>1, Zenon DEF Item, ++
    <3> QED
      BY <3>1, <3>2, <3>3
  <2> QED
    BY <1>4, <2>1, <2>2
<1>6. r \in Reqs /\ r \notin Made
  BY DEF Unmade
<1>7. Made' = Made \cup {r} /\ asked'[r] = rec /\ \A x \in Made : asked'[x] = asked[x]
  BY <1>3, <1>5, <1>6 DEF Made
<1>8. PICK s : s = site'[v]
  OBVIOUS
<1>9. /\ SiteHolds(s) /\ site' = [site EXCEPT ![v] = s] /\ Called(v).reply = "none"
      /\ s.calls # <<>> /\ Head(s.calls).reply = reply /\ Head(s.calls).key = num
  BY <1>8, RepliedHolds
<1>10. UNCHANGED page
  BY DEF consoleVars
<1>11. key.req = r /\ key.ids = wish /\ key.no = no
  BY DEF NewKey
<1>12. DeskHolds
  BY DEF PagesInv
<1>13. minted \in Nat /\ no \in Nat /\ no \in 1 .. no /\ 1 .. minted \subseteq 1 .. no
  BY <1>12 DEF DeskHolds
<1>14. /\ \/ UNCHANGED <<keys, minted>>
          \/ keys' = keys \cup {key} /\ minted' = no
       /\ lost \subseteq lost' /\ lost' \subseteq lost \cup {<<no, "unheard">>}
  OBVIOUS
<1>15. DeskHolds'
  <2>1. Made' \subseteq Reqs /\ minted' \in Nat
    BY <1>6, <1>7, <1>12, <1>13, <1>14 DEF DeskHolds
  <2>2. held' \subseteq Nat /\ lost' \subseteq Nat \X Losses
    BY <1>12, <1>13, <1>14 DEF DeskHolds, Losses
  <2>3. \A x \in Made' : DOMAIN asked'[x] = {"by", "wish", "status"} /\ asked'[x].wish \subseteq Ids
    BY <1>2, <1>7, <1>12 DEF DeskHolds
  <2>4. \A k \in keys' :
          /\ k.no \in 1 .. minted' /\ k.req \in Made' /\ k.ids \subseteq Ids
          /\ k.ids = {} => asked'[k.req].wish = {}
    <3>1. ASSUME NEW k \in keys
          PROVE  /\ k.no \in 1 .. minted /\ k.req \in Made /\ k.ids \subseteq Ids
                 /\ k.ids = {} => asked[k.req].wish = {}
      BY <1>12 DEF DeskHolds, GrantStaysNarrow
    <3>2. 1 .. minted \subseteq 1 .. minted'
      BY <1>13, <1>14
    <3>3. ASSUME NEW k \in keys
          PROVE  /\ k.no \in 1 .. minted' /\ k.req \in Made' /\ k.ids \subseteq Ids
                 /\ k.ids = {} => asked'[k.req].wish = {}
      BY <1>7, <3>1, <3>2
    <3>4. keys' # keys =>
            /\ key.no \in 1 .. minted' /\ key.req \in Made' /\ key.ids \subseteq Ids
            /\ key.ids = {} => asked'[key.req].wish = {}
      BY <1>2, <1>7, <1>11, <1>13, <1>14
    <3> QED
      BY <1>14, <3>3, <3>4
  <2>5. GrantStaysNarrow'
    BY <2>4 DEF GrantStaysNarrow
  <2> QED
    BY <2>1, <2>2, <2>3, <2>4, <2>5 DEF DeskHolds
<1>16. keys' # keys => Accounted(no)'
  <2>1. CASE <<no, "unheard">> \in lost'
    BY <2>1 DEF Accounted, Losses
  <2>2. CASE reply = "key" /\ num = no
    <3>1. OnItsWay(no)'
      BY <1>8, <1>9, <2>2 DEF OnItsWay, Called
    <3> QED
      BY <3>1 DEF Accounted
  <2> QED
    BY <2>1, <2>2
<1>17. KeyReachesRequester'
  <2>1. \A k \in keys' \ keys : \A x : x = k.no => Accounted(x)'
    BY <1>11, <1>14, <1>16
  <2> QED
    BY <1>9, <1>10, <1>14, <2>1, KeysGoOn
<1>18. Made \subseteq Made'
  BY <1>7
<1> QED
  BY <1>9, <1>15, <1>17, <1>18, VisitorStep

LEMMA RequestHolds ==
  ASSUME PagesInv, NEW v \in Visitors, NEW outcome \in Outcomes, NEW auto \in BOOLEAN,
         ServeRequest(v, outcome, auto)
  PROVE  PagesInv'
<1>1. PICK r : r = CHOOSE x \in Unmade : TRUE
  OBVIOUS
<1>2. PICK wish : wish = Wish(Called(v))
  OBVIOUS
<1>3. PICK status : status = IF auto THEN "granted" ELSE "pending"
  OBVIOUS
<1>4. PICK key : key = NewKey(r, wish, "policy")
  OBVIOUS
<1>5. PICK no : no = minted + 1
  OBVIOUS
<1>6. PICK reply : reply = IF auto /\ ~Throws(outcome) THEN "key" ELSE Message(outcome)
  OBVIOUS
<1>7. PICK num : num = IF auto /\ ~Throws(outcome) THEN no ELSE 0
  OBVIOUS
<1>8. PICK item : item = Item(r, [by |-> v, wish |-> wish, status |-> status])
  OBVIOUS
<1>9. PICK had : had = asked
  OBVIOUS
<1>10. key.no = no
  BY <1>4, <1>5 DEF NewKey
<1>11. /\ site[v].calls # <<>> /\ Called(v).at = "browser" /\ Replied(v, reply, num)
       /\ UNCHANGED <<consoleVars, network, acts, held>>
       /\ Done(outcome) => Unmade # {}
  BY <1>1, <1>2, <1>4, <1>6, <1>7, <1>10 DEF ServeRequest, Serving
<1>12. wish \in SUBSET Ids
  BY <1>2, <1>11, WishHolds
<1>13. reply \in {"error", "done", "key"} /\ num \in Nat
  BY <1>5, <1>6, <1>7 DEF Message, PagesInv, DeskHolds
<1>14. CASE ~Done(outcome)
  <2>1. UNCHANGED <<asked, keys, minted, lost>>
    BY <1>14 DEF ServeRequest
  <2>2. PICK s : s = site'[v]
    OBVIOUS
  <2>3. SiteHolds(s) /\ site' = [site EXCEPT ![v] = s] /\ HeadKept(site[v].calls, s.calls)
    BY <1>11, <1>13, <2>2, RepliedHolds
  <2> QED
    BY <1>11, <2>1, <2>3, QuietSite
<1>15. CASE Done(outcome)
  <2>1. r \in Unmade
    BY <1>1, <1>11, <1>15
  <2>2. /\ asked' = After("requestAccess", had, item, outcome)
        /\ keys' = IF auto THEN keys \cup {key} ELSE keys
        /\ minted' = IF auto THEN no ELSE minted
        /\ lost' = IF auto /\ Throws(outcome) THEN lost \cup {<<no, "unheard">>} ELSE lost
    BY <1>1, <1>2, <1>3, <1>4, <1>8, <1>9, <1>10, <1>15 DEF ServeRequest
  <2>3. asked' = item ++ had
    <3>1. Client["requestAccess"].verb = "POST"
      BY RequestVerb
    <3>2. After("requestAccess", had, item, outcome)
            = IF Done(outcome) THEN item ++ had ELSE had
      BY <3>1, AfterVerb
    <3> QED
      BY <1>15, <2>2, <3>2
  <2>4. asked' = Item(r, [by |-> v, wish |-> wish, status |-> status]) ++ asked
    BY <1>8, <1>9, <2>3
  <2>5. \/ UNCHANGED <<keys, minted, lost>>
        \/ keys' = keys \cup {key} /\ minted' = no /\ lost' = lost \cup {<<no, "unheard">>}
        \/ keys' = keys \cup {key} /\ minted' = no /\ lost' = lost /\ reply = "key" /\ num = no
    BY <1>6, <1>7, <2>2
  <2> QED
    BY <1>4, <1>5, <1>11, <1>12, <1>13, <2>1, <2>4, <2>5, KeptHolds
<1> QED
  BY <1>14, <1>15

(* The answer comes, or the call throws: a key it brought is then in hand, *)
(* or lost, and the next call is under way.                                *)
LEMMA HeardHolds ==
  ASSUME PagesInv, NEW v \in Visitors, site[v].calls # <<>>, NEW s \in Sites,
         site' = [site EXCEPT ![v] = s],
         s.calls = Tail(site[v].calls), s.modal = site[v].modal,
         Called(v).mounted => (s.busy => s.result = "threw"),
         ~Called(v).mounted => s.busy = site[v].busy /\ s.result = site[v].result,
         held \subseteq held', lost \subseteq lost', held' \subseteq held \cup {Called(v).key},
         lost' \subseteq lost \cup ({Called(v).key} \X Losses),
         Called(v).reply = "key" =>
           \/ Called(v).key \in held'
           \/ \E why \in Losses : <<Called(v).key, why>> \in lost',
         UNCHANGED <<consoleVars, network, acts, asked, keys, minted>>
  PROVE  PagesInv'
<1>1. PICK o : o = site[v]
  OBVIOUS
<1>2. PICK c : c = Called(v)
  OBVIOUS
<1>3. PICK rest : rest = Tail(o.calls)
  OBVIOUS
<1>4. PICK busy : busy = s.busy
  OBVIOUS
<1>5. PICK result : result = s.result
  OBVIOUS
<1>6. /\ c.mounted => (busy => result = "threw")
      /\ ~c.mounted => busy = o.busy /\ result = o.result
  BY <1>1, <1>2, <1>4, <1>5
<1>7. /\ o \in Sites /\ SiteHolds(o) /\ o.calls \in Seq(Callings) /\ o.calls # <<>>
      /\ 1 \in DOMAIN o.calls /\ c = o.calls[1] /\ c \in Callings
  BY <1>1, <1>2, UnderWay
<1>8. PICK n \in Nat : Len(o.calls) = n + 1
  <2>1. Len(o.calls) \in Nat /\ Len(o.calls) # 0
    BY <1>7
  <2>2. Len(o.calls) - 1 \in Nat /\ Len(o.calls) = (Len(o.calls) - 1) + 1
    BY <2>1
  <2> QED
    BY <2>2
<1>9. /\ rest \in Seq(Callings) /\ DOMAIN rest = 1 .. n /\ DOMAIN o.calls = 1 .. n + 1
      /\ \A i \in 1 .. n : rest[i] = o.calls[i + 1]
  <2>1. rest \in Seq(Callings) /\ Len(rest) = n
    BY <1>7, <1>8, <1>3
  <2>2. \A i \in 1 .. n : rest[i] = o.calls[i + 1]
    BY <1>7, <1>8, <1>3
  <2> QED
    BY <1>7, <1>8, <2>1, <2>2
<1>10. /\ s \in Sites /\ s.calls = rest /\ s.busy = busy /\ s.result = result
      /\ s.modal = o.modal
  BY <1>7, <1>9, <1>1, <1>3, <1>4, <1>5 DEF Sites
<1>11. SiteHolds(s)
  <2>1. \A i \in DOMAIN rest : i + 1 \in DOMAIN o.calls /\ i + 1 # 1 /\ rest[i] = o.calls[i + 1]
    BY <1>9
  <2>2. \A i \in DOMAIN rest : rest[i].at = "browser" => rest[i].reply = "none"
    BY <1>7, <2>1 DEF SiteHolds
  <2>3. busy => result = "threw" \/ \E i \in DOMAIN rest : rest[i].mounted
    <3> SUFFICES ASSUME busy, result # "threw"  PROVE \E i \in DOMAIN rest : rest[i].mounted
      OBVIOUS
    <3>1. ~c.mounted /\ o.busy /\ o.result # "threw"
      BY <1>6
    <3>2. PICK i \in DOMAIN o.calls : o.calls[i].mounted
      BY <1>7, <3>1 DEF SiteHolds
    <3>3. i \in 1 .. n + 1 /\ i # 1
      BY <1>7, <1>9, <3>1, <3>2
    <3>4. i - 1 \in 1 .. n /\ (i - 1) + 1 = i
      BY <3>3
    <3>5. rest[i - 1] = o.calls[i]
      BY <1>9, <3>4
    <3> QED
      BY <1>9, <3>2, <3>4, <3>5
  <2>4. ASSUME NEW i \in DOMAIN rest, rest[i].mounted
        PROVE  /\ busy
               /\ rest[i].kind \in IF s.modal = "request" THEN {"request", "contract"} ELSE {s.modal}
               /\ \A j \in DOMAIN rest : rest[j].mounted => i = j
    <3>1. o.calls[i + 1].mounted
      BY <2>1, <2>4
    <3>2. /\ o.busy
          /\ o.calls[i + 1].kind \in
               IF o.modal = "request" THEN {"request", "contract"} ELSE {o.modal}
          /\ \A j \in DOMAIN o.calls : o.calls[j].mounted => i + 1 = j
      BY <1>7, <2>1, <2>4, <3>1 DEF SiteHolds
    <3>3. ~c.mounted
      BY <1>7, <2>1, <2>4, <3>2
    <3>4. \A j \in DOMAIN rest : rest[j].mounted => i = j
      BY <1>9, <2>1, <3>2
    <3> QED
      BY <1>10, <1>6, <2>1, <2>4, <3>2, <3>3, <3>4
  <2> QED
    BY <1>10, <2>2, <2>3, <2>4 DEF SiteHolds
<1>12. Made' = Made /\ UNCHANGED page
  BY DEF Made, consoleVars
<1>13. DeskHolds'
  <2>1. DeskHolds
    BY DEF PagesInv
  <2>2. c.key \in Nat
    BY <1>7 DEF Callings
  <2>3. held' \subseteq Nat /\ lost' \subseteq Nat \X Losses
    BY <2>1, <2>2, <1>2 DEF DeskHolds
  <2>4. GrantStaysNarrow'
    BY <2>1 DEF DeskHolds, GrantStaysNarrow
  <2> QED
    BY <1>12, <2>1, <2>3, <2>4 DEF DeskHolds
<1>14. KeyReachesRequester'
  <2>1. ASSUME NEW no, Called(v).reply = "key", Called(v).key = no  PROVE Accounted(no)'
    BY <2>1 DEF Accounted
  <2>2. keys' \ keys = {}
    OBVIOUS
  <2> QED
    BY <1>12, <2>1, <2>2, KeysGoOn
<1> QED
  BY <1>11, <1>12, <1>13, <1>14, VisitorStep

LEMMA AnswerHolds ==
  ASSUME PagesInv, NEW v \in Visitors, Answer(v) \/ CallThrows(v)
  PROVE  PagesInv'
<1>1. PICK o : o = site[v]
  OBVIOUS
<1>2. PICK c : c = Called(v)
  OBVIOUS
<1>3. site[v].calls # <<>>
  BY DEF Answer, CallThrows
<1>4. PICK rest : rest = Tail(o.calls)
  OBVIOUS
<1>5. /\ o \in Sites /\ c \in Callings /\ c.mounted \in BOOLEAN
      /\ rest \in Seq(Callings)
  <2>1. /\ o \in Sites /\ c \in Callings /\ o.calls \in Seq(Callings) /\ o.calls # <<>>
    BY <1>1, <1>2, <1>3, UnderWay
  <2> QED
    BY <1>4, <2>1 DEF Callings
<1>6. CASE Answer(v)
  <2>1. PICK busy \in BOOLEAN : busy = (o.busy /\ ~c.mounted)
    OBVIOUS
  <2>2. PICK result : result = IF ~c.mounted THEN o.result
                               ELSE IF c.reply = "error" THEN "error" ELSE "done"
    OBVIOUS
  <2>3. /\ result \in {"none", "error", "done", "threw"} /\ (c.mounted => (busy => result = "threw"))
        /\ ~c.mounted => busy = o.busy /\ result = o.result
    BY <1>5, <2>1, <2>2 DEF Sites
  <2>4. PICK s : s = [o EXCEPT !.calls = rest, !.busy = busy, !.result = result]
    OBVIOUS
  <2>5. /\ s \in Sites /\ s.calls = rest /\ s.busy = busy /\ s.result = result
        /\ s.modal = o.modal
    BY <1>5, <2>3, <2>4 DEF Sites
  <2>6. site' = [site EXCEPT ![v] = s]
    BY <1>1, <1>2, <1>4, <1>5, <1>6, <2>1, <2>2, <2>4 DEF Answer, PagesInv, Sites
  <2>7. /\ held' = IF c.reply = "key" /\ c.mounted THEN held \cup {c.key} ELSE held
        /\ lost' = IF c.reply = "key" /\ ~c.mounted THEN lost \cup {<<c.key, "closed">>} ELSE lost
        /\ UNCHANGED <<consoleVars, network, acts, asked, keys, minted>>
    BY <1>2, <1>6 DEF Answer
  <2>8. /\ held \subseteq held' /\ lost \subseteq lost' /\ held' \subseteq held \cup {c.key}
        /\ lost' \subseteq lost \cup ({c.key} \X Losses)
        /\ c.reply = "key" => c.key \in held' \/ \E why \in Losses : <<c.key, why>> \in lost'
    BY <2>7 DEF Losses
  <2> QED
    BY <1>1, <1>2, <1>3, <1>4, <2>3, <2>5, <2>6, <2>7, <2>8, HeardHolds
<1>7. CASE CallThrows(v)
  <2>1. PICK busy \in BOOLEAN : busy = o.busy
    BY <1>5 DEF Sites
  <2>2. PICK result : result = IF c.mounted THEN "threw" ELSE o.result
    OBVIOUS
  <2>3. /\ result \in {"none", "error", "done", "threw"} /\ (c.mounted => (busy => result = "threw"))
        /\ ~c.mounted => busy = o.busy /\ result = o.result
    BY <1>5, <2>1, <2>2 DEF Sites
  <2>4. PICK s : s = [o EXCEPT !.calls = rest, !.busy = busy, !.result = result]
    OBVIOUS
  <2>5. /\ s \in Sites /\ s.calls = rest /\ s.busy = busy /\ s.result = result
        /\ s.modal = o.modal
    BY <1>5, <2>3, <2>4 DEF Sites
  <2>6. site' = [site EXCEPT ![v] = s]
    <3>1. s = [o EXCEPT !.calls = rest, !.result = result]
      BY <1>5, <2>1, <2>4 DEF Sites
    <3> QED
      BY <1>1, <1>2, <1>4, <1>5, <1>7, <2>2, <3>1 DEF CallThrows, PagesInv, Sites
  <2>7. /\ held' = held
        /\ lost' = IF c.reply = "key" THEN lost \cup {<<c.key, "unheard">>} ELSE lost
        /\ UNCHANGED <<consoleVars, network, acts, asked, keys, minted>>
    BY <1>2, <1>7 DEF CallThrows
  <2>8. /\ held \subseteq held' /\ lost \subseteq lost' /\ held' \subseteq held \cup {c.key}
        /\ lost' \subseteq lost \cup ({c.key} \X Losses)
        /\ c.reply = "key" => c.key \in held' \/ \E why \in Losses : <<c.key, why>> \in lost'
    BY <2>7 DEF Losses
  <2> QED
    BY <1>1, <1>2, <1>3, <1>4, <2>3, <2>5, <2>6, <2>7, <2>8, HeardHolds
<1> QED
  BY <1>6, <1>7

LEMMA ServeHolds ==
  ASSUME PagesInv, NEW v \in Visitors, Serve(v)
  PROVE  PagesInv'
<1>1. PICK outcome \in Outcomes :
        \/ ServeOther(v, outcome) \/ ServeReclaim(v, outcome)
        \/ \E auto \in BOOLEAN : ServeRequest(v, outcome, auto)
  BY DEF Serve
<1> QED
  BY <1>1, ServeOtherHolds, ReclaimHolds, RequestHolds

-----------------------------------------------------------------------------
(* At first every tab shows nothing, every visitor has the page open, and  *)
(* the requests there are wait.                                            *)
LEMMA InitHolds == Init => PagesInv
<1> SUFFICES ASSUME Init  PROVE PagesInv
  OBVIOUS
<1>1. Made = FirstReqs /\ keys = {} /\ minted = 0 /\ held = {} /\ lost = {}
  BY DEF Init, DeskInit, Made
<1>2. \A r \in Made : DOMAIN asked[r] = {"by", "wish", "status"} /\ asked[r].wish = FirstIds
  BY <1>1 DEF Init, DeskInit
<1>3. DataHolds
  <2>1. acts \in 0 .. MaxActs
    BY SdkAssumption DEF Init, SdkInit
  <2>2. /\ nda \in BOOLEAN /\ unused \subseteq Ids /\ DOMAIN artifacts \subseteq Ids \ unused
    BY SdkAssumption DEF Init, SdkInit
  <2>3. DOMAIN lists = Sections
    BY DEF Init, ConsoleInit
  <2>4. ASSUME NEW s \in Sections
        PROVE  IsRows(lists[s]) /\ (s = "faqs" => \A n \in DOMAIN lists[s] : lists[s][n] = "more")
    BY FirstRowsAssumption DEF Init, ConsoleInit, IsRows, Values
  <2> QED
    BY <2>1, <2>2, <2>3, <2>4 DEF DataHolds
<1>4. DeskHolds
  BY <1>1, <1>2, ReqsAssumption, SdkAssumption DEF DeskHolds, GrantStaysNarrow
<1>5. KeyReachesRequester
  BY <1>1 DEF KeyReachesRequester
<1>6. DOMAIN page = Tabs /\ \A t \in Tabs : page[t] = Nowhere
  BY DEF Init, ConsoleInit
<1>7. ASSUME NEW t \in Tabs  PROVE PageHolds(page[t], Made) /\ EvidenceHolds(page[t])
  <2>1. PICK made : made = Made
    OBVIOUS
  <2>2. PageHolds(Nowhere, made) /\ EvidenceHolds(Nowhere)
    BY EmptyPages
  <2> QED
    BY <1>6, <2>1, <2>2
<1>8. PICK s : s = [Away EXCEPT !.open = TRUE, !.artifacts = FirstIds]
  OBVIOUS
<1>9. DOMAIN site = Visitors /\ \A v \in Visitors : site[v] = s
  BY <1>8 DEF Init, DeskInit
<1>10. <<>> \in Seq(Callings)
  BY EmptySeq
<1>11. s \in Sites /\ s.calls = <<>> /\ ~s.busy
  BY <1>8, <1>10, SdkAssumption DEF Away, Sites
<1>12. SiteHolds(s)
  BY <1>11, CalmSite
<1> QED
  BY <1>3, <1>4, <1>5, <1>6, <1>7, <1>9, <1>12 DEF PagesInv

LEMMA StutterHolds ==
  ASSUME PagesInv, UNCHANGED pageVars
  PROVE  PagesInv'
<1>1. UNCHANGED <<acts, lists, page, artifacts, unused, nda, asked, keys, minted, site, held, lost>>
  BY DEF pageVars, network, consoleVars, deskVars
<1>2. Made' = Made
  BY <1>1 DEF Made
<1>3. DataHolds' /\ DeskHolds'
  BY <1>1, <1>2 DEF PagesInv, DataHolds, DeskHolds, GrantStaysNarrow
<1>4. KeyReachesRequester'
  <2>1. ASSUME NEW k \in keys  PROVE Accounted(k.no)'
    <3>1. PICK no : no = k.no
      OBVIOUS
    <3>2. Accounted(no)
      BY <3>1 DEF PagesInv, KeyReachesRequester
    <3>3. Accounted(no)'
      BY <1>1, <3>2 DEF Accounted, OnItsWay, Called
    <3> QED
      BY <3>1, <3>3 DEF Accounted, OnItsWay
  <2> QED
    BY <1>1, <2>1 DEF KeyReachesRequester
<1>5. \A t \in Tabs : PageHolds(page[t], Made)' /\ EvidenceHolds(page[t])'
  BY <1>1, <1>2 DEF PagesInv, EvidenceHolds, Evident
<1>6. DOMAIN site' = Visitors /\ \A v \in Visitors : SiteHolds(site[v])'
  BY <1>1, SitesKept
<1> QED
  BY <1>1, <1>3, <1>4, <1>5, <1>6 DEF PagesInv

LEMMA EveryStepHolds ==
  ASSUME PagesInv, Next
  PROVE  PagesInv'
<1>1. ASSUME NEW t \in Tabs, Owner(t) \/ OwnerCall(t) \/ ReviewerMove(t) \/ DeskCall(t)
      PROVE  PagesInv'
  BY <1>1, OwnerHolds, ReviewerMoves, DeskCalls
<1>2. ASSUME NEW v \in Visitors, VisitorMove(v) \/ Serve(v) \/ Answer(v) \/ CallThrows(v)
      PROVE  PagesInv'
  BY <1>2, VisitorMoves, ServeHolds, AnswerHolds
<1> QED
  BY <1>1, <1>2 DEF Next

(***************************************************************************)
(* The inductive invariant of the console, the Requests page and the       *)
(* public page together: every page holds what it was rendered with, what  *)
(* was typed since and the calls its action has left, every modal's calls  *)
(* are queued, and every live key is accounted for.                        *)
(***************************************************************************)
THEOREM PagesInvariance == Spec => []PagesInv
<1>1. Init => PagesInv
  BY InitHolds
<1>2. PagesInv /\ [Next]_pageVars => PagesInv'
  BY EveryStepHolds, StutterHolds
<1> QED
  BY <1>1, <1>2, PTL DEF Spec

(***************************************************************************)
(* A modal that is busy waits for a call of its own, or its call threw; a  *)
(* page that waits has a call to make; every id is used or not.            *)
(***************************************************************************)
THEOREM ModalsAreHeld == Spec => []Inv
<1>1. PagesInv => Inv
  <2> SUFFICES ASSUME PagesInv  PROVE Inv
    OBVIOUS
  <2>1. ASSUME NEW t \in Tabs
        PROVE  /\ page[t].at \in Sections => IsRows(page[t].draft) /\ IsRows(page[t].shown)
               /\ Waiting(t) <=> page[t].job.todo # <<>>
    <3>1. PICK p : p = page[t]
      OBVIOUS
    <3>2. PageHolds(p, Made)
      BY <3>1 DEF PagesInv
    <3>3. TodoHolds(p.job) /\ (p.at \in Sections => FormHolds(p))
      BY <3>2 DEF PageHolds
    <3>4. p.job.do # "none" <=> p.job.todo # <<>>
      BY <3>3 DEF TodoHolds, Merges
    <3> QED
      BY <3>1, <3>3, <3>4 DEF FormHolds, Waiting
  <2>2. TypeOK
    BY <2>1 DEF PagesInv, DataHolds, DeskHolds, TypeOK
  <2>3. ASSUME NEW v \in Visitors  PROVE SiteHolds(site[v])
    BY DEF PagesInv
  <2>4. BusyHasItsCall
    BY <2>3 DEF SiteHolds, BusyHasItsCall
  <2> QED
    BY <2>2, <2>4 DEF Inv
<1> QED
  BY PagesInvariance, <1>1, PTL

(***************************************************************************)
(* Every live key is in its requester's hands, on its way there,           *)
(* or known to be lost: with an answer that was not heard, with the modal  *)
(* that asked, with a mail that failed, or because there was nobody to     *)
(* mail it to or no server to mail it with (approveKey,                    *)
(* applyRecommendation, sendMail, RequestAccessModal, the reclaim's mail). *)
(***************************************************************************)
THEOREM KeysAreAccountedFor == Spec => []KeyReachesRequester
<1>1. PagesInv => KeyReachesRequester
  BY DEF PagesInv
<1> QED
  BY PagesInvariance, <1>1, PTL

(***************************************************************************)
(* No key for a request of chosen artifacts opens them all, whoever        *)
(* granted it: the policy, a reviewer, or a reclaim.                       *)
(***************************************************************************)
THEOREM GrantsAreNarrow == Spec => []GrantStaysNarrow
<1>1. PagesInv => GrantStaysNarrow
  BY DEF PagesInv, DeskHolds
<1> QED
  BY PagesInvariance, <1>1, PTL

-----------------------------------------------------------------------------
(* Whose step changes a page: its tab's own. *)
LEMMA TheirOwnPages ==
  ASSUME PagesInv, NEW u \in Tabs,
         Owner(u) \/ OwnerCall(u) \/ ReviewerMove(u) \/ DeskCall(u)
  PROVE  \A t \in Tabs \ {u} : page'[t] = page[t]
<1>1. DOMAIN page = Tabs
  BY DEF PagesInv
<1>2. ASSUME NEW s, Open(u, s)  PROVE \A t \in Tabs \ {u} : page'[t] = page[t]
  BY <1>1, <1>2 DEF Open
<1>3. CASE ConsoleMove(u)
  <2>1. ASSUME NEW s \in Sections, Follow(u, s)
        PROVE  \A t \in Tabs \ {u} : page'[t] = page[t]
    BY <1>1, <1>2, <2>1 DEF Follow
  <2>2. CASE StayOnPage(u) \/ LeaveAnyway(u)
    BY <1>1, <1>2, <2>2 DEF StayOnPage, LeaveAnyway
  <2>3. CASE EditMove(u)
    <3>1. CASE \E n \in Names : \/ AddRow(u, n) \/ RemoveRow(u, n)
                                \/ \E id \in page[u].options : LinkEvidence(u, n, id)
      <4>1. ASSUME NEW n, NEW rows, page' = Edited(u, n, rows)
            PROVE  \A t \in Tabs \ {u} : page'[t] = page[t]
        BY <1>1, <4>1 DEF Edited
      <4>2. \E n, rows : page' = Edited(u, n, rows)
        BY <3>1 DEF AddRow, RemoveRow, LinkEvidence
      <4> QED
        BY <4>1, <4>2
    <3>2. CASE Save(u)
      BY <1>1, <3>2 DEF Save, Started
    <3>3. CASE \E n \in Names, count \in 1 .. 2 : DropFiles(u, n, count)
      BY <1>1, <3>3 DEF DropFiles
    <3>4. CASE \E picked \in SUBSET Names :
                 Autofill(u, picked) \/ AddLibrary(u, picked) \/ Import(u, picked)
      BY <1>1, <3>4 DEF Autofill, AddLibrary, Import, Merge, Started
    <3>5. CASE NothingGiven(u)
      BY <1>1, <3>5 DEF NothingGiven
    <3> QED
      BY <2>3, <3>1, <3>2, <3>3, <3>4, <3>5 DEF EditMove
  <2>4. CASE ArtifactMove(u)
    <3>1. ASSUME NEW todo, NEW id, ArtifactForm(u, todo, id)
          PROVE  \A t \in Tabs \ {u} : page'[t] = page[t]
      BY <1>1, <3>1 DEF ArtifactForm
    <3>2. CASE SettingsPage(u)
      BY <1>1, <3>2 DEF SettingsPage, SaveSettings
    <3>3. CASE ArtifactsPage(u) \/ SbomPage(u) \/ ArtifactPage(u)
      BY <3>1, <3>3 DEF ArtifactsPage, SbomPage, ArtifactPage, AddArtifact, AddSbom,
         AddQuestionnaires, UploadNewVersion, EditArtifact, DeleteArtifact
    <3> QED
      BY <2>4, <3>2, <3>3 DEF ArtifactMove
  <2> QED
    BY <1>3, <2>1, <2>2, <2>3, <2>4 DEF ConsoleMove
<1>4. CASE ConsoleCall(u)
  <2>1. \E outcome, job : Continued(u, outcome, job)
    BY <1>4 DEF ConsoleCall, ReadList, ReplaceList, CreateArtifact, UploadContent,
       UpdateArtifact, RemoveArtifact
  <2> QED
    BY <1>1, <2>1 DEF Continued
<1>5. CASE ReviewerMove(u)
  <2>1. OpenRequests(u) \/ \E r, do, todo, ids : Deciding(u, r, do, todo, ids)
    BY <1>5 DEF ReviewerMove, ApproveKey, DenyKey, RevokeKey, ApplyRecommendation
  <2> QED
    BY <1>1, <2>1 DEF OpenRequests, Deciding
<1>6. CASE DeskCall(u)
  <2>1. \E outcome, job, requests : Went(u, outcome, job, requests)
    BY <1>6 DEF DeskCall, FindContact, Approve, Deny, Revoke, SendMail
  <2> QED
    BY <1>1, <2>1 DEF Went
<1> QED
  BY <1>3, <1>4, <1>5, <1>6 DEF Owner, OwnerCall

LEMMA VisitorsElsewhere ==
  ASSUME NEW v \in Visitors, VisitorMove(v) \/ Serve(v) \/ Answer(v) \/ CallThrows(v)
  PROVE  UNCHANGED <<lists, page>>
<1>1. CASE VisitorMove(v)
  <2>1. CASE Visit(v) \/ CloseModal(v) \/ SwitchModal(v)
    BY <2>1 DEF Visit, CloseModal, SwitchModal, consoleVars
  <2>2. CASE Submit(v) \/ \E modal \in Forms : OpenModal(v, modal)
    BY <2>2 DEF Submit, OpenModal, Calling, consoleVars
  <2>3. CASE \E level, ticked, contract : RequestAccess(v, level, ticked, contract)
    BY <2>3 DEF RequestAccess, Calling, consoleVars
  <2>4. CASE \E id \in Ids : View(v, id)
    BY <2>4 DEF View, consoleVars
  <2> QED
    BY <1>1, <2>1, <2>2, <2>3, <2>4 DEF VisitorMove
<1>2. CASE Serve(v)
  BY <1>2 DEF Serve, ServeOther, ServeReclaim, ServeRequest, consoleVars
<1>3. CASE Answer(v) \/ CallThrows(v)
  BY <1>3 DEF Answer, CallThrows, consoleVars
<1> QED
  BY <1>1, <1>2, <1>3

LEMMA WhoMoves ==
  ASSUME PagesInv, Next, NEW t \in Tabs, page'[t] # page[t]
  PROVE  Owner(t) \/ OwnerCall(t) \/ ReviewerMove(t) \/ DeskCall(t)
<1>1. ASSUME NEW v \in Visitors, VisitorMove(v) \/ Serve(v) \/ Answer(v) \/ CallThrows(v)
      PROVE  FALSE
  BY <1>1, VisitorsElsewhere
<1>2. PICK u \in Tabs : Owner(u) \/ OwnerCall(u) \/ ReviewerMove(u) \/ DeskCall(u)
  BY <1>1 DEF Next
<1>3. u = t
  BY <1>2, TheirOwnPages
<1> QED
  BY <1>2, <1>3

(* While an action goes on, nothing but its next call changes the page. *)
LEMMA OnlyItsCalls ==
  ASSUME PagesInv, NEW t \in Tabs, Waiting(t)
  PROVE  ~Owner(t) /\ ~ReviewerMove(t)
<1>1. page[t].next = "none"
  BY DEF PagesInv, PageHolds, Waiting
<1>2. ~ConsoleMove(t)
  <2>1. ~StayOnPage(t) /\ ~LeaveAnyway(t) /\ ~Editable(t)
    BY <1>1 DEF StayOnPage, LeaveAnyway, Editable
  <2>2. ~ArtifactMove(t)
    BY DEF ArtifactMove, SettingsPage, SaveSettings, ArtifactsPage, SbomPage, ArtifactPage,
       AddArtifact, AddSbom, AddQuestionnaires, UploadNewVersion, EditArtifact, DeleteArtifact,
       ArtifactForm
  <2> QED
    BY <2>1, <2>2 DEF ConsoleMove
<1>3. ~ReviewerMove(t)
  BY DEF ReviewerMove, OpenRequests, ApproveKey, DenyKey, RevokeKey, ApplyRecommendation, Deciding
<1> QED
  BY <1>2, <1>3 DEF Owner

LEMMA ReplacingStep ==
  ASSUME PagesInv, Next, NEW t \in Tabs, Replaces(t)
  PROVE  \E outcome \in Outcomes : ReplaceList(t, outcome)
<1>1. Waiting(t) /\ Todo(t) = "replace" /\ page'[t] # page[t]
  BY DEF Replaces
<1>2. OwnerCall(t) \/ DeskCall(t)
  BY <1>1, WhoMoves, OnlyItsCalls
<1>3. ~DeskCall(t)
  BY <1>1 DEF DeskCall, FindContact, Approve, Deny, Revoke, SendMail
<1>4. ConsoleCall(t)
  BY <1>2, <1>3 DEF OwnerCall
<1> QED
  BY <1>1, <1>4 DEF ConsoleCall, ReadList, CreateArtifact, UploadContent, UpdateArtifact,
     RemoveArtifact

(* What an action sends holds the rows it knew as they are, but for links  *)
(* to evidence that is gone, which are none when they are stored.          *)
LEMMA GivenKeeps ==
  ASSUME PagesInv, NEW t \in Tabs, Waiting(t), Todo(t) = "replace", NEW s \in Sections,
         s = page[t].at, NEW n \in Untouched(t), NEW given, given = page[t].job.given
  PROVE  /\ n \in DOMAIN lists[s] /\ n \in DOMAIN given
         /\ (s \in {"controls", "claims"} /\ page[t].job.do # "library") \/ given[n] = lists[s][n]
<1>1. PICK p : p = page[t]
  OBVIOUS
<1>2. PICK j : j = p.job
  OBVIOUS
<1>3. PageHolds(p, Made) /\ GivenHolds(p) /\ TodoHolds(j) /\ j.do # "none" /\ FormHolds(p)
      /\ s \in Place(j.do) /\ Head(j.todo) = "replace" /\ given = j.given
  BY <1>1, <1>2 DEF PagesInv, PageHolds, Waiting, Todo
<1>4. j.do \in {"save", "drop"} \cup Merges /\ (j.do \in Merges => j.todo = <<"replace">>)
  BY <1>3, TodoGoesOn
<1>5. PICK old : old = lists[s]
  OBVIOUS
<1>6. CASE j.do \in Merges
  <2>1. n \in DOMAIN j.base /\ n \in DOMAIN old /\ j.base[n] = old[n]
    BY <1>1, <1>2, <1>5, <1>6 DEF Untouched, Merges
  <2>2. n \in DOMAIN given /\ (j.do = "library" => given[n] = j.base[n])
    BY <1>2, <1>3, <1>4, <1>6, <2>1 DEF GivenHolds
  <2>3. s \in {"controls", "claims"}
    BY <1>3, <1>6 DEF Place, Merges
  <2> QED
    BY <1>1, <1>2, <1>5, <2>1, <2>2, <2>3
<1>7. CASE j.do \notin Merges
  <2>1. /\ n \in DOMAIN p.shown /\ n \in DOMAIN old /\ p.shown[n] = old[n]
        /\ n \notin p.touched /\ n # j.row
    BY <1>1, <1>2, <1>5, <1>7 DEF Untouched, Merges
  <2>2. /\ n \in DOMAIN p.draft /\ (s # "claims" => p.draft[n] = old[n])
        /\ IsRows(p.draft) /\ (s = "faqs" => old[n] = "more")
    BY <1>1, <1>3, <2>1 DEF FormHolds
  <2>3. CASE j.do = "save"
    <3>1. given = Submitted(s, p.draft)
      BY <1>1, <1>2, <1>3, <2>3 DEF GivenHolds
    <3>2. n \in DOMAIN given
      BY <2>2, <3>1, SubmittedRows
    <3>3. s \notin {"controls", "claims"} => given[n] = old[n]
      <4>1. CASE s = "faqs"
        BY <2>2, <3>1, <3>2, <4>1, SubmittedRows
      <4>2. CASE s # "faqs"
        BY <2>2, <3>1, <4>2, SubmittedRows
      <4> QED
        BY <4>1, <4>2
    <3> QED
      BY <1>1, <1>2, <1>5, <2>1, <2>3, <3>2, <3>3
  <2>4. CASE j.do = "drop"
    <3>1. s = "badges"
      BY <1>3, <2>4 DEF Place
    <3>2. DOMAIN given = DOMAIN p.draft /\ given[n] = p.draft[n]
      BY <1>2, <1>3, <2>1, <2>2, <2>4 DEF GivenHolds
    <3> QED
      BY <1>5, <2>1, <2>2, <3>1, <3>2
  <2> QED
    BY <1>4, <1>7, <2>3, <2>4
<1> QED
  BY <1>6, <1>7

LEMMA ListKeeps ==
  ASSUME PagesInv, Next, NEW t \in Tabs, Replaces(t), NEW n \in Untouched(t),
         NEW s, s = page[t].at
  PROVE  /\ n \in DOMAIN lists'[s]
         /\ \/ s \in {"controls", "claims"} /\ page[t].job.do # "library"
            \/ lists'[s][n] = lists[s][n]
            \/ lists[s][n] \in Ids \ DOMAIN artifacts
<1>1. PICK outcome \in Outcomes : ReplaceList(t, outcome)
  BY ReplacingStep
<1>2. s \in Sections /\ Waiting(t) /\ Todo(t) = "replace"
  BY DEF Replaces
<1>3. PICK given : given = page[t].job.given
  OBVIOUS
<1>4. PICK old : old = lists[s]
  OBVIOUS
<1>5. PICK stored : stored = Stored(s, given)
  OBVIOUS
<1>6. RestOf(t).given = given
  BY <1>2, <1>3, NextCall
<1>7. DOMAIN lists = Sections
  BY DEF PagesInv, DataHolds
<1>8. PICK m : m = Replacer[s]
  OBVIOUS
<1>9. lists'[s] = After(m, old, stored, outcome)
  BY <1>1, <1>2, <1>4, <1>5, <1>6, <1>7, <1>8 DEF ReplaceList
<1>10. lists'[s] = IF Done(outcome) THEN stored ELSE old
  <2>1. Client[m].verb = "PUT"
    BY <1>2, <1>8, SectionVerbs, NotSections
  <2>2. After(m, old, stored, outcome) = IF Done(outcome) THEN stored ELSE old
    BY <2>1, AfterVerb
  <2> QED
    BY <1>9, <2>2
<1>11. /\ n \in DOMAIN old /\ n \in DOMAIN given
       /\ (s \in {"controls", "claims"} /\ page[t].job.do # "library") \/ given[n] = old[n]
  BY <1>2, <1>3, <1>4, GivenKeeps
<1>12. n \in DOMAIN stored /\ (stored[n] = given[n] \/ given[n] \in Ids \ DOMAIN artifacts)
  BY <1>5, <1>11 DEF Stored, Evidenced
<1> QED
  BY <1>4, <1>10, <1>11, <1>12

(* A form page that is rendered again is the page it was. *)
LEMMA OverStays ==
  ASSUME PagesInv, NEW t \in Tabs, page[t].at \in Sections, NEW under,
         NEW q, q = Over(t, page[t].at, under)
  PROVE  q.at = page[t].at
<1>1. PICK p : p = page[t]
  OBVIOUS
<1>2. PICK s : s = p.at
  OBVIOUS
<1>3. DOMAIN p = DOMAIN Nowhere /\ s \in Sections /\ s \in AllSections
  BY <1>1, <1>2, NotSections DEF PagesInv, PageHolds
<1>4. PICK l : l = Loaded(s, lists'[s])
  OBVIOUS
<1>5. l.at = s /\ DOMAIN l = DOMAIN Nowhere
  BY <1>3, <1>4 DEF Loaded, ControlsPage, FaqPage, UpdatesPage, DataCollectedPage,
     SubprocessorsPage, CompliancePage, AttestationsPage, Rendered, Nowhere, AllSections
<1>6. Rerendered(p, lists'[s], under).at = s
  BY <1>2, <1>4, <1>5 DEF Rerendered
<1>7. CASE KeepsItsRows(s)
  BY <1>1, <1>2, <1>3, <1>7 DEF Over
<1>8. CASE ~KeepsItsRows(s)
  BY <1>1, <1>2, <1>3, <1>4, <1>5, <1>6, <1>8 DEF Over
<1> QED
  BY <1>7, <1>8

(* A page with typed, unsubmitted edits that the guard knows of is left    *)
(* through the guard's question or by an action.                           *)
LEMMA NotLeft ==
  ASSUME PagesInv, Next, NEW t \in Tabs, page[t].at \in Sections, IsTyped(page[t].at),
         page[t].touched # {}, page'[t].at # page[t].at, ~page[t].unguarded
  PROVE  page[t].next # "none" \/ Waiting(t)
<1> SUFFICES ASSUME page[t].next = "none", ~Waiting(t)  PROVE FALSE
  OBVIOUS
<1>1. PICK p : p = page[t]
  OBVIOUS
<1>2. PageHolds(p, Made) /\ DOMAIN page = Tabs
  BY <1>1 DEF PagesInv
<1>3. p.dirty /\ DOMAIN p = DOMAIN Nowhere
  BY <1>1, <1>2 DEF PageHolds, FormHolds, Waiting
<1>4. p.at \notin {"none", "error", "requests"}
  BY <1>1, NotSections
<1>5. ~OwnerCall(t) /\ ~DeskCall(t)
  BY DEF OwnerCall, ConsoleCall, ReadList, ReplaceList, CreateArtifact, UploadContent,
     UpdateArtifact, RemoveArtifact, DeskCall, FindContact, Approve, Deny, Revoke, SendMail
<1>6. ~ReviewerMove(t)
  BY <1>1, <1>4 DEF ReviewerMove, OpenRequests, ApproveKey, DenyKey, RevokeKey,
     ApplyRecommendation, Pending, Issued
<1>7. ConsoleMove(t)
  BY <1>5, <1>6, WhoMoves DEF Owner
<1>8. PICK q : q = page'[t]
  OBVIOUS
<1>9. q.at # p.at
  BY <1>1, <1>8
<1>10. ASSUME NEW s \in Sections, Follow(t, s)  PROVE FALSE
  <2>1. page' = [page EXCEPT ![t].next = s]
    BY <1>1, <1>3, <1>10 DEF Follow
  <2>2. q = [p EXCEPT !.next = s]
    BY <1>1, <1>2, <1>8, <2>1
  <2> QED
    BY <1>3, <1>9, <2>2 DEF Nowhere
<1>11. ~StayOnPage(t) /\ ~LeaveAnyway(t)
  BY DEF StayOnPage, LeaveAnyway
<1>12. EditMove(t)
  BY <1>1, <1>4, <1>7, <1>10, <1>11 DEF ConsoleMove
<1>13. ASSUME NEW n, NEW rows, page' = Edited(t, n, rows)  PROVE FALSE
  BY <1>1, <1>2, <1>3, <1>8, <1>9, <1>13 DEF Edited, Nowhere
<1>14. ASSUME NEW job, page' = [page EXCEPT ![t].dirty = FALSE, ![t].job = job]  PROVE FALSE
  BY <1>1, <1>2, <1>3, <1>8, <1>9, <1>14 DEF Nowhere
<1>15. CASE \E n \in Names : \/ AddRow(t, n) \/ RemoveRow(t, n)
                             \/ \E id \in page[t].options : LinkEvidence(t, n, id)
  BY <1>13, <1>15 DEF AddRow, RemoveRow, LinkEvidence
<1>16. CASE Save(t)
  BY <1>14, <1>16 DEF Save, Started
<1>17. CASE \E n \in Names, count \in 1 .. 2 : DropFiles(t, n, count)
  BY <1>14, <1>17 DEF DropFiles
<1>18. CASE \E picked \in SUBSET Names :
              Autofill(t, picked) \/ AddLibrary(t, picked) \/ Import(t, picked)
  BY <1>14, <1>18 DEF Autofill, AddLibrary, Import, Merge, Started
<1>19. CASE NothingGiven(t)
  <2>1. PICK under \in Under(t) : page' = [page EXCEPT ![t] = Over(t, page[t].at, under)]
    BY <1>19 DEF NothingGiven
  <2>2. q = Over(t, p.at, under)
    BY <1>1, <1>2, <1>8, <2>1
  <2>3. p.at \in Sections
    BY <1>1
  <2>4. q.at = p.at
    BY <1>1, <2>2, <2>3, OverStays
  <2> QED
    BY <1>9, <2>4
<1> QED
  BY <1>12, <1>15, <1>16, <1>17, <1>18, <1>19 DEF EditMove

(***************************************************************************)
(* A save, a dropped file, an import, an autofill or a pick from the       *)
(* library keeps every row it knew as it is and was not asked to change,   *)
(* but for a link to evidence that is gone (actions.ts: saveBadges,        *)
(* saveControls, saveFaqs, addLibraryControls, parseControls,              *)
(* autofillAttestations), and typed input that no other form of its page   *)
(* has left unguarded is left behind only through "Leave anyway" or by an  *)
(* action (form-guard.tsx).                                                *)
(***************************************************************************)
THEOREM EditsAreKept == Spec => EditsStay
<1>1. PagesInv /\ [Next]_pageVars =>
        [\A t \in Tabs : Replaces(t) =>
           LET s == page[t].at
               known == s \in {"controls", "claims"} /\ page[t].job.do # "library"
           IN \A n \in Untouched(t) :
                /\ n \in DOMAIN lists'[s]
                /\ known \/ lists'[s][n] = lists[s][n] \/ lists[s][n] \in Ids \ DOMAIN artifacts]_pageVars
  BY ListKeeps
<1>2. PagesInv /\ [Next]_pageVars =>
        [\A t \in Tabs : ~page[t].unguarded => LeavingAsks(t)]_pageVars
  BY NotLeft DEF LeavingAsks
<1>3. Spec => UntouchedStays
  BY PagesInvariance, <1>1, PTL DEF Spec, UntouchedStays
<1>4. Spec => LeavingWarns
  BY PagesInvariance, <1>2, PTL DEF Spec, LeavingWarns
<1> QED
  BY <1>3, <1>4 DEF EditsStay

(***************************************************************************)
(* A standard is linked to a dropped file's artifact when the artifact has *)
(* its content, or was deleted meanwhile (actions.ts saveBadges, whose     *)
(* upload throws before the list is replaced).                             *)
(***************************************************************************)
THEOREM LinkedEvidenceIsThere == Spec => EvidenceIsThere
<1>1. PagesInv /\ [Next]_pageVars =>
        [\A t \in Tabs : Replaces(t) /\ page[t].job.do = "drop" =>
           LET row == page[t].job.row
               id == page[t].job.given[row]
           IN id # page[t].draft[row] /\ id \in DOMAIN artifacts => artifacts[id]]_pageVars
  BY DEF PagesInv, EvidenceHolds, Evident
<1> QED
  BY PagesInvariance, <1>1, PTL DEF Spec, EvidenceIsThere
=============================================================================
