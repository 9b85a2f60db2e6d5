------------------------ MODULE VendorDomainProofs ------------------------
(***************************************************************************)
(* Proofs about the domains of a vendor: the one its trust center is       *)
(* served on, and those it proved to be its own.                           *)
(* CustomDomain: type correctness and the safety properties, for any       *)
(* number of tabs, hosts, calls and turns.                                 *)
(***************************************************************************)
EXTENDS CustomDomain, AgentReadyMark, TLAPS

IInv == Inv /\ ServedWasProved

(* What a column must be to be written: typed, and proved if verified.     *)
Good(b) ==
  /\ b \in Columns /\ HasKeys(b)
  /\ Verified(b.domain) => <<b.domain.host, b.domain.token>> \in proved

LEMMA NoDomainType == NoDomain \in DomainRecords /\ ~Verified(NoDomain)
  BY BoundsAssumption DEF NoDomain, DomainRecords, Statuses, Numbers, Verified, None

LEMMA BlankType == Blank \in Columns /\ HasKeys(Blank) /\ ~Verified(Blank.domain)
  BY NoDomainType, BoundsAssumption DEF Blank, Columns, HasKeys, Numbers

LEMMA IdleType == Idle \in CallRecords /\ Idle.pc = "idle"
  BY BlankType, BoundsAssumption DEF Idle, CallRecords, Numbers, None

LEMMA InitInv == Init => IInv
  <1> SUFFICES ASSUME Init PROVE IInv
    OBVIOUS
  <1>1. TypeOK
    <2>1. Fresh \in Pages
      BY BoundsAssumption DEF Fresh, Pages, NoUrl, Numbers
    <2> QED BY <2>1, BlankType, IdleType, BoundsAssumption DEF Init, TypeOK, EdgeStates, Numbers
  <1>2. OfferIsForTheHost
    BY DEF Init, OfferIsForTheHost, Fresh
  <1>3. CallsInv
    BY DEF Init, CallsInv, Idle
  <1>4. ServedWasProved
    BY BlankType DEF Init, ServedWasProved
  <1> QED BY <1>1, <1>2, <1>3, <1>4 DEF IInv, Inv

-----------------------------------------------------------------------------
(* A page that renders a column shows its host, and offers nothing of      *)
(* another.                                                                *)
LEMMA ShowsPage ==
  ASSUME NEW t \in Tabs, NEW b \in Columns, page \in [Tabs -> Pages], OfferIsForTheHost
  PROVE  /\ Shows(t, b) \in Pages
         /\ Shows(t, b).offer = "connect" => Shows(t, b).url[1] = Shows(t, b).host
  <1> DEFINE d == b.domain
             p == [page[t] EXCEPT !.host = d.host, !.verified = Verified(d), !.logo = b.logo]
             q == [p EXCEPT !.offer = "detecting",
                    !.asked = IF d.host = None \/ Verified(d) THEN @ ELSE @ \cup {d.host}]
  <1>1. d.host \in Hosts \cup {None} /\ b.logo \in Numbers /\ Verified(d) \in BOOLEAN
    BY DEF Columns, DomainRecords, Verified
  <1>2. page[t] \in Pages
    OBVIOUS
  <1>3. p \in Pages /\ p.url = page[t].url /\ p.offer = page[t].offer
    BY <1>1, <1>2 DEF Pages
  <1>4. q \in Pages /\ q.offer = "detecting"
    BY <1>1, <1>3 DEF Pages
  <1>5. CASE p.host = page[t].host /\ p.verified = page[t].verified
    <2>1. Shows(t, b) = p
      BY <1>5 DEF Shows
    <2> QED BY <1>3, <1>5, <2>1 DEF OfferIsForTheHost
  <1>6. CASE ~(p.host = page[t].host /\ p.verified = page[t].verified)
    <2>1. Shows(t, b) = q
      BY <1>6 DEF Shows
    <2> QED BY <1>4, <2>1
  <1> QED BY <1>5, <1>6

LEMMA RenderedPages ==
  ASSUME NEW t \in Tabs, NEW b \in Columns, page \in [Tabs -> Pages], OfferIsForTheHost,
         page' = [page EXCEPT ![t] = Shows(t, b)]
  PROVE  page' \in [Tabs -> Pages] /\ OfferIsForTheHost'
  BY ShowsPage DEF OfferIsForTheHost

(* A call that begins holds the column as it is. *)
LEMMA LoadCalls ==
  ASSUME IInv, NEW c \in Callers, NEW does \in Actions \cup {"provision"},
         NEW host \in Hosts \cup {None}, begun' \in Numbers, Load(c, does, host),
         c = Job => does = "provision" /\ Verified(branding.domain),
         c # Job => does \in Actions /\ begun' > 0,
         does \in {"set", "configure"} => host \in Hosts
  PROVE  call' \in [Callers -> CallRecords] /\ CallsInv'
  <1> DEFINE new == [Idle EXCEPT !.pc = "loaded", !.does = does, !.host = host, !.id = begun',
                       !.seen = branding]
  <1> USE DEF IInv, Inv
  <1>1. branding \in Columns /\ HasKeys(branding)
    BY DEF TypeOK
  <1>2. new \in CallRecords
    BY <1>1 DEF CallRecords, Idle
  <1>3. call' = [call EXCEPT ![c] = new] /\ UNCHANGED <<branding, proved>>
    BY DEF Load
  <1>4. call' \in [Callers -> CallRecords]
    BY <1>2, <1>3 DEF TypeOK
  <1>5. ASSUME NEW e \in Callers, call'[e].pc # "idle"
        PROVE  Holds(e)'
    <2>1. CASE e = c
      <3>1. call'[e] = new
        BY <1>3, <2>1 DEF TypeOK
      <3>2. /\ new.seen = branding /\ new.does = does /\ new.host = host /\ new.id = begun'
            /\ new.pc = "loaded"
        BY IdleType DEF CallRecords
      <3>3. call'[e].seen = branding' /\ call'[e].does = does /\ call'[e].host = host
            /\ call'[e].id = begun' /\ call'[e].pc = "loaded"
        BY <1>3, <3>1, <3>2
      <3>4. Verified(branding'.domain) => <<branding'.domain.host, branding'.domain.token>> \in proved'
        BY <1>3 DEF ServedWasProved
      <3> HIDE DEF new
      <3> DEFINE d == call'[e].seen.domain
      <3>6. Verified(d) => <<d.host, d.token>> \in proved'
        BY <3>3, <3>4
      <3>7. e = Job => call'[e].does = "provision" /\ Verified(d)
        BY <1>3, <2>1, <3>3
      <3>8. e # Job => call'[e].does \in Actions /\ call'[e].id > 0
        BY <2>1, <3>3
      <3>9. call'[e].does \in {"set", "configure"} => call'[e].host \in Hosts
        BY <3>3
      <3>10. call'[e].raced \/ call'[e].seen = branding'
        BY <3>3
      <3>11. ~(call'[e].does = "verify" /\ call'[e].pc = "worked")
        BY <3>3
      <3> QED BY <3>6, <3>7, <3>8, <3>9, <3>10, <3>11, Zenon DEF Holds
    <2>2. CASE e # c
      <3>1. call'[e] = call[e]
        BY <1>3, <2>2 DEF TypeOK
      <3>2. Holds(e)
        BY <1>5, <3>1 DEF CallsInv
      <3>3. branding' = branding /\ proved' = proved
        BY <1>3
      <3> QED BY <3>1, <3>2, <3>3 DEF Holds
    <2> QED BY <2>1, <2>2
  <1> QED BY <1>4, <1>5 DEF CallsInv

(* A call that commits a good column leaves a good one, and every other    *)
(* call knows that it is behind.                                           *)
LEMMA CommitCalls ==
  ASSUME IInv, NEW c \in Callers, NEW b, Good(b), Commit(c, b), proved' = proved
  PROVE  /\ branding' \in Columns /\ HasKeys(branding') /\ ServedWasProved'
         /\ call' \in [Callers -> CallRecords] /\ CallsInv'
  <1> USE DEF IInv, Inv
  <1>1. branding' = branding \/ branding' = b
    BY DEF Commit
  <1>2. branding' \in Columns /\ HasKeys(branding') /\ ServedWasProved'
    BY <1>1 DEF Good, TypeOK, ServedWasProved
  <1>3. ASSUME NEW e \in Callers
        PROVE  /\ call'[e] \in CallRecords
               /\ call'[e].pc # "idle" => Holds(e)'
    <2>1. call[e] \in CallRecords
      BY DEF TypeOK
    <2>2. CASE e = c
      <3>1. call'[e] = Idle
        BY <2>2 DEF Commit
      <3> QED BY <3>1, IdleType
    <2>3. CASE e # c /\ call[e].pc = "idle"
      <3>1. call'[e] = call[e]
        BY <2>3 DEF Commit
      <3> QED BY <2>1, <2>3, <3>1
    <2>4. CASE e # c /\ call[e].pc # "idle"
      <3> DEFINE new == [call[e] EXCEPT !.raced = @ \/ b # call[c].seen]
      <3>1. call'[e] = new
        BY <2>4 DEF Commit
      <3>2. /\ new \in CallRecords
            /\ new.seen = call[e].seen /\ new.does = call[e].does /\ new.pc = call[e].pc
            /\ new.host = call[e].host /\ new.id = call[e].id /\ new.ok = call[e].ok
            /\ new.raced = (call[e].raced \/ b # call[c].seen)
        BY <2>1 DEF CallRecords
      <3>3. call[e].raced \/ call[e].seen = branding
        BY <2>4 DEF CallsInv, Holds
      <3>4. new.raced \/ new.seen = branding'
        BY <3>2, <3>3 DEF Commit
      <3>5. Holds(e)
        BY <2>4 DEF CallsInv
      <3> QED BY <3>1, <3>2, <3>4, <3>5 DEF Holds
    <2> QED BY <2>2, <2>3, <2>4
  <1>4. call' \in [Callers -> CallRecords]
    <2>1. call' = [e \in Callers |-> call'[e]]
      BY DEF Commit
    <2> QED BY <1>3, <2>1
  <1> QED BY <1>2, <1>3, <1>4 DEF CallsInv
-----------------------------------------------------------------------------
(* Every column a handler writes from one that it loaded is good.          *)
LEMMA AssessedGood ==
  ASSUME NEW b, Good(b), <<b.domain.host, b.domain.token>> \in proved, edge \in EdgeStates
  PROVE  Good(Assessed(b))
  <1>1. /\ Assessed(b) \in Columns
        /\ Assessed(b).logo = b.logo /\ Assessed(b).logo_key = b.logo_key
        /\ Assessed(b).wide = b.wide /\ Assessed(b).wide_key = b.wide_key
        /\ Assessed(b).domain.host = b.domain.host /\ Assessed(b).domain.token = b.domain.token
    BY DEF Assessed, Good, Columns, DomainRecords, Statuses
  <1> QED BY <1>1 DEF Good, HasKeys

LEMMA WritesGood ==
  ASSUME IInv, NEW t \in Tabs,
         call[t].pc = (IF call[t].does \in {"verify", "configure"} THEN "worked" ELSE "loaded")
  PROVE  Good(Writes(t))
  <1> DEFINE b == call[t].seen
             d == b.domain
  <1> USE DEF IInv, Inv
  <1>1. t \in Callers /\ t # Job
    BY TabsAssumption DEF Callers
  <1>2. call[t] \in CallRecords
    BY <1>1 DEF TypeOK
  <1>3. Holds(t)
    BY <1>1 DEF CallsInv
  <1>4. Good(b)
    BY <1>2, <1>3 DEF Good, Holds, CallRecords
  <1>5. edge \in EdgeStates /\ page[t] \in Pages
    BY DEF TypeOK
  <1>6. call[t].does \in Actions /\ call[t].id \in Numbers /\ call[t].id > 0
    BY <1>1, <1>2, <1>3 DEF Holds, CallRecords
  <1>7. b \in Columns /\ HasKeys(b) /\ d \in DomainRecords
    BY <1>4 DEF Good, Columns
  <1>8. CASE call[t].does = "set"
    <2>1. call[t].host \in Hosts
      BY <1>3, <1>8 DEF Holds
    <2>2. Writes(t) = Registered(b, call[t].host, call[t].id)
      BY <1>8 DEF Writes
    <2>3. [host |-> call[t].host, token |-> call[t].id, status |-> "pending", tls |-> None]
            \in DomainRecords
      BY <2>1, <1>6 DEF DomainRecords, Statuses
    <2> QED BY <1>7, <2>2, <2>3 DEF Registered, Good, Columns, HasKeys, Verified
  <1>9. CASE call[t].does = "remove"
    <2>1. Writes(t) = [b EXCEPT !.domain = NoDomain]
      BY <1>9 DEF Writes
    <2> QED BY <1>7, <2>1, NoDomainType DEF Good, Columns, HasKeys
  <1>10. CASE call[t].does = "verify"
    <2>1. Writes(t) = Checked(b, call[t].ok)
      BY <1>10 DEF Writes
    <2>2. CASE call[t].ok
      <3>1. <<d.host, d.token>> \in proved
        BY <1>3, <1>10, <2>2 DEF Holds
      <3>2. Writes(t) = Assessed(b)
        BY <2>1, <2>2 DEF Checked
      <3> QED BY <1>4, <1>5, <3>1, <3>2, AssessedGood
    <2>3. CASE ~call[t].ok
      <3>1. Writes(t) = [b EXCEPT !.domain.status = "error"]
        BY <2>1, <2>3 DEF Checked
      <3> QED BY <1>7, <3>1 DEF Good, Columns, DomainRecords, Statuses, HasKeys, Verified
    <2> QED BY <2>2, <2>3
  <1>11. CASE call[t].does = "configure"
    <2>1. Writes(t) = [b EXCEPT !.domain.status = "pending"]
      BY <1>11 DEF Writes
    <2> QED BY <1>7, <2>1 DEF Good, Columns, DomainRecords, Statuses, HasKeys, Verified
  <1>12. CASE call[t].does = "save"
    <2>1. Writes(t) = Saved(b, page[t].logo)
      BY <1>12 DEF Writes
    <2>2. 0 \in Numbers /\ page[t].logo \in Numbers
      BY <1>5, BoundsAssumption DEF Numbers, Pages
    <2>3. Saved(b, page[t].logo) \in Columns /\ HasKeys(Saved(b, page[t].logo))
      BY <1>7, <2>2 DEF Saved, SavedDomain, Columns, HasKeys
    <2>4. Saved(b, page[t].logo).domain = d
      BY DEF Saved, SavedDomain
    <2> QED BY <1>4, <2>1, <2>3, <2>4 DEF Good
  <1>13. CASE call[t].does = "logo"
    <2>1. Writes(t) = [b EXCEPT !.logo = call[t].id, !.logo_key = TRUE]
      BY <1>13 DEF Writes
    <2> QED BY <1>4, <1>6, <1>7, <2>1 DEF Good, Columns, HasKeys
  <1>14. CASE call[t].does = "wide"
    <2>1. Writes(t) = [b EXCEPT !.wide = call[t].id, !.wide_key = TRUE]
      BY <1>14 DEF Writes
    <2> QED BY <1>4, <1>6, <1>7, <2>1 DEF Good, Columns, HasKeys
  <1> QED BY <1>6, <1>8, <1>9, <1>10, <1>11, <1>12, <1>13, <1>14 DEF Actions

-----------------------------------------------------------------------------
(* A call that ends without writing, or goes on, leaves the others alone.  *)
LEMMA RefuseCalls ==
  ASSUME IInv, NEW t \in Tabs, Refuse(t)
  PROVE  call' \in [Callers -> CallRecords] /\ CallsInv'
  <1> USE DEF IInv, Inv
  <1>1. call' = [call EXCEPT ![t] = Idle] /\ branding' = branding /\ proved' = proved
    BY DEF Refuse
  <1>2. call' \in [Callers -> CallRecords]
    BY <1>1, IdleType DEF TypeOK
  <1>3. ASSUME NEW e \in Callers, call'[e].pc # "idle"
        PROVE  Holds(e)'
    <2>1. call'[e] = call[e]
      BY <1>1, <1>3, IdleType DEF TypeOK
    <2>2. Holds(e)
      BY <1>3, <2>1 DEF CallsInv
    <2> QED BY <1>1, <2>1, <2>2 DEF Holds
  <1> QED BY <1>2, <1>3 DEF CallsInv

LEMMA LookupStep ==
  ASSUME IInv, NEW t \in Tabs, Lookup(t)
  PROVE  IInv'
  <1> DEFINE d == call[t].seen.domain
  <1> USE DEF IInv, Inv
  <1>1. t \in Callers /\ t # Job
    BY TabsAssumption DEF Callers
  <1>2. call[t] \in CallRecords /\ d \in DomainRecords /\ d.host \in Hosts
    BY <1>1 DEF TypeOK, CallRecords, Columns, DomainRecords, Lookup
  <1>3. PICK ok \in BOOLEAN :
          /\ call' = [call EXCEPT ![t].pc = "worked", ![t].ok = ok]
          /\ proved' = IF ok THEN proved \cup {<<d.host, d.token>>} ELSE proved
    BY DEF Lookup
  <1>4. UNCHANGED <<branding, page, dns, edge, begun>>
    BY DEF Lookup
  <1> DEFINE new == [call[t] EXCEPT !.pc = "worked", !.ok = ok]
  <1>5. /\ new \in CallRecords /\ new.pc = "worked" /\ new.ok = ok
        /\ new.seen = call[t].seen /\ new.does = call[t].does /\ new.raced = call[t].raced
        /\ new.id = call[t].id /\ new.host = call[t].host
    BY <1>2 DEF CallRecords
  <1>6. call' = [call EXCEPT ![t] = new]
    BY <1>1, <1>3 DEF TypeOK, CallRecords
  <1>7. proved \subseteq proved' /\ proved' \subseteq Hosts \X Numbers
    BY <1>2, <1>3 DEF TypeOK, DomainRecords
  <1>8. call' \in [Callers -> CallRecords]
    BY <1>5, <1>6 DEF TypeOK
  <1>9. ASSUME NEW e \in Callers, call'[e].pc # "idle"
        PROVE  Holds(e)'
    <2>1. CASE e = t
      <3>1. call'[e] = new
        BY <1>1, <1>6, <2>1 DEF TypeOK
      <3>2. Holds(t)
        BY <1>1 DEF CallsInv, Lookup
      <3>3. ok => <<d.host, d.token>> \in proved'
        BY <1>3
      <3>4. d.host # None
        BY DEF Lookup
      <3> HIDE DEF new
      <3> QED BY <1>1, <1>4, <1>5, <1>7, <2>1, <3>1, <3>2, <3>3, <3>4 DEF Holds
    <2>2. CASE e # t
      <3>1. call'[e] = call[e]
        BY <1>6, <2>2 DEF TypeOK
      <3>2. Holds(e)
        BY <1>9, <3>1 DEF CallsInv
      <3> QED BY <1>4, <1>7, <3>1, <3>2 DEF Holds
    <2> QED BY <2>1, <2>2
  <1>10. TypeOK'
    BY <1>4, <1>7, <1>8 DEF TypeOK
  <1>11. OfferIsForTheHost' /\ ServedWasProved'
    BY <1>4, <1>7 DEF OfferIsForTheHost, ServedWasProved
  <1> QED BY <1>9, <1>10, <1>11 DEF CallsInv

LEMMA UpsertStep ==
  ASSUME IInv, NEW t \in Tabs, Upsert(t)
  PROVE  IInv'
  <1> DEFINE d == call[t].seen.domain
             new == [call[t] EXCEPT !.pc = "worked"]
  <1> USE DEF IInv, Inv
  <1>1. t \in Callers /\ t # Job
    BY TabsAssumption DEF Callers
  <1>2. call[t] \in CallRecords /\ d \in DomainRecords
    BY <1>1 DEF TypeOK, CallRecords, Columns
  <1>3. call' = [call EXCEPT ![t] = new]
    BY DEF Upsert
  <1>4. UNCHANGED <<branding, page, edge, proved, begun>>
    BY DEF Upsert
  <1>5. /\ new \in CallRecords /\ new.pc = "worked" /\ new.ok = call[t].ok
        /\ new.seen = call[t].seen /\ new.does = "configure" /\ new.raced = call[t].raced
        /\ new.id = call[t].id /\ new.host = call[t].host
    BY <1>2 DEF CallRecords, Upsert
  <1>6. d.host \in Hosts
    BY <1>1 DEF CallsInv, Holds, Upsert
  <1>7. dns' \in [cname : SUBSET Hosts, txt : SUBSET (Hosts \X Numbers)]
    BY <1>2, <1>6 DEF Upsert, TypeOK, DomainRecords
  <1>8. call' \in [Callers -> CallRecords]
    BY <1>3, <1>5 DEF TypeOK
  <1>9. ASSUME NEW e \in Callers, call'[e].pc # "idle"
        PROVE  Holds(e)'
    <2>1. CASE e = t
      <3>1. call'[e] = new
        BY <1>1, <1>3, <2>1 DEF TypeOK
      <3>2. Holds(t)
        BY <1>1 DEF CallsInv, Upsert
      <3> HIDE DEF new
      <3> QED BY <1>1, <1>4, <1>5, <2>1, <3>1, <3>2 DEF Holds, Upsert
    <2>2. CASE e # t
      <3>1. call'[e] = call[e]
        BY <1>3, <2>2 DEF TypeOK
      <3>2. Holds(e)
        BY <1>9, <3>1 DEF CallsInv
      <3> QED BY <1>4, <3>1, <3>2 DEF Holds
    <2> QED BY <2>1, <2>2
  <1>10. TypeOK'
    BY <1>4, <1>7, <1>8 DEF TypeOK
  <1>11. OfferIsForTheHost' /\ ServedWasProved'
    BY <1>4 DEF OfferIsForTheHost, ServedWasProved
  <1> QED BY <1>9, <1>10, <1>11 DEF CallsInv

-----------------------------------------------------------------------------
(* What no call is changed by leaves what the calls hold as it is. *)
LEMMA CallsUntouched ==
  ASSUME CallsInv, UNCHANGED <<call, branding, proved>>
  PROVE  CallsInv'
  BY DEF CallsInv, Holds

LEMMA NextInv == IInv /\ [Next]_vars => IInv'
  <1> SUFFICES ASSUME IInv, [Next]_vars PROVE IInv'
    OBVIOUS
  <1> USE DEF IInv, Inv
  <1>1. CASE UNCHANGED vars
    <2>1. CallsInv'
      BY <1>1, CallsUntouched DEF vars
    <2> QED BY <1>1, <2>1 DEF vars, TypeOK, OfferIsForTheHost, ServedWasProved
  <1>2. ASSUME NEW t \in Tabs, Render(t)
        PROVE  IInv'
    <2>1. page' \in [Tabs -> Pages] /\ OfferIsForTheHost'
      BY <1>2, RenderedPages DEF Render, TypeOK
    <2>2. CallsInv'
      BY <1>2, CallsUntouched DEF Render
    <2> QED BY <1>2, <2>1, <2>2 DEF Render, TypeOK, ServedWasProved
  <1>3. ASSUME NEW t \in Tabs, Refuse(t)
        PROVE  IInv'
    <2>1. page' \in [Tabs -> Pages] /\ OfferIsForTheHost'
      BY <1>3, RenderedPages DEF Refuse, TypeOK
    <2> QED BY <1>3, <2>1, RefuseCalls DEF Refuse, TypeOK, ServedWasProved
  <1>4. ASSUME NEW t \in Tabs, Answer(t)
        PROVE  IInv'
    <2>1. t \in Callers
      BY DEF Callers
    <2>2. Good(Writes(t))
      BY <1>4, WritesGood DEF Answer
    <2>3. /\ branding' \in Columns /\ HasKeys(branding') /\ ServedWasProved'
          /\ call' \in [Callers -> CallRecords] /\ CallsInv'
      BY <1>4, <2>1, <2>2, CommitCalls DEF Answer
    <2>4. page' \in [Tabs -> Pages] /\ OfferIsForTheHost'
      BY <1>4, <2>3, RenderedPages DEF Answer, TypeOK
    <2> QED BY <1>4, <2>3, <2>4 DEF Answer, TypeOK
  <1>5. ASSUME NEW t \in Tabs, openConnect(t)
        PROVE  IInv'
    <2>1. page' \in [Tabs -> Pages] /\ OfferIsForTheHost'
      BY <1>5, RenderedPages DEF openConnect, TypeOK
    <2>2. page[t].url \in Hosts \X Numbers
      BY <1>5 DEF openConnect, OfferIsForTheHost, TypeOK, Pages
    <2>3. dns' \in [cname : SUBSET Hosts, txt : SUBSET (Hosts \X Numbers)]
      BY <1>5, <2>2 DEF openConnect, TypeOK
    <2>4. CallsInv'
      BY <1>5, CallsUntouched DEF openConnect
    <2> QED BY <1>5, <2>1, <2>3, <2>4 DEF openConnect, TypeOK, ServedWasProved
  <1>6. ASSUME NEW t \in Tabs, NEW h \in Hosts, NEW found \in {"none", "connect", "auto"},
               Detect(t, h, found)
        PROVE  IInv'
    <2> DEFINE url == IF found = "connect" THEN <<h, branding.domain.token>> ELSE NoUrl
               new == Told(t, h, found)
    <2>1. url \in (Hosts \cup {None}) \X Numbers
      BY BoundsAssumption DEF TypeOK, Columns, DomainRecords, NoUrl, Numbers
    <2>2. page[t] \in Pages
      BY DEF TypeOK
    <2>3. ASSUME Arrives(t, h)
          PROVE  new \in Pages /\ (new.offer = "connect" => new.url[1] = new.host)
      <3>1. new = [page[t] EXCEPT !.asked = @ \ {h}, !.offer = found, !.url = url]
        BY <2>3 DEF Told
      <3> HIDE DEF new, url
      <3>2. new \in Pages /\ new.offer = found /\ new.url = url /\ new.host = page[t].host
        BY <2>1, <2>2, <3>1 DEF Pages
      <3>3. page[t].host = h
        BY <2>3 DEF Arrives
      <3>4. found = "connect" => url[1] = h
        BY DEF url
      <3> QED BY <3>2, <3>3, <3>4
    <2>4. ASSUME ~Arrives(t, h)
          PROVE  new \in Pages /\ (new.offer = "connect" => new.url[1] = new.host)
      <3>1. new = [page[t] EXCEPT !.asked = @ \ {h}]
        BY <2>4 DEF Told
      <3> QED BY <2>2, <3>1 DEF Pages, OfferIsForTheHost
    <2>5. new \in Pages /\ (new.offer = "connect" => new.url[1] = new.host)
      BY <2>3, <2>4
    <2>6. page' = [page EXCEPT ![t] = new]
      BY <1>6 DEF Detect
    <2>7. page' \in [Tabs -> Pages] /\ OfferIsForTheHost'
      <3> HIDE DEF new
      <3> QED BY <2>5, <2>6 DEF TypeOK, OfferIsForTheHost
    <2>8. CallsInv'
      BY <1>6, CallsUntouched DEF Detect
    <2> QED BY <1>6, <2>7, <2>8 DEF Detect, TypeOK, ServedWasProved
  <1>7. ASSUME NEW t \in Tabs, NEW does \in Actions, NEW h \in Hosts \cup {None},
               Click(t, does, h)
        PROVE  IInv'
    <2>1. t \in Callers /\ t # Job
      BY TabsAssumption DEF Callers
    <2>2. begun' \in Numbers /\ begun' > 0
      BY <1>7, BoundsAssumption DEF Click, TypeOK, Numbers
    <2>3. does \in {"set", "configure"} => h \in Hosts
      BY <1>7 DEF Click, Offered
    <2>4. Load(t, does, h)
      BY <1>7 DEF Click
    <2>5. call' \in [Callers -> CallRecords] /\ CallsInv'
      BY <2>1, <2>2, <2>3, <2>4, LoadCalls
    <2> QED BY <2>2, <2>4, <2>5 DEF Load, TypeOK, OfferIsForTheHost, ServedWasProved
  <1>8. ASSUME NEW txt \in BOOLEAN, NEW cname \in BOOLEAN, EditZone(txt, cname)
        PROVE  IInv'
    <2> DEFINE d == branding.domain
    <2>1. d.host \in Hosts /\ d.token \in Numbers
      BY <1>8 DEF EditZone, TypeOK, Columns, DomainRecords
    <2>2. dns' \in [cname : SUBSET Hosts, txt : SUBSET (Hosts \X Numbers)]
      BY <1>8, <2>1 DEF EditZone, TypeOK
    <2>3. CallsInv'
      BY <1>8, CallsUntouched DEF EditZone
    <2> QED BY <1>8, <2>2, <2>3 DEF EditZone, TypeOK, OfferIsForTheHost, ServedWasProved
  <1>9. ASSUME NEW s \in EdgeStates, EdgeTurns(s)
        PROVE  IInv'
    <2>1. CallsInv'
      BY <1>9, CallsUntouched DEF EdgeTurns
    <2> QED BY <1>9, <2>1 DEF EdgeTurns, TypeOK, OfferIsForTheHost, ServedWasProved
  <1>10. CASE JobLoads
    <2>1. Job \in Callers
      BY DEF Callers
    <2>2. begun' \in Numbers /\ Verified(branding.domain)
      BY <1>10 DEF JobLoads, ToProvision, TypeOK
    <2>3. Load(Job, "provision", None) /\ begun' = begun
      BY <1>10 DEF JobLoads
    <2>4. "provision" \notin {"set", "configure"}
      OBVIOUS
    <2>5. call' \in [Callers -> CallRecords] /\ CallsInv'
      BY <2>1, <2>2, <2>3, <2>4, LoadCalls
    <2> QED BY <2>3, <2>5 DEF Load, TypeOK, OfferIsForTheHost, ServedWasProved
  <1>11. CASE JobWrites
    <2> DEFINE b == call[Job].seen
    <2>1. Job \in Callers
      BY DEF Callers
    <2>2. Holds(Job) /\ call[Job] \in CallRecords
      BY <1>11, <2>1 DEF JobWrites, CallsInv, TypeOK
    <2>3. Good(b) /\ <<b.domain.host, b.domain.token>> \in proved
      BY <2>2 DEF Good, Holds, CallRecords
    <2>4. Good(Assessed(b))
      BY <2>3, AssessedGood DEF TypeOK
    <2>5. /\ branding' \in Columns /\ HasKeys(branding') /\ ServedWasProved'
          /\ call' \in [Callers -> CallRecords] /\ CallsInv'
      BY <1>11, <2>1, <2>4, CommitCalls DEF JobWrites
    <2> QED BY <1>11, <2>5 DEF JobWrites, TypeOK, OfferIsForTheHost
  <1> QED BY <1>1, <1>2, <1>3, <1>4, <1>5, <1>6, <1>7, <1>8, <1>9, <1>10, <1>11,
             LookupStep, UpsertStep DEF Next

-----------------------------------------------------------------------------
(***************************************************************************)
(* The inductive invariant: types, offers, what the calls hold, and that   *)
(* a verified host was proved (routers/manage.py:1212-1500,                *)
(* provision_certs.py).                                                    *)
(***************************************************************************)
THEOREM Invariance == Spec => []IInv
  BY InitInv, NextInv, PTL DEF Spec

(***************************************************************************)
(* The column, the pages and the calls are well typed, the panel offers    *)
(* the provider's page of the host it shows, and a call's column is        *)
(* current or known to be behind.                                          *)
(***************************************************************************)
THEOREM PanelAndCallsHold == Spec => []Inv
  <1>1. IInv => Inv
    BY DEF IInv
  <1> QED BY Invariance, <1>1, PTL

(***************************************************************************)
(* A host is served only if its challenge or CNAME was found since it was  *)
(* registered, whatever column is written back by whom (public.py:37-39).  *)
(***************************************************************************)
THEOREM ServedHostsAreProved == Spec => []ServedWasProved
  <1>1. IInv => ServedWasProved
    BY DEF IInv
  <1> QED BY Invariance, <1>1, PTL

(* A column written by a call that neither registers nor removes a host    *)
(* has the host of the one that was loaded.                                *)
LEMMA SameHost ==
  ASSUME IInv, NEW t \in Tabs, call[t].pc # "idle", call[t].does \notin {"set", "remove"}
  PROVE  Writes(t).domain.host = call[t].seen.domain.host
  <1> DEFINE b == call[t].seen
  <1>1. t \in Callers /\ t # Job
    BY TabsAssumption DEF Callers
  <1>2. b \in Columns /\ b.domain \in DomainRecords
    BY <1>1 DEF IInv, Inv, TypeOK, CallRecords, Columns
  <1>3. call[t].does \in Actions
    BY <1>1 DEF IInv, Inv, CallsInv, Holds
  <1>4. CASE call[t].does = "verify"
    <2>1. Writes(t) = Checked(b, call[t].ok)
      BY <1>4 DEF Writes
    <2> QED BY <1>2, <2>1 DEF Checked, Assessed, Columns, DomainRecords
  <1>5. CASE call[t].does = "configure"
    <2>1. Writes(t) = [b EXCEPT !.domain.status = "pending"]
      BY <1>5 DEF Writes
    <2> QED BY <1>2, <2>1 DEF Columns, DomainRecords
  <1>6. CASE call[t].does = "save"
    <2>1. Writes(t) = Saved(b, page[t].logo)
      BY <1>6 DEF Writes
    <2> QED BY <2>1 DEF Saved, SavedDomain
  <1>7. CASE call[t].does \in {"logo", "wide"}
    <2>1. Writes(t) \in {[b EXCEPT !.logo = call[t].id, !.logo_key = TRUE],
                         [b EXCEPT !.wide = call[t].id, !.wide_key = TRUE]}
      BY <1>7 DEF Writes
    <2> QED BY <1>2, <2>1, Zenon DEF Columns
  <1> QED BY <1>3, <1>4, <1>5, <1>6, <1>7 DEF Actions

(***************************************************************************)
(* A host comes and goes only by a call that registers or removes it, or   *)
(* that wrote back a column changed since (manage.py:385-386).             *)
(***************************************************************************)
THEOREM HostsStay == Spec => HostStays
  <1> DEFINE Move == branding'.domain.host # branding.domain.host
               => \E c \in Callers :
                    /\ call[c].pc # "idle" /\ call'[c].pc = "idle"
                    /\ call[c].does \in {"set", "remove"} \/ call[c].raced
  <1>1. IInv /\ [Next]_vars => [Move]_vars
    <2> SUFFICES ASSUME IInv, Next, branding'.domain.host # branding.domain.host
                 PROVE  \E c \in Callers :
                          /\ call[c].pc # "idle" /\ call'[c].pc = "idle"
                          /\ call[c].does \in {"set", "remove"} \/ call[c].raced
      OBVIOUS
    <2>1. (\E t \in Tabs : Answer(t)) \/ JobWrites
      BY DEF Next, Render, Lookup, Upsert, Refuse, openConnect, Detect, Click, Load, EditZone,
             EdgeTurns, JobLoads
    <2>2. ASSUME NEW t \in Tabs, Answer(t)
          PROVE  \E c \in Callers :
                   /\ call[c].pc # "idle" /\ call'[c].pc = "idle"
                   /\ call[c].does \in {"set", "remove"} \/ call[c].raced
      <3>1. t \in Callers
        BY DEF Callers
      <3>2. call[t].pc # "idle" /\ Commit(t, Writes(t))
        BY <2>2 DEF Answer
      <3>3. branding' = Writes(t) /\ call'[t] = Idle
        BY <3>1, <3>2 DEF Commit
      <3>4. call[t].raced \/ call[t].seen = branding
        BY <3>1, <3>2 DEF IInv, Inv, CallsInv, Holds
      <3> QED BY <3>1, <3>2, <3>3, <3>4, SameHost, IdleType
    <2>3. CASE JobWrites
      <3> DEFINE b == call[Job].seen
      <3>1. Job \in Callers
        BY DEF Callers
      <3>2. call[Job].pc # "idle" /\ Commit(Job, Assessed(b))
        BY <2>3 DEF JobWrites
      <3>3. branding' = Assessed(b) /\ call'[Job] = Idle
        BY <3>1, <3>2 DEF Commit
      <3>4. call[Job].raced \/ b = branding
        BY <3>1, <3>2 DEF IInv, Inv, CallsInv, Holds
      <3>5. b \in Columns /\ b.domain \in DomainRecords
        BY <3>1 DEF IInv, Inv, TypeOK, CallRecords, Columns
      <3>6. Assessed(b).domain.host = b.domain.host
        BY <3>5 DEF Assessed, Columns, DomainRecords
      <3> QED BY <3>1, <3>2, <3>3, <3>4, <3>6, IdleType
    <2> QED BY <2>1, <2>2, <2>3
  <1> QED BY Invariance, <1>1, PTL DEF Spec, HostStays
-----------------------------------------------------------------------------
(***************************************************************************)
(* AgentReadyMark: type correctness and the safety properties, for any     *)
(* number of domains, rows and concurrent handlers.                        *)
(***************************************************************************)

(* A call that goes on, or ends, holds a record of its type. *)
LEMMA GoOnType ==
  ASSUME handler \in HandlerRecords, NEW c \in Calls,
         NEW op \in {"entered", "adding", "verifying", "proved", "removing",
                     "flushed", "reinstating"},
         NEW row \in 0 .. MaxRows, NEW domain \in SUBSET Domains, NEW new \in Marks,
         GoOn(c, op, row, domain, new)
  PROVE  handler' \in HandlerRecords
  BY DEF GoOn, HandlerRecords

LEMMA FinishType ==
  ASSUME handler \in HandlerRecords, NEW c \in Calls, Finish(c)
  PROVE  handler' \in HandlerRecords
  BY MaxRowsAssumption DEF Finish, NoHandler, HandlerRecords, Marks

(* A commit leaves each column as it is or writes the value assigned. *)
LEMMA CommitVendorType ==
  ASSUME MarkTypeOK, NEW c \in Calls, NEW m \in Marks, NEW ds \in SUBSET Domains,
         CommitVendor(c, m, ds)
  PROVE  mark' \in Marks /\ mark' \in {mark, m} /\ domains' \subseteq Domains
  BY DEF CommitVendor, Written, MarkTypeOK

(* The recomputed mark is a mark, and agent-ready only over a verified row. *)
LEMMA RecomputedMark ==
  ASSUME NEW seen \in Marks, NEW left
  PROVE  /\ RecomputeMark(seen, left) \in Marks
         /\ RecomputeMark(seen, left) = "agent-ready" => left # {}
         /\ seen = "revoked" => RecomputeMark(seen, left) = "revoked"
  BY DEF RecomputeMark, Marks

(* Marking one row verified leaves rows. *)
LEMMA VerifyRowType ==
  ASSUME rows \in RowsType, NEW i \in RowIds
  PROVE  [rows EXCEPT ![i].verified = TRUE] \in RowsType
  BY DEF RowsType

LEMMA MarkInitInv == MarkInit => MarkInv
  <1> SUFFICES ASSUME MarkInit PROVE MarkInv
    OBVIOUS
  <1>1. handler \in HandlerRecords
    BY MaxRowsAssumption DEF MarkInit, HandlerRecords, NoHandler, Marks
  <1>2. MarkTypeOK
    BY <1>1 DEF MarkInit, MarkTypeOK, RowsType, Marks
  <1>3. VerifiedWasProven /\ MarkWasEarned /\ HandlersInv
    BY DEF MarkInit, VerifiedWasProven, MarkWasEarned, HandlersInv, NoHandler
  <1> QED BY <1>2, <1>3 DEF MarkInv

-----------------------------------------------------------------------------
(* A step leaves the vendor's row, the domain rows and the calls well typed. *)
LEMMA MarkNextType == MarkInv /\ [MarkNext]_markVars => MarkTypeOK'
  <1> SUFFICES ASSUME MarkInv, [MarkNext]_markVars PROVE MarkTypeOK'
    OBVIOUS
  <1> USE DEF MarkInv
  <1>0. overlapped' \in BOOLEAN
    <2>1. CASE UNCHANGED markVars
      BY <2>1, SMTT(40) DEF markVars, MarkTypeOK
    <2>2. CASE MarkNext
      BY <2>2 DEF MarkNext, Watch, Enter, Leave, FindChallenge, MissChallenge, CommitVerify,
         VerifyTooLate, FlushRemove, CommitRemove, RevokeMark, StartReinstate,
         CommitReinstate, StartAdd, StartRemove, CommitAdd, StartVerify, UpdateProfile,
         Publish, Withdraw, MarkTypeOK
    <2> QED BY <2>1, <2>2
  <1>1. ASSUME NEW c \in Calls, Enter(c)
        PROVE  MarkTypeOK'
    <2>1. (handler \in HandlerRecords)'
      BY <1>1, MaxRowsAssumption DEF Enter, MarkTypeOK, HandlerRecords, Marks
    <2> QED BY <1>0, <1>1, <2>1 DEF Enter, MarkTypeOK
  <1>2. ASSUME NEW c \in Calls, Leave(c)
        PROVE  MarkTypeOK'
    <2>1. (handler \in HandlerRecords)'
      BY <1>2, FinishType DEF Leave, MarkTypeOK
    <2> QED BY <1>0, <1>2, <2>1 DEF Leave, MarkTypeOK
  <1>3. ASSUME NEW c \in Calls, FindChallenge(c)
        PROVE  MarkTypeOK'
    <2>1. (handler \in HandlerRecords)'
      BY <1>3, GoOnType, RecomputedMark, MaxRowsAssumption
      DEF FindChallenge, MarkTypeOK, RowIds, RowsType, RowsOf, Added, Marks, HandlerRecords
    <2> QED BY <1>0, <1>3, <2>1 DEF FindChallenge, MarkTypeOK
  <1>4. ASSUME NEW c \in Calls, MissChallenge(c)
        PROVE  MarkTypeOK'
    <2>1. (handler \in HandlerRecords)'
      BY <1>4, FinishType DEF MissChallenge, MarkTypeOK
    <2> QED BY <1>0, <1>4, <2>1 DEF MissChallenge, MarkTypeOK
  <1>5. ASSUME NEW c \in Calls, CommitVerify(c)
        PROVE  MarkTypeOK'
    <2>1. (handler \in HandlerRecords)'
      BY <1>5, FinishType DEF CommitVerify, MarkTypeOK
    <2>2. (rows \in RowsType)'
      BY <1>5, VerifyRowType DEF CommitVerify, MarkTypeOK, Added
    <2>3. (mark \in Marks /\ domains \subseteq Domains)'
      BY <1>5, CommitVendorType DEF CommitVerify, MarkTypeOK, HandlerRecords, Marks
    <2> QED BY <1>0, <1>5, <2>1, <2>2, <2>3 DEF CommitVerify, MarkTypeOK
  <1>6. ASSUME NEW c \in Calls, VerifyTooLate(c)
        PROVE  MarkTypeOK'
    <2>1. (handler \in HandlerRecords)'
      BY <1>6, FinishType DEF VerifyTooLate, MarkTypeOK
    <2> QED BY <1>0, <1>6, <2>1 DEF VerifyTooLate, MarkTypeOK
  <1>7. ASSUME NEW c \in Calls, FlushRemove(c)
        PROVE  MarkTypeOK'
    <2>1. (handler \in HandlerRecords)'
      <3>1. /\ handler[c].row \in 0 .. MaxRows /\ handler[c].domain \in SUBSET Domains
            /\ handler[c].mark \in Marks
        BY <1>7 DEF MarkTypeOK, HandlerRecords
      <3>2. RecomputeMark(handler[c].mark, VerifiedRows \ {handler[c].row}) \in Marks
        BY <3>1, RecomputedMark
      <3> QED BY <1>7, <3>1, <3>2, GoOnType DEF FlushRemove, MarkTypeOK
    <2> QED BY <1>0, <1>7, <2>1 DEF FlushRemove, MarkTypeOK
  <1>8. ASSUME NEW c \in Calls, CommitRemove(c)
        PROVE  MarkTypeOK'
    <2>1. (handler \in HandlerRecords)'
      BY <1>8, FinishType DEF CommitRemove, MarkTypeOK
    <2>2. (rows \in RowsType)'
      BY <1>8 DEF CommitRemove, MarkTypeOK, RowsType, HandlerRecords, Added
    <2>3. (mark \in Marks /\ domains \subseteq Domains)'
      BY <1>8, CommitVendorType DEF CommitRemove, MarkTypeOK, HandlerRecords, Marks
    <2> QED BY <1>0, <1>8, <2>1, <2>2, <2>3 DEF CommitRemove, MarkTypeOK
  <1>9. ASSUME NEW c \in Calls, RevokeMark(c)
        PROVE  MarkTypeOK'
    <2>1. (handler \in HandlerRecords)'
      BY <1>9, FinishType DEF RevokeMark, MarkTypeOK
    <2>3. (mark \in Marks /\ domains \subseteq Domains)'
      BY <1>9, CommitVendorType DEF RevokeMark, MarkTypeOK, HandlerRecords, Marks
    <2> QED BY <1>0, <1>9, <2>1, <2>3 DEF RevokeMark, MarkTypeOK
  <1>10. ASSUME NEW c \in Calls, StartReinstate(c)
        PROVE  MarkTypeOK'
    <2>1. (handler \in HandlerRecords)'
      BY <1>10, GoOnType, RecomputedMark, MaxRowsAssumption
      DEF StartReinstate, MarkTypeOK, RowIds, RowsType, RowsOf, Added, Marks, HandlerRecords
    <2> QED BY <1>0, <1>10, <2>1 DEF StartReinstate, MarkTypeOK
  <1>11. ASSUME NEW c \in Calls, CommitReinstate(c)
        PROVE  MarkTypeOK'
    <2>1. (handler \in HandlerRecords)'
      BY <1>11, FinishType DEF CommitReinstate, MarkTypeOK
    <2>3. (mark \in Marks /\ domains \subseteq Domains)'
      BY <1>11, CommitVendorType DEF CommitReinstate, MarkTypeOK, HandlerRecords, Marks
    <2> QED BY <1>0, <1>11, <2>1, <2>3 DEF CommitReinstate, MarkTypeOK
  <1>12. ASSUME NEW c \in Calls, NEW d \in Domains, StartAdd(c, d)
        PROVE  MarkTypeOK'
    <2>1. (handler \in HandlerRecords)'
      BY <1>12, GoOnType, RecomputedMark, MaxRowsAssumption
      DEF StartAdd, MarkTypeOK, RowIds, RowsType, RowsOf, Added, Marks, HandlerRecords
    <2> QED BY <1>0, <1>12, <2>1 DEF StartAdd, MarkTypeOK
  <1>13. ASSUME NEW c \in Calls, NEW d \in Domains, StartRemove(c, d)
        PROVE  MarkTypeOK'
    <2>1. (handler \in HandlerRecords)'
      BY <1>13, GoOnType, RecomputedMark, MaxRowsAssumption
      DEF StartRemove, MarkTypeOK, RowIds, RowsType, RowsOf, Added, Marks, HandlerRecords
    <2> QED BY <1>0, <1>13, <2>1 DEF StartRemove, MarkTypeOK
  <1>14. ASSUME NEW c \in Calls, NEW i \in RowIds, CommitAdd(c, i)
        PROVE  MarkTypeOK'
    <2>1. (handler \in HandlerRecords)'
      BY <1>14, FinishType DEF CommitAdd, MarkTypeOK
    <2>2. (rows \in RowsType)'
      BY <1>14 DEF CommitAdd, MarkTypeOK, RowsType, HandlerRecords, Added
    <2> QED BY <1>0, <1>14, <2>1, <2>2 DEF CommitAdd, MarkTypeOK
  <1>15. ASSUME NEW c \in Calls, NEW i \in RowIds, StartVerify(c, i)
        PROVE  MarkTypeOK'
    <2>1. (handler \in HandlerRecords)'
      BY <1>15, GoOnType, RecomputedMark, MaxRowsAssumption
      DEF StartVerify, MarkTypeOK, RowIds, RowsType, RowsOf, Added, Marks, HandlerRecords
    <2> QED BY <1>0, <1>15, <2>1 DEF StartVerify, MarkTypeOK
  <1>16. ASSUME NEW c \in Calls, NEW list \in SUBSET Domains, UpdateProfile(c, list)
        PROVE  MarkTypeOK'
    <2>1. (handler \in HandlerRecords)'
      BY <1>16, FinishType DEF UpdateProfile, MarkTypeOK
    <2>3. (mark \in Marks /\ domains \subseteq Domains)'
      BY <1>16, CommitVendorType DEF UpdateProfile, MarkTypeOK, HandlerRecords, Marks
    <2> QED BY <1>0, <1>16, <2>1, <2>3 DEF UpdateProfile, MarkTypeOK
  <1>17. ASSUME NEW i \in RowIds, Publish(i)
        PROVE  MarkTypeOK'
    BY <1>0, <1>17 DEF Publish, Added, MarkTypeOK, RowIds
  <1>18. ASSUME NEW i \in RowIds, Withdraw(i)
        PROVE  MarkTypeOK'
    BY <1>0, <1>18 DEF Withdraw, Added, MarkTypeOK, RowIds
  <1>19. CASE UNCHANGED markVars
    BY <1>0, <1>19 DEF markVars, MarkTypeOK
  <1> QED
    BY <1>1, <1>2, <1>3, <1>4, <1>5, <1>6, <1>7, <1>8, <1>9, <1>10, <1>11, <1>12,
       <1>13, <1>14, <1>15, <1>16, <1>17, <1>18, <1>19 DEF MarkNext

-----------------------------------------------------------------------------
(* A commit writes agent-ready only if it was loaded or decided on proof. *)
LEMMA CommitEarns ==
  ASSUME MarkInv, NEW c \in Calls, NEW m \in Marks, NEW ds \in SUBSET Domains,
         CommitVendor(c, m, ds), m = "agent-ready" => proven # {}
  PROVE  mark' = "agent-ready" => proven # {}
  BY CommitVendorType DEF MarkInv, MarkWasEarned

(* A step of a call keeps the proof behind every verified row and every mark. *)
LEMMA MarkNextInv == MarkInv /\ [MarkNext]_markVars => MarkInv'
  <1> SUFFICES ASSUME MarkInv, [MarkNext]_markVars PROVE MarkInv'
    OBVIOUS
  <1> USE DEF MarkInv
  <1>0. MarkTypeOK'
    BY MarkNextType
  <1>1. ASSUME NEW c \in Calls, Enter(c)
        PROVE  MarkInv'
    <2>1. HandlersInv'
      BY <1>1 DEF Enter, MarkTypeOK, HandlerRecords, Marks, HandlersInv, MarkWasEarned,
         VerifiedWasProven
    <2> QED BY <1>0, <1>1, <2>1 DEF Enter, VerifiedWasProven, MarkWasEarned
  <1>2. ASSUME NEW c \in Calls, Leave(c)
        PROVE  MarkInv'
    <2>1. HandlersInv'
      BY <1>2 DEF Leave, Finish, NoHandler, MarkTypeOK, HandlerRecords, Marks, HandlersInv,
         MarkWasEarned, VerifiedWasProven
    <2> QED BY <1>0, <1>2, <2>1 DEF Leave, VerifiedWasProven, MarkWasEarned
  <1>3. ASSUME NEW c \in Calls, FindChallenge(c)
        PROVE  MarkInv'
    <2>1. HandlersInv'
      BY <1>3 DEF FindChallenge, GoOn, RecomputeMark, VerifiedRows, Added, RowIds,
         MarkTypeOK, HandlerRecords, Marks, HandlersInv, MarkWasEarned, VerifiedWasProven
    <2>2. VerifiedWasProven'
      BY <1>3 DEF FindChallenge, MarkTypeOK, RowsType, Added, HandlersInv, VerifiedWasProven
    <2>3. MarkWasEarned'
      BY <1>3 DEF FindChallenge, MarkWasEarned
    <2> QED BY <1>0, <1>3, <2>1, <2>2, <2>3 DEF FindChallenge, VerifiedWasProven,
               MarkWasEarned
  <1>4. ASSUME NEW c \in Calls, MissChallenge(c)
        PROVE  MarkInv'
    <2>1. HandlersInv'
      BY <1>4 DEF MissChallenge, Finish, NoHandler, MarkTypeOK, HandlerRecords, Marks, HandlersInv,
         MarkWasEarned, VerifiedWasProven
    <2> QED BY <1>0, <1>4, <2>1 DEF MissChallenge, VerifiedWasProven, MarkWasEarned
  <1>5. ASSUME NEW c \in Calls, CommitVerify(c)
        PROVE  MarkInv'
    <2>1. HandlersInv'
      BY <1>5 DEF CommitVerify, Finish, NoHandler, MarkTypeOK, HandlerRecords, Marks, HandlersInv,
         MarkWasEarned, VerifiedWasProven
    <2>2. VerifiedWasProven'
      BY <1>5 DEF CommitVerify, MarkTypeOK, RowsType, Added, HandlersInv, VerifiedWasProven
    <2>3. MarkWasEarned'
      BY <1>5, CommitEarns DEF CommitVerify, MarkTypeOK, HandlerRecords, Marks, HandlersInv,
         MarkWasEarned
    <2> QED BY <1>0, <1>5, <2>1, <2>2, <2>3 DEF CommitVerify, VerifiedWasProven,
               MarkWasEarned
  <1>6. ASSUME NEW c \in Calls, VerifyTooLate(c)
        PROVE  MarkInv'
    <2>1. HandlersInv'
      BY <1>6 DEF VerifyTooLate, Finish, NoHandler, MarkTypeOK, HandlerRecords, Marks, HandlersInv,
         MarkWasEarned, VerifiedWasProven
    <2> QED BY <1>0, <1>6, <2>1 DEF VerifyTooLate, VerifiedWasProven, MarkWasEarned
  <1>7. ASSUME NEW c \in Calls, FlushRemove(c)
        PROVE  MarkInv'
    <2>1. HandlersInv'
      BY <1>7 DEF FlushRemove, GoOn, RecomputeMark, VerifiedRows, Added, RowIds, MarkTypeOK,
         HandlerRecords, Marks, HandlersInv, MarkWasEarned, VerifiedWasProven
    <2> QED BY <1>0, <1>7, <2>1 DEF FlushRemove, VerifiedWasProven, MarkWasEarned
  <1>8. ASSUME NEW c \in Calls, CommitRemove(c)
        PROVE  MarkInv'
    <2>1. HandlersInv'
      BY <1>8 DEF CommitRemove, Finish, NoHandler, MarkTypeOK, HandlerRecords, Marks, HandlersInv,
         MarkWasEarned, VerifiedWasProven
    <2>2. VerifiedWasProven'
      BY <1>8 DEF CommitRemove, MarkTypeOK, RowsType, Added, HandlersInv, VerifiedWasProven
    <2>3. MarkWasEarned'
      <3>1. /\ handler[c].new \in Marks /\ handler[c].domains \ handler[c].domain \in SUBSET Domains
            /\ handler[c].new = "agent-ready" => proven # {}
        BY <1>8 DEF MarkTypeOK, HandlerRecords, HandlersInv
      <3>2. mark' = "agent-ready" => proven # {}
        BY <1>8, <3>1, CommitEarns DEF CommitRemove
      <3> QED BY <1>8, <3>2 DEF CommitRemove, MarkWasEarned
    <2> QED BY <1>0, <1>8, <2>1, <2>2, <2>3 DEF CommitRemove, VerifiedWasProven,
               MarkWasEarned
  <1>9. ASSUME NEW c \in Calls, RevokeMark(c)
        PROVE  MarkInv'
    <2>1. HandlersInv'
      BY <1>9 DEF RevokeMark, Finish, NoHandler, MarkTypeOK, HandlerRecords, Marks, HandlersInv,
         MarkWasEarned, VerifiedWasProven
    <2>3. MarkWasEarned'
      BY <1>9, CommitEarns DEF RevokeMark, MarkTypeOK, HandlerRecords, Marks, HandlersInv,
         MarkWasEarned
    <2> QED BY <1>0, <1>9, <2>1, <2>3 DEF RevokeMark, VerifiedWasProven, MarkWasEarned
  <1>10. ASSUME NEW c \in Calls, StartReinstate(c)
        PROVE  MarkInv'
    <2>1. HandlersInv'
      BY <1>10 DEF StartReinstate, GoOn, RecomputeMark, VerifiedRows, Added, RowIds,
         MarkTypeOK, HandlerRecords, Marks, HandlersInv, MarkWasEarned, VerifiedWasProven
    <2> QED BY <1>0, <1>10, <2>1 DEF StartReinstate, VerifiedWasProven, MarkWasEarned
  <1>11. ASSUME NEW c \in Calls, CommitReinstate(c)
        PROVE  MarkInv'
    <2>1. HandlersInv'
      BY <1>11 DEF CommitReinstate, Finish, NoHandler, MarkTypeOK, HandlerRecords, Marks,
         HandlersInv, MarkWasEarned, VerifiedWasProven
    <2>3. MarkWasEarned'
      BY <1>11, CommitEarns DEF CommitReinstate, MarkTypeOK, HandlerRecords, Marks,
         HandlersInv, MarkWasEarned
    <2> QED BY <1>0, <1>11, <2>1, <2>3 DEF CommitReinstate, VerifiedWasProven,
               MarkWasEarned
  <1>12. ASSUME NEW c \in Calls, NEW d \in Domains, StartAdd(c, d)
        PROVE  MarkInv'
    <2>1. HandlersInv'
      BY <1>12 DEF StartAdd, GoOn, RecomputeMark, VerifiedRows, Added, RowIds, MarkTypeOK,
         HandlerRecords, Marks, HandlersInv, MarkWasEarned, VerifiedWasProven
    <2> QED BY <1>0, <1>12, <2>1 DEF StartAdd, VerifiedWasProven, MarkWasEarned
  <1>13. ASSUME NEW c \in Calls, NEW d \in Domains, StartRemove(c, d)
        PROVE  MarkInv'
    <2>1. HandlersInv'
      BY <1>13 DEF StartRemove, GoOn, RecomputeMark, VerifiedRows, Added, RowIds,
         MarkTypeOK, HandlerRecords, Marks, HandlersInv, MarkWasEarned, VerifiedWasProven
    <2> QED BY <1>0, <1>13, <2>1 DEF StartRemove, VerifiedWasProven, MarkWasEarned
  <1>14. ASSUME NEW c \in Calls, NEW i \in RowIds, CommitAdd(c, i)
        PROVE  MarkInv'
    <2>1. HandlersInv'
      BY <1>14 DEF CommitAdd, Finish, NoHandler, MarkTypeOK, HandlerRecords, Marks, HandlersInv,
         MarkWasEarned, VerifiedWasProven
    <2>2. VerifiedWasProven'
      BY <1>14 DEF CommitAdd, MarkTypeOK, RowsType, Added, HandlersInv, VerifiedWasProven
    <2> QED BY <1>0, <1>14, <2>1, <2>2 DEF CommitAdd, VerifiedWasProven, MarkWasEarned
  <1>15. ASSUME NEW c \in Calls, NEW i \in RowIds, StartVerify(c, i)
        PROVE  MarkInv'
    <2>1. HandlersInv'
      BY <1>15 DEF StartVerify, GoOn, RecomputeMark, VerifiedRows, Added, RowIds,
         MarkTypeOK, HandlerRecords, Marks, HandlersInv, MarkWasEarned, VerifiedWasProven
    <2> QED BY <1>0, <1>15, <2>1 DEF StartVerify, VerifiedWasProven, MarkWasEarned
  <1>16. ASSUME NEW c \in Calls, NEW list \in SUBSET Domains, UpdateProfile(c, list)
        PROVE  MarkInv'
    <2>1. HandlersInv'
      BY <1>16 DEF UpdateProfile, Finish, NoHandler, MarkTypeOK, HandlerRecords, Marks,
         HandlersInv, MarkWasEarned, VerifiedWasProven
    <2>3. MarkWasEarned'
      BY <1>16, CommitEarns DEF UpdateProfile, MarkTypeOK, HandlerRecords, Marks, HandlersInv,
         MarkWasEarned
    <2> QED BY <1>0, <1>16, <2>1, <2>3 DEF UpdateProfile, VerifiedWasProven,
               MarkWasEarned
  <1>17. ASSUME NEW i \in RowIds, Publish(i)
        PROVE  MarkInv'
    BY <1>17, <1>0 DEF Publish, VerifiedWasProven, MarkWasEarned, HandlersInv
  <1>18. ASSUME NEW i \in RowIds, Withdraw(i)
        PROVE  MarkInv'
    BY <1>18, <1>0 DEF Withdraw, VerifiedWasProven, MarkWasEarned, HandlersInv
  <1>19. CASE UNCHANGED markVars
    BY <1>0, <1>19 DEF markVars, VerifiedWasProven, MarkWasEarned, HandlersInv
  <1> QED
    BY <1>1, <1>2, <1>3, <1>4, <1>5, <1>6, <1>7, <1>8, <1>9, <1>10, <1>11, <1>12,
       <1>13, <1>14, <1>15, <1>16, <1>17, <1>18, <1>19 DEF MarkNext

-----------------------------------------------------------------------------
(* Inv holds of every reachable state. *)
THEOREM MarkInvariance == MarkSpec => []MarkInv
  BY MarkInitInv, MarkNextInv, PTL DEF MarkSpec

(***************************************************************************)
(* The vendor's row, the domain rows and the calls in flight are well      *)
(* typed (models.py:81, 130-140).                                          *)
(***************************************************************************)
THEOREM MarkTypeCorrect == MarkSpec => []MarkTypeOK
  <1>1. MarkInv => MarkTypeOK
    BY DEF MarkInv
  <1> QED BY MarkInvariance, <1>1, PTL

(***************************************************************************)
(* No row is verified unless its own challenge was found                   *)
(* (manage.py:1148-1164), with any number of calls in flight.              *)
(***************************************************************************)
THEOREM VerificationIsProven == MarkSpec => []VerifiedWasProven
  <1>1. MarkInv => VerifiedWasProven
    BY DEF MarkInv
  <1> QED BY MarkInvariance, <1>1, PTL

(***************************************************************************)
(* No vendor bears the mark without ever having proved a domain            *)
(* (manage.py:1166-1172, services.py:44-62).                               *)
(***************************************************************************)
THEOREM MarkIsEarned == MarkSpec => []MarkWasEarned
  <1>1. MarkInv => MarkWasEarned
    BY DEF MarkInv
  <1> QED BY MarkInvariance, <1>1, PTL

(***************************************************************************)
(* No call that loaded the vendor as revoked ends the revocation, except   *)
(* a reinstatement (manage.py:1169-1172, services.py:50-51).               *)
(***************************************************************************)
THEOREM RevocationHeld == MarkSpec => RevocationHolds
  <1>1. MarkInv /\ [MarkNext]_markVars =>
          [mark = "revoked" /\ mark' # "revoked" =>
             \E c \in Calls : handler[c].op # "idle" /\ handler'[c].op = "idle" /\ Lifts(c)]_markVars
    <2> SUFFICES ASSUME MarkInv, MarkNext, mark = "revoked", mark' # "revoked"
                 PROVE  \E c \in Calls : /\ handler[c].op # "idle" /\ handler'[c].op = "idle"
                                         /\ Lifts(c)
      OBVIOUS
    <2> USE DEF MarkInv
    <2>1. PICK c \in Calls : \/ CommitVerify(c) \/ CommitRemove(c) \/ RevokeMark(c)
                             \/ CommitReinstate(c)
                             \/ \E list \in SUBSET Domains : UpdateProfile(c, list)
      BY DEF MarkNext, Enter, Leave, FindChallenge, MissChallenge, VerifyTooLate,
         FlushRemove,
             StartReinstate, StartAdd, StartRemove, CommitAdd, StartVerify, Publish, Withdraw
    <2>2. handler'[c].op = "idle"
      BY <2>1 DEF CommitVerify, CommitRemove, RevokeMark, CommitReinstate,
         UpdateProfile,
                  Finish, NoHandler, MarkTypeOK, HandlerRecords
    <2>3. handler[c].op # "idle"
      BY <2>1 DEF CommitVerify, CommitRemove, RevokeMark, CommitReinstate,
         UpdateProfile
    <2>4. Lifts(c)
      BY <2>1 DEF CommitVerify, CommitRemove, RevokeMark, CommitReinstate,
         UpdateProfile,
                  CommitVendor, Written, Lifts, HandlersInv
    <2> QED BY <2>2, <2>3, <2>4
  <1> QED BY MarkInvariance, <1>1, PTL DEF MarkSpec, RevocationHolds
-----------------------------------------------------------------------------
(* A call that has ended leaves nothing to say of any call. *)
LEMMA FinishLone ==
  ASSUME handler \in HandlerRecords, ~Overlap, NEW c \in Calls, InFlight(c), Finish(c)
  PROVE  \A x \in Calls : LoneCall(x)'
  BY DEF Finish, NoHandler, HandlerRecords, Overlap, InFlight, LoneCall

(* A call alone that goes on keeps what it loaded; a mark it recomputes is *)
(* the one the rows earn.                                                   *)
LEMMA GoOnLone ==
  ASSUME handler \in HandlerRecords, NEW c \in Calls, InFlight(c), LoneCall(c), ~Overlap',
         NEW op, NEW row, NEW domain, NEW new, GoOn(c, op, row, domain, new),
         op # "idle", UNCHANGED <<mark, rows>>,
         op = "flushed" => new = RecomputeMark(mark, VerifiedRows \ {row}),
         op = "reinstating" => new = RecomputeMark("unverified", VerifiedRows)
  PROVE  \A x \in Calls : LoneCall(x)'
  <1>1. VerifiedRows' = VerifiedRows
    BY DEF VerifiedRows, Added
  <1> HIDE DEF VerifiedRows
  <1>2. /\ handler'[c].op = op /\ handler'[c].row = row /\ handler'[c].new = new
        /\ handler'[c].mark = handler[c].mark
    BY DEF GoOn, HandlerRecords
  <1>3. InFlight(c)'
    BY <1>2 DEF InFlight
  <1>4. LoneCall(c)'
    BY <1>1, <1>2 DEF LoneCall
  <1> QED BY <1>3, <1>4 DEF Overlap, LoneCall

(* The commit of a call in flight alone writes the value it assigned. *)
LEMMA LoneCommit ==
  ASSUME NEW c \in Calls, LoneCall(c), InFlight(c), NEW m, NEW ds, CommitVendor(c, m, ds)
  PROVE  mark' = m
  BY DEF LoneCall, CommitVendor, Written

LEMMA InitAlone == MarkInit => AloneInv
  <1> SUFFICES ASSUME MarkInit PROVE AloneInv
    OBVIOUS
  <1>1. ~Overlap /\ \A c \in Calls : LoneCall(c)
    BY DEF MarkInit, NoHandler, Overlap, InFlight, LoneCall
  <1>2. Agree
    BY DEF MarkInit, Agree, VerifiedRows, Added
  <1> QED BY <1>1, <1>2 DEF AloneInv

(* Every step watches for an overlap. *)
LEMMA NextWatches == MarkNext => Watch
  BY DEF MarkNext, Enter, Leave, FindChallenge, MissChallenge, CommitVerify, VerifyTooLate,
     FlushRemove, CommitRemove, RevokeMark, StartReinstate, CommitReinstate, StartAdd,
     StartRemove, CommitAdd, StartVerify, UpdateProfile, Publish, Withdraw

(* Calls that did not overlap leave mark and domains in agreement. *)
LEMMA NextAlone == MarkInv /\ AloneInv /\ [MarkNext]_markVars => AloneInv'
  <1> SUFFICES ASSUME MarkInv, AloneInv, [MarkNext]_markVars, ~overlapped'
               PROVE  (~Overlap /\ Agree /\ \A c \in Calls : LoneCall(c))'
    BY DEF AloneInv
  <1>a. CASE UNCHANGED markVars
    BY <1>a DEF markVars, AloneInv, Overlap, InFlight, Agree, VerifiedRows, Added, LoneCall
  <1>b. CASE MarkNext
    <2>1. ~overlapped /\ ~Overlap'
      BY <1>b, NextWatches DEF Watch, MarkInv, MarkTypeOK
    <2>2. ~Overlap /\ Agree /\ \A c \in Calls : LoneCall(c)
      BY <2>1 DEF AloneInv
    <2>t. handler \in HandlerRecords /\ mark \in Marks /\ rows \in RowsType
      BY DEF MarkInv, MarkTypeOK
    (* Calls that go on, or end, without writing a row. *)
    <2>3. ASSUME NEW c \in Calls, Enter(c)
          PROVE  (Agree /\ \A x \in Calls : LoneCall(x))'
      <3>1. LoneCall(c)' /\ InFlight(c)'
        BY <2>3, <2>t DEF Enter, HandlerRecords, LoneCall, InFlight
      <3>2. \A x \in Calls : LoneCall(x)'
        BY <3>1, <2>1 DEF Overlap, LoneCall
      <3> QED BY <3>2, <2>2, <2>3 DEF Enter, Agree, VerifiedRows, Added
    <2>4. ASSUME NEW c \in Calls,
                 Leave(c) \/ MissChallenge(c) \/ VerifyTooLate(c)
          PROVE  (Agree /\ \A x \in Calls : LoneCall(x))'
      <3>1. InFlight(c) /\ Finish(c)
        BY <2>4 DEF Leave, MissChallenge, VerifyTooLate, InFlight
      <3> QED BY <3>1, <2>2, <2>4, <2>t, FinishLone
              DEF Leave, MissChallenge, VerifyTooLate, Agree, VerifiedRows, Added
    <2>5. ASSUME NEW c \in Calls,
                 \/ FindChallenge(c) \/ FlushRemove(c) \/ StartReinstate(c)
                 \/ \E d \in Domains : StartAdd(c, d) \/ StartRemove(c, d)
                 \/ \E i \in RowIds : StartVerify(c, i)
          PROVE  (Agree /\ \A x \in Calls : LoneCall(x))'
      <3>1. UNCHANGED <<mark, rows>> /\ InFlight(c)
        BY <2>5 DEF FindChallenge, FlushRemove, StartReinstate, StartAdd, StartRemove,
           StartVerify, InFlight
      <3>2. \A x \in Calls : LoneCall(x)'
        <4>1. CASE FindChallenge(c)
          BY <4>1, <3>1, <2>1, <2>2, <2>t, GoOnLone DEF FindChallenge
        <4>2. CASE FlushRemove(c)
          BY <4>2, <3>1, <2>1, <2>2, <2>t, GoOnLone DEF FlushRemove, LoneCall
        <4>3. CASE StartReinstate(c)
          BY <4>3, <3>1, <2>1, <2>2, <2>t, GoOnLone DEF StartReinstate
        <4>4. ASSUME NEW d \in Domains, StartAdd(c, d) \/ StartRemove(c, d)
              PROVE  \A x \in Calls : LoneCall(x)'
          BY <4>4, <3>1, <2>1, <2>2, <2>t, GoOnLone DEF StartAdd, StartRemove
        <4>5. ASSUME NEW i \in RowIds, StartVerify(c, i)
              PROVE  \A x \in Calls : LoneCall(x)'
          BY <4>5, <3>1, <2>1, <2>2, <2>t, GoOnLone DEF StartVerify
        <4> QED BY <2>5, <4>1, <4>2, <4>3, <4>4, <4>5
      <3> QED BY <3>1, <3>2, <2>2 DEF Agree, VerifiedRows, Added
    (* Calls that commit. *)
    <2>6. ASSUME NEW c \in Calls, CommitVerify(c)
          PROVE  (Agree /\ \A x \in Calls : LoneCall(x))'
      <3>1. mark' \in {"revoked", "agent-ready"}
        BY <2>6, <2>2, LoneCommit DEF CommitVerify, InFlight
      <3>2. handler[c].row \in VerifiedRows'
        BY <2>6, <2>t DEF CommitVerify, Added, RowsType, VerifiedRows
      <3>3. \A x \in Calls : LoneCall(x)'
        BY <2>6, <2>2, <2>t, FinishLone DEF CommitVerify, InFlight
      <3> QED BY <3>1, <3>2, <3>3 DEF Agree
    <2>7. ASSUME NEW c \in Calls, CommitRemove(c)
          PROVE  (Agree /\ \A x \in Calls : LoneCall(x))'
      <3>1. mark' = RecomputeMark(mark, VerifiedRows \ {handler[c].row})
        BY <2>7, <2>2, LoneCommit DEF CommitRemove, InFlight, LoneCall
      <3>2. VerifiedRows' = VerifiedRows \ {handler[c].row}
        BY <2>7, <2>t DEF CommitRemove, Added, RowsType, VerifiedRows
      <3>3. \A x \in Calls : LoneCall(x)'
        BY <2>7, <2>2, <2>t, FinishLone DEF CommitRemove, InFlight
      <3>4. Agree'
        BY <3>1, <3>2, <2>t DEF Agree, RecomputeMark, Marks
      <3> QED BY <3>3, <3>4
    <2>8. ASSUME NEW c \in Calls,
                 RevokeMark(c) \/ \E list \in SUBSET Domains : UpdateProfile(c, list)
          PROVE  (Agree /\ \A x \in Calls : LoneCall(x))'
      <3>1. mark' \in {mark, "revoked"}
        BY <2>8, <2>2, LoneCommit DEF RevokeMark, UpdateProfile, InFlight, LoneCall
      <3>2. VerifiedRows' = VerifiedRows
        BY <2>8 DEF RevokeMark, UpdateProfile, VerifiedRows, Added
      <3>3. \A x \in Calls : LoneCall(x)'
        BY <2>8, <2>2, <2>t, FinishLone DEF RevokeMark, UpdateProfile, InFlight
      <3> QED BY <3>1, <3>2, <3>3, <2>2 DEF Agree
    <2>9. ASSUME NEW c \in Calls, CommitReinstate(c)
          PROVE  (Agree /\ \A x \in Calls : LoneCall(x))'
      <3>1. mark' = RecomputeMark("unverified", VerifiedRows)
        BY <2>9, <2>2, LoneCommit DEF CommitReinstate, InFlight, LoneCall
      <3>2. VerifiedRows' = VerifiedRows
        BY <2>9 DEF CommitReinstate, VerifiedRows, Added
      <3>3. \A x \in Calls : LoneCall(x)'
        BY <2>9, <2>2, <2>t, FinishLone DEF CommitReinstate, InFlight
      <3>4. Agree'
        BY <3>1, <3>2 DEF Agree, RecomputeMark
      <3> QED BY <3>3, <3>4
    <2>10. ASSUME NEW c \in Calls, NEW i \in RowIds, CommitAdd(c, i)
           PROVE  (Agree /\ \A x \in Calls : LoneCall(x))'
      <3>1. \A j \in RowIds : Added(j)' /\ rows'[j].verified <=> Added(j) /\ rows[j].verified
        BY <2>10, <2>t DEF CommitAdd, Added, RowsType
      <3>2. VerifiedRows' = VerifiedRows
        BY <3>1 DEF VerifiedRows
      <3>3. \A x \in Calls : LoneCall(x)'
        BY <2>10, <2>2, <2>t, FinishLone DEF CommitAdd, InFlight
      <3> QED BY <3>2, <3>3, <2>2, <2>10 DEF CommitAdd, Agree
    <2>11. ASSUME NEW i \in RowIds, Publish(i) \/ Withdraw(i)
           PROVE  (Agree /\ \A x \in Calls : LoneCall(x))'
      BY <2>11, <2>2 DEF Publish, Withdraw, Agree, VerifiedRows, Added, LoneCall, InFlight
    <2>12. ASSUME NEW c \in Calls,
                  \/ Enter(c) \/ Leave(c) \/ FindChallenge(c) \/ MissChallenge(c)
                  \/ CommitVerify(c) \/ VerifyTooLate(c) \/ FlushRemove(c) \/ CommitRemove(c)
                  \/ RevokeMark(c) \/ StartReinstate(c) \/ CommitReinstate(c)
           PROVE  (Agree /\ \A x \in Calls : LoneCall(x))'
      BY <2>3, <2>4, <2>5, <2>6, <2>7, <2>8, <2>9, <2>12
    <2>13. ASSUME NEW c \in Calls, NEW d \in Domains, StartAdd(c, d) \/ StartRemove(c, d)
           PROVE  (Agree /\ \A x \in Calls : LoneCall(x))'
      BY <2>5, <2>13
    <2>14. ASSUME NEW c \in Calls, NEW list \in SUBSET Domains, UpdateProfile(c, list)
           PROVE  (Agree /\ \A x \in Calls : LoneCall(x))'
      BY <2>8, <2>14
    <2>15. ASSUME NEW c \in Calls, NEW i \in RowIds, CommitAdd(c, i) \/ StartVerify(c, i)
           PROVE  (Agree /\ \A x \in Calls : LoneCall(x))'
      BY <2>5, <2>10, <2>15
    <2> QED
      BY <1>b, <2>1, <2>11, <2>12, <2>13, <2>14, <2>15 DEF MarkNext
  <1> QED BY <1>a, <1>b

(***************************************************************************)
(* As long as no two calls overlapped, a vendor bears the mark only with a *)
(* verified domain, and has none taken away with one (manage.py:1166-1187, *)
(* services.py:44-62).                                                     *)
(***************************************************************************)
THEOREM MarkFollows == MarkSpec => []MarkFollowsDomains
  <1>1. MarkSpec => []AloneInv
    BY InitAlone, NextAlone, MarkInvariance, PTL DEF MarkSpec
  <1>2. AloneInv => MarkFollowsDomains
    BY DEF AloneInv, Agree, MarkFollowsDomains
  <1> QED BY <1>1, <1>2, PTL
=============================================================================
