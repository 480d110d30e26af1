-------------------------- MODULE SiteInboxProofs --------------------------
(* Machine-checked proofs about SiteInbox. *)
EXTENDS SiteInbox, FiniteSetTheorems, TLAPS

\* What the last answered /__domain said is what R2 holds, and a request in
\* flight on a host was attached to what the host means now.
HostsMeanWhatIsHeld ==
    /\ attached = domains
    /\ \A r \in Requests :
        req[r].phase = "arrived" => req[r].host \in Hosts /\ siteFor(req[r].host) \in meant[r]

\* A request past its host knows its site, and one past its stamp the stamp.
RequestsKnowTheirSite ==
    \A r \in Requests :
        /\ req[r].phase \in {"resolved", "writing", "reading"} => req[r].site \in Sites
        /\ req[r].phase = "writing" => r \in Posts /\ req[r].ts \in Times
        /\ req[r].phase = "reading" => r \in Inboxes
        /\ req[r].shown # {} => req[r].phase = "reading"

\* A stored lead is in R2 under its own site and stamp, or another is there; and
\* whatever is there was stored with that site and stamp.
KeysAreTheLeads ==
    /\ \A r \in Posts :
        req[r].phase = "stored" =>
            /\ req[r].site \in Sites /\ req[r].ts \in Times
            /\ leads[req[r].site][req[r].ts] # NoLead
    /\ \A s \in Sites, t \in Times :
        leads[s][t] # NoLead =>
            LET q == leads[s][t] IN
            req[q].phase = "stored" /\ req[q].site = s /\ req[q].ts = t

\* What an inbox shows is stored, and of its own site.
ShownIsStored ==
    \A r \in Inboxes : \A q \in req[r].shown :
        q \in Posts /\ req[q].phase = "stored" /\ req[q].site = req[r].site

IInv ==
    /\ TypeOK
    /\ HostsMeanWhatIsHeld
    /\ RequestsKnowTheirSite
    /\ KeysAreTheLeads
    /\ ShownIsStored

LEMMA InitInv == Init => IInv
<1> SUFFICES ASSUME Init PROVE IInv
  OBVIOUS
<1> USE InboxAssumption DEF Init, Fresh
<1>1. TypeOK
  <2>1. 0 \in Times
    BY DEF Times
  <2>2. Fresh \in Request
    BY DEF Request, Phases, InFlight
  <2>3. QED
    BY <2>1, <2>2 DEF TypeOK
<1>2. HostsMeanWhatIsHeld
  BY DEF HostsMeanWhatIsHeld
<1>3. RequestsKnowTheirSite
  BY DEF RequestsKnowTheirSite
<1>4. KeysAreTheLeads
  BY DEF KeysAreTheLeads, Requests
<1>5. ShownIsStored
  BY DEF ShownIsStored, Requests
<1>6. QED
  BY <1>1, <1>2, <1>3, <1>4, <1>5 DEF IInv

(***************************************************************************)
(* A step of one request: what it must leave as it is.                     *)
(***************************************************************************)

\* A request that is not stored, becoming one that is not, with nothing shown.
Proceeds(r, new) ==
    /\ req[r].phase # "stored" /\ new.phase # "stored"
    /\ new \in Request
    /\ req' = [req EXCEPT ![r] = new]
    /\ UNCHANGED leads

LEMMA LeadsOutlastRequests ==
    ASSUME IInv, NEW r \in Requests, NEW new, Proceeds(r, new), new.shown = {}
    PROVE  KeysAreTheLeads' /\ ShownIsStored'
<1> USE DEF IInv, TypeOK, Proceeds
<1>1. \A q \in Requests \ {r} : req'[q] = req[q]
  OBVIOUS
<1>2. req'[r] = new
  OBVIOUS
<1>3. \A q \in Requests : req[q].phase = "stored" => req'[q] = req[q]
  BY <1>1
<1>4. \A q \in Posts : req'[q].phase = "stored" => req[q] = req'[q]
  BY <1>1, <1>2 DEF Requests
<1>5. \A s \in Sites, t \in Times : leads[s][t] # NoLead => leads[s][t] \in Requests
  BY DEF Requests
<1>6. KeysAreTheLeads'
  BY <1>3, <1>4, <1>5 DEF KeysAreTheLeads
<1>7. ShownIsStored'
  BY <1>1, <1>2, <1>3 DEF ShownIsStored, Requests
<1>8. QED
  BY <1>6, <1>7

LEMMA DomainKeepsInv ==
    ASSUME IInv, NEW h \in Domains, NEW s \in Slugs \cup {NoSite},
           domains' = [domains EXCEPT ![h] = s], Attach(h, s), UNCHANGED <<leads, clock, req>>
    PROVE  IInv'
<1> USE DEF IInv
<1>1. TypeOK'
  BY DEF TypeOK, Attach, Sites
<1>2. HostsMeanWhatIsHeld'
  <2>1. attached' = domains'
    BY DEF Attach, HostsMeanWhatIsHeld
  <2>2. ASSUME NEW r \in Requests, req[r].phase = "arrived"
        PROVE  req[r].host \in Hosts /\ siteFor(req[r].host)' \in meant'[r]
    <3>1. req[r].host \in Hosts /\ siteFor(req[r].host) \in meant[r]
      BY <2>2 DEF HostsMeanWhatIsHeld
    <3>2. meant'[r] = IF req[r].host = h THEN meant[r] \cup {s} ELSE meant[r]
      BY <2>2 DEF Attach
    <3>3. CASE req[r].host = h
      BY <3>2, <3>3, <3>1 DEF siteFor, customHostValid, TypeOK
    <3>4. CASE req[r].host # h
      BY <3>1, <3>2, <3>4 DEF siteFor, customHostValid, TypeOK
    <3>5. QED
      BY <3>1, <3>3, <3>4
  <2>3. QED
    BY <2>1, <2>2 DEF HostsMeanWhatIsHeld
<1>3. RequestsKnowTheirSite' /\ KeysAreTheLeads' /\ ShownIsStored'
  BY DEF RequestsKnowTheirSite, KeysAreTheLeads, ShownIsStored
<1>4. QED
  BY <1>1, <1>2, <1>3

LEMMA ArriveKeepsInv ==
    ASSUME IInv, NEW r \in Requests, NEW h \in Hosts, Arrive(r, h)
    PROVE  IInv'
<1> DEFINE new == [req[r] EXCEPT !.phase = "arrived", !.host = h]
<1> USE DEF IInv
<1>1. req' = [req EXCEPT ![r] = new] /\ UNCHANGED <<domains, leads, clock, attached>>
  BY DEF Arrive
<1>2. req[r] \in Request /\ new \in Request /\ new.phase = "arrived" /\ new.host = h
  BY DEF TypeOK, Request, Phases, InFlight
<1>3. new.shown = {}
  BY <1>2 DEF RequestsKnowTheirSite, Arrive, Request
<1>4. meant' = [meant EXCEPT ![r] = {siteFor(h)}]
  BY DEF Arrive, siteFor, customHostValid, HostsMeanWhatIsHeld
<1>5. siteFor(h) \in Sites \cup {NoSite}
  BY DEF siteFor, customHostValid, TypeOK, Sites, Hosts
<1>6. TypeOK'
  BY <1>1, <1>2, <1>4, <1>5 DEF TypeOK
<1>7. HostsMeanWhatIsHeld'
  BY <1>1, <1>2, <1>4 DEF HostsMeanWhatIsHeld, TypeOK, siteFor
<1>8. RequestsKnowTheirSite'
  BY <1>1, <1>2, <1>3 DEF RequestsKnowTheirSite, TypeOK
<1>9. KeysAreTheLeads' /\ ShownIsStored'
  <2>1. Proceeds(r, new)
    BY <1>1, <1>2 DEF Proceeds, Arrive
  <2>2. QED
    BY <1>3, <2>1, LeadsOutlastRequests
<1>10. QED
  BY <1>6, <1>7, <1>8, <1>9

\* Any other step of a request that is not stored and shows nothing.
LEMMA ProceedingKeepsInv ==
    ASSUME IInv, NEW r \in Requests, NEW new, Proceeds(r, new), new.shown = {},
           new.phase # "arrived",
           new.phase \in {"resolved", "writing", "reading"} => new.site \in Sites,
           new.phase = "writing" => r \in Posts /\ new.ts \in Times,
           new.phase = "reading" => r \in Inboxes,
           meant' = [meant EXCEPT ![r] = {}] \/ meant' = meant,
           UNCHANGED <<domains, clock, attached>>
    PROVE  IInv'
<1> USE DEF IInv
<1>1. req' = [req EXCEPT ![r] = new] /\ new \in Request /\ UNCHANGED leads
  BY DEF Proceeds
<1>2. TypeOK'
  BY <1>1 DEF TypeOK
<1>3. HostsMeanWhatIsHeld'
  BY <1>1 DEF HostsMeanWhatIsHeld, TypeOK, siteFor
<1>4. RequestsKnowTheirSite'
  BY <1>1 DEF RequestsKnowTheirSite, TypeOK
<1>5. QED
  BY <1>2, <1>3, <1>4, LeadsOutlastRequests

LEMMA FinishKeepsInv ==
    ASSUME IInv, NEW r \in Requests, NEW phase \in {"dropped", "notfound", "listed"},
           req[r].phase # "stored", Finish(r, phase)
    PROVE  IInv'
<1> DEFINE new == [Fresh EXCEPT !.phase = phase]
<1>1. new \in Request /\ new.phase = phase /\ new.shown = {}
  BY DEF Fresh, Request, Phases, InFlight
<1>2. Proceeds(r, new) /\ meant' = [meant EXCEPT ![r] = {}]
  BY <1>1 DEF Finish, Proceeds
<1>3. QED
  BY <1>1, <1>2, ProceedingKeepsInv DEF Finish

LEMMA ResolveKeepsInv ==
    ASSUME IInv, NEW r \in Requests, NEW phase \in {"resolved", "reached"}, Resolve(r, phase)
    PROVE  IInv'
<1> DEFINE new == [req[r] EXCEPT !.phase = phase, !.site = siteFor(req[r].host)]
<1>1. siteFor(req[r].host) \in Sites
  BY DEF IInv, HostsMeanWhatIsHeld, TypeOK, Resolve, siteFor, customHostValid, Hosts, Sites
<1>2. req[r] \in Request /\ req[r].shown = {}
  BY DEF IInv, TypeOK, RequestsKnowTheirSite, Resolve
<1>3. new \in Request /\ new.phase = phase /\ new.site \in Sites /\ new.shown = {}
  BY <1>1, <1>2 DEF Request, Phases, InFlight
<1>4. Proceeds(r, new) /\ meant' = [meant EXCEPT ![r] = {}]
  BY <1>3 DEF Resolve, Proceeds
<1>5. QED
  BY <1>3, <1>4, ProceedingKeepsInv DEF Resolve

LEMMA StampKeepsInv ==
    ASSUME IInv, NEW r \in Posts, StampLead(r)
    PROVE  IInv'
<1> DEFINE new == [req[r] EXCEPT !.phase = "writing", !.ts = clock]
<1>1. r \in Requests
  BY DEF Requests
<1>2. req[r] \in Request /\ req[r].shown = {} /\ req[r].site \in Sites /\ clock \in Times
  BY <1>1 DEF IInv, TypeOK, RequestsKnowTheirSite, StampLead
<1>3. /\ new \in Request /\ new.phase = "writing" /\ new.ts \in Times
      /\ new.site \in Sites /\ new.shown = {}
  BY <1>2 DEF Request, Phases, InFlight
<1>4. Proceeds(r, new)
  BY <1>3 DEF StampLead, Proceeds
<1>5. QED
  BY <1>1, <1>3, <1>4, ProceedingKeepsInv DEF StampLead

LEMMA ListKeepsInv ==
    ASSUME IInv, NEW r \in Inboxes, ListInbox(r)
    PROVE  IInv'
<1> DEFINE held == Held(req[r].site)
           new == [req[r] EXCEPT !.phase = "reading", !.due = held,
                                 !.keys = Shown(Earliest(held, ListLimit))]
<1>1. r \in Requests
  BY DEF Requests
<1>2. req[r] \in Request /\ req[r].shown = {} /\ req[r].site \in Sites
  BY <1>1 DEF IInv, TypeOK, RequestsKnowTheirSite, ListInbox
<1>3. held \subseteq Times /\ Shown(Earliest(held, ListLimit)) \subseteq Times
  BY DEF Held, Shown, Latest, Earliest
<1> HIDE DEF held
<1>4. new \in Request /\ new.phase = "reading" /\ new.site \in Sites /\ new.shown = {}
  BY <1>2, <1>3 DEF Request, Phases, InFlight
<1>5. req' = [req EXCEPT ![r] = new]
  BY DEF ListInbox, held
<1> HIDE DEF new
<1>6. Proceeds(r, new)
  BY <1>4, <1>5 DEF ListInbox, Proceeds
<1>7. QED
  BY <1>1, <1>4, <1>6, ProceedingKeepsInv DEF ListInbox

(***************************************************************************)
(* The two steps that touch leads.                                         *)
(***************************************************************************)

LEMMA PutKeepsInv ==
    ASSUME IInv, NEW r \in Posts, PutLead(r)
    PROVE  IInv'
<1> DEFINE s == req[r].site
           t == req[r].ts
           new == [Fresh EXCEPT !.phase = "stored", !.site = s, !.ts = t]
<1> USE DEF IInv
<1>1. r \in Requests /\ r # NoLead
  BY InboxAssumption DEF Requests
<1>2. s \in Sites /\ t \in Times
  BY <1>1 DEF PutLead, RequestsKnowTheirSite
<1>3. /\ new \in Request /\ new.phase = "stored" /\ new.site = s /\ new.ts = t
      /\ new.shown = {}
  BY <1>2 DEF Request, Phases, Fresh
<1>4. /\ req' = [req EXCEPT ![r] = new]
      /\ leads' = [leads EXCEPT ![s][t] = r]
      /\ UNCHANGED <<domains, clock, attached, meant>>
      /\ req[r].phase = "writing"
  BY DEF PutLead
<1> HIDE DEF new
<1>5. req'[r] = new /\ \A q \in Requests \ {r} : req'[q] = req[q]
  BY <1>1, <1>4 DEF TypeOK
<1>6. TypeOK'
  BY <1>1, <1>2, <1>3, <1>4 DEF TypeOK
<1>7. HostsMeanWhatIsHeld'
  BY <1>3, <1>4, <1>5 DEF HostsMeanWhatIsHeld, siteFor
<1>8. RequestsKnowTheirSite'
  BY <1>3, <1>5 DEF RequestsKnowTheirSite
<1>9. KeysAreTheLeads'
  <2>1. \A u \in Sites, v \in Times :
           leads'[u][v] = IF u = s /\ v = t THEN r ELSE leads[u][v]
    BY <1>2, <1>4 DEF TypeOK
  <2>2. \A q \in Posts \ {r} : req'[q].phase = "stored" =>
           /\ req'[q].site \in Sites /\ req'[q].ts \in Times
           /\ leads[req'[q].site][req'[q].ts] # NoLead
    BY <1>5 DEF KeysAreTheLeads, Requests
  <2>3. \A q \in Posts : req'[q].phase = "stored" =>
           /\ req'[q].site \in Sites /\ req'[q].ts \in Times
           /\ leads'[req'[q].site][req'[q].ts] # NoLead
    BY <1>1, <1>2, <1>3, <1>5, <2>1, <2>2
  <2>4. ASSUME NEW u \in Sites, NEW v \in Times, leads'[u][v] # NoLead,
               ~ (u = s /\ v = t)
        PROVE  LET q == leads'[u][v] IN
               req'[q].phase = "stored" /\ req'[q].site = u /\ req'[q].ts = v
    <3>1. leads'[u][v] = leads[u][v] /\ leads[u][v] \in Posts
      BY <2>1, <2>4 DEF TypeOK
    <3>2. LET q == leads[u][v] IN
          req[q].phase = "stored" /\ req[q].site = u /\ req[q].ts = v
      BY <2>4, <3>1 DEF KeysAreTheLeads
    <3>3. leads[u][v] # r
      BY <1>4, <3>2
    <3>4. QED
      BY <1>5, <3>1, <3>2, <3>3 DEF Requests
  <2>5. QED
    BY <1>3, <1>5, <2>1, <2>3, <2>4 DEF KeysAreTheLeads
<1>10. ShownIsStored'
  <2>1. \A q \in Inboxes : q \in Requests /\ q # r
    BY InboxAssumption DEF Requests
  <2>2. QED
    BY <1>4, <1>5, <2>1 DEF ShownIsStored, Requests
<1>11. QED
  BY <1>6, <1>7, <1>8, <1>9, <1>10

LEMMA ReadKeepsInv ==
    ASSUME IInv, NEW r \in Inboxes, ReadLead(r)
    PROVE  IInv'
<1> USE DEF IInv
<1>1. r \in Requests /\ r \notin Posts
  BY InboxAssumption DEF Requests
<1>2. req[r] \in Request /\ req[r].phase = "reading" /\ req[r].site \in Sites
  BY <1>1 DEF ReadLead, TypeOK, RequestsKnowTheirSite
<1>3. PICK t \in Times :
         req' = [req EXCEPT ![r].keys = @ \ {t},
                            ![r].shown = @ \cup ({leads[req[r].site][t]} \ {NoLead})]
  BY DEF ReadLead
<1> DEFINE more == {leads[req[r].site][t]} \ {NoLead}
           new == [req[r] EXCEPT !.keys = @ \ {t}, !.shown = @ \cup more]
<1>4. req' = [req EXCEPT ![r] = new]
  BY <1>3
<1>5. UNCHANGED <<domains, leads, clock, attached, meant>>
  BY DEF ReadLead
<1>6. \A q \in more : q \in Posts /\ req[q].phase = "stored" /\ req[q].site = req[r].site
  BY <1>2 DEF TypeOK, KeysAreTheLeads
<1> HIDE DEF more
<1>7. /\ new \in Request /\ new.phase = "reading" /\ new.site = req[r].site
      /\ new.shown = req[r].shown \cup more
  BY <1>2, <1>6 DEF Request
<1> HIDE DEF new
<1>8. req'[r] = new /\ \A q \in Requests \ {r} : req'[q] = req[q]
  BY <1>1, <1>4 DEF TypeOK
<1>9. TypeOK'
  BY <1>1, <1>4, <1>5, <1>7 DEF TypeOK
<1>10. HostsMeanWhatIsHeld'
  BY <1>2, <1>5, <1>7, <1>8 DEF HostsMeanWhatIsHeld, siteFor
<1>11. RequestsKnowTheirSite'
  BY <1>2, <1>7, <1>8 DEF RequestsKnowTheirSite
<1>12. KeysAreTheLeads'
  <2>1. \A q \in Posts : req'[q] = req[q]
    BY <1>1, <1>8 DEF Requests
  <2>2. \A s \in Sites, u \in Times : leads[s][u] # NoLead => leads[s][u] \in Posts
    BY DEF TypeOK
  <2>3. QED
    BY <1>5, <2>1, <2>2 DEF KeysAreTheLeads
<1>13. ShownIsStored'
  <2>1. \A q \in Posts : req'[q] = req[q]
    BY <1>1, <1>8 DEF Requests
  <2>2. \A q \in req'[r].shown :
           q \in Posts /\ req[q].phase = "stored" /\ req[q].site = req'[r].site
    BY <1>6, <1>7, <1>8 DEF ShownIsStored
  <2>3. QED
    BY <1>8, <2>1, <2>2 DEF ShownIsStored, Requests
<1>14. QED
  BY <1>9, <1>10, <1>11, <1>12, <1>13

LEMMA NextInv == IInv /\ [Next]_vars => IInv'
<1> SUFFICES ASSUME IInv, [Next]_vars
             PROVE  IInv'
  OBVIOUS
<1>1. ASSUME NEW h \in Hosts, NEW s \in Sites, PutDomain(h, s)
      PROVE  IInv'
  BY <1>1, DomainKeepsInv DEF PutDomain, customHostValid, slugValid
<1>2. ASSUME NEW h \in Hosts, DeleteDomain(h)
      PROVE  IInv'
  BY <1>2, DomainKeepsInv DEF DeleteDomain, customHostValid
<1>3. ASSUME NEW r \in Requests, NEW h \in Hosts, Arrive(r, h)
      PROVE  IInv'
  BY <1>3, ArriveKeepsInv
<1>4. ASSUME NEW r \in Requests, NotFound(r)
      PROVE  IInv'
  BY <1>4, FinishKeepsInv DEF NotFound
<1>5. ASSUME NEW r \in Requests, Resolve(r, "resolved")
      PROVE  IInv'
  BY <1>5, ResolveKeepsInv
<1>6. ASSUME NEW r \in Requests, Crash(r)
      PROVE  IInv'
  BY <1>6, FinishKeepsInv DEF Crash, InFlight
<1>7. ASSUME NEW r \in Visits, Visit(r)
      PROVE  IInv'
  BY <1>7, ResolveKeepsInv, InboxAssumption DEF Visit, Requests
<1>8. ASSUME NEW r \in Posts, DropLead(r) \/ StampLead(r) \/ PutLead(r)
      PROVE  IInv'
  BY <1>8, FinishKeepsInv, StampKeepsInv, PutKeepsInv DEF DropLead, Requests
<1>9. ASSUME NEW r \in Inboxes, ListInbox(r) \/ ReadLead(r) \/ AnswerInbox(r)
      PROVE  IInv'
  BY <1>9, FinishKeepsInv, ListKeepsInv, ReadKeepsInv DEF AnswerInbox, Requests
<1>10. CASE Tick
  <2>1. TypeOK'
    BY <1>10, InboxAssumption DEF Tick, IInv, TypeOK, Times
  <2>2. QED
    BY <1>10, <2>1 DEF Tick, IInv, HostsMeanWhatIsHeld, siteFor, RequestsKnowTheirSite,
                       KeysAreTheLeads, ShownIsStored
<1>11. CASE UNCHANGED vars
  BY <1>11 DEF vars, IInv, TypeOK, HostsMeanWhatIsHeld, siteFor, RequestsKnowTheirSite,
               KeysAreTheLeads, ShownIsStored
<1>12. QED
  BY <1>1, <1>2, <1>3, <1>4, <1>5, <1>6, <1>7, <1>8, <1>9, <1>10, <1>11 DEF Next

(***************************************************************************)
(* Theorems.                                                               *)
(***************************************************************************)

\* The invariant above holds of every behaviour: the keys of R2 are the leads that
\* were stored, whoever comes, goes or crashes meanwhile (index.mjs:582).
THEOREM Invariance == Spec => []IInv
BY InitInv, NextInv, PTL DEF Spec

\* An answered lead stays in the inbox of its site, but for a lead of the same
\* site and millisecond: for any sites, domains and requests (index.mjs:582).
THEOREM LeadsAreKept == Spec => []LeadIsKept
<1>1. IInv => LeadIsKept
  <2> SUFFICES ASSUME IInv, NEW r \in Posts, req[r].phase = "stored", ~ Clashes(r)
               PROVE  leads[req[r].site][req[r].ts] = r
    BY DEF LeadIsKept
  <2> DEFINE q == leads[req[r].site][req[r].ts]
  <2>1. req[r].site \in Sites /\ req[r].ts \in Times /\ q # NoLead
    BY DEF IInv, KeysAreTheLeads
  <2>2. q \in Posts /\ req[q].site = req[r].site /\ req[q].ts = req[r].ts
    BY <2>1 DEF IInv, TypeOK, KeysAreTheLeads
  <2>3. QED
    BY <2>2 DEF Clashes
<1>2. QED
  BY Invariance, <1>1, PTL

\* No inbox ever shows a lead of another site, for any domains that change hands
\* while it is listed and read (index.mjs:549).
THEOREM InboxesAreOwn == Spec => []InboxIsOwn
<1>1. IInv => InboxIsOwn
  BY DEF IInv, ShownIsStored, InboxIsOwn
<1>2. QED
  BY Invariance, <1>1, PTL

\* A step of one request is none of another.
LEMMA OthersStay ==
    ASSUME TypeOK, NEW r \in Requests, NEW q \in Requests, q # r,
           \/ \E h \in Hosts : Arrive(q, h)
           \/ \E phase \in {"dropped", "notfound", "listed"} : Finish(q, phase)
           \/ \E phase \in {"resolved", "reached"} : Resolve(q, phase)
           \/ StampLead(q) \/ PutLead(q) \/ ListInbox(q) \/ ReadLead(q)
    PROVE  req'[r] = req[r]
<1>1. CASE \E h \in Hosts : Arrive(q, h)
  BY <1>1 DEF TypeOK, Arrive
<1>2. CASE \E phase \in {"dropped", "notfound", "listed"} : Finish(q, phase)
  BY <1>2 DEF TypeOK, Finish
<1>3. CASE \E phase \in {"resolved", "reached"} : Resolve(q, phase)
  BY <1>3 DEF TypeOK, Resolve
<1>4. CASE StampLead(q) \/ PutLead(q)
  BY <1>4 DEF TypeOK, StampLead, PutLead
<1>5. CASE ListInbox(q)
  BY <1>5 DEF TypeOK, ListInbox
<1>6. CASE ReadLead(q)
  BY <1>6 DEF TypeOK, ReadLead
<1>7. QED
  BY <1>1, <1>2, <1>3, <1>4, <1>5, <1>6

\* A step that takes a request past its host is one of three, and obeys.
LEMMA ResolvingObeys ==
    ASSUME IInv, [Next]_vars, NEW r \in Requests, req[r].phase = "arrived",
           req'[r].phase \in {"resolved", "reached", "notfound"}
    PROVE  /\ req'[r].site \in meant[r]
           /\ req[r].host \in Domains => req'[r].site # Root
<1> USE DEF IInv
<1>1. req[r].host \in Hosts /\ siteFor(req[r].host) \in meant[r]
  BY DEF HostsMeanWhatIsHeld
<1>2. req[r].host \in Domains => siteFor(req[r].host) # Root
  BY InboxAssumption DEF siteFor, customHostValid, TypeOK
<1>3. req' # req
  OBVIOUS
<1>4. ASSUME NEW q \in Requests, q # r,
             \/ \E h \in Hosts : Arrive(q, h)
             \/ \E phase \in {"dropped", "notfound", "listed"} : Finish(q, phase)
             \/ \E phase \in {"resolved", "reached"} : Resolve(q, phase)
             \/ StampLead(q) \/ PutLead(q) \/ ListInbox(q) \/ ReadLead(q)
      PROVE  FALSE
  BY <1>4, OthersStay
<1>5. NotFound(r) \/ Resolve(r, "resolved") \/ Resolve(r, "reached")
  <2>1. ~ (\E h \in Hosts, s \in Sites : PutDomain(h, s)) /\ ~ (\E h \in Hosts : DeleteDomain(h))
    BY <1>3 DEF PutDomain, DeleteDomain
  <2>2. ~ Tick /\ ~ UNCHANGED vars
    BY <1>3 DEF Tick, vars
  <2>3. ~ \E h \in Hosts : Arrive(r, h)
    BY DEF Arrive
  <2>4. ~ Crash(r)
    BY DEF Crash, Finish, Fresh, TypeOK
  <2>5. ~ DropLead(r) /\ ~ StampLead(r) /\ ~ PutLead(r)
    BY DEF DropLead, StampLead, PutLead
  <2>6. ~ ListInbox(r) /\ ~ ReadLead(r) /\ ~ AnswerInbox(r)
    BY DEF ListInbox, ReadLead, AnswerInbox
  <2>7. \A q \in Requests : q # r =>
           /\ ~ NotFound(q) /\ ~ Crash(q) /\ ~ DropLead(q) /\ ~ AnswerInbox(q) /\ ~ Visit(q)
           /\ ~ Resolve(q, "resolved") /\ ~ StampLead(q) /\ ~ PutLead(q)
           /\ ~ ListInbox(q) /\ ~ ReadLead(q) /\ \A h \in Hosts : ~ Arrive(q, h)
    BY <1>4 DEF NotFound, Crash, DropLead, AnswerInbox, Visit
  <2>8. Visits \subseteq Requests /\ Posts \subseteq Requests /\ Inboxes \subseteq Requests
    BY InboxAssumption DEF Requests
  <2>9. QED
    BY <2>1, <2>2, <2>3, <2>4, <2>5, <2>6, <2>7, <2>8 DEF Next, Visit
<1>6. CASE Resolve(r, "resolved") \/ Resolve(r, "reached")
  <2>1. req'[r].site = siteFor(req[r].host)
    BY <1>6 DEF Resolve, TypeOK, Request
  <2>2. QED
    BY <1>1, <1>2, <2>1
<1>7. CASE NotFound(r)
  <2>1. req'[r].site = NoSite
    BY <1>7 DEF NotFound, Finish, Fresh, TypeOK
  <2>2. siteFor(req[r].host) = NoSite
    BY <1>1, <1>7, InboxAssumption
       DEF NotFound, Rechecked, slugValid, customHostValid, siteFor, TypeOK
  <2>3. QED
    BY <1>1, <1>2, <2>1, <2>2
<1>8. QED
  BY <1>5, <1>6, <1>7

\* Every request works on a site its host was attached to while it was in flight,
\* and never on the apex by a customer's domain (index.mjs:605).
THEOREM HostsAreObeyed == Spec => HostIsObeyed
<1> DEFINE Obeyed ==
        \A r \in Requests :
           req[r].phase = "arrived" /\ req'[r].phase \in {"resolved", "reached", "notfound"} =>
           /\ req'[r].site \in meant[r]
           /\ req[r].host \in Domains => req'[r].site # Root
<1>1. IInv /\ [Next]_vars => [Obeyed]_vars
  BY ResolvingObeys
<1>2. QED
  BY Invariance, <1>1, PTL DEF Spec, HostIsObeyed

(***************************************************************************)
(* What an inbox shows of what it held.                                    *)
(***************************************************************************)

\* No other lead of its site was stored with its stamp.
OnlyOne(q) ==
    ~ \E p \in Posts : /\ p # q /\ req[p].phase = "stored"
                       /\ req[p].site = req[q].site /\ req[p].ts = req[q].ts

\* The leads that an inbox is to show.
Wanted(r) ==
    {q \in Posts : /\ req[q].phase = "stored" /\ req[q].site = req[r].site
                   /\ req[q].ts \in Latest(req[r].due, ShowLimit) /\ OnlyOne(q)}

\* They are shown or still to be read; and what it held it holds for good.
WantedAreRead ==
    \A r \in Inboxes :
        req[r].phase = "reading" =>
            /\ \A t \in req[r].due : t \in Times /\ leads[req[r].site][t] # NoLead
            /\ Cardinality(req[r].due) <= ListLimit =>
                   \A q \in Wanted(r) : q \in req[r].shown \/ req[q].ts \in req[r].keys

\* Steps that store no lead, of requests that are not reading an inbox or of none.
LEMMA WantedStay ==
    ASSUME IInv, WantedAreRead, UNCHANGED leads,
           \A r \in Inboxes : req'[r].phase = "reading" => req'[r] = req[r],
           \A q \in Posts : req[q].phase = "stored" \/ req'[q].phase = "stored" => req'[q] = req[q]
    PROVE  WantedAreRead'
<1>1. \A q \in Posts : req'[q].phase = "stored" => (OnlyOne(q) <=> OnlyOne(q)')
  BY DEF OnlyOne
<1>2. \A r \in Inboxes : req'[r].phase = "reading" => Wanted(r)' = Wanted(r)
  BY <1>1 DEF Wanted
<1>3. QED
  BY <1>2 DEF WantedAreRead, Wanted

LEMMA ProceedingKeepsWanted ==
    ASSUME IInv, WantedAreRead, NEW x \in Requests, NEW new,
           req[x].phase # "stored", new.phase \notin {"stored", "reading"},
           req' = [req EXCEPT ![x] = new], UNCHANGED leads
    PROVE  WantedAreRead'
<1>1. req'[x] = new /\ \A y \in Requests \ {x} : req'[y] = req[y]
  BY DEF IInv, TypeOK
<1>2. \A r \in Inboxes : req'[r].phase = "reading" => req'[r] = req[r]
  BY <1>1 DEF Requests
<1>3. \A q \in Posts : req[q].phase = "stored" \/ req'[q].phase = "stored" => req'[q] = req[q]
  BY <1>1 DEF Requests
<1>4. QED
  BY <1>2, <1>3, WantedStay

LEMMA StoringKeepsWanted ==
    ASSUME IInv, WantedAreRead, NEW x \in Posts, PutLead(x)
    PROVE  WantedAreRead'
<1> DEFINE s == req[x].site
           t == req[x].ts
           new == [Fresh EXCEPT !.phase = "stored", !.site = s, !.ts = t]
<1> USE DEF IInv
<1>1. x \in Requests /\ x \notin Inboxes /\ x # NoLead /\ req[x].phase = "writing"
  BY InboxAssumption DEF Requests, PutLead
<1>2. s \in Sites /\ t \in Times
  BY <1>1 DEF RequestsKnowTheirSite
<1>3. new.phase = "stored" /\ new.site = s /\ new.ts = t
  BY DEF Fresh
<1>4. req' = [req EXCEPT ![x] = new] /\ leads' = [leads EXCEPT ![s][t] = x]
  BY DEF PutLead
<1> HIDE DEF new
<1>5. req'[x] = new /\ \A y \in Requests \ {x} : req'[y] = req[y]
  BY <1>1, <1>4 DEF TypeOK
<1>6. \A u \in Sites, v \in Times :
         leads'[u][v] = IF u = s /\ v = t THEN x ELSE leads[u][v]
  BY <1>2, <1>4 DEF TypeOK
<1> SUFFICES ASSUME NEW r \in Inboxes, req'[r].phase = "reading"
             PROVE  /\ \A v \in req'[r].due : v \in Times /\ leads'[req'[r].site][v] # NoLead
                    /\ Cardinality(req'[r].due) <= ListLimit =>
                         \A q \in Wanted(r)' : q \in req'[r].shown \/ req'[q].ts \in req'[r].keys
  BY DEF WantedAreRead
<1>7. r \in Requests /\ req'[r] = req[r] /\ req[r].phase = "reading" /\ req[r].site \in Sites
  <2>1. r \in Requests /\ r # x
    BY <1>1 DEF Requests
  <2>2. req'[r] = req[r]
    BY <1>5, <2>1
  <2>3. QED
    BY <2>1, <2>2 DEF RequestsKnowTheirSite
<1>8. \A v \in req[r].due : v \in Times /\ leads[req[r].site][v] # NoLead
  BY <1>7 DEF WantedAreRead
<1>9. \A v \in req'[r].due : v \in Times /\ leads'[req'[r].site][v] # NoLead
  BY <1>1, <1>6, <1>7, <1>8
<1>10. ASSUME NEW q \in Wanted(r)' PROVE q \in Wanted(r) /\ req'[q] = req[q]
  <2>1. /\ q \in Posts /\ req'[q].phase = "stored" /\ req'[q].site = req[r].site
        /\ req'[q].ts \in Latest(req[r].due, ShowLimit)
    BY <1>7 DEF Wanted
  <2>2. \A p \in Posts : ~ (/\ p # q /\ req'[p].phase = "stored"
                            /\ req'[p].site = req'[q].site /\ req'[p].ts = req'[q].ts)
    BY DEF Wanted, OnlyOne
  <2>3. CASE q = x
    <3>1. s = req[r].site /\ t \in req[r].due
      BY <1>3, <1>5, <2>1, <2>3 DEF Latest
    <3>2. leads[s][t] # NoLead
      BY <1>8, <3>1
    <3>3. PICK p \in Posts : p = leads[s][t]
      BY <1>2, <3>2 DEF TypeOK
    <3>4. req[p].phase = "stored" /\ req[p].site = s /\ req[p].ts = t
      BY <1>2, <3>2, <3>3 DEF KeysAreTheLeads
    <3>5. p # x /\ req'[p] = req[p]
      BY <1>1, <1>5, <3>4 DEF Requests
    <3>6. QED
      BY <1>3, <1>5, <2>2, <2>3, <3>4, <3>5
  <2>4. CASE q # x
    <3>1. req'[q] = req[q]
      BY <1>5, <2>1, <2>4 DEF Requests
    <3>2. \A p \in Posts : req[p].phase = "stored" => req'[p] = req[p]
      BY <1>1, <1>5 DEF Requests
    <3>3. OnlyOne(q)
      BY <2>2, <3>1, <3>2 DEF OnlyOne
    <3>4. QED
      BY <2>1, <3>1, <3>3 DEF Wanted
  <2>5. QED
    BY <2>3, <2>4
<1>11. Cardinality(req[r].due) <= ListLimit =>
          \A q \in Wanted(r) : q \in req[r].shown \/ req[q].ts \in req[r].keys
  BY <1>7 DEF WantedAreRead
<1>12. Cardinality(req'[r].due) <= ListLimit =>
          \A q \in Wanted(r)' : q \in req'[r].shown \/ req'[q].ts \in req'[r].keys
  <2> SUFFICES ASSUME Cardinality(req'[r].due) <= ListLimit, NEW q \in Wanted(r)'
               PROVE  q \in req'[r].shown \/ req'[q].ts \in req'[r].keys
    OBVIOUS
  <2>1. Cardinality(req[r].due) <= ListLimit
    BY <1>7
  <2>2. q \in req[r].shown \/ req[q].ts \in req[r].keys
    BY <1>10, <1>11, <2>1
  <2>3. QED
    BY <1>7, <1>10, <2>2
<1>13. QED
  BY <1>9, <1>12

\* A listing that takes them all has the newest of all.
LEMMA ListedAreNewest ==
    ASSUME NEW T \in SUBSET Times, Cardinality(T) <= ListLimit
    PROVE  Earliest(T, ListLimit) = T
<1>1. IsFiniteSet(T)
  <2>1. 0 \in Int /\ MaxTime \in Int
    BY InboxAssumption
  <2>2. IsFiniteSet(Times)
    BY <2>1, FS_Interval DEF Times
  <2>3. QED
    BY <2>2, FS_Subset
<1>2. ASSUME NEW t \in T PROVE Cardinality({u \in T : u < t}) < ListLimit
  <2> DEFINE before == {u \in T : u < t}
  <2>1. before \subseteq T /\ t \notin before /\ t \in T
    BY DEF Times
  <2>2. Cardinality(before) < Cardinality(T)
    <3>1. before \subseteq T /\ before # T
      BY <2>1
    <3> HIDE DEF before
    <3>2. Cardinality(before) <= Cardinality(T)
          /\ (Cardinality(before) = Cardinality(T) => before = T)
      BY <1>1, <3>1, FS_Subset
    <3>3. Cardinality(before) \in Nat /\ Cardinality(T) \in Nat
      BY <1>1, <3>1, FS_Subset, FS_CardinalityType
    <3>4. QED
      BY <3>1, <3>2, <3>3
  <2>3. Cardinality(before) \in Nat /\ Cardinality(T) \in Nat
    BY <1>1, <2>1, FS_Subset, FS_CardinalityType
  <2> HIDE DEF before
  <2>4. Cardinality(before) < ListLimit
    BY <2>2, <2>3, InboxAssumption
  <2>5. QED
    BY <2>4 DEF before
<1>3. QED
  BY <1>2 DEF Earliest

LEMMA ListingKeepsWanted ==
    ASSUME IInv, WantedAreRead, NEW x \in Inboxes, ListInbox(x)
    PROVE  WantedAreRead'
<1> DEFINE held == Held(req[x].site)
           new == [req[x] EXCEPT !.phase = "reading", !.due = held,
                                 !.keys = Shown(Earliest(held, ListLimit))]
<1> USE DEF IInv
<1>1. x \in Requests /\ x \notin Posts /\ req[x] \in Request /\ req[x].phase = "resolved"
  BY InboxAssumption DEF Requests, TypeOK, ListInbox
<1>2. /\ new.due = held /\ new.keys = Shown(Earliest(held, ListLimit))
      /\ new.site = req[x].site
  BY <1>1 DEF Request
<1>3. req' = [req EXCEPT ![x] = new] /\ leads' = leads
  BY DEF ListInbox
<1>4. held \in SUBSET Times /\ \A t \in held : leads[req[x].site][t] # NoLead
  BY DEF Held
<1>5. Cardinality(held) <= ListLimit => Earliest(held, ListLimit) = held
  BY <1>4, ListedAreNewest
<1> HIDE DEF held, new
<1>6. req'[x] = new /\ \A y \in Requests \ {x} : req'[y] = req[y]
  BY <1>1, <1>3 DEF TypeOK
<1>7. \A q \in Posts : req'[q] = req[q]
  BY <1>1, <1>6 DEF Requests
<1>8. \A r \in Inboxes \ {x} : req'[r] = req[r] /\ Wanted(r)' = Wanted(r)
  <2>1. \A r \in Inboxes \ {x} : req'[r] = req[r]
    BY <1>6 DEF Requests
  <2>2. QED
    BY <1>7, <2>1 DEF Wanted, OnlyOne
<1>9. Cardinality(new.due) <= ListLimit => \A q \in Wanted(x)' : req'[q].ts \in new.keys
  BY <1>2, <1>5, <1>6 DEF Wanted, Shown
<1>10. \A t \in new.due : t \in Times /\ leads'[new.site][t] # NoLead
  BY <1>2, <1>3, <1>4
<1>11. \A r \in Inboxes \ {x} : \A q \in Wanted(r) : q \in Posts
  BY DEF Wanted
<1>12. QED
  BY <1>3, <1>6, <1>7, <1>8, <1>9, <1>10, <1>11 DEF WantedAreRead

LEMMA ReadingKeepsWanted ==
    ASSUME IInv, WantedAreRead, NEW x \in Inboxes, ReadLead(x)
    PROVE  WantedAreRead'
<1> USE DEF IInv
<1>1. x \in Requests /\ x \notin Posts /\ req[x] \in Request /\ req[x].phase = "reading"
  BY InboxAssumption DEF Requests, TypeOK, ReadLead
<1>2. PICK t \in Times :
         req' = [req EXCEPT ![x].keys = @ \ {t},
                            ![x].shown = @ \cup ({leads[req[x].site][t]} \ {NoLead})]
  BY DEF ReadLead
<1> DEFINE more == {leads[req[x].site][t]} \ {NoLead}
           new == [req[x] EXCEPT !.keys = @ \ {t}, !.shown = @ \cup more]
<1>3. req' = [req EXCEPT ![x] = new] /\ leads' = leads
  BY <1>2 DEF ReadLead
<1>4. /\ new.keys = req[x].keys \ {t} /\ new.shown = req[x].shown \cup more
      /\ new.due = req[x].due /\ new.site = req[x].site
  BY <1>1 DEF Request
<1> HIDE DEF new
<1>5. req'[x] = new /\ \A y \in Requests \ {x} : req'[y] = req[y]
  BY <1>1, <1>3 DEF TypeOK
<1>6. \A q \in Posts : req'[q] = req[q]
  BY <1>1, <1>5 DEF Requests
<1>7. \A r \in Inboxes \ {x} : req'[r] = req[r]
  BY <1>5 DEF Requests
<1>8. \A r \in Inboxes : Wanted(r)' = Wanted(r)
  BY <1>4, <1>5, <1>6, <1>7 DEF Wanted, OnlyOne
<1>9. ASSUME NEW q \in Wanted(x), req[q].ts = t PROVE q \in more
  <2>1. q \in Posts /\ req[q].phase = "stored" /\ req[q].site = req[x].site /\ OnlyOne(q)
    BY DEF Wanted
  <2>2. req[q].site \in Sites /\ leads[req[q].site][t] # NoLead
    BY <1>9, <2>1 DEF KeysAreTheLeads
  <2>3. PICK p \in Posts : p = leads[req[q].site][t]
    BY <2>2 DEF TypeOK
  <2>4. req[p].phase = "stored" /\ req[p].site = req[q].site /\ req[p].ts = t
    BY <2>2, <2>3 DEF KeysAreTheLeads
  <2>5. p = q
    BY <1>9, <2>1, <2>4 DEF OnlyOne
  <2>6. QED
    BY <2>1, <2>2, <2>3, <2>5
<1>10. Cardinality(new.due) <= ListLimit =>
          \A q \in Wanted(x) : q \in new.shown \/ req[q].ts \in new.keys
  BY <1>1, <1>4, <1>9 DEF WantedAreRead
<1>11. \A r \in Inboxes : \A q \in Wanted(r) : q \in Posts
  BY DEF Wanted
<1>12. QED
  BY <1>1, <1>3, <1>4, <1>5, <1>6, <1>7, <1>8, <1>10, <1>11 DEF WantedAreRead

LEMMA WantedNext == IInv /\ WantedAreRead /\ [Next]_vars => WantedAreRead'
<1> SUFFICES ASSUME IInv, WantedAreRead, [Next]_vars
             PROVE  WantedAreRead'
  OBVIOUS
<1>1. ASSUME NEW r \in Requests, NEW phase \in {"dropped", "notfound", "listed"},
             req[r].phase # "stored", Finish(r, phase)
      PROVE  WantedAreRead'
  <2> DEFINE new == [Fresh EXCEPT !.phase = phase]
  <2>1. new.phase = phase /\ req' = [req EXCEPT ![r] = new] /\ leads' = leads
    BY <1>1 DEF Finish, Fresh
  <2> HIDE DEF new
  <2>2. QED
    BY <1>1, <2>1, ProceedingKeepsWanted
<1>2. ASSUME NEW r \in Requests, NEW h \in Hosts, Arrive(r, h)
      PROVE  WantedAreRead'
  <2> DEFINE new == [req[r] EXCEPT !.phase = "arrived", !.host = h]
  <2>1. new.phase = "arrived" /\ req' = [req EXCEPT ![r] = new] /\ leads' = leads
    BY <1>2 DEF Arrive, IInv, TypeOK, Request
  <2> HIDE DEF new
  <2>2. QED
    BY <1>2, <2>1, ProceedingKeepsWanted DEF Arrive
<1>3. ASSUME NEW r \in Requests, NEW phase \in {"resolved", "reached"}, Resolve(r, phase)
      PROVE  WantedAreRead'
  <2> DEFINE new == [req[r] EXCEPT !.phase = phase, !.site = siteFor(req[r].host)]
  <2>1. new.phase = phase /\ req' = [req EXCEPT ![r] = new] /\ leads' = leads
    BY <1>3 DEF Resolve, IInv, TypeOK, Request
  <2> HIDE DEF new
  <2>2. QED
    BY <1>3, <2>1, ProceedingKeepsWanted DEF Resolve
<1>4. ASSUME NEW r \in Posts, StampLead(r)
      PROVE  WantedAreRead'
  <2> DEFINE new == [req[r] EXCEPT !.phase = "writing", !.ts = clock]
  <2>1. r \in Requests
    BY DEF Requests
  <2>2. new.phase = "writing" /\ req' = [req EXCEPT ![r] = new] /\ leads' = leads
    BY <1>4, <2>1 DEF StampLead, IInv, TypeOK, Request
  <2> HIDE DEF new
  <2>3. QED
    BY <1>4, <2>1, <2>2, ProceedingKeepsWanted DEF StampLead
<1>5. ASSUME NEW r \in Requests, NotFound(r) \/ Crash(r)
      PROVE  WantedAreRead'
  BY <1>1, <1>5 DEF NotFound, Crash, InFlight
<1>6. ASSUME NEW r \in Posts, DropLead(r) \/ PutLead(r)
      PROVE  WantedAreRead'
  BY <1>1, <1>6, StoringKeepsWanted DEF DropLead, Requests
<1>7. ASSUME NEW r \in Inboxes, ListInbox(r) \/ ReadLead(r) \/ AnswerInbox(r)
      PROVE  WantedAreRead'
  BY <1>1, <1>7, ListingKeepsWanted, ReadingKeepsWanted DEF AnswerInbox, Requests
<1>8. CASE UNCHANGED <<req, leads>>
  BY <1>8, WantedStay
<1>9. CASE \/ \E h \in Hosts, s \in Sites : PutDomain(h, s)
           \/ \E h \in Hosts : DeleteDomain(h)
           \/ Tick \/ UNCHANGED vars
  BY <1>8, <1>9 DEF PutDomain, DeleteDomain, Tick, vars
<1>10. ASSUME NEW r \in Visits, Visit(r)
       PROVE  WantedAreRead'
  BY <1>3, <1>10, InboxAssumption DEF Visit, Requests
<1>11. QED
  BY <1>2, <1>3, <1>4, <1>5, <1>6, <1>7, <1>9, <1>10 DEF Next

\* An inbox that is read is answered by AnswerInbox.
LEMMA ListedByAnswer ==
    ASSUME IInv, [Next]_vars, NEW r \in Inboxes,
           req[r].phase = "reading", req'[r].phase = "listed"
    PROVE  req[r].keys = {}
<1> USE DEF IInv
<1>1. r \in Requests /\ r \notin Posts /\ req' # req /\ req'[r] # req[r]
  BY InboxAssumption DEF Requests
<1>2. ASSUME NEW q \in Requests, q # r,
             \/ \E h \in Hosts : Arrive(q, h)
             \/ \E phase \in {"dropped", "notfound", "listed"} : Finish(q, phase)
             \/ \E phase \in {"resolved", "reached"} : Resolve(q, phase)
             \/ StampLead(q) \/ PutLead(q) \/ ListInbox(q) \/ ReadLead(q)
      PROVE  FALSE
  BY <1>1, <1>2, OthersStay
<1>3. ~ (\E h \in Hosts, s \in Sites : PutDomain(h, s)) /\ ~ (\E h \in Hosts : DeleteDomain(h))
  BY <1>1 DEF PutDomain, DeleteDomain
<1>4. ~ Tick /\ ~ UNCHANGED vars
  BY <1>1 DEF Tick, vars
<1>5. /\ ~ (\E h \in Hosts : Arrive(r, h)) /\ ~ NotFound(r)
      /\ ~ Resolve(r, "resolved") /\ ~ Resolve(r, "reached") /\ ~ ListInbox(r)
  BY DEF Arrive, NotFound, Resolve, ListInbox
<1>6. ~ Crash(r) /\ ~ ReadLead(r)
  <2>1. ~ Crash(r)
    BY <1>1 DEF Crash, Finish, Fresh, TypeOK
  <2>2. ~ ReadLead(r)
    BY <1>1 DEF ReadLead, TypeOK, Request
  <2>3. QED
    BY <2>1, <2>2
<1>7. \A q \in Requests : q # r =>
         /\ ~ NotFound(q) /\ ~ Crash(q) /\ ~ DropLead(q) /\ ~ AnswerInbox(q) /\ ~ Visit(q)
         /\ ~ Resolve(q, "resolved") /\ ~ StampLead(q) /\ ~ PutLead(q)
         /\ ~ ListInbox(q) /\ ~ ReadLead(q) /\ \A h \in Hosts : ~ Arrive(q, h)
  BY <1>2 DEF NotFound, Crash, DropLead, AnswerInbox, Visit
<1>8. Visits \subseteq Requests /\ Posts \subseteq Requests /\ Inboxes \subseteq Requests
  BY InboxAssumption DEF Requests
<1>9. AnswerInbox(r)
  BY <1>1, <1>3, <1>4, <1>5, <1>6, <1>7, <1>8 DEF Next, Visit
<1>10. QED
  BY <1>9 DEF AnswerInbox

\* An answered inbox shows the newest leads it held when it was listed, as long as one
\* listing takes them all: for any limits, and any leads that arrive while it is read
\* (index.mjs:549-555).
THEOREM InboxesShowNewest == Spec => InboxShowsNewest
<1> DEFINE Shows ==
        \A r \in Inboxes :
           /\ req[r].phase = "reading" /\ req'[r].phase = "listed"
           /\ Cardinality(req[r].due) <= ListLimit
           => \A q \in Posts :
                  /\ req[q].phase = "stored" /\ req[q].site = req[r].site
                  /\ req[q].ts \in Latest(req[r].due, ShowLimit) /\ ~Clashes(q)
                  => q \in req[r].shown
<1>1. Init => WantedAreRead
  BY DEF Init, Fresh, WantedAreRead, Requests
<1>2. IInv /\ WantedAreRead /\ [Next]_vars => [Shows]_vars
  <2> SUFFICES ASSUME IInv, WantedAreRead, [Next]_vars, NEW r \in Inboxes,
                      req[r].phase = "reading", req'[r].phase = "listed",
                      Cardinality(req[r].due) <= ListLimit, NEW q \in Posts,
                      req[q].phase = "stored", req[q].site = req[r].site,
                      req[q].ts \in Latest(req[r].due, ShowLimit), ~ Clashes(q)
               PROVE  q \in req[r].shown
    OBVIOUS
  <2>1. q \in Wanted(r)
    BY DEF Wanted, OnlyOne, Clashes
  <2>2. req[r].keys = {}
    BY ListedByAnswer
  <2>3. QED
    BY <2>1, <2>2 DEF WantedAreRead
<1>3. QED
  BY InitInv, NextInv, WantedNext, <1>1, <1>2, PTL DEF Spec, InboxShowsNewest
=============================================================================
