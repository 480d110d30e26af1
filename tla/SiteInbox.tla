----------------------------- MODULE SiteInbox -----------------------------
(***************************************************************************)
(* Which site a hostname means, and the leads a site earns: PUT and DELETE *)
(* /__domain, POST /__lead, GET /__leads and the host resolution of every  *)
(* other request, in workers/site-host/src/index.mjs.                      *)
(*                                                                         *)
(* A host under ontold.site names its site by itself; a customer's own     *)
(* domain is looked up in R2 by each request that arrives on it, and is    *)
(* mapped and unmapped meanwhile.  A lead is one R2 object whose key is    *)
(* the millisecond it was taken in; the inbox lists keys and then reads    *)
(* the objects one at a time.                                              *)
(***************************************************************************)
EXTENDS Integers, FiniteSets

CONSTANTS
    Slugs,          \* the customers' sites
    Root,           \* the reserved site of the apex
    Domains,        \* customers' own domains
    NoSite,         \* no site
    Posts,          \* POST /__lead
    Inboxes,        \* GET /__leads, with the token
    Visits,         \* requests that may be any other on a site's host
    NoLead,         \* no lead
    ListLimit,      \* keys in one listing of the inbox: 1000 in the code
    ShowLimit,      \* leads in one answer: 100 in the code
    MaxTime         \* bound on the clock

ASSUME InboxAssumption ==
    /\ Root \notin Slugs
    /\ NoSite \notin Slugs \cup {Root}
    /\ Domains \cap (Slugs \cup {Root}) = {}
    /\ Posts \cap Inboxes = {}
    /\ Visits \subseteq Posts \cup Inboxes
    /\ NoLead \notin Posts
    /\ ListLimit \in Nat \ {0} /\ ShowLimit \in Nat \ {0}
    /\ MaxTime \in Nat

Sites == Slugs \cup {Root}

\* A site's own host stands for the site: <slug>.ontold.site, or the apex.
Hosts == Sites \cup Domains

Requests == Posts \cup Inboxes

Times == 0 .. MaxTime

Unstamped == -1

VARIABLES
    domains,    \* domains/<host>: the slug it is mapped to
    leads,      \* leads/<slug>/<ts>.json: the POST that wrote it
    clock,      \* Date.now()
    req,        \* the state of each request
    attached,   \* history: what the last answered /__domain said of each host
    meant       \* history: what the host of a request that has yet to resolve
                \* it was attached to since it arrived

vars == <<domains, leads, clock, req, attached, meant>>

InFlight == {"arrived", "resolved", "writing", "reading"}

\* "dropped": it crashed, or was turned away without touching R2.
Phases == InFlight \cup {"idle", "dropped", "notfound", "stored", "listed", "reached"}

Request == [phase : Phases, host : Hosts \cup {NoSite}, site : Sites \cup {NoSite},
            ts : Times \cup {Unstamped}, keys : SUBSET Times, shown : SUBSET Posts,
            due : SUBSET Times]

Fresh == [phase |-> "idle", host |-> NoSite, site |-> NoSite, ts |-> Unstamped,
          keys |-> {}, shown |-> {}, due |-> {}]

TypeOK ==
    /\ domains \in [Domains -> Slugs \cup {NoSite}]
    /\ leads \in [Sites -> [Times -> Posts \cup {NoLead}]]
    /\ clock \in Times
    /\ req \in [Requests -> Request]
    /\ attached \in [Domains -> Slugs \cup {NoSite}]
    /\ meant \in [Requests -> SUBSET (Sites \cup {NoSite})]

Init ==
    /\ domains = [h \in Domains |-> NoSite]
    /\ leads = [s \in Sites |-> [t \in Times |-> NoLead]]
    /\ clock = 0
    /\ req = [r \in Requests |-> Fresh]
    /\ attached = [h \in Domains |-> NoSite]
    /\ meant = [r \in Requests |-> {}]

Held(s) == {t \in Times : leads[s][t] # NoLead}

\* The n latest, and the n earliest, of a set of times.
Latest(T, n) == {t \in T : Cardinality({u \in T : u > t}) < n}
Earliest(T, n) == {t \in T : Cardinality({u \in T : u < t}) < n}

-----------------------------------------------------------------------------
(* PUT and DELETE /__domain, by the workflow that attaches a domain.       *)

\* What is attached now, as the requests in flight on the host will have it.
Attach(h, s) ==
    /\ attached' = [attached EXCEPT ![h] = s]
    /\ meant' = [r \in Requests |->
                    IF req[r].phase = "arrived" /\ req[r].host = h
                    THEN meant[r] \cup {s} ELSE meant[r]]

\* Mutant: any slug, the reserved one included.
AnySlug(s) == s \in Sites

\* slugValid: never the reserved site.
slugValid(s) == s \in Slugs

\* customHostValid: never a host of our own suffix, which means its site by
\* itself; both refusals answer 422 and change nothing.
customHostValid(h) == h \in Domains

PutDomain(h, s) ==
    /\ customHostValid(h) /\ slugValid(s)
    /\ domains' = [domains EXCEPT ![h] = s]
    /\ Attach(h, s)
    /\ UNCHANGED <<leads, clock, req>>

\* Mutant: an unmapped domain keeps its record.
KeepDomain(h) ==
    /\ customHostValid(h)
    /\ Attach(h, NoSite)
    /\ UNCHANGED <<domains, leads, clock, req>>

DeleteDomain(h) ==
    /\ customHostValid(h)
    /\ domains' = [domains EXCEPT ![h] = NoSite]
    /\ Attach(h, NoSite)
    /\ UNCHANGED <<leads, clock, req>>

-----------------------------------------------------------------------------
(* What every lane does first: find the site the host means.               *)

Arrive(r, h) ==
    /\ req[r].phase = "idle"
    /\ req' = [req EXCEPT ![r].phase = "arrived", ![r].host = h]
    /\ meant' = [meant EXCEPT ![r] = {IF h \in Domains THEN attached[h] ELSE h}]
    /\ UNCHANGED <<domains, leads, clock, attached>>

\* A request ends; what it held is forgotten.
Finish(r, phase) ==
    /\ req' = [req EXCEPT ![r] = [Fresh EXCEPT !.phase = phase]]
    /\ meant' = [meant EXCEPT ![r] = {}]
    /\ UNCHANGED <<domains, leads, clock, attached>>

\* siteFor: one of our own hosts; otherwise the domain's record, if any.
siteFor(h) == IF customHostValid(h) THEN domains[h] ELSE h

\* The site lane checks the slug of a record again; the lanes of the leads
\* take it at its word.
Rechecked(h) == customHostValid(h) => slugValid(siteFor(h))

NotFound(r) ==
    /\ req[r].phase = "arrived"
    /\ \/ siteFor(req[r].host) = NoSite
       \/ r \in Visits /\ ~Rechecked(req[r].host)
    /\ Finish(r, "notfound")

Resolve(r, phase) ==
    /\ req[r].phase = "arrived"
    /\ siteFor(req[r].host) # NoSite
    /\ req' = [req EXCEPT ![r].phase = phase, ![r].site = siteFor(req[r].host)]
    /\ meant' = [meant EXCEPT ![r] = {}]
    /\ UNCHANGED <<domains, leads, clock, attached>>

\* Every other lane of the Worker goes on from here, with that site.
Visit(r) == Rechecked(req[r].host) /\ Resolve(r, "reached")

Crash(r) ==
    /\ req[r].phase \in InFlight
    /\ Finish(r, "dropped")

-----------------------------------------------------------------------------
(* POST /__lead.                                                           *)

\* Too long, not JSON, no contact or want in it; or the honeypot is filled,
\* which is answered as a success.  Nothing is stored.
DropLead(r) ==
    /\ req[r].phase = "resolved"
    /\ Finish(r, "dropped")

StampLead(r) ==
    /\ req[r].phase = "resolved"
    /\ req' = [req EXCEPT ![r].phase = "writing", ![r].ts = clock]
    /\ UNCHANGED <<domains, leads, clock, attached, meant>>

\* Mutant: keyed by when it is put, not by the stamp it was answered with.
PutLeadLate(r) ==
    /\ req[r].phase = "writing"
    /\ leads' = [leads EXCEPT ![req[r].site][clock] = r]
    /\ req' = [req EXCEPT ![r] = [Fresh EXCEPT !.phase = "stored", !.site = req[r].site,
                                               !.ts = req[r].ts]]
    /\ UNCHANGED <<domains, clock, attached, meant>>

PutLead(r) ==
    /\ req[r].phase = "writing"
    /\ leads' = [leads EXCEPT ![req[r].site][req[r].ts] = r]
    /\ req' = [req EXCEPT ![r] = [Fresh EXCEPT !.phase = "stored", !.site = req[r].site,
                                               !.ts = req[r].ts]]
    /\ UNCHANGED <<domains, clock, attached, meant>>

-----------------------------------------------------------------------------
(* GET /__leads.                                                           *)

\* Mutant: shows the oldest of what it listed.
ShownOldest(listed) == Earliest(listed, ShowLimit)

\* The keys sorted backwards, and the first of them.
Shown(listed) == Latest(listed, ShowLimit)

\* A listing is in key order, the earliest lead first.
ListInbox(r) ==
    /\ req[r].phase = "resolved"
    /\ LET held == Held(req[r].site) IN
       req' = [req EXCEPT ![r].phase = "reading",
                          ![r].keys = Shown(Earliest(held, ListLimit)),
                          ![r].due = held]
    /\ UNCHANGED <<domains, leads, clock, attached, meant>>

\* The newest of the keys still to be read.
NextKey(r, t) == t \in req[r].keys /\ \A u \in req[r].keys : u <= t

\* Mutant: resolves the host again for each object.
ReadLeadAgain(r) ==
    /\ req[r].phase = "reading" /\ siteFor(req[r].host) # NoSite
    /\ \E t \in Times : NextKey(r, t) /\
         req' = [req EXCEPT
            ![r].keys = @ \ {t},
            ![r].shown = @ \cup ({leads[siteFor(req[r].host)][t]} \ {NoLead})]
    /\ UNCHANGED <<domains, leads, clock, attached, meant>>

\* Newest first, one get at a time.
ReadLead(r) ==
    /\ req[r].phase = "reading"
    /\ \E t \in Times : NextKey(r, t) /\
         req' = [req EXCEPT
            ![r].keys = @ \ {t},
            ![r].shown = @ \cup ({leads[req[r].site][t]} \ {NoLead})]
    /\ UNCHANGED <<domains, leads, clock, attached, meant>>

AnswerInbox(r) ==
    /\ req[r].phase = "reading" /\ req[r].keys = {}
    /\ Finish(r, "listed")

-----------------------------------------------------------------------------
Tick ==
    /\ clock < MaxTime
    /\ clock' = clock + 1
    /\ UNCHANGED <<domains, leads, req, attached, meant>>

Next ==
    \/ \E h \in Hosts, s \in Sites : PutDomain(h, s)
    \/ \E h \in Hosts : DeleteDomain(h)
    \/ \E r \in Requests : \/ \E h \in Hosts : Arrive(r, h)
                          \/ NotFound(r)
                          \/ Resolve(r, "resolved")
                          \/ Crash(r)
    \/ \E r \in Visits : Visit(r)
    \/ \E r \in Posts : DropLead(r) \/ StampLead(r) \/ PutLead(r)
    \/ \E r \in Inboxes : ListInbox(r) \/ ReadLead(r) \/ AnswerInbox(r)
    \/ Tick

Spec == Init /\ [][Next]_vars

-----------------------------------------------------------------------------
(* Properties                                                              *)

\* Did another lead of the same site take the same millisecond?
Clashes(r) ==
    \E q \in Posts : q # r /\ req[q].site = req[r].site /\ req[q].ts = req[r].ts

(* A lead that was answered "success" stays in the inbox of the site that  *)
(* earned it, whatever happens to the domain it came in on, unless another *)
(* lead of that site was stamped in the same millisecond.                  *)
LeadIsKept ==
    \A r \in Posts :
        req[r].phase = "stored" /\ ~Clashes(r) => leads[req[r].site][req[r].ts] = r

(* Every request works on a site its host was attached to at some moment   *)
(* since it arrived: a domain unmapped, or given to another customer, is   *)
(* at once no way into the first one's site or inbox, and a customer's     *)
(* domain never means the reserved site of the apex.                       *)
HostIsObeyed ==
    [][\A r \in Requests :
           req[r].phase = "arrived" /\ req'[r].phase \in {"resolved", "reached", "notfound"} =>
           /\ req'[r].site \in meant[r]
           /\ req[r].host \in Domains => req'[r].site # Root]_vars

(* One customer's token never reads another's enquiries: what an inbox     *)
(* shows was earned by the site it was asked for, though the domain asked  *)
(* on may mean another site by the time it is read.                        *)
InboxIsOwn ==
    \A r \in Inboxes : \A q \in req[r].shown : req[q].site = req[r].site

(* An inbox shows the newest leads it held when it was listed, as many as  *)
(* one answer takes, as long as one listing takes them all.  Past that the *)
(* listing holds the oldest keys, and the newest leads are not shown.      *)
InboxShowsNewest ==
    [][\A r \in Inboxes :
           /\ req[r].phase = "reading" /\ req'[r].phase = "listed"
           /\ Cardinality(req[r].due) <= ListLimit
           => \A q \in Posts :
                  /\ req[q].phase = "stored" /\ req[q].site = req[r].site
                  /\ req[q].ts \in Latest(req[r].due, ShowLimit) /\ ~Clashes(q)
                  => q \in req[r].shown]_vars
=============================================================================
