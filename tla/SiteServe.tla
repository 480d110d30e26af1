----------------------------- MODULE SiteServe -----------------------------
(***************************************************************************)
(* Serving one published site while it is being published, hidden and      *)
(* taken down: the GET half of workers/site-host/src/index.mjs, over the   *)
(* bucket that SitePublish writes.                                         *)
(*                                                                         *)
(* A visit is several awaited R2 reads (the visibility record alongside    *)
(* the candidate keys, then perhaps a listing), so it spans moments at     *)
(* which the bucket differs.  The apex sitemap is two concurrent listings  *)
(* over all sites, each of one page of keys: how many keys of other sites  *)
(* come before those of this one is any number there may be.               *)
(***************************************************************************)
EXTENDS SitePublish, FiniteSets

CONSTANTS
    Readers,        \* GETs of <slug>.ontold.site, or of ontold.site/sitemap.xml
    Assets,         \* the subpaths with an extension
    Files,          \* those of them stored as anything but text/html
    Early,          \* the subpaths that sort before "versions/"
    ListLimit,      \* how many keys the 404 path lists: 4 in the code
    CrawlLimit,     \* how many keys a listing of the sitemap takes: 1000
    Ahead           \* how many keys of other sites may come before this one's

ASSUME ServeAssumption ==
    /\ Assets \subseteq Subpaths /\ Files \subseteq Assets
    /\ Early \subseteq Subpaths
    /\ ListLimit \in Nat \ {0}
    /\ CrawlLimit \in Nat \ {0} /\ Ahead \subseteq Nat

Home == "/"

Visibilities == {"public", "unlisted", "private"}

\* What the candidate keys yielded.
NotFound == [kind |-> "none", page |-> NoPage]
Findings == [kind : {"none", "page", "subpage"}, page : Pages \cup {NoPage}]

\* What a visitor is told: a page, or what a missing page means.
Answers == {"page", "subpage", "private", "free", "gone", "broken"}

VARIABLES
    visibility,     \* visibility/<slug>, whose absence is "public"
    visit,          \* the state of each reader that visits the site
    crawl,          \* the state of each reader that asks for the sitemap
    moments         \* history: the states of the site while each is served

allVars == <<vars, visibility, visit, crawl, moments>>

Visit == [phase : {"idle", "subpage", "index", "looked", "list", "answered"},
          path : Subpaths \cup {Home},
          vis : Visibilities \cup {"unread"},
          found : Findings,
          answer : Answers \cup {"none"},
          noindex : BOOLEAN]

NoVisit == [phase |-> "idle", path |-> Home, vis |-> "unread", found |-> NotFound,
            answer |-> "none", noindex |-> FALSE]

\* What a listing said of this site; "cut" when it ended before reaching it.
Reading == {"unread", "yes", "no", "cut"}

Crawl == [phase : {"idle", "listing", "answered"},
          stored : Reading, hidden : Reading, listed : BOOLEAN]

NoCrawl == [phase |-> "idle", stored |-> "unread", hidden |-> "unread", listed |-> FALSE]

Moment == [visibility : Visibilities, page : Pages \cup {NoPage}]

ServeTypeOK ==
    /\ visibility \in Visibilities
    /\ visit \in [Readers -> Visit]
    /\ crawl \in [Readers -> Crawl]
    /\ moments \in [Readers -> SUBSET Moment]

ServeInit ==
    /\ Init
    /\ visibility = "public"
    /\ visit = [v \in Readers |-> NoVisit]
    /\ crawl = [c \in Readers |-> NoCrawl]
    /\ moments = [x \in Readers |-> {}]

HasHistory == \E t \in Times : versions[t] # NoPage

\* Is there any key under sites/<slug>/ ?
Held == Exists \/ HasHistory \/ subpages # {}

-----------------------------------------------------------------------------
\* PUT /__visibility: "public" deletes the record.
SetVisibility(w) ==
    /\ visibility' = w
    /\ UNCHANGED <<vars, visit, crawl>>

-----------------------------------------------------------------------------
(* One visit.                                                              *)

Arrive(v, path) ==
    /\ visit[v].phase = "idle" /\ crawl[v].phase = "idle"
    /\ visit' = [visit EXCEPT ![v].path = path,
                              ![v].phase = IF path = Home THEN "index" ELSE "subpage"]
    /\ UNCHANGED <<vars, visibility, crawl>>

\* parseVisibility of the record: no record is a public site.
VisibilityRead == visibility

\* The visibility read was issued first but is awaited last.
ReadVisibility(v) ==
    /\ visit[v].phase \in {"subpage", "index", "looked"}
    /\ visit[v].vis = "unread"
    /\ visit' = [visit EXCEPT ![v].vis = VisibilityRead]
    /\ UNCHANGED <<vars, visibility, crawl>>

Look(v, found, phase) ==
    /\ visit' = [visit EXCEPT ![v].found = found, ![v].phase = phase]
    /\ UNCHANGED <<vars, visibility, crawl>>

\* Mutant: treats every path as an asset, without the fallback to the index.
NeverFallsBack(v) == visit[v].path \in Subpaths

\* An asset means exactly one key; a clean URL falls back to the index.
LastCandidate(v) == visit[v].path \in Assets

ReadSubpage(v) ==
    /\ visit[v].phase = "subpage"
    /\ \/ /\ visit[v].path \in subpages
          /\ Look(v, [kind |-> "subpage", page |-> NoPage], "looked")
       \/ /\ visit[v].path \notin subpages
          /\ Look(v, NotFound, IF LastCandidate(v) THEN "looked" ELSE "index")

ReadIndex(v) ==
    /\ visit[v].phase = "index"
    /\ \/ /\ Exists
          /\ Look(v, [kind |-> "page", page |-> index.page], "looked")
       \/ /\ ~Exists
          /\ Look(v, NotFound, "looked")

Answer(v, answer, noindex) ==
    /\ visit' = [visit EXCEPT ![v] = [NoVisit EXCEPT !.phase = "answered",
                                                     !.answer = answer,
                                                     !.noindex = noindex]]
    /\ UNCHANGED <<vars, visibility, crawl>>

\* Mutant: no page is marked but the home page.
MarksHome(v) == visit[v].vis = "unlisted" /\ visit[v].path = Home

\* Only what is served as text/html can carry the tag.
MarksNoindex(v) == visit[v].vis = "unlisted" /\ visit[v].path \notin Files

\* Both reads are in.
Ready(v) == visit[v].phase = "looked" /\ visit[v].vis # "unread"

IsPrivate(v) == visit[v].vis = "private"

RespondPrivate(v) ==
    /\ Ready(v) /\ IsPrivate(v)
    /\ Answer(v, "private", FALSE)

RespondFound(v) ==
    /\ Ready(v) /\ ~IsPrivate(v)
    /\ visit[v].found # NotFound
    /\ Answer(v, visit[v].found.kind, MarksNoindex(v))

RespondMissing(v) ==
    /\ Ready(v) /\ ~IsPrivate(v)
    /\ visit[v].found = NotFound
    /\ visit' = [visit EXCEPT ![v].phase = "list"]
    /\ UNCHANGED <<vars, visibility, crawl>>

\* The keys the listing returns before it reaches versions/, in key order.
KeysBeforeHistory == Cardinality(subpages \cap Early) + IF Exists THEN 1 ELSE 0

\* Mutant: an address with nothing but history is offered again.
AddressStateOfPages ==
    IF ~Exists /\ subpages = {} THEN "free"
    ELSE IF HasHistory THEN "gone" ELSE "broken"

AddressState ==
    IF ~Held THEN "free"
    ELSE IF HasHistory /\ KeysBeforeHistory < ListLimit THEN "gone" ELSE "broken"

ListHeld(v) ==
    /\ visit[v].phase = "list"
    /\ Answer(v, AddressState, FALSE)

VisitStep(v) ==
    \/ \E path \in Subpaths \cup {Home} : Arrive(v, path)
    \/ ReadVisibility(v)
    \/ ReadSubpage(v)
    \/ ReadIndex(v)
    \/ RespondPrivate(v)
    \/ RespondFound(v)
    \/ RespondMissing(v)
    \/ ListHeld(v)

-----------------------------------------------------------------------------
(* One request for the sitemap: two listings in flight at once.            *)

CrawlStart(c) ==
    /\ crawl[c].phase = "idle" /\ visit[c].phase = "idle"
    /\ crawl' = [crawl EXCEPT ![c].phase = "listing"]
    /\ UNCHANGED <<vars, visibility, visit>>

\* One page of a listing, which asks for no second one: what it says of this
\* site, unless as many keys as it takes come before.
OnePage(listed) ==
    {IF n >= CrawlLimit THEN "cut" ELSE IF listed THEN "yes" ELSE "no" : n \in Ahead}

\* Mutant: lists the sites that have a version.
ListedWithHistory == HasHistory

\* The delimited prefixes under sites/ : this slug is one if it holds a key.
ListedUnderSites == Held

ListStored(c) ==
    /\ crawl[c].phase = "listing" /\ crawl[c].stored = "unread"
    /\ \E reading \in OnePage(ListedUnderSites) :
           crawl' = [crawl EXCEPT ![c].stored = reading]
    /\ UNCHANGED <<vars, visibility, visit>>

\* Mutant: only a private site is kept out.
ListedPrivate == visibility = "private"

\* The keys under visibility/ : any record is a site that is not public.
ListedUnderVisibility == visibility # "public"

ListHidden(c) ==
    /\ crawl[c].phase = "listing" /\ crawl[c].hidden = "unread"
    /\ \E reading \in OnePage(ListedUnderVisibility) :
           crawl' = [crawl EXCEPT ![c].hidden = reading]
    /\ UNCHANGED <<vars, visibility, visit>>

CrawlAnswer(c) ==
    /\ crawl[c].phase = "listing"
    /\ crawl[c].stored # "unread" /\ crawl[c].hidden # "unread"
    /\ crawl' = [crawl EXCEPT ![c] = [NoCrawl EXCEPT
                      !.phase = "answered",
                      !.listed = crawl[c].stored = "yes" /\ crawl[c].hidden # "yes"]]
    /\ UNCHANGED <<vars, visibility, visit>>

CrawlStep(c) ==
    \/ CrawlStart(c)
    \/ ListStored(c)
    \/ ListHidden(c)
    \/ CrawlAnswer(c)

-----------------------------------------------------------------------------
Now == [visibility |-> visibility, page |-> index.page]

Busy(x) == ~({visit[x].phase, crawl[x].phase} \subseteq {"idle", "answered"})

\* History: the states of the site since a request in progress arrived.
Observe ==
    moments' = [x \in Readers |-> IF Busy(x)' THEN moments[x] \cup {Now'} ELSE {}]

ServeNext ==
    /\ \/ Next /\ UNCHANGED <<visibility, visit, crawl>>
       \/ \E w \in Visibilities : SetVisibility(w)
       \/ \E v \in Readers : VisitStep(v)
       \/ \E c \in Readers : CrawlStep(c)
    /\ Observe

ServeSpec == ServeInit /\ [][ServeNext]_allVars

-----------------------------------------------------------------------------
(* Properties.  What a request is told is judged in the step that answers   *)
(* it, against the moments it has lived through.                           *)

\* v is given one of these answers in this step.
Told(v, answers) ==
    visit[v].phase # "answered" /\ visit'[v].phase = "answered" /\ visit'[v].answer \in answers

Offered(c) == ~crawl[c].listed /\ crawl'[c].listed

PassedOver(c) ==
    crawl[c].phase = "listing" /\ crawl'[c].phase = "answered" /\ ~crawl'[c].listed

(* What a visitor is given is right for a visibility the site really had   *)
(* during the visit: a site private throughout shows nothing of itself, a  *)
(* page of one unlisted throughout is never served without noindex, and a  *)
(* public one is never hidden.  A file that is no page carries no noindex: *)
(* an unlisted site's goes out as a public one's does.                     *)
AnswerMatchesVisibility ==
    [][\A v \in Readers :
           /\ Told(v, {"page", "subpage"}) =>
                  \E m \in moments[v] :
                      \/ m.visibility = IF visit'[v].noindex THEN "unlisted" ELSE "public"
                      \/ visit[v].path \in Files /\ m.visibility = "unlisted"
           /\ Told(v, {"private"}) => \E m \in moments[v] : m.visibility = "private"
      ]_allVars

(* However it is republished, a site that stays live is never reported     *)
(* missing to a visitor of its home page or of a clean URL: an overwrite   *)
(* leaves no gap, and an unknown path falls back to the home page.         *)
LiveIsServed ==
    [][\A v \in Readers :
           Told(v, {"free", "gone", "broken"}) /\ visit[v].path \notin Assets =>
               \E m \in moments[v] : m.page = NoPage]_allVars

(* An address is offered as free only if site-host never completed a       *)
(* publish there: the history it leaves outlives the live page.            *)
FreeWasNeverHosted ==
    [][\A v \in Readers :
           Told(v, {"free"}) => \A r \in HostRequests : req[r].phase # "published"]_allVars

(* A crawler is offered the site only if the site was public at some       *)
(* moment while the sitemap was being made, or the page of hidden sites    *)
(* ended before it reached this one.                                       *)
SitemapOffersPublic ==
    [][\A c \in Readers :
           Offered(c) /\ crawl[c].hidden # "cut" =>
               \E m \in moments[c] : m.visibility = "public"]_allVars

(* A site that was live and public while the sitemap was made is in it,    *)
(* unless the page of stored sites ended before it reached this one: a     *)
(* page of hidden sites that is cut never keeps it out.                    *)
SitemapMissesNone ==
    [][\A c \in Readers :
           PassedOver(c) /\ crawl[c].stored # "cut" =>
               \E m \in moments[c] : m.page = NoPage \/ m.visibility # "public"]_allVars
=============================================================================
