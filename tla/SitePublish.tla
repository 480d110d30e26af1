---------------------------- MODULE SitePublish ----------------------------
(***************************************************************************)
(* Publishing one site into the R2 bucket `ontold-sites`.                  *)
(*                                                                         *)
(* Two Workers write the same three kinds of key under sites/<slug>/:      *)
(*                                                                         *)
(*   - site-host, PUT /__publish   (workers/site-host/src/index.mjs)       *)
(*   - the MCP tool `publish`      (workers/mcp/src/tools.mjs)             *)
(*                                                                         *)
(* Neither holds a lock: each is a sequence of awaited R2 calls, so the    *)
(* calls of concurrent requests interleave, and a Worker may die between   *)
(* any two of them.  Sites share no keys, so one slug is modelled.  A page *)
(* is an opaque value and stands for its own SHA-256.                      *)
(***************************************************************************)
EXTENDS Integers

CONSTANTS
    HostRequests,   \* PUT /__publish requests of the site-host Worker
    McpCalls,       \* calls of the MCP tool `publish`
    Pages,          \* the documents that may be published
    Subpaths,       \* subpages and assets, PUT /__publish/<path>
    NoPage,         \* no document
    MaxTime         \* bound on the clock

ASSUME PublishAssumption ==
    /\ HostRequests \cap McpCalls = {}
    /\ NoPage \notin Pages
    /\ MaxTime \in Nat

Requests == HostRequests \cup McpCalls

Times == 0 .. MaxTime

Unstamped == -1     \* a request that has taken no timestamp

(***************************************************************************)
(* An R2 object at sites/<slug>/index.html: the page and the `sha` of its  *)
(* customMetadata, which only site-host writes.                            *)
(***************************************************************************)
Object == [page : Pages \cup {NoPage}, marker : Pages \cup {NoPage}]

Absent == [page |-> NoPage, marker |-> NoPage]

InFlight == {"admitted", "copying", "writing"}

Answered == {"published", "unchanged", "refused", "rejected", "paged"}

Phases == {"idle", "crashed"} \cup InFlight \cup Answered

VARIABLES
    index,      \* sites/<slug>/index.html
    versions,   \* sites/<slug>/versions/<ts>.html, NoPage where there is none
    subpages,   \* the paths held at sites/<slug>/<path>
    clock,      \* Date.now()
    req,        \* the state of each request
    writes,     \* history: how many times index was put
    paged       \* history: the version keys last put by the page lane

vars == <<index, versions, subpages, clock, req, writes, paged>>

(***************************************************************************)
(* A request carries its page and its overwrite flag, the object its check *)
(* of the index saw, the timestamp of its version key, and (history) the   *)
(* value of `writes` at that check.                                        *)
(***************************************************************************)
Request == [phase : Phases, page : Pages \cup {NoPage}, overwrite : BOOLEAN,
            seen : Object, ts : Times \cup {Unstamped}, epoch : Nat]

Fresh == [phase |-> "idle", page |-> NoPage, overwrite |-> FALSE,
          seen |-> Absent, ts |-> Unstamped, epoch |-> 0]

TypeOK ==
    /\ index \in Object
    /\ versions \in [Times -> Pages \cup {NoPage}]
    /\ subpages \subseteq Subpaths
    /\ clock \in Times
    /\ req \in [Requests -> Request]
    /\ writes \in Nat
    /\ paged \subseteq Times

Init ==
    /\ index = Absent
    /\ versions = [t \in Times |-> NoPage]
    /\ subpages = {}
    /\ clock = 0
    /\ req = [r \in Requests |-> Fresh]
    /\ writes = 0
    /\ paged = {}

Exists == index # Absent

Stored(page) == \E t \in Times : versions[t] = page

-----------------------------------------------------------------------------
(* Steps both Workers share.                                               *)

\* The first R2 read of a request decides its fate: it moves to `phase`,
\* remembering what it saw and, when it will copy that, the time of the copy.
Receive(r, p, o, ts, phase) ==
    /\ req[r].phase = "idle"
    /\ req' = [req EXCEPT ![r] = [phase |-> phase, page |-> p, overwrite |-> o,
                                  seen |-> index, ts |-> ts, epoch |-> writes]]
    /\ UNCHANGED <<index, versions, subpages, clock, writes, paged>>

Advance(r, phase) == req' = [req EXCEPT ![r].phase = phase]

\* A request turned away before it touches R2: no bearer, a bad path or
\* slug, an empty, oversized or incomplete document.
Reject(r) ==
    /\ req[r].phase = "idle"
    /\ Advance(r, "rejected")
    /\ UNCHANGED <<index, versions, subpages, clock, writes, paged>>

\* The Worker dies, or an R2 call throws, at an await of a request in flight.
Crash(r) ==
    /\ req[r].phase \in InFlight
    /\ Advance(r, "crashed")
    /\ UNCHANGED <<index, versions, subpages, clock, writes, paged>>

PutVersion(r, page) ==
    /\ req[r].phase = "copying"
    /\ versions' = [versions EXCEPT ![req[r].ts] = page]
    /\ paged' = paged \ {req[r].ts}
    /\ Advance(r, "writing")
    /\ UNCHANGED <<index, subpages, clock, writes>>

PutIndex(r, marker) ==
    /\ req[r].phase = "writing"
    /\ index' = [page |-> req[r].page, marker |-> marker]
    /\ writes' = writes + 1
    /\ Advance(r, "published")
    /\ UNCHANGED <<versions, subpages, clock, paged>>

-----------------------------------------------------------------------------
(* site-host: PUT /__publish.  The version is the NEW page, put before it  *)
(* becomes the live one, and the live object carries the sha.              *)

HostRefuse(r, p) ==
    /\ Exists
    /\ Receive(r, p, FALSE, Unstamped, "refused")

\* Mutant: compares the page itself, so it also matches an unmarked one.
HostUnchangedByPage(r, p) ==
    /\ index.page = p
    /\ Receive(r, p, TRUE, Unstamped, "unchanged")

HostUnchanged(r, p) ==
    /\ index.marker = p
    /\ Receive(r, p, TRUE, Unstamped, "unchanged")

HostAdmit(r, p, o) ==
    /\ Exists => o
    /\ index.marker # p
    /\ Receive(r, p, o, Unstamped, "admitted")

\* `const ts = Date.now()`, after the awaited hash.
HostStamp(r) ==
    /\ req[r].phase = "admitted"
    /\ req' = [req EXCEPT ![r].phase = "copying", ![r].ts = clock]
    /\ UNCHANGED <<index, versions, subpages, clock, writes, paged>>

\* Mutant: keeps the old page instead of the new one.
HostPutOldVersion(r) == PutVersion(r, req[r].seen.page)

HostPutVersion(r) == PutVersion(r, req[r].page)

HostPutIndex(r) == PutIndex(r, req[r].page)

\* A page put at the path `index`: the page lane, which makes no claim on
\* the slug, writes the very key the publish lane guards.
HostPutIndexPage(r, p) ==
    /\ req[r].phase = "idle"
    /\ index' = [page |-> p, marker |-> NoPage]
    /\ writes' = writes + 1
    /\ Advance(r, "paged")
    /\ UNCHANGED <<versions, subpages, clock, paged>>

\* And at the path versions/<digits>: it writes over the history.
HostPutVersionPage(r, t, p) ==
    /\ req[r].phase = "idle"
    /\ versions' = [versions EXCEPT ![t] = p]
    /\ paged' = paged \cup {t}
    /\ Advance(r, "paged")
    /\ UNCHANGED <<index, subpages, clock, writes>>

HostStep(r) ==
    \/ \E p \in Pages : HostRefuse(r, p) \/ HostUnchanged(r, p) \/ HostPutIndexPage(r, p)
    \/ \E p \in Pages, t \in Times : HostPutVersionPage(r, t, p)
    \/ \E p \in Pages, o \in BOOLEAN : HostAdmit(r, p, o)
    \/ HostStamp(r)
    \/ HostPutVersion(r)
    \/ HostPutIndex(r)

-----------------------------------------------------------------------------
(* MCP: the tool `publish`.  The version is the OLD page, read and copied  *)
(* only when overwriting; the live object carries no sha.                  *)

McpRefuse(r, p) ==
    /\ Exists
    /\ Receive(r, p, FALSE, Unstamped, "refused")

\* Mutant: no head check without overwrite.
McpAdmitAny(r, p) == Receive(r, p, FALSE, Unstamped, "writing")

McpAdmitNew(r, p) ==
    /\ ~Exists
    /\ Receive(r, p, FALSE, Unstamped, "writing")

\* overwrite: true skips the head check and reads the page to be kept, its
\* version stamped as the copy is put.
McpReadLive(r, p) ==
    /\ Exists
    /\ Receive(r, p, TRUE, clock, "copying")

McpReadNothing(r, p) ==
    /\ ~Exists
    /\ Receive(r, p, TRUE, Unstamped, "writing")

\* Mutant: copies the page being published instead of the one it replaces.
McpPutNewVersion(r) == PutVersion(r, req[r].page)

McpPutVersion(r) == PutVersion(r, req[r].seen.page)

McpPutIndex(r) == PutIndex(r, NoPage)

McpStep(r) ==
    \/ \E p \in Pages : \/ McpRefuse(r, p)
                        \/ McpAdmitNew(r, p)
                        \/ McpReadLive(r, p)
                        \/ McpReadNothing(r, p)
    \/ McpPutVersion(r)
    \/ McpPutIndex(r)

-----------------------------------------------------------------------------
\* A page or an asset at any other path: one put, no claim and no history.
PutSubpage(s) ==
    /\ subpages' = subpages \cup {s}
    /\ UNCHANGED <<index, versions, clock, req, writes, paged>>

\* The live page is removed from the bucket by hand; history outlives it.
TakeDown ==
    /\ Exists
    /\ index' = Absent
    /\ UNCHANGED <<versions, subpages, clock, req, writes, paged>>

Tick ==
    /\ clock < MaxTime
    /\ clock' = clock + 1
    /\ UNCHANGED <<index, versions, subpages, req, writes, paged>>

Next ==
    \/ \E r \in HostRequests : HostStep(r)
    \/ \E r \in McpCalls : McpStep(r)
    \/ \E r \in Requests : Reject(r) \/ Crash(r)
    \/ \E s \in Subpaths : PutSubpage(s)
    \/ TakeDown
    \/ Tick

Spec == Init /\ [][Next]_vars

-----------------------------------------------------------------------------
(* Properties                                                              *)

\* No two requests took the same millisecond for their version keys.  When
\* two did, the second version overwrites the first.
StampsDistinct ==
    \A r, s \in Requests :
        r # s /\ req[r].ts # Unstamped => req[s].ts # req[r].ts

\* Is r about to replace the live page?
Replacing(r) == req[r].phase = "writing" /\ Exists

\* The page that r keeps under its version key: site-host the one it puts live,
\* the MCP the one it read.
Copied(r) == IF r \in HostRequests THEN req[r].page ELSE req[r].seen.page

\* A copy of the page was made, and the page lane has since put another page at
\* its key.
WrittenOver(page) ==
    \E r \in Requests :
        /\ req[r].phase \in {"writing", "published"} /\ req[r].ts \in paged
        /\ Copied(r) = page

Kept(page) == Stored(page) \/ WrittenOver(page)

(* What site-host put live is in the history: the version is put first, so *)
(* neither a crash nor the interleaving of any number of publishes of      *)
(* either Worker leaves a marked live page that no copy was made of; only  *)
(* a page put at the path of that very copy takes it away again.           *)
LiveIsVersioned ==
    StampsDistinct /\ index.marker # NoPage => Kept(index.page)

(* A publish answered "unchanged" wrote nothing, and needed to write       *)
(* nothing: the page it carried already has its copy in the history, and   *)
(* keeps it whatever is published afterwards, but for a page put at the    *)
(* path of that copy.                                                      *)
UnchangedIsVersioned ==
    StampsDistinct =>
        \A r \in Requests : req[r].phase = "unchanged" => Kept(req[r].page)

(* The collision guard, as far as it reaches: a publish that did not ask   *)
(* to overwrite replaces a live page only if another publish went live     *)
(* between its check and its write.                                        *)
ClobberNeedsRace ==
    \A r \in Requests : Replacing(r) /\ ~req[r].overwrite => writes > req[r].epoch

(* The history promise, as far as it reaches: a live page about to be      *)
(* replaced has a copy, unless it was not site-host that published it and  *)
(* it is replaced by site-host, which copies only what it writes itself,   *)
(* or by an MCP call that has not read it; or the page lane wrote over the *)
(* copy.                                                                   *)
ReplacedIsKept ==
    StampsDistinct =>
        \A r \in Requests : Replacing(r) =>
            \/ Kept(index.page)
            \/ /\ index.marker = NoPage
               /\ r \in HostRequests \/ writes > req[r].epoch

-----------------------------------------------------------------------------
(* The inductive invariant behind them.                                    *)

\* A version key belongs to the request that stamped it: with distinct stamps
\* the copy stays what its owner put there, until the page lane writes it.
CopiesKept ==
    /\ \A r \in Requests :
           /\ req[r].phase \in {"idle", "admitted"} => req[r].ts = Unstamped
           /\ req[r].phase = "copying" => req[r].ts # Unstamped
    /\ \A r \in HostRequests :
           req[r].phase \in {"writing", "published"} =>
               /\ req[r].ts # Unstamped
               /\ StampsDistinct /\ req[r].ts \notin paged =>
                      versions[req[r].ts] = req[r].page
    /\ \A r \in McpCalls :
           req[r].phase = "writing" /\ req[r].seen # Absent =>
               /\ req[r].ts # Unstamped
               /\ StampsDistinct /\ req[r].ts \notin paged =>
                      versions[req[r].ts] = req[r].seen.page

\* A marked live page, and a page found unchanged, are those of some
\* site-host publish that completed.
MarkedByHost ==
    /\ index.marker # NoPage =>
           \E s \in HostRequests : req[s].phase = "published" /\ req[s].page = index.page
    /\ index.marker # NoPage => index.marker = index.page
    /\ \A r \in Requests : req[r].phase = "unchanged" =>
           \E s \in HostRequests : req[s].phase = "published" /\ req[s].page = req[r].page

\* Until somebody else's write lands, a request's view of the index differs
\* from the index only by a takedown.
SeenIsCurrent ==
    \A r \in Requests :
        /\ req[r].epoch <= writes
        /\ req[r].phase \in InFlight =>
               /\ req[r].epoch = writes => index \in {req[r].seen, Absent}
               /\ ~req[r].overwrite => req[r].seen = Absent

(* The properties above follow from who owns each version key and from     *)
(* what each request may still believe about the index.                    *)
IInv == TypeOK /\ CopiesKept /\ MarkedByHost /\ SeenIsCurrent

-----------------------------------------------------------------------------
(* What the comments promise without qualification.                        *)

(* index.mjs: "Taking a live slug must be DELIBERATE."  Races aside, a live *)
(* page gives way only to a publish that asked to overwrite it.            *)
TakingIsDeliberate ==
    [][Exists /\ index' \notin {index, Absent} =>
           \E r \in Requests :
               /\ req[r].phase = "writing" /\ req'[r].phase = "published"
               /\ req[r].overwrite \/ writes > req[r].epoch]_vars
=============================================================================
