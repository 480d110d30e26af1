-------------------------- MODULE SiteServeProofs --------------------------
(***************************************************************************)
(* Machine-checked proofs about SitePublish, and about SiteServe, which    *)
(* reads what it writes.                                                   *)
(***************************************************************************)
EXTENDS SiteServe, TLAPS

(***************************************************************************)
(* Publishing.                                                             *)
(***************************************************************************)

LEMMA InitTypeOK == Init => TypeOK
BY PublishAssumption DEF Init, TypeOK, Absent, Object, Request, Fresh, Phases,
                         InFlight, Answered, Times

LEMMA NextTypeOK == TypeOK /\ [Next]_vars => TypeOK'
<1> SUFFICES ASSUME TypeOK, [Next]_vars
             PROVE  TypeOK'
  OBVIOUS
<1> USE PublishAssumption DEF TypeOK, Request, Phases, InFlight, Answered, Requests
<1>0. ASSUME NEW r \in Requests, NEW phase \in Phases, Advance(r, phase)
      PROVE  req' \in [Requests -> Request]
  BY <1>0 DEF Advance
<1>1. ASSUME NEW r \in Requests, NEW p \in Pages, NEW o \in BOOLEAN,
             NEW ts \in Times \cup {Unstamped}, NEW phase \in Phases,
             Receive(r, p, o, ts, phase)
      PROVE  TypeOK'
  <2>1. [phase |-> phase, page |-> p, overwrite |-> o, seen |-> index,
         ts |-> ts, epoch |-> writes] \in Request
    OBVIOUS
  <2>2. req' \in [Requests -> Request]
    BY <1>1, <2>1 DEF Receive
  <2>3. QED
    BY <1>1, <2>2 DEF Receive
<1>2. ASSUME NEW r \in HostRequests, HostStep(r)
      PROVE  TypeOK'
  <2>1. ASSUME NEW p \in Pages, HostRefuse(r, p) \/ HostUnchanged(r, p)
        PROVE  TypeOK'
    BY <1>1, <2>1 DEF HostRefuse, HostUnchanged
  <2>2. ASSUME NEW p \in Pages, NEW o \in BOOLEAN, HostAdmit(r, p, o)
        PROVE  TypeOK'
    BY <1>1, <2>2 DEF HostAdmit
  <2>3. CASE HostStamp(r)
    <3>1. req' = [req EXCEPT ![r] = [@ EXCEPT !.phase = "copying", !.ts = clock]]
      BY <2>3 DEF HostStamp
    <3>2. [req[r] EXCEPT !.phase = "copying", !.ts = clock] \in Request
      OBVIOUS
    <3>3. req' \in [Requests -> Request]
      BY <3>1, <3>2
    <3>4. QED
      BY <2>3, <3>3 DEF HostStamp
  <2>4. CASE HostPutVersion(r)
    <3>1. req' \in [Requests -> Request]
      BY <2>4, <1>0 DEF HostPutVersion, PutVersion
    <3>2. req[r].page \in Pages \cup {NoPage}
      OBVIOUS
    <3>3. QED
      BY <2>4, <3>1, <3>2 DEF HostPutVersion, PutVersion
  <2>5. CASE HostPutIndex(r)
    BY <2>5, <1>0 DEF HostPutIndex, PutIndex, Object
  <2>6. ASSUME NEW p \in Pages, HostPutIndexPage(r, p)
        PROVE  TypeOK'
    BY <2>6, <1>0 DEF HostPutIndexPage, Object
  <2>7. ASSUME NEW p \in Pages, NEW t \in Times, HostPutVersionPage(r, t, p)
        PROVE  TypeOK'
    BY <2>7, <1>0 DEF HostPutVersionPage
  <2>8. QED
    BY <1>2, <2>1, <2>2, <2>3, <2>4, <2>5, <2>6, <2>7 DEF HostStep
<1>3. ASSUME NEW r \in McpCalls, McpStep(r)
      PROVE  TypeOK'
  <2>1. ASSUME NEW p \in Pages,
               McpRefuse(r, p) \/ McpAdmitNew(r, p) \/ McpReadLive(r, p) \/ McpReadNothing(r, p)
        PROVE  TypeOK'
    BY <1>1, <2>1 DEF McpRefuse, McpAdmitNew, McpReadLive, McpReadNothing
  <2>2. CASE McpPutVersion(r)
    <3>1. req[r].seen.page \in Pages \cup {NoPage}
      BY DEF Object
    <3>2. req' \in [Requests -> Request]
      BY <2>2, <1>0 DEF McpPutVersion, PutVersion
    <3>3. QED
      BY <2>2, <3>1, <3>2 DEF McpPutVersion, PutVersion
  <2>3. CASE McpPutIndex(r)
    BY <2>3, <1>0 DEF McpPutIndex, PutIndex, Object
  <2>4. QED
    BY <1>3, <2>1, <2>2, <2>3 DEF McpStep
<1>4. ASSUME NEW r \in Requests, Reject(r) \/ Crash(r)
      PROVE  TypeOK'
  BY <1>4, <1>0 DEF Reject, Crash
<1>5. ASSUME NEW s \in Subpaths, PutSubpage(s)
      PROVE  TypeOK'
  BY <1>5 DEF PutSubpage
<1>6. CASE TakeDown
  BY <1>6 DEF TakeDown, Absent, Object
<1>7. CASE Tick
  BY <1>7 DEF Tick, Times
<1>8. CASE UNCHANGED vars
  BY <1>8 DEF vars
<1>9. QED
  BY <1>2, <1>3, <1>4, <1>5, <1>6, <1>7, <1>8 DEF Next

(* Every variable keeps its type, for any number of requests and pages and *)
(* any bound on the clock.                                                 *)
THEOREM TypeCorrect == Spec => []TypeOK
BY InitTypeOK, NextTypeOK, PTL DEF Spec
-----------------------------------------------------------------------------
(* The inductive invariant.                                                *)

LEMMA InitIInv == Init => IInv
BY InitTypeOK, PublishAssumption
   DEF Init, IInv, CopiesKept, MarkedByHost, SeenIsCurrent, Fresh, Absent, InFlight, Requests

\* Stamps are taken once: requests that are distinct after a step were so
\* before it.
LEMMA StampsStable ==
    ASSUME TypeOK, TypeOK',
           \A r \in Requests : req[r].ts = Unstamped \/ req'[r].ts = req[r].ts,
           StampsDistinct'
    PROVE  StampsDistinct
BY DEF StampsDistinct

\* The first read of a request, whatever it decides.
LEMMA ReceiveStep ==
    ASSUME IInv, TypeOK',
           NEW r \in Requests, NEW p \in Pages, NEW o \in BOOLEAN,
           NEW ts \in Times \cup {Unstamped},
           NEW phase \in {"refused", "unchanged", "admitted", "copying", "writing"},
           Receive(r, p, o, ts, phase),
           phase = "admitted" => ts = Unstamped,
           phase = "copying" => ts # Unstamped,
           phase = "writing" => r \in McpCalls /\ index = Absent,
           phase = "unchanged" => index.marker = p,
           phase \in InFlight /\ ~o => index = Absent
    PROVE  IInv'
<1> USE PublishAssumption DEF Requests
<1>1. /\ req[r].phase = "idle"
      /\ req'[r] = [phase |-> phase, page |-> p, overwrite |-> o, seen |-> index,
                    ts |-> ts, epoch |-> writes]
      /\ \A s \in Requests \ {r} : req'[s] = req[s]
      /\ UNCHANGED <<index, versions, writes, paged>>
  BY DEF Receive, IInv, TypeOK
<1>2. StampsDistinct' => StampsDistinct
  BY <1>1, StampsStable DEF IInv, CopiesKept
<1>3. CopiesKept'
  BY <1>1, <1>2 DEF IInv, CopiesKept
<1>4. MarkedByHost'
  BY <1>1 DEF IInv, MarkedByHost
<1>5. SeenIsCurrent'
  BY <1>1 DEF IInv, TypeOK, SeenIsCurrent, InFlight
<1>6. QED
  BY <1>3, <1>4, <1>5 DEF IInv

\* A version is put under the key its request stamped.
LEMMA PutVersionStep ==
    ASSUME IInv, TypeOK', NEW r \in Requests, NEW page,
           PutVersion(r, page),
           r \in HostRequests => page = req[r].page,
           r \in McpCalls => page = req[r].seen.page
    PROVE  IInv'
<1> USE PublishAssumption DEF Requests
<1>1. /\ req[r].phase = "copying"
      /\ req[r].ts \in Times
      /\ versions' = [versions EXCEPT ![req[r].ts] = page]
      /\ paged' = paged \ {req[r].ts}
      /\ req'[r] = [req[r] EXCEPT !.phase = "writing"]
      /\ \A s \in Requests \ {r} : req'[s] = req[s]
      /\ UNCHANGED <<index, writes>>
  BY DEF PutVersion, Advance, IInv, TypeOK, CopiesKept, Request
<1>2. \A s \in Requests :
          /\ req'[s].page = req[s].page /\ req'[s].overwrite = req[s].overwrite
          /\ req'[s].seen = req[s].seen /\ req'[s].ts = req[s].ts
          /\ req'[s].epoch = req[s].epoch
  BY <1>1 DEF IInv, TypeOK, Request
<1>3. StampsDistinct' = StampsDistinct
  BY <1>2 DEF StampsDistinct
<1>4. versions'[req[r].ts] = page
  BY <1>1 DEF IInv, TypeOK
<1>5. ASSUME StampsDistinct, NEW s \in Requests \ {r}, req[s].ts # Unstamped
      PROVE  /\ versions'[req[s].ts] = versions[req[s].ts]
             /\ req[s].ts \in paged <=> req[s].ts \in paged'
  BY <1>1, <1>5 DEF StampsDistinct, IInv, TypeOK
<1>6. CopiesKept'
  <2>1. ASSUME NEW s \in Requests
        PROVE  /\ req'[s].phase \in {"idle", "admitted"} => req'[s].ts = Unstamped
               /\ req'[s].phase = "copying" => req'[s].ts # Unstamped
    BY <1>1 DEF IInv, TypeOK, Request, CopiesKept
  <2>2. ASSUME NEW s \in HostRequests, req'[s].phase \in {"writing", "published"}
        PROVE  /\ req'[s].ts # Unstamped
               /\ StampsDistinct' /\ req'[s].ts \notin paged' =>
                      versions'[req'[s].ts] = req'[s].page
    <3>1. CASE s = r
      BY <3>1, <1>1, <1>2, <1>4, <2>2 DEF Times, Unstamped
    <3>2. CASE s # r
      BY <3>2, <1>1, <1>3, <1>5, <2>2 DEF IInv, CopiesKept
    <3>3. QED
      BY <3>1, <3>2
  <2>3. ASSUME NEW s \in McpCalls, req'[s].phase = "writing", (req'[s].seen # Absent)
        PROVE  /\ req'[s].ts # Unstamped
               /\ StampsDistinct' /\ req'[s].ts \notin paged' =>
                      versions'[req'[s].ts] = req'[s].seen.page
    <3>1. CASE s = r
      BY <3>1, <1>1, <1>2, <1>4, <2>3 DEF Times, Unstamped
    <3>2. CASE s # r
      BY <3>2, <1>1, <1>3, <1>5, <2>3 DEF IInv, CopiesKept
    <3>3. QED
      BY <3>1, <3>2
  <2>4. Absent' = Absent
    BY DEF Absent
  <2>5. QED
    BY <2>1, <2>2, <2>3, <2>4 DEF CopiesKept
<1>7. MarkedByHost'
  BY <1>1, <1>2 DEF IInv, TypeOK, Request, MarkedByHost
<1>8. SeenIsCurrent'
  BY <1>1, <1>2 DEF IInv, TypeOK, Request, SeenIsCurrent, InFlight
<1>9. QED
  BY <1>6, <1>7, <1>8 DEF IInv

\* The live page is put, marked by site-host only.
LEMMA PutIndexStep ==
    ASSUME IInv, TypeOK', NEW r \in Requests, NEW marker,
           PutIndex(r, marker),
           r \in HostRequests => marker = req[r].page,
           r \in McpCalls => marker = NoPage
    PROVE  IInv'
<1> USE PublishAssumption DEF Requests
<1>1. /\ req[r].phase = "writing"
      /\ index' = [page |-> req[r].page, marker |-> marker]
      /\ writes' = writes + 1
      /\ req'[r] = [req[r] EXCEPT !.phase = "published"]
      /\ \A s \in Requests \ {r} : req'[s] = req[s]
      /\ UNCHANGED <<versions, paged>>
  BY DEF PutIndex, Advance, IInv, TypeOK
<1>2. \A s \in Requests :
          /\ req'[s].page = req[s].page /\ req'[s].overwrite = req[s].overwrite
          /\ req'[s].seen = req[s].seen /\ req'[s].ts = req[s].ts
          /\ req'[s].epoch = req[s].epoch
          /\ s # r => req'[s].phase = req[s].phase
  BY <1>1 DEF IInv, TypeOK, Request
<1>3. req'[r].phase = "published"
  BY <1>1 DEF IInv, TypeOK, Request
<1>4. StampsDistinct' = StampsDistinct
  BY <1>2 DEF StampsDistinct
<1>5. CopiesKept'
  <2>1. CopiesKept /\ req[r].phase = "writing" /\ versions' = versions /\ paged' = paged
    BY <1>1 DEF IInv
  <2>2. QED
    BY <1>2, <1>3, <1>4, <2>1 DEF CopiesKept
<1>6. MarkedByHost'
  <2>1. index'.page = req[r].page /\ index'.marker = marker
    BY <1>1
  <2>2. MarkedByHost /\ req[r].phase = "writing"
    BY <1>1 DEF IInv
  <2>3. QED
    BY <1>2, <1>3, <2>1, <2>2 DEF MarkedByHost
<1>7. SeenIsCurrent'
  BY <1>1, <1>2, <1>3 DEF IInv, TypeOK, Request, SeenIsCurrent, InFlight
<1>8. QED
  BY <1>5, <1>6, <1>7 DEF IInv

\* A page put at the path `index` marks nothing and is a write like another.
LEMMA PutIndexPageStep ==
    ASSUME IInv, TypeOK', NEW r \in HostRequests, NEW p \in Pages, HostPutIndexPage(r, p)
    PROVE  IInv'
<1> USE PublishAssumption DEF Requests
<1>1. /\ req[r].phase = "idle"
      /\ index' = [page |-> p, marker |-> NoPage]
      /\ writes' = writes + 1
      /\ req'[r] = [req[r] EXCEPT !.phase = "paged"]
      /\ \A s \in Requests \ {r} : req'[s] = req[s]
      /\ UNCHANGED <<versions, paged>>
  BY DEF HostPutIndexPage, Advance, IInv, TypeOK
<1>2. /\ \A s \in Requests :
             /\ req'[s].page = req[s].page /\ req'[s].overwrite = req[s].overwrite
             /\ req'[s].seen = req[s].seen /\ req'[s].ts = req[s].ts
             /\ req'[s].epoch = req[s].epoch
             /\ s # r => req'[s].phase = req[s].phase
      /\ req'[r].phase = "paged"
  BY <1>1 DEF IInv, TypeOK, Request
<1>3. StampsDistinct' = StampsDistinct
  BY <1>2 DEF StampsDistinct
<1>4. CopiesKept'
  <2>1. CopiesKept /\ req[r].phase = "idle" /\ versions' = versions /\ paged' = paged
    BY <1>1 DEF IInv
  <2>2. QED
    BY <1>2, <1>3, <2>1 DEF CopiesKept
<1>5. MarkedByHost'
  <2>1. index'.marker = NoPage
    BY <1>1
  <2>2. MarkedByHost /\ req[r].phase = "idle"
    BY <1>1 DEF IInv
  <2>3. QED
    BY <1>2, <2>1, <2>2 DEF MarkedByHost
<1>6. SeenIsCurrent'
  BY <1>1, <1>2 DEF IInv, TypeOK, Request, SeenIsCurrent, InFlight
<1>7. QED
  BY <1>4, <1>5, <1>6 DEF IInv

\* A page put at a version's path spoils the copy under that one key, and is
\* remembered.
LEMMA PutVersionPageStep ==
    ASSUME IInv, TypeOK', NEW r \in HostRequests, NEW t \in Times, NEW p \in Pages,
           HostPutVersionPage(r, t, p)
    PROVE  IInv'
<1> USE PublishAssumption DEF Requests
<1>1. /\ req[r].phase = "idle"
      /\ versions' = [versions EXCEPT ![t] = p]
      /\ paged' = paged \cup {t}
      /\ req'[r] = [req[r] EXCEPT !.phase = "paged"]
      /\ \A s \in Requests \ {r} : req'[s] = req[s]
      /\ UNCHANGED <<index, writes>>
  BY DEF HostPutVersionPage, Advance, IInv, TypeOK
<1>2. /\ \A s \in Requests :
             /\ req'[s].page = req[s].page /\ req'[s].overwrite = req[s].overwrite
             /\ req'[s].seen = req[s].seen /\ req'[s].ts = req[s].ts
             /\ req'[s].epoch = req[s].epoch
             /\ s # r => req'[s].phase = req[s].phase
      /\ req'[r].phase = "paged"
  BY <1>1 DEF IInv, TypeOK, Request
<1>3. StampsDistinct' = StampsDistinct
  BY <1>2 DEF StampsDistinct
<1>4. \A u \in Times : u \notin paged' => u \notin paged /\ versions'[u] = versions[u]
  BY <1>1 DEF IInv, TypeOK
<1>5. \A s \in Requests : req[s].ts # Unstamped => req[s].ts \in Times
  BY DEF IInv, TypeOK, Request
<1>6. CopiesKept'
  <2>1. CopiesKept /\ Absent' = Absent
    BY DEF IInv, Absent
  <2>2. \A s \in Requests :
            /\ req'[s].phase \in {"idle", "admitted"} => req'[s].ts = Unstamped
            /\ req'[s].phase = "copying" => req'[s].ts # Unstamped
    BY <1>2, <2>1 DEF CopiesKept
  <2>3. \A s \in HostRequests : req'[s].phase \in {"writing", "published"} =>
            /\ req'[s].ts # Unstamped
            /\ StampsDistinct' /\ req'[s].ts \notin paged' =>
                   versions'[req'[s].ts] = req'[s].page
    BY <1>2, <1>3, <1>4, <1>5, <2>1 DEF CopiesKept
  <2>4. \A s \in McpCalls : req'[s].phase = "writing" /\ req'[s].seen # Absent =>
            /\ req'[s].ts # Unstamped
            /\ StampsDistinct' /\ req'[s].ts \notin paged' =>
                   versions'[req'[s].ts] = req'[s].seen.page
    <3> SUFFICES ASSUME NEW s \in McpCalls,
                        req'[s].phase = "writing", req'[s].seen # Absent
                 PROVE  /\ req'[s].ts # Unstamped
                        /\ StampsDistinct' /\ req'[s].ts \notin paged' =>
                               versions'[req'[s].ts] = req'[s].seen.page
      OBVIOUS
    <3>1. s \in Requests /\ s # r
      OBVIOUS
    <3>2. req'[s] = req[s]
      BY <1>1, <3>1
    <3>3. /\ req[s].ts # Unstamped
          /\ StampsDistinct /\ req[s].ts \notin paged =>
                 versions[req[s].ts] = req[s].seen.page
      BY <2>1, <3>2 DEF CopiesKept
    <3>4. req[s].ts \in Times
      BY <1>5, <3>1, <3>3
    <3>5. QED
      BY <1>3, <1>4, <3>2, <3>3, <3>4
  <2>5. QED
    BY <2>1, <2>2, <2>3, <2>4 DEF CopiesKept
<1>7. MarkedByHost'
  <2>1. MarkedByHost /\ index' = index
    BY <1>1 DEF IInv
  <2>2. req[r].phase = "idle" /\ req'[r].phase = "paged"
    BY <1>1, <1>2
  <2>3. \A s \in HostRequests : req[s].phase = "published" =>
            req'[s].phase = "published" /\ req'[s].page = req[s].page
    BY <1>2, <2>2
  <2>4. \A s \in Requests : req'[s].phase = "unchanged" =>
            req[s].phase = "unchanged" /\ req'[s].page = req[s].page
    BY <1>2, <2>2
  <2>5. QED
    BY <2>1, <2>3, <2>4 DEF MarkedByHost
<1>8. SeenIsCurrent'
  BY <1>1, <1>2 DEF IInv, TypeOK, Request, SeenIsCurrent, InFlight
<1>9. QED
  BY <1>6, <1>7, <1>8 DEF IInv

LEMMA NextIInv == IInv /\ [Next]_vars => IInv'
<1> SUFFICES ASSUME IInv, [Next]_vars
             PROVE  IInv'
  OBVIOUS
<1> USE PublishAssumption DEF Requests
<1>1. TypeOK'
  BY NextTypeOK DEF IInv
<1>2. clock \in Times /\ Unstamped \notin Times
  BY DEF IInv, TypeOK, Times, Unstamped
<1>3. ASSUME NEW r \in HostRequests, HostStep(r)
      PROVE  IInv'
  <2>1. ASSUME NEW p \in Pages, HostRefuse(r, p)
        PROVE  IInv'
    BY <2>1, <1>1, ReceiveStep DEF HostRefuse, InFlight
  <2>2. ASSUME NEW p \in Pages, HostUnchanged(r, p)
        PROVE  IInv'
    BY <2>2, <1>1, ReceiveStep DEF HostUnchanged, InFlight
  <2>3. ASSUME NEW p \in Pages, NEW o \in BOOLEAN, HostAdmit(r, p, o)
        PROVE  IInv'
    BY <2>3, <1>1, ReceiveStep DEF HostAdmit, Exists, InFlight
  <2>4. CASE HostStamp(r)
    <3>1. /\ req[r].phase = "admitted"
          /\ \A s \in Requests \ {r} : req'[s] = req[s]
          /\ UNCHANGED <<index, versions, writes, paged>>
      BY <2>4 DEF HostStamp, IInv, TypeOK
    <3>2. /\ req'[r].phase = "copying" /\ req'[r].ts = clock
          /\ req'[r].page = req[r].page /\ req'[r].overwrite = req[r].overwrite
          /\ req'[r].seen = req[r].seen /\ req'[r].epoch = req[r].epoch
      BY <2>4 DEF HostStamp, IInv, TypeOK, Request
    <3>3. StampsDistinct' => StampsDistinct
      BY <3>1, <1>1, StampsStable DEF IInv, CopiesKept
    <3>4. CopiesKept'
      BY <3>1, <3>2, <3>3, <1>2 DEF IInv, CopiesKept
    <3>5. MarkedByHost'
      BY <3>1, <3>2 DEF IInv, MarkedByHost
    <3>6. SeenIsCurrent'
      BY <3>1, <3>2 DEF IInv, SeenIsCurrent, InFlight
    <3>7. QED
      BY <3>4, <3>5, <3>6, <1>1 DEF IInv
  <2>5. CASE HostPutVersion(r)
    BY <2>5, <1>1, PutVersionStep DEF HostPutVersion
  <2>6. CASE HostPutIndex(r)
    BY <2>6, <1>1, PutIndexStep DEF HostPutIndex
  <2>7. ASSUME NEW p \in Pages, HostPutIndexPage(r, p)
        PROVE  IInv'
    BY <2>7, <1>1, PutIndexPageStep
  <2>8. ASSUME NEW p \in Pages, NEW t \in Times, HostPutVersionPage(r, t, p)
        PROVE  IInv'
    BY <2>8, <1>1, PutVersionPageStep
  <2>9. QED
    BY <1>3, <2>1, <2>2, <2>3, <2>4, <2>5, <2>6, <2>7, <2>8 DEF HostStep
<1>4. ASSUME NEW r \in McpCalls, McpStep(r)
      PROVE  IInv'
  <2>1. ASSUME NEW p \in Pages, McpRefuse(r, p)
        PROVE  IInv'
    BY <2>1, <1>1, ReceiveStep DEF McpRefuse, InFlight
  <2>2. ASSUME NEW p \in Pages, McpAdmitNew(r, p)
        PROVE  IInv'
    BY <2>2, <1>1, ReceiveStep DEF McpAdmitNew, Exists, InFlight
  <2>3. ASSUME NEW p \in Pages, McpReadLive(r, p)
        PROVE  IInv'
    BY <2>3, <1>1, <1>2, ReceiveStep DEF McpReadLive, InFlight
  <2>4. ASSUME NEW p \in Pages, McpReadNothing(r, p)
        PROVE  IInv'
    BY <2>4, <1>1, ReceiveStep DEF McpReadNothing, Exists, InFlight
  <2>5. CASE McpPutVersion(r)
    BY <2>5, <1>1, PutVersionStep DEF McpPutVersion
  <2>6. CASE McpPutIndex(r)
    BY <2>6, <1>1, PutIndexStep DEF McpPutIndex
  <2>7. QED
    BY <1>4, <2>1, <2>2, <2>3, <2>4, <2>5, <2>6 DEF McpStep
<1>5. ASSUME NEW r \in Requests, Reject(r) \/ Crash(r)
      PROVE  IInv'
  <2>1. /\ req[r].phase \in {"idle", "admitted", "copying", "writing"}
        /\ req'[r] \in {[req[r] EXCEPT !.phase = "rejected"], [req[r] EXCEPT !.phase = "crashed"]}
        /\ \A s \in Requests \ {r} : req'[s] = req[s]
        /\ UNCHANGED <<index, versions, writes, paged>>
    BY <1>5 DEF Reject, Crash, Advance, InFlight, IInv, TypeOK
  <2>2. /\ req'[r].phase \in {"rejected", "crashed"} /\ req'[r].ts = req[r].ts
        /\ req'[r].page = req[r].page /\ req'[r].overwrite = req[r].overwrite
        /\ req'[r].seen = req[r].seen /\ req'[r].epoch = req[r].epoch
    BY <2>1 DEF IInv, TypeOK, Request
  <2>3. StampsDistinct' => StampsDistinct
    BY <2>1, <2>2, <1>1, StampsStable DEF IInv
  <2>4. CopiesKept'
    BY <2>1, <2>2, <2>3 DEF IInv, CopiesKept
  <2>5. MarkedByHost'
    BY <2>1, <2>2 DEF IInv, MarkedByHost
  <2>6. SeenIsCurrent'
    BY <2>1, <2>2 DEF IInv, SeenIsCurrent, InFlight
  <2>7. QED
    BY <2>4, <2>5, <2>6, <1>1 DEF IInv
<1>6. ASSUME UNCHANGED <<versions, req, writes, paged>>, index' \in {index, Absent}
      PROVE  IInv'
  BY <1>6, <1>1 DEF IInv, CopiesKept, MarkedByHost, SeenIsCurrent, StampsDistinct, Absent
<1>7. ASSUME NEW s \in Subpaths, PutSubpage(s)
      PROVE  IInv'
  BY <1>6, <1>7 DEF PutSubpage
<1>8. CASE TakeDown
  BY <1>6, <1>8 DEF TakeDown
<1>9. CASE Tick
  BY <1>6, <1>9 DEF Tick
<1>10. CASE UNCHANGED vars
  BY <1>6, <1>10 DEF vars
<1>11. QED
  BY <1>3, <1>4, <1>5, <1>7, <1>8, <1>9, <1>10 DEF Next

(* The strengthening that the safety theorems rest on holds in every state *)
(* of every instance.                                                      *)
THEOREM Invariance == Spec => []IInv
BY InitIInv, NextIInv, PTL DEF Spec

-----------------------------------------------------------------------------
(* The safety properties of SitePublish, for every instance.               *)

\* With distinct stamps, what a completed site-host publish put is stored, or
\* was until a page was put at its path.
LEMMA HostCopyKept ==
    ASSUME IInv, StampsDistinct, NEW s \in HostRequests, req[s].phase = "published"
    PROVE  Kept(req[s].page)
<1>1. s \in Requests /\ req[s].ts \in Times
  BY DEF IInv, TypeOK, Request, CopiesKept, Requests
<1>2. CASE req[s].ts \in paged
  BY <1>1, <1>2 DEF Kept, WrittenOver, Copied
<1>3. CASE req[s].ts \notin paged
  <2>1. versions[req[s].ts] = req[s].page
    BY <1>3 DEF IInv, CopiesKept
  <2>2. QED
    BY <1>1, <2>1 DEF Kept, Stored
<1>4. QED
  BY <1>2, <1>3

(* Whatever interleaving and crashes, the page site-host marked as live    *)
(* has a copy in the history, or had until a page was put over that copy.  *)
THEOREM LivePagesAreVersioned == Spec => []LiveIsVersioned
<1>1. IInv => LiveIsVersioned
  BY HostCopyKept DEF IInv, MarkedByHost, LiveIsVersioned
<1>2. QED
  BY <1>1, Invariance, PTL

(* A publish answered "unchanged" can rely on an existing copy, but for a  *)
(* page put over it.                                                       *)
THEOREM UnchangedPagesAreVersioned == Spec => []UnchangedIsVersioned
<1>1. IInv => UnchangedIsVersioned
  BY HostCopyKept DEF IInv, MarkedByHost, UnchangedIsVersioned
<1>2. QED
  BY <1>1, Invariance, PTL

(* Without an overwrite flag a live page is replaced only in a race.       *)
THEOREM ClobberingNeedsARace == Spec => []ClobberNeedsRace
<1>1. IInv => ClobberNeedsRace
  BY DEF IInv, TypeOK, Request, SeenIsCurrent, ClobberNeedsRace, Replacing, Exists, InFlight
<1>2. QED
  BY <1>1, Invariance, PTL

(* A live page is replaced without a copy only in the two ways that        *)
(* ReplacedIsKept names.                                                   *)
THEOREM ReplacedPagesAreKept == Spec => []ReplacedIsKept
<1>1. IInv => ReplacedIsKept
  <2> SUFFICES ASSUME IInv, StampsDistinct, NEW r \in Requests, Replacing(r)
               PROVE  \/ Kept(index.page)
                      \/ /\ index.marker = NoPage
                         /\ r \in HostRequests \/ writes > req[r].epoch
    BY DEF ReplacedIsKept
  <2>1. CASE index.marker # NoPage
    BY <2>1, HostCopyKept DEF IInv, MarkedByHost
  <2>2. CASE r \in McpCalls /\ writes = req[r].epoch
    <3>1. index = req[r].seen /\ req[r].seen # Absent
      BY <2>2 DEF IInv, SeenIsCurrent, Replacing, Exists, InFlight, Requests
    <3>2. req[r].ts \in Times /\ req[r].phase = "writing" /\ r \notin HostRequests
      BY <2>2, <3>1, PublishAssumption
         DEF IInv, TypeOK, Request, CopiesKept, Replacing, Requests
    <3>3. CASE req[r].ts \in paged
      BY <3>1, <3>2, <3>3 DEF Kept, WrittenOver, Copied
    <3>4. CASE req[r].ts \notin paged
      <4>1. versions[req[r].ts] = req[r].seen.page
        BY <2>2, <3>1, <3>2, <3>4 DEF IInv, CopiesKept
      <4>2. QED
        BY <3>1, <3>2, <4>1 DEF Kept, Stored
    <3>5. QED
      BY <3>3, <3>4
  <2>3. QED
    BY <2>1, <2>2 DEF IInv, TypeOK, Request, SeenIsCurrent, Requests
<1>2. QED
  BY <1>1, Invariance, PTL

-----------------------------------------------------------------------------
(***************************************************************************)
(* Serving.                                                                *)
(***************************************************************************)

\* What a GET relies on of the bucket: a live object holds a page, and the
\* version a completed site-host publish put is still under its key, whether
\* or not a later one of the same millisecond has replaced it.
HistoryHeld ==
    /\ index.page = NoPage => index = Absent
    /\ \A r \in Requests :
           /\ req[r].phase \in InFlight => req[r].page \in Pages
           /\ req[r].phase = "copying" => req[r].ts \in Times
           /\ r \in McpCalls /\ req[r].phase = "copying" => req[r].seen.page # NoPage
    /\ \A r \in HostRequests : req[r].phase \in {"writing", "published"} =>
           req[r].ts \in Times /\ versions[req[r].ts] # NoPage

\* The phases in which a visit is under way.
Visiting == {"subpage", "index", "looked", "list"}

\* Among the moments ms of a visit there is one for what each of its reads saw.
VisitSound(vr, ms) ==
    /\ vr.phase = "idle" => vr.vis = "unread" /\ vr.found = NotFound
    /\ vr.phase \in Visiting =>
           /\ vr.vis # "unread" => \E m \in ms : m.visibility = vr.vis
           /\ vr.phase \in {"looked", "list"} /\ vr.found = NotFound /\ vr.path \notin Assets =>
                  \E m \in ms : m.page = NoPage

\* A visit has found a page, a subpage or nothing, and lists the keys only then.
FindsOrLists(vr) ==
    /\ vr.found.kind = "none" => vr.found = NotFound
    /\ vr.phase = "list" => vr.found = NotFound

\* And for what each listing of the sitemap saw.
CrawlSound(cr, ms) ==
    /\ cr.phase = "idle" => cr = NoCrawl
    /\ cr.phase = "listing" =>
           /\ cr.stored = "no" => \E m \in ms : m.page = NoPage
           /\ cr.hidden = "yes" => \E m \in ms : m.visibility # "public"
           /\ cr.hidden = "no" => \E m \in ms : m.visibility = "public"
           /\ ~cr.listed

NowWitnessed == \A x \in Readers : Busy(x) => Now \in moments[x]

ServeIInv ==
    /\ ServeTypeOK
    /\ HistoryHeld
    /\ NowWitnessed
    /\ \A x \in Readers : VisitSound(visit[x], moments[x])
    /\ \A x \in Readers : FindsOrLists(visit[x])
    /\ \A x \in Readers : CrawlSound(crawl[x], moments[x])

LEMMA HistoryInit == Init => HistoryHeld
BY PublishAssumption DEF Init, HistoryHeld, Fresh, Absent, InFlight, Requests

\* The fields of a request that only its phase changes.
LEMMA AdvanceKeeps ==
    ASSUME TypeOK, NEW r \in Requests, NEW phase \in Phases, Advance(r, phase)
    PROVE  /\ \A s \in Requests \ {r} : req'[s] = req[s]
           /\ req'[r].phase = phase /\ req'[r].page = req[r].page
           /\ req'[r].seen = req[r].seen /\ req'[r].ts = req[r].ts
BY DEF Advance, TypeOK, Request

LEMMA ReceiveHolds ==
    ASSUME TypeOK, HistoryHeld,
           NEW r \in Requests, NEW p \in Pages, NEW o \in BOOLEAN,
           NEW ts \in Times \cup {Unstamped},
           NEW phase \in {"refused", "unchanged", "admitted", "copying", "writing"},
           Receive(r, p, o, ts, phase),
           phase = "copying" => ts \in Times /\ index # Absent,
           phase = "writing" => r \notin HostRequests
    PROVE  HistoryHeld'
<1>1. /\ req'[r] = [phase |-> phase, page |-> p, overwrite |-> o, seen |-> index,
                    ts |-> ts, epoch |-> writes]
      /\ \A s \in Requests \ {r} : req'[s] = req[s]
      /\ UNCHANGED <<index, versions>>
  BY DEF Receive, TypeOK
<1>2. /\ req'[r].phase = phase /\ req'[r].page = p
      /\ req'[r].seen = index /\ req'[r].ts = ts
  BY <1>1
<1>3. \A s \in Requests :
          /\ req'[s].phase \in InFlight => req'[s].page \in Pages
          /\ req'[s].phase = "copying" => req'[s].ts \in Times
          /\ s \in McpCalls /\ req'[s].phase = "copying" => req'[s].seen.page # NoPage
  BY <1>1, <1>2 DEF HistoryHeld
<1>4. \A s \in HostRequests : req'[s].phase \in {"writing", "published"} =>
          req'[s].ts \in Times /\ versions'[req'[s].ts] # NoPage
  BY <1>1, <1>2 DEF HistoryHeld, Requests
<1>5. index'.page = NoPage => index' = Absent
  BY <1>1 DEF HistoryHeld
<1>6. QED
  BY <1>3, <1>4, <1>5 DEF HistoryHeld, InFlight, Absent

LEMMA PutVersionHolds ==
    ASSUME TypeOK, HistoryHeld, NEW r \in Requests, NEW page \in Pages, PutVersion(r, page)
    PROVE  HistoryHeld'
<1>1. /\ \A s \in Requests \ {r} : req'[s] = req[s]
      /\ req'[r].phase = "writing" /\ req'[r].page = req[r].page
      /\ req'[r].seen = req[r].seen /\ req'[r].ts = req[r].ts
  BY AdvanceKeeps DEF PutVersion, Phases, InFlight
<1>2. req[r].phase = "copying" /\ req[r].ts \in Times /\ req[r].page \in Pages
  BY DEF PutVersion, HistoryHeld, InFlight
<1>3. \A t \in Times : versions[t] # NoPage => versions'[t] # NoPage
  BY PublishAssumption DEF PutVersion, TypeOK
<1>4. versions'[req[r].ts] # NoPage
  BY <1>2, PublishAssumption DEF PutVersion, TypeOK
<1>5. index' = index
  BY DEF PutVersion
<1>6. \A s \in HostRequests : req'[s].phase \in {"writing", "published"} =>
          req'[s].ts \in Times /\ versions'[req'[s].ts] # NoPage
  BY <1>1, <1>2, <1>3, <1>4 DEF HistoryHeld, Requests
<1>7. \A s \in Requests :
          /\ req'[s].phase \in InFlight => req'[s].page \in Pages
          /\ req'[s].phase = "copying" => req'[s].ts \in Times
          /\ s \in McpCalls /\ req'[s].phase = "copying" => req'[s].seen.page # NoPage
  BY <1>1, <1>2 DEF HistoryHeld
<1>8. QED
  BY <1>5, <1>6, <1>7 DEF HistoryHeld, InFlight, Absent

\* A step that moves a request on without copying anything of its own.
LEMMA AdvanceHolds ==
    ASSUME TypeOK, HistoryHeld, NEW r \in Requests,
           NEW phase \in {"published", "paged", "rejected", "crashed"},
           Advance(r, phase), UNCHANGED versions,
           phase = "published" => req[r].phase = "writing",
           index'.page = NoPage => index' = Absent
    PROVE  HistoryHeld'
<1>1. /\ \A s \in Requests \ {r} : req'[s] = req[s]
      /\ req'[r].phase = phase /\ req'[r].page = req[r].page
      /\ req'[r].seen = req[r].seen /\ req'[r].ts = req[r].ts
  BY AdvanceKeeps DEF Phases, Answered
<1>2. \A s \in HostRequests : req'[s].phase \in {"writing", "published"} =>
          req'[s].ts \in Times /\ versions'[req'[s].ts] # NoPage
  BY <1>1 DEF HistoryHeld, Requests
<1>3. \A s \in Requests :
          /\ req'[s].phase \in InFlight => req'[s].page \in Pages
          /\ req'[s].phase = "copying" => req'[s].ts \in Times
          /\ s \in McpCalls /\ req'[s].phase = "copying" => req'[s].seen.page # NoPage
  BY <1>1 DEF HistoryHeld, InFlight
<1>4. QED
  BY <1>2, <1>3 DEF HistoryHeld, InFlight, Absent

LEMMA PutIndexHolds ==
    ASSUME TypeOK, HistoryHeld, NEW r \in Requests, NEW marker, PutIndex(r, marker)
    PROVE  HistoryHeld'
<1>1. req[r].phase = "writing" /\ req[r].page \in Pages
  BY DEF PutIndex, HistoryHeld, InFlight
<1>2. index'.page \in Pages
  BY <1>1 DEF PutIndex
<1>3. QED
  BY <1>1, <1>2, AdvanceHolds, PublishAssumption DEF PutIndex

LEMMA HistoryNext == TypeOK /\ HistoryHeld /\ [Next]_vars => HistoryHeld'
<1> SUFFICES ASSUME TypeOK, HistoryHeld, [Next]_vars
             PROVE  HistoryHeld'
  OBVIOUS
<1>1. HostRequests \cap McpCalls = {} /\ clock \in Times /\ Unstamped \in {Unstamped}
  BY PublishAssumption DEF TypeOK
<1>2. ASSUME NEW r \in HostRequests, HostStep(r)
      PROVE  HistoryHeld'
  <2> r \in Requests
    BY DEF Requests
  <2>1. ASSUME NEW p \in Pages, HostRefuse(r, p) \/ HostUnchanged(r, p)
        PROVE  HistoryHeld'
    BY <2>1, ReceiveHolds DEF HostRefuse, HostUnchanged
  <2>2. ASSUME NEW p \in Pages, NEW o \in BOOLEAN, HostAdmit(r, p, o)
        PROVE  HistoryHeld'
    BY <2>2, ReceiveHolds DEF HostAdmit
  <2>3. CASE HostStamp(r)
    <3>1. /\ \A s \in Requests \ {r} : req'[s] = req[s]
          /\ req'[r].phase = "copying" /\ req'[r].page = req[r].page
          /\ req'[r].ts = clock
          /\ req[r].phase = "admitted"
          /\ UNCHANGED <<index, versions>>
      BY <2>3 DEF HostStamp, TypeOK, Request
    <3>2. r \notin McpCalls
      BY <1>1
    <3>3. \A s \in Requests :
              /\ req'[s].phase \in InFlight => req'[s].page \in Pages
              /\ req'[s].phase = "copying" => req'[s].ts \in Times
              /\ s \in McpCalls /\ req'[s].phase = "copying" => req'[s].seen.page # NoPage
      BY <1>1, <3>1, <3>2 DEF HistoryHeld, InFlight
    <3>4. \A s \in HostRequests : req'[s].phase \in {"writing", "published"} =>
              req'[s].ts \in Times /\ versions'[req'[s].ts] # NoPage
      BY <3>1 DEF HistoryHeld, Requests
    <3>5. QED
      BY <3>1, <3>3, <3>4 DEF HistoryHeld, InFlight, Absent
  <2>4. CASE HostPutVersion(r)
    BY <2>4, PutVersionHolds DEF HostPutVersion, PutVersion, HistoryHeld, InFlight
  <2>5. CASE HostPutIndex(r)
    BY <2>5, PutIndexHolds DEF HostPutIndex
  <2>6. ASSUME NEW p \in Pages, HostPutIndexPage(r, p)
        PROVE  HistoryHeld'
    <3>1. index'.page # NoPage
      BY <2>6, PublishAssumption DEF HostPutIndexPage
    <3>2. QED
      BY <2>6, <3>1, AdvanceHolds DEF HostPutIndexPage
  <2>7. ASSUME NEW p \in Pages, NEW t \in Times, HostPutVersionPage(r, t, p)
        PROVE  HistoryHeld'
    <3>1. /\ \A s \in Requests \ {r} : req'[s] = req[s]
          /\ req'[r].phase = "paged" /\ req'[r].ts = req[r].ts
          /\ req'[r].page = req[r].page /\ req'[r].seen = req[r].seen
          /\ index' = index
      BY <2>7, AdvanceKeeps DEF HostPutVersionPage, Phases, Answered
    <3>2. \A u \in Times : versions[u] # NoPage => versions'[u] # NoPage
      BY <2>7, PublishAssumption DEF HostPutVersionPage, TypeOK
    <3>3. \A s \in HostRequests : req'[s].phase \in {"writing", "published"} =>
              req'[s].ts \in Times /\ versions'[req'[s].ts] # NoPage
      BY <3>1, <3>2 DEF HistoryHeld, Requests
    <3>4. \A s \in Requests :
              /\ req'[s].phase \in InFlight => req'[s].page \in Pages
              /\ req'[s].phase = "copying" => req'[s].ts \in Times
              /\ s \in McpCalls /\ req'[s].phase = "copying" => req'[s].seen.page # NoPage
      BY <3>1 DEF HistoryHeld, InFlight
    <3>5. QED
      BY <3>1, <3>3, <3>4 DEF HistoryHeld, InFlight, Absent
  <2>8. QED
    BY <1>2, <2>1, <2>2, <2>3, <2>4, <2>5, <2>6, <2>7 DEF HostStep
<1>3. ASSUME NEW r \in McpCalls, McpStep(r)
      PROVE  HistoryHeld'
  <2> r \in Requests /\ r \notin HostRequests
    BY <1>1 DEF Requests
  <2>1. ASSUME NEW p \in Pages, McpRefuse(r, p) \/ McpAdmitNew(r, p) \/ McpReadNothing(r, p)
        PROVE  HistoryHeld'
    BY <2>1, ReceiveHolds DEF McpRefuse, McpAdmitNew, McpReadNothing
  <2>2. ASSUME NEW p \in Pages, McpReadLive(r, p)
        PROVE  HistoryHeld'
    BY <1>1, <2>2, ReceiveHolds DEF McpReadLive, Exists
  <2>3. CASE McpPutVersion(r)
    <3>1. req[r].seen.page \in Pages
      BY <2>3 DEF McpPutVersion, PutVersion, HistoryHeld, TypeOK, Request, Object
    <3>2. QED
      BY <2>3, <3>1, PutVersionHolds DEF McpPutVersion
  <2>4. CASE McpPutIndex(r)
    BY <2>4, PutIndexHolds DEF McpPutIndex
  <2>5. QED
    BY <1>3, <2>1, <2>2, <2>3, <2>4 DEF McpStep
<1>4. ASSUME NEW r \in Requests, Reject(r) \/ Crash(r)
      PROVE  HistoryHeld'
  BY <1>4, AdvanceHolds DEF Reject, Crash, HistoryHeld, Absent
<1>5. ASSUME UNCHANGED <<versions, req>>, index' \in {index, Absent}
      PROVE  HistoryHeld'
  BY <1>5 DEF HistoryHeld, Absent, InFlight
<1>6. ASSUME NEW s \in Subpaths, PutSubpage(s)
      PROVE  HistoryHeld'
  BY <1>5, <1>6 DEF PutSubpage
<1>7. CASE TakeDown
  BY <1>5, <1>7 DEF TakeDown
<1>8. CASE Tick
  BY <1>5, <1>8 DEF Tick
<1>9. CASE UNCHANGED vars
  BY <1>5, <1>9 DEF vars
<1>10. QED
  BY <1>2, <1>3, <1>4, <1>6, <1>7, <1>8, <1>9 DEF Next

\* What was once completed is never forgotten.
LEMMA HistoryKept == Spec => [](TypeOK /\ HistoryHeld)
BY TypeCorrect, HistoryInit, HistoryNext, PTL DEF Spec
-----------------------------------------------------------------------------
(* A GET changes nothing of what the publishes keep.                       *)

LEMMA ServingStep == [ServeNext]_allVars => [Next]_vars
BY DEF ServeNext, allVars, vars, SetVisibility, VisitStep, CrawlStep, Arrive,
       ReadVisibility, ReadSubpage, ReadIndex, RespondPrivate, RespondFound,
       RespondMissing, ListHeld, Look, Answer, CrawlStart, ListStored, ListHidden, CrawlAnswer

(* Every behaviour of a site that is read and hidden is one of a site that *)
(* is published: what SitePublish promises holds while it is served.       *)
THEOREM ServingOnlyReads == ServeSpec => Spec
<1>1. ServeInit => Init
  BY DEF ServeInit
<1>2. QED
  BY <1>1, ServingStep, PTL DEF ServeSpec, Spec

\* Visibility changes only in its own step, and the bucket only in theirs.
LEMMA RequestReads ==
    ASSUME NEW x \in Readers, VisitStep(x) \/ CrawlStep(x)
    PROVE  UNCHANGED <<vars, visibility>>
BY DEF VisitStep, CrawlStep, Arrive,
       ReadVisibility, ReadSubpage, ReadIndex, RespondPrivate, RespondFound,
       RespondMissing, ListHeld, Look, Answer, CrawlStart, ListStored, ListHidden, CrawlAnswer

\* One field of a visit.
LEMMA VisitFields ==
    /\ \A vr \in Visit, path \in Subpaths \cup {Home}, phase \in {"index", "subpage"} :
           [vr EXCEPT !.path = path, !.phase = phase] \in Visit
    /\ \A vr \in Visit, vis \in Visibilities : [vr EXCEPT !.vis = vis] \in Visit
    /\ \A vr \in Visit, found \in Findings, phase \in {"index", "looked"} :
           [vr EXCEPT !.found = found, !.phase = phase] \in Visit
    /\ \A vr \in Visit : [vr EXCEPT !.phase = "list"] \in Visit
    /\ \A answer \in Answers, noindex \in BOOLEAN :
           [NoVisit EXCEPT !.phase = "answered", !.answer = answer,
                           !.noindex = noindex] \in Visit
BY DEF Visit, NoVisit, NotFound, Findings

LEMMA FindingsTyped ==
    /\ NotFound \in Findings
    /\ [kind |-> "subpage", page |-> NoPage] \in Findings
    /\ TypeOK => [kind |-> "page", page |-> index.page] \in Findings
BY DEF Findings, NotFound, TypeOK, Object

LEMMA VisitTyped ==
    ASSUME TypeOK, ServeTypeOK, NEW v \in Readers, FindsOrLists(visit[v]), VisitStep(v)
    PROVE  visit' \in [Readers -> Visit] /\ crawl' = crawl
<1> visit[v] \in Visit /\ visit \in [Readers -> Visit]
  BY DEF ServeTypeOK
<1>1. ASSUME NEW new \in Visit, visit' = [visit EXCEPT ![v] = new]
      PROVE  visit' \in [Readers -> Visit]
  BY <1>1
<1>2. ASSUME NEW path \in Subpaths \cup {Home}, Arrive(v, path)
      PROVE  visit' \in [Readers -> Visit] /\ crawl' = crawl
  <2>1. PICK phase \in {"index", "subpage"} :
            visit' = [visit EXCEPT ![v] = [visit[v] EXCEPT !.path = path, !.phase = phase]]
    BY <1>2 DEF Arrive
  <2>2. QED
    BY <1>1, <1>2, <2>1, VisitFields DEF Arrive
<1>3. CASE ReadVisibility(v)
  BY <1>1, <1>3, VisitFields DEF ReadVisibility, VisibilityRead, ServeTypeOK
<1>4. ASSUME NEW found \in Findings, NEW phase \in {"index", "looked"}, Look(v, found, phase)
      PROVE  visit' \in [Readers -> Visit] /\ crawl' = crawl
  BY <1>1, <1>4, VisitFields DEF Look
<1>5. CASE ReadSubpage(v) \/ ReadIndex(v)
  BY <1>4, <1>5, FindingsTyped DEF ReadSubpage, ReadIndex
<1>6. ASSUME NEW answer \in Answers, NEW noindex \in BOOLEAN, Answer(v, answer, noindex)
      PROVE  visit' \in [Readers -> Visit] /\ crawl' = crawl
  BY <1>1, <1>6, VisitFields DEF Answer
<1>7. CASE RespondPrivate(v) \/ RespondFound(v) \/ ListHeld(v)
  <2>1. visit[v].found # NotFound => visit[v].found.kind \in Answers
    BY DEF Visit, Findings, Answers, FindsOrLists
  <2>2. CASE RespondFound(v)
    <3>1. MarksNoindex(v) \in BOOLEAN
      BY DEF MarksNoindex
    <3>2. QED
      BY <1>6, <2>1, <2>2, <3>1 DEF RespondFound
  <2>3. CASE RespondPrivate(v) \/ ListHeld(v)
    BY <1>6, <2>3 DEF RespondPrivate, ListHeld, AddressState, Answers
  <2>4. QED
    BY <1>7, <2>2, <2>3
<1>8. CASE RespondMissing(v)
  BY <1>1, <1>8, VisitFields DEF RespondMissing
<1>9. QED
  BY <1>2, <1>3, <1>5, <1>7, <1>8 DEF VisitStep

\* What one page of a listing says of the site.
LEMMA ReadingsTyped ==
    ASSUME NEW listed, NEW reading \in OnePage(listed)
    PROVE  /\ reading \in Reading
           /\ reading = "yes" => listed
           /\ reading = "no" => ~listed
BY DEF OnePage, Reading

LEMMA CrawlTyped ==
    ASSUME ServeTypeOK, NEW c \in Readers, CrawlStep(c)
    PROVE  crawl' \in [Readers -> Crawl] /\ visit' = visit
<1> crawl[c] \in Crawl /\ crawl \in [Readers -> Crawl]
  BY DEF ServeTypeOK
<1>1. ASSUME NEW new \in Crawl, crawl' = [crawl EXCEPT ![c] = new]
      PROVE  crawl' \in [Readers -> Crawl]
  BY <1>1
<1>2. CASE CrawlStart(c)
  <2>1. [crawl[c] EXCEPT !.phase = "listing"] \in Crawl
    BY DEF Crawl
  <2>2. QED
    BY <1>1, <1>2, <2>1 DEF CrawlStart
<1>3. CASE ListStored(c)
  <2>1. PICK reading \in Reading : crawl' = [crawl EXCEPT ![c].stored = reading]
    BY <1>3, ReadingsTyped DEF ListStored
  <2>2. [crawl[c] EXCEPT !.stored = reading] \in Crawl
    BY DEF Crawl
  <2>3. QED
    BY <1>1, <1>3, <2>1, <2>2 DEF ListStored
<1>4. CASE ListHidden(c)
  <2>1. PICK reading \in Reading : crawl' = [crawl EXCEPT ![c].hidden = reading]
    BY <1>4, ReadingsTyped DEF ListHidden
  <2>2. [crawl[c] EXCEPT !.hidden = reading] \in Crawl
    BY DEF Crawl
  <2>3. QED
    BY <1>1, <1>4, <2>1, <2>2 DEF ListHidden
<1>5. CASE CrawlAnswer(c)
  <2> DEFINE listed == crawl[c].stored = "yes" /\ crawl[c].hidden # "yes"
  <2>1. listed \in BOOLEAN
    OBVIOUS
  <2>2. crawl' = [crawl EXCEPT ![c] = [NoCrawl EXCEPT !.phase = "answered", !.listed = listed]]
    BY <1>5 DEF CrawlAnswer
  <2> HIDE DEF listed
  <2>3. [NoCrawl EXCEPT !.phase = "answered", !.listed = listed] \in Crawl
    BY <2>1 DEF Crawl, NoCrawl, Reading
  <2>4. QED
    BY <1>1, <1>5, <2>2, <2>3 DEF CrawlAnswer
<1>6. QED
  BY <1>2, <1>3, <1>4, <1>5 DEF CrawlStep

LEMMA ServeTypeInit == ServeInit => ServeTypeOK
BY DEF ServeInit, ServeTypeOK, Visibilities, NoVisit, Visit, NotFound, Findings,
       NoCrawl, Crawl, Reading, Moment

LEMMA ServeTypeNext ==
    ASSUME TypeOK, TypeOK', ServeTypeOK, \A x \in Readers : FindsOrLists(visit[x]),
           [ServeNext]_allVars
    PROVE  ServeTypeOK'
<1>1. CASE UNCHANGED allVars
  BY <1>1 DEF allVars, ServeTypeOK
<1>2. CASE ServeNext
  <2>1. /\ visibility' \in Visibilities
        /\ visit' \in [Readers -> Visit] /\ crawl' \in [Readers -> Crawl]
    <3>1. CASE UNCHANGED <<visibility, visit, crawl>>
      BY <3>1 DEF ServeTypeOK
    <3>2. ASSUME NEW w \in Visibilities, SetVisibility(w)
          PROVE  /\ visibility' \in Visibilities
                 /\ visit' \in [Readers -> Visit] /\ crawl' \in [Readers -> Crawl]
      BY <3>2 DEF SetVisibility, ServeTypeOK
    <3>3. ASSUME NEW v \in Readers, VisitStep(v) \/ CrawlStep(v)
          PROVE  /\ visibility' \in Visibilities
                 /\ visit' \in [Readers -> Visit] /\ crawl' \in [Readers -> Crawl]
      BY <3>3, RequestReads, VisitTyped, CrawlTyped DEF ServeTypeOK
    <3>4. QED
      BY <1>2, <3>1, <3>2, <3>3 DEF ServeNext
  <2>2. Now' \in Moment
    BY <2>1 DEF Now, Moment, TypeOK, Object
  <2>3. moments' \in [Readers -> SUBSET Moment]
    BY <1>2, <2>2 DEF ServeNext, Observe, ServeTypeOK
  <2>4. QED
    BY <2>1, <2>3 DEF ServeTypeOK
<1>3. QED
  BY <1>1, <1>2

\* A request under way has lived through the present and all it lived through.
LEMMA MomentsGrow ==
    ASSUME ServeTypeOK, ServeTypeOK', Observe, NEW x \in Readers, Busy(x)'
    PROVE  Now' \in moments'[x] /\ moments[x] \subseteq moments'[x]
BY DEF Observe, ServeTypeOK

\* What has been seen stays seen.
LEMMA VisitKept ==
    ASSUME ServeTypeOK, ServeTypeOK', Observe, NEW v \in Readers,
           visit'[v] = visit[v], VisitSound(visit[v], moments[v])
    PROVE  VisitSound(visit'[v], moments'[v])
<1>1. visit'[v].phase \in Visiting => moments[v] \subseteq moments'[v]
  BY MomentsGrow DEF Busy, Visiting
<1>2. QED
  BY <1>1 DEF VisitSound

LEMMA CrawlKept ==
    ASSUME ServeTypeOK, ServeTypeOK', Observe, NEW c \in Readers,
           crawl'[c] = crawl[c], CrawlSound(crawl[c], moments[c])
    PROVE  CrawlSound(crawl'[c], moments'[c])
<1>1. crawl'[c].phase = "listing" => moments[c] \subseteq moments'[c]
  BY MomentsGrow DEF Busy
<1>2. QED
  BY <1>1 DEF CrawlSound

\* What a step of a visit finds goes with the moment it looks at.
LEMMA VisitLooks ==
    ASSUME TypeOK, ServeTypeOK, ServeTypeOK', HistoryHeld, Observe,
           NEW v \in Readers, VisitStep(v),
           VisitSound(visit[v], moments[v]), FindsOrLists(visit[v])
    PROVE  VisitSound(visit'[v], moments'[v]) /\ FindsOrLists(visit'[v])
<1> DEFINE vr == visit[v]
           new == visit'[v]
           Seen == \A m \in moments[v] : m \in moments'[v]
<1>0. /\ vr \in Visit /\ visit \in [Readers -> Visit]
      /\ UNCHANGED <<vars, visibility>>
  BY RequestReads DEF ServeTypeOK
<1>1. new.phase \in Visiting => Now' \in moments'[v] /\ Seen
  BY MomentsGrow DEF Busy, Visiting
<1>2. Now'.visibility = visibility /\ Now'.page = index.page
  BY <1>0 DEF Now, vars
<1>3. ASSUME NEW path \in Subpaths \cup {Home}, Arrive(v, path)
      PROVE  VisitSound(new, moments'[v]) /\ FindsOrLists(new)
  <2>1. /\ vr.phase = "idle" /\ new.phase \in {"index", "subpage"}
        /\ new.vis = vr.vis /\ new.found = vr.found
    BY <1>0, <1>3 DEF Arrive, Visit
  <2>2. QED
    BY <2>1 DEF VisitSound, FindsOrLists
<1>4. CASE ReadVisibility(v)
  <2>1. /\ vr.phase \in {"subpage", "index", "looked"} /\ new.phase = vr.phase
        /\ new.vis = visibility /\ new.found = vr.found /\ new.path = vr.path
    BY <1>0, <1>4 DEF ReadVisibility, VisibilityRead, Visit
  <2>2. Now' \in moments'[v] /\ Seen
    BY <1>1, <2>1 DEF Visiting
  <2>3. QED
    BY <1>2, <2>1, <2>2 DEF VisitSound, FindsOrLists, Visiting
<1>5. ASSUME NEW found \in Findings, NEW phase \in {"index", "looked"}, Look(v, found, phase),
             vr.phase \in {"subpage", "index"},
             found.kind = "none" => found = NotFound,
             found = NotFound => phase = "index" \/ vr.path \in Assets \/ index.page = NoPage
      PROVE  VisitSound(new, moments'[v]) /\ FindsOrLists(new)
  <2>1. new.phase = phase /\ new.found = found /\ new.vis = vr.vis /\ new.path = vr.path
    BY <1>0, <1>5 DEF Look, Visit
  <2>2. Now' \in moments'[v] /\ Seen
    BY <1>1, <2>1 DEF Visiting
  <2>3. QED
    BY <1>2, <1>5, <2>1, <2>2 DEF VisitSound, FindsOrLists, Visiting
<1>6. CASE ReadSubpage(v)
  <2>1. CASE vr.path \in subpages
    <3>1. Look(v, [kind |-> "subpage", page |-> NoPage], "looked") /\ vr.phase = "subpage"
      BY <1>6, <2>1 DEF ReadSubpage
    <3>2. QED
      BY <1>5, <3>1, FindingsTyped DEF NotFound
  <2>2. CASE vr.path \notin subpages
    <3>1. vr.phase = "subpage" /\ NotFound.kind = "none"
      BY <1>6 DEF ReadSubpage, NotFound
    <3>2. CASE LastCandidate(v)
      BY <1>5, <1>6, <2>2, <3>1, <3>2, FindingsTyped DEF ReadSubpage, LastCandidate
    <3>3. CASE ~LastCandidate(v)
      BY <1>5, <1>6, <2>2, <3>1, <3>3, FindingsTyped DEF ReadSubpage
    <3>4. QED
      BY <3>2, <3>3
  <2>3. QED
    BY <2>1, <2>2
<1>7. CASE ReadIndex(v)
  <2>1. CASE Exists
    <3>1. Look(v, [kind |-> "page", page |-> index.page], "looked") /\ vr.phase = "index"
      BY <1>7, <2>1 DEF ReadIndex
    <3>2. QED
      BY <1>5, <3>1, FindingsTyped DEF NotFound
  <2>2. CASE ~Exists
    <3>1. Look(v, NotFound, "looked") /\ vr.phase = "index" /\ index.page = NoPage
      BY <1>7, <2>2 DEF ReadIndex, Exists, Absent
    <3>2. QED
      BY <1>5, <3>1, FindingsTyped
  <2>3. QED
    BY <2>1, <2>2
<1>8. ASSUME NEW answer, NEW noindex, Answer(v, answer, noindex)
      PROVE  VisitSound(new, moments'[v]) /\ FindsOrLists(new)
  <2>1. new.phase = "answered" /\ new.found = NotFound
    BY <1>0, <1>8 DEF Answer, NoVisit
  <2>2. QED
    BY <2>1 DEF VisitSound, FindsOrLists, Visiting
<1>9. CASE RespondMissing(v)
  <2>1. /\ vr.phase = "looked" /\ vr.found = NotFound
        /\ new.phase = "list" /\ new.found = vr.found /\ new.vis = vr.vis /\ new.path = vr.path
    BY <1>0, <1>9 DEF RespondMissing, Ready, Visit
  <2>2. Seen
    BY <1>1, <2>1 DEF Visiting
  <2>3. QED
    BY <2>1, <2>2 DEF VisitSound, FindsOrLists, Visiting
<1>10. QED
  BY <1>3, <1>4, <1>6, <1>7, <1>8, <1>9
     DEF VisitStep, RespondPrivate, RespondFound, ListHeld

LEMMA CrawlLooks ==
    ASSUME TypeOK, ServeTypeOK, ServeTypeOK', HistoryHeld, Observe,
           NEW c \in Readers, CrawlStep(c), CrawlSound(crawl[c], moments[c])
    PROVE  CrawlSound(crawl'[c], moments'[c])
<1> DEFINE cr == crawl[c]
           new == crawl'[c]
           Seen == \A m \in moments[c] : m \in moments'[c]
<1>0. /\ cr \in Crawl /\ crawl \in [Readers -> Crawl]
      /\ UNCHANGED <<vars, visibility>>
  BY RequestReads DEF ServeTypeOK
<1>1. new.phase = "listing" => Now' \in moments'[c] /\ Seen
  BY MomentsGrow DEF Busy
<1>2. Now'.visibility = visibility /\ Now'.page = index.page
  BY <1>0 DEF Now, vars
<1>3. CASE CrawlStart(c)
  <2>1. /\ cr = NoCrawl /\ new.phase = "listing" /\ new.stored = cr.stored
        /\ new.hidden = cr.hidden /\ new.listed = cr.listed
    BY <1>0, <1>3 DEF CrawlStart, CrawlSound, Crawl
  <2>2. cr.stored = "unread" /\ cr.hidden = "unread" /\ ~cr.listed
    BY <2>1 DEF NoCrawl
  <2>3. QED
    BY <2>1, <2>2 DEF CrawlSound
<1>4. CASE ListStored(c)
  <2>1. /\ cr.phase = "listing" /\ new.phase = "listing"
        /\ new.stored \in OnePage(ListedUnderSites)
        /\ new.hidden = cr.hidden /\ new.listed = cr.listed
    BY <1>0, <1>4 DEF ListStored, Crawl
  <2>2. new.stored = "no" => ~ListedUnderSites
    BY <2>1, ReadingsTyped
  <2>3. ~ListedUnderSites => index.page = NoPage
    BY DEF ListedUnderSites, Held, Exists, Absent
  <2>4. QED
    BY <1>1, <1>2, <2>1, <2>2, <2>3 DEF CrawlSound
<1>5. CASE ListHidden(c)
  <2>1. /\ cr.phase = "listing" /\ new.phase = "listing"
        /\ new.hidden \in OnePage(ListedUnderVisibility)
        /\ new.stored = cr.stored /\ new.listed = cr.listed
    BY <1>0, <1>5 DEF ListHidden, Crawl
  <2>2. /\ new.hidden = "no" => visibility = "public"
        /\ new.hidden = "yes" => visibility # "public"
    BY <2>1, ReadingsTyped DEF ListedUnderVisibility
  <2>3. QED
    BY <1>1, <1>2, <2>1, <2>2 DEF CrawlSound
<1>6. CASE CrawlAnswer(c)
  <2>1. new.phase = "answered"
    BY <1>0, <1>6 DEF CrawlAnswer, NoCrawl
  <2>2. QED
    BY <2>1 DEF CrawlSound
<1>7. QED
  BY <1>3, <1>4, <1>5, <1>6 DEF CrawlStep

\* A step of one request leaves the others as they are.
LEMMA OthersWait ==
    ASSUME ServeTypeOK, NEW x \in Readers, NEW y \in Readers \ {x},
           VisitStep(x) \/ CrawlStep(x)
    PROVE  visit'[y] = visit[y] /\ crawl'[y] = crawl[y]
BY DEF ServeTypeOK, VisitStep, CrawlStep, Arrive,
       ReadVisibility, ReadSubpage, ReadIndex, RespondPrivate, RespondFound,
       RespondMissing, ListHeld, Look, Answer, CrawlStart, ListStored, ListHidden, CrawlAnswer

LEMMA ServeIInvInit == ServeInit => ServeIInv
<1> SUFFICES ASSUME ServeInit
             PROVE  ServeIInv
  OBVIOUS
<1>1. /\ visit = [v \in Readers |-> NoVisit] /\ crawl = [c \in Readers |-> NoCrawl]
      /\ NoVisit.phase = "idle" /\ NoVisit.vis = "unread" /\ NoVisit.found = NotFound
      /\ NoCrawl.phase = "idle"
  BY DEF ServeInit, NoVisit, NoCrawl
<1>2. \A x \in Readers : ~Busy(x)
  BY <1>1 DEF Busy
<1>3. \A x \in Readers : /\ VisitSound(visit[x], moments[x])
                         /\ FindsOrLists(visit[x])
                         /\ CrawlSound(crawl[x], moments[x])
  BY <1>1 DEF VisitSound, FindsOrLists, CrawlSound, Visiting
<1>4. QED
  BY <1>2, <1>3, ServeTypeInit, HistoryInit DEF ServeInit, ServeIInv, NowWitnessed

LEMMA ServeIInvNext == TypeOK /\ TypeOK' /\ ServeIInv /\ [ServeNext]_allVars => ServeIInv'
<1> SUFFICES ASSUME TypeOK, TypeOK', ServeIInv, [ServeNext]_allVars
             PROVE  ServeIInv'
  OBVIOUS
<1>1. ServeTypeOK /\ ServeTypeOK' /\ HistoryHeld /\ HistoryHeld'
  BY ServeTypeNext, HistoryNext, ServingStep DEF ServeIInv
<1>2. CASE UNCHANGED allVars
  <2>1. \A x \in Readers : Busy(x)' = Busy(x) /\ Now' = Now
    BY <1>2 DEF allVars, vars, Busy, Now
  <2>2. UNCHANGED <<visit, crawl, moments>>
    BY <1>2 DEF allVars
  <2>3. NowWitnessed'
    BY <2>1, <2>2 DEF ServeIInv, NowWitnessed
  <2>4. QED
    BY <1>1, <2>2, <2>3 DEF ServeIInv
<1>3. CASE ServeNext
  <2>1. Observe
    BY <1>3 DEF ServeNext
  <2>2. NowWitnessed'
    BY <1>1, <2>1, MomentsGrow DEF NowWitnessed
  <2>3. \A x \in Readers : /\ VisitSound(visit[x], moments[x])
                           /\ FindsOrLists(visit[x])
                           /\ CrawlSound(crawl[x], moments[x])
    BY DEF ServeIInv
  <2>4. ASSUME UNCHANGED <<visit, crawl>>, NEW x \in Readers
        PROVE  /\ VisitSound(visit'[x], moments'[x])
               /\ FindsOrLists(visit'[x])
               /\ CrawlSound(crawl'[x], moments'[x])
    BY <1>1, <2>1, <2>3, <2>4, VisitKept, CrawlKept
  <2>5. ASSUME NEW v \in Readers, VisitStep(v), NEW x \in Readers
        PROVE  /\ VisitSound(visit'[x], moments'[x])
               /\ FindsOrLists(visit'[x])
               /\ CrawlSound(crawl'[x], moments'[x])
    <3>1. crawl' = crawl
      BY <1>1, <2>3, <2>5, VisitTyped
    <3>2. CASE x = v
      BY <1>1, <2>1, <2>3, <2>5, <3>1, <3>2, VisitLooks, CrawlKept
    <3>3. CASE x # v
      <4>1. visit'[x] = visit[x]
        BY <1>1, <2>5, <3>3, OthersWait
      <4>2. QED
        BY <1>1, <2>1, <2>3, <3>1, <4>1, VisitKept, CrawlKept
    <3>4. QED
      BY <3>2, <3>3
  <2>6. ASSUME NEW c \in Readers, CrawlStep(c), NEW x \in Readers
        PROVE  /\ VisitSound(visit'[x], moments'[x])
               /\ FindsOrLists(visit'[x])
               /\ CrawlSound(crawl'[x], moments'[x])
    <3>1. visit' = visit
      BY <1>1, <2>6, CrawlTyped
    <3>2. CASE x = c
      BY <1>1, <2>1, <2>3, <2>6, <3>1, <3>2, CrawlLooks, VisitKept
    <3>3. CASE x # c
      <4>1. crawl'[x] = crawl[x]
        BY <1>1, <2>6, <3>3, OthersWait
      <4>2. QED
        BY <1>1, <2>1, <2>3, <3>1, <4>1, VisitKept, CrawlKept
    <3>4. QED
      BY <3>2, <3>3
  <2>7. \A x \in Readers : /\ VisitSound(visit'[x], moments'[x])
                           /\ FindsOrLists(visit'[x])
                           /\ CrawlSound(crawl'[x], moments'[x])
    BY <1>3, <2>4, <2>5, <2>6 DEF ServeNext, SetVisibility
  <2>8. QED
    BY <1>1, <2>2, <2>7 DEF ServeIInv
<1>4. QED
  BY <1>2, <1>3

(* In every instance, whatever is published, hidden and taken down between *)
(* the reads of a request, each thing it has read was so at some moment of *)
(* the request.                                                            *)
THEOREM ReadsAreOfTheirTime == ServeSpec => [](TypeOK /\ ServeIInv)
<1>1. ServeSpec => []TypeOK
  BY ServingOnlyReads, TypeCorrect, PTL
<1>2. QED
  BY <1>1, ServeIInvInit, ServeIInvNext, PTL DEF ServeSpec

-----------------------------------------------------------------------------
(* What a visitor and a crawler are told.                                  *)

\* A visit is answered by one of three steps of its own.
LEMMA AnsweredBy ==
    ASSUME ServeTypeOK, [ServeNext]_allVars, NEW v \in Readers,
           visit[v].phase # "answered", visit'[v].phase = "answered"
    PROVE  RespondPrivate(v) \/ RespondFound(v) \/ ListHeld(v)
<1>1. visit' # visit
  OBVIOUS
<1>2. PICK x \in Readers : VisitStep(x) \/ CrawlStep(x)
  BY <1>1 DEF ServeNext, SetVisibility, allVars
<1>3. x = v
  BY <1>2, OthersWait
<1>4. VisitStep(v)
  BY <1>1, <1>2, <1>3, CrawlTyped
<1>5. visit[v] \in Visit /\ visit \in [Readers -> Visit]
  BY DEF ServeTypeOK
<1>6. ASSUME NEW path \in Subpaths \cup {Home}, Arrive(v, path)
      PROVE  FALSE
  <2>1. PICK phase \in {"index", "subpage"} :
            visit' = [visit EXCEPT ![v] = [visit[v] EXCEPT !.path = path, !.phase = phase]]
    BY <1>6 DEF Arrive
  <2>2. QED
    BY <1>5, <2>1 DEF Visit
<1>7. ~ ReadVisibility(v)
  BY <1>5 DEF ReadVisibility, Visit
<1>8. ~ ReadSubpage(v) /\ ~ ReadIndex(v)
  BY <1>5 DEF ReadSubpage, ReadIndex, Look, Visit
<1>9. ~ RespondMissing(v)
  BY <1>5 DEF RespondMissing, Visit
<1>10. QED
  BY <1>4, <1>6, <1>7, <1>8, <1>9 DEF VisitStep

\* What the answer says.
LEMMA AnswerSays ==
    ASSUME ServeTypeOK, NEW v \in Readers, NEW answer, NEW noindex,
           Answer(v, answer, noindex)
    PROVE  visit'[v].answer = answer /\ visit'[v].noindex = noindex
BY DEF Answer, ServeTypeOK, NoVisit, Visit

(* A visitor is never shown a site that was private throughout the visit,  *)
(* never without noindex a page of one that was unlisted throughout, and   *)
(* never told "private" of one that was not.                               *)
THEOREM AnswersMatchVisibility == ServeSpec => AnswerMatchesVisibility
<1>1. ASSUME TypeOK, ServeIInv, [ServeNext]_allVars
      PROVE  \A v \in Readers :
                 /\ Told(v, {"page", "subpage"}) =>
                        \E m \in moments[v] :
                            \/ m.visibility = IF visit'[v].noindex THEN "unlisted"
                                              ELSE "public"
                            \/ visit[v].path \in Files /\ m.visibility = "unlisted"
                 /\ Told(v, {"private"}) => \E m \in moments[v] : m.visibility = "private"
  <2> TAKE v \in Readers
  <2>1. ServeTypeOK /\ VisitSound(visit[v], moments[v]) /\ visit[v] \in Visit
    BY <1>1 DEF ServeIInv, ServeTypeOK
  <2>2. CASE RespondPrivate(v)
    <3>1. /\ visit'[v].answer = "private"
          /\ visit[v].vis = "private" /\ visit[v].phase = "looked"
      BY <2>1, <2>2, AnswerSays DEF RespondPrivate, Ready, IsPrivate
    <3>2. QED
      BY <2>1, <3>1 DEF Told, VisitSound, Visiting
  <2>3. CASE RespondFound(v)
    <3>1. /\ visit'[v].answer # "private"
          /\ visit[v].phase = "looked" /\ visit[v].vis \in {"public", "unlisted"}
          /\ visit'[v].noindex = MarksNoindex(v)
      BY <2>1, <2>3, AnswerSays
         DEF RespondFound, Ready, IsPrivate, Visit, Visibilities, Findings
    <3>2. \E m \in moments[v] : m.visibility = visit[v].vis
      BY <2>1, <3>1 DEF VisitSound, Visiting
    <3>3. QED
      BY <3>1, <3>2 DEF Told, MarksNoindex
  <2>4. CASE ListHeld(v)
    <3>1. visit'[v].answer \in {"free", "gone", "broken"}
      BY <2>1, <2>4, AnswerSays DEF ListHeld, AddressState
    <3>2. QED
      BY <3>1 DEF Told
  <2>5. QED
    BY <1>1, <2>1, <2>2, <2>3, <2>4, AnsweredBy DEF Told
<1>2. QED
  BY <1>1, ReadsAreOfTheirTime, PTL DEF AnswerMatchesVisibility, ServeSpec

\* Only a visit that lists the keys is told of a missing page.
LEMMA MissingIsListed ==
    ASSUME ServeIInv, [ServeNext]_allVars, NEW v \in Readers,
           Told(v, {"free", "gone", "broken"})
    PROVE  /\ visit[v].phase = "list" /\ visit[v].found = NotFound
           /\ visit'[v].answer = AddressState
<1>1. ServeTypeOK /\ FindsOrLists(visit[v]) /\ visit[v] \in Visit
  BY DEF ServeIInv, ServeTypeOK
<1>2. ~ RespondPrivate(v)
  <2> SUFFICES ASSUME RespondPrivate(v)
               PROVE  FALSE
    OBVIOUS
  <2>1. visit'[v].answer = "private"
    BY <1>1, AnswerSays DEF RespondPrivate
  <2>2. QED
    BY <2>1 DEF Told
<1>3. ~ RespondFound(v)
  BY <1>1, AnswerSays DEF RespondFound, Told, Visit, Findings
<1>4. ListHeld(v)
  BY <1>1, <1>2, <1>3, AnsweredBy DEF Told
<1>5. QED
  BY <1>1, <1>4, AnswerSays DEF ListHeld, FindsOrLists

(* A site that stays live, however it is republished, is never reported    *)
(* missing to a visitor of its home page or of a clean URL.                *)
THEOREM LiveSitesAreServed == ServeSpec => LiveIsServed
<1>1. ASSUME TypeOK, ServeIInv, [ServeNext]_allVars
      PROVE  \A v \in Readers :
                 Told(v, {"free", "gone", "broken"}) /\ visit[v].path \notin Assets =>
                     \E m \in moments[v] : m.page = NoPage
  BY <1>1, MissingIsListed DEF ServeIInv, VisitSound, Visiting
<1>2. QED
  BY <1>1, ReadsAreOfTheirTime, PTL DEF LiveIsServed, ServeSpec

(* An address is offered as free only if no publish of site-host ever      *)
(* completed there, even if its page has been taken down since.            *)
THEOREM FreeAddressesWereNeverHosted == ServeSpec => FreeWasNeverHosted
<1>1. ASSUME TypeOK, ServeIInv, [ServeNext]_allVars
      PROVE  \A v \in Readers :
                 Told(v, {"free"}) => \A r \in HostRequests : req[r].phase # "published"
  <2> SUFFICES ASSUME NEW v \in Readers, Told(v, {"free"}), NEW r \in HostRequests,
                      req[r].phase = "published"
               PROVE  FALSE
    OBVIOUS
  <2>1. AddressState = "free"
    BY <1>1, MissingIsListed DEF Told
  <2>2. ~HasHistory
    BY <2>1 DEF AddressState, Held
  <2>3. req[r].ts \in Times /\ versions[req[r].ts] # NoPage
    BY <1>1 DEF ServeIInv, HistoryHeld
  <2>4. QED
    BY <2>2, <2>3 DEF HasHistory
<1>2. QED
  BY <1>1, ReadsAreOfTheirTime, PTL DEF FreeWasNeverHosted, ServeSpec

\* A sitemap is answered in a step of its own request.
LEMMA CrawlAnsweredBy ==
    ASSUME ServeTypeOK, [ServeNext]_allVars, NEW c \in Readers,
           crawl[c].phase = "listing", crawl'[c].phase = "answered"
    PROVE  CrawlAnswer(c)
<1>1. crawl' # crawl
  OBVIOUS
<1>2. PICK x \in Readers : VisitStep(x) \/ CrawlStep(x)
  BY <1>1 DEF ServeNext, SetVisibility, allVars
<1>3. x = c
  BY <1>2, OthersWait
<1>4. ~ VisitStep(c)
  BY <1>1 DEF VisitStep, Arrive, ReadVisibility, ReadSubpage, ReadIndex, Look, Answer,
              RespondPrivate, RespondFound, RespondMissing, ListHeld
<1>5. crawl[c] \in Crawl /\ crawl \in [Readers -> Crawl]
  BY DEF ServeTypeOK
<1>6. ~ CrawlStart(c) /\ ~ ListStored(c) /\ ~ ListHidden(c)
  BY <1>5 DEF CrawlStart, ListStored, ListHidden, Crawl
<1>7. QED
  BY <1>2, <1>3, <1>4, <1>6 DEF CrawlStep

\* It offers the site if it read it stored and did not read it hidden.
LEMMA CrawlSays ==
    ASSUME ServeIInv, NEW c \in Readers, CrawlAnswer(c)
    PROVE  /\ crawl'[c].phase = "answered" /\ crawl[c].phase = "listing"
           /\ crawl[c].stored \in {"yes", "no", "cut"}
           /\ crawl[c].hidden \in {"yes", "no", "cut"}
           /\ crawl'[c].listed <=> crawl[c].stored = "yes" /\ crawl[c].hidden # "yes"
<1>1. crawl[c] \in Crawl /\ crawl \in [Readers -> Crawl]
  BY DEF ServeIInv, ServeTypeOK
<1> DEFINE listed == crawl[c].stored = "yes" /\ crawl[c].hidden # "yes"
<1>2. crawl' = [crawl EXCEPT ![c] = [NoCrawl EXCEPT !.phase = "answered", !.listed = listed]]
  BY DEF CrawlAnswer
<1>3. crawl'[c].phase = "answered" /\ crawl'[c].listed = listed
  <2> HIDE DEF listed
  <2> QED
    BY <1>1, <1>2 DEF NoCrawl
<1>4. QED
  BY <1>1, <1>3 DEF CrawlAnswer, Crawl, Reading

\* Outside the answer nothing is offered.
LEMMA OfferedByAnswer ==
    ASSUME ServeIInv, ServeIInv', [ServeNext]_allVars, NEW c \in Readers, Offered(c)
    PROVE  CrawlAnswer(c)
<1>1. crawl' # crawl
  BY DEF Offered
<1>2. PICK x \in Readers : VisitStep(x) \/ CrawlStep(x)
  BY <1>1 DEF ServeNext, SetVisibility, allVars
<1>3. ServeTypeOK /\ crawl[c] \in Crawl /\ crawl \in [Readers -> Crawl]
  BY DEF ServeIInv, ServeTypeOK
<1>4. x = c
  BY <1>2, <1>3, OthersWait DEF Offered
<1>5. ~ VisitStep(c)
  BY <1>1 DEF VisitStep, Arrive, ReadVisibility, ReadSubpage, ReadIndex, Look, Answer,
              RespondPrivate, RespondFound, RespondMissing, ListHeld
<1>6. ~ CrawlStart(c) /\ ~ ListStored(c) /\ ~ ListHidden(c)
  BY <1>3 DEF CrawlStart, ListStored, ListHidden, Crawl, Offered
<1>7. QED
  BY <1>2, <1>4, <1>5, <1>6 DEF CrawlStep

(* A crawler is offered a site only if it was public while the sitemap was *)
(* being made, or the page of hidden sites was cut before it.              *)
THEOREM SitemapsOfferPublic == ServeSpec => SitemapOffersPublic
<1>1. ASSUME ServeIInv, ServeIInv', [ServeNext]_allVars
      PROVE  \A c \in Readers :
                 Offered(c) /\ crawl[c].hidden # "cut" =>
                     \E m \in moments[c] : m.visibility = "public"
  <2> SUFFICES ASSUME NEW c \in Readers, Offered(c), crawl[c].hidden # "cut"
               PROVE  \E m \in moments[c] : m.visibility = "public"
    OBVIOUS
  <2>1. crawl[c].phase = "listing" /\ crawl[c].hidden = "no"
    BY <1>1, OfferedByAnswer, CrawlSays DEF Offered
  <2>2. QED
    BY <1>1, <2>1 DEF ServeIInv, CrawlSound
<1>2. QED
  BY <1>1, ReadsAreOfTheirTime, PTL DEF SitemapOffersPublic, ServeSpec

(* A site that was live and public all the while is in the sitemap, if the *)
(* page of stored sites reached it.                                        *)
THEOREM SitemapsMissNone == ServeSpec => SitemapMissesNone
<1>1. ASSUME ServeIInv, [ServeNext]_allVars
      PROVE  \A c \in Readers :
                 PassedOver(c) /\ crawl[c].stored # "cut" =>
                     \E m \in moments[c] : m.page = NoPage \/ m.visibility # "public"
  <2> SUFFICES ASSUME NEW c \in Readers, PassedOver(c), crawl[c].stored # "cut"
               PROVE  \E m \in moments[c] : m.page = NoPage \/ m.visibility # "public"
    OBVIOUS
  <2>1. CrawlAnswer(c)
    BY <1>1, CrawlAnsweredBy DEF PassedOver, ServeIInv
  <2>2. /\ crawl[c].phase = "listing"
        /\ crawl[c].stored = "no" \/ crawl[c].hidden = "yes"
    BY <1>1, <2>1, CrawlSays DEF PassedOver
  <2>3. QED
    BY <1>1, <2>2 DEF ServeIInv, CrawlSound
<1>2. QED
  BY <1>1, ReadsAreOfTheirTime, PTL DEF SitemapMissesNone, ServeSpec
=============================================================================
