-------------------------- MODULE McpNotifyProofs --------------------------
(* Machine-checked proofs about McpNotify. *)
EXTENDS McpNotify, TLAPS

\* The proofs tell tickets from their absence, never what NoTicket looks like.
LEMMA NoTicketIsNone == NoTicket \notin Tickets
BY DEF NoTicket, Tickets, Times

LEMMA InitTypeOK == Init => TypeOK
BY NotifyAssumption DEF Init, TypeOK, NoRequest, Request, Kinds, Phases, Times

LEMMA NextTypeOK == TypeOK /\ KindsHavePhases /\ [Next]_vars => TypeOK'
<1> SUFFICES ASSUME TypeOK, KindsHavePhases, [Next]_vars
             PROVE  TypeOK'
  OBVIOUS
<1> USE DEF TypeOK
<1>1. ASSUME NEW r \in Requests, NEW phase \in Phases, Move(r, phase)
      PROVE  request' \in [Requests -> Request]
  BY <1>1 DEF Move, Request
<1>2. ASSUME NEW r \in Requests, NEW kind \in Kinds, NEW phase \in Phases,
             NEW id \in Ids \cup {NoId}, Admit(r, kind, phase, id)
      PROVE  TypeOK'
  <2>1. PICK bearer \in Secrets \cup {NoSecret} :
            request' = [request EXCEPT ![r] =
                [@ EXCEPT !.kind = kind, !.phase = phase, !.id = id,
                          !.bearer = bearer, !.began = now]]
    BY <1>2 DEF Admit
  <2>2. request[r] \in Request
    OBVIOUS
  <2>3. [request[r] EXCEPT !.kind = kind, !.phase = phase, !.id = id,
                           !.bearer = bearer, !.began = now] \in Request
    BY <2>2 DEF Request
  <2>4. request' \in [Requests -> Request]
    BY <2>1, <2>3
  <2>5. QED
    BY <1>2, <2>4 DEF Admit
<1>3. SendPhase \in Phases
  BY DEF SendPhase, Phases
<1>4. ASSUME NEW r \in Requests, NotifyRoute(r)
      PROVE  TypeOK'
  <2>1. CASE Direct(r) \/ Mint(r) \/ Redeem(r)
    <3>1. Issued \subseteq Ids \cup {NoId}
      BY DEF Issued, Request
    <3>2. QED
      BY <1>2, <1>3, <2>1, <3>1 DEF Direct, Mint, Redeem, Kinds, Phases
  <2>2. CASE Refuse(r) \/ Issue(r) \/ Missing(r) \/ Expire(r) \/ Accepted(r) \/ Failed(r)
    <3>1. request' \in [Requests -> Request]
      BY <1>1, <2>2 DEF Refuse, Issue, Missing, Expire, Accepted, Failed, Phases
    <3>2. QED
      BY <2>2, <3>1 DEF Refuse, Issue, Missing, Expire, Accepted, Failed
  <2>3. CASE Send(r)
    BY <1>1, <1>3, <2>3 DEF Send
  <2>4. CASE PutTicket(r)
    <3>1. [createdAt |-> request[r].began] \in Tickets
      BY DEF Request, Tickets
    <3>2. request' \in [Requests -> Request]
      BY <1>1, <2>4 DEF PutTicket, Phases
    <3>3. QED
      BY <2>4, <3>1, <3>2 DEF PutTicket
  <2>5. CASE ReadTicket(r)
    <3>1. In(r, "asked") /\ tickets[request[r].id] # NoTicket
      BY <2>5 DEF ReadTicket
    <3>2. request[r].id \in Ids
      BY <3>1 DEF KindsHavePhases, HasItsPhase, In, Request, Kinds
    <3>3. [request[r] EXCEPT !.phase = "read", !.ticket = tickets[request[r].id]] \in Request
      BY <3>2 DEF Request, Phases
    <3>4. request' \in [Requests -> Request]
      BY <2>5, <3>3 DEF ReadTicket
    <3>5. shared' \subseteq Ids
      BY <2>5, <3>2 DEF ReadTicket
    <3>6. QED
      BY <2>5, <3>4, <3>5 DEF ReadTicket
  <2>6. CASE DeleteTicket(r)
    <3>1. request' \in [Requests -> Request]
      BY <1>1, <2>6 DEF DeleteTicket, Phases
    <3>2. QED
      BY <2>6, <3>1 DEF DeleteTicket, Without
  <2>7. CASE Accept(r)
    BY <2>7 DEF Accept
  <2>8. CASE Die(r)
    BY <2>8 DEF Die, Request
  <2>9. QED
    BY <1>4, <2>1, <2>2, <2>3, <2>4, <2>5, <2>6, <2>7, <2>8
       DEF NotifyRoute, TicketRoute, ReadyRoute, Sending
<1>5. CASE Tick
  BY <1>5, NotifyAssumption DEF Tick, Times
<1>6. CASE UNCHANGED vars
  BY <1>6 DEF vars
<1>7. QED
  BY <1>4, <1>5, <1>6 DEF Next

-----------------------------------------------------------------------------
(* The inductive invariant.                                                *)

LEMMA InitIInv == Init => IInv
<1> SUFFICES ASSUME Init PROVE IInv
  OBVIOUS
<1>1. TypeOK
  BY InitTypeOK
<1>2. \A r \in Requests :
          /\ request[r].kind = "direct" /\ request[r].phase = "none"
          /\ request[r].id = NoId /\ request[r].began = 0
  BY DEF Init, NoRequest
<1>3. KindsHavePhases
  <2> SUFFICES ASSUME NEW r \in Requests
               PROVE  LET q == request[r] IN
                      /\ q.kind = "direct" /\ q.phase = "none" /\ q.id = NoId
                      /\ r \notin mailed /\ q.began <= now
    BY DEF KindsHavePhases, HasItsPhase
  <2>1. QED
    BY <1>2 DEF Init
<1>4. \A id \in Ids : Ready(id) = {} /\ Holding(id) = {}
  BY <1>2 DEF Ready, Holding, In
<1>5. IdsAreMinted
  BY <1>2 DEF IdsAreMinted
<1>6. QED
  BY <1>1, <1>3, <1>4, <1>5
     DEF IInv, Init, TakersAreShared, TookUp, SentWasFresh, RedeemedIsGone,
         OneMailUnlessShared, MailedWhileFresh, NothingIsRelayed

\* What may have been mailed lies past the delete, and was fresh.
LEMMA MailedIsPast ==
    KindsHavePhases /\ SentWasFresh /\ TakersAreShared =>
        OneMailUnlessShared /\ MailedWhileFresh
<1> SUFFICES ASSUME KindsHavePhases, SentWasFresh, TakersAreShared
             PROVE  OneMailUnlessShared /\ MailedWhileFresh
  OBVIOUS
<1>1. ASSUME NEW id \in Ids, NEW r \in Ready(id) \cap mailed
      PROVE  r \in TookUp(id) /\ request[r].phase \in {"unbound", "sending", "accepted", "failed"}
  BY <1>1 DEF KindsHavePhases, HasItsPhase, TookUp, Past, Ready
<1>2. OneMailUnlessShared
  BY <1>1 DEF OneMailUnlessShared, TakersAreShared
<1>3. MailedWhileFresh
  BY <1>1 DEF MailedWhileFresh, SentWasFresh, Ready
<1>4. QED
  BY <1>2, <1>3

LEMMA MailedIsPastNext ==
    (KindsHavePhases /\ SentWasFresh /\ TakersAreShared =>
        OneMailUnlessShared /\ MailedWhileFresh)'
BY MailedIsPast, PTL

Sent == {"unbound", "sending", "accepted", "failed"}

\* A step of one request that touches no object, mails nothing and takes no
\* ticket up: what it has read stays fresh, what it has spent stays spent.
LEMMA QuietStep ==
    ASSUME IInv, TypeOK', KindsHavePhases', NEW r \in Requests,
           \A s \in Requests \ {r} : request'[s] = request[s],
           UNCHANGED <<held, tickets, mailed, shared>>,
           /\ request'[r].kind = request[r].kind /\ request'[r].id = request[r].id
           /\ request'[r].bearer = request[r].bearer /\ request'[r].began = request[r].began
           /\ request'[r].ticket = request[r].ticket,
           request[r].phase # "issued",
           request'[r].phase \in Past => request[r].phase \in Past,
           In(r, "read")' => In(r, "read"),
           request'[r].phase \in Sent =>
               \/ request[r].phase \in Sent
               \/ request[r].began - request[r].ticket.createdAt < TTL
    PROVE  IInv'
<1> USE DEF IInv
<1>1. IdsAreMinted'
  <2>1. \A s \in Requests :
            request'[s].kind = request[s].kind /\ request'[s].id = request[s].id
    OBVIOUS
  <2>2. Issued \subseteq Issued'
    BY DEF Issued, In
  <2>3. QED
    BY <2>1, <2>2 DEF IdsAreMinted
<1>2. \A id \in Ids : Ready(id)' = Ready(id)
  BY DEF Ready
<1>3. RedeemedIsGone'
  BY <1>2 DEF RedeemedIsGone, Ready
<1>4. \A id \in Ids : Holding(id)' \subseteq Holding(id)
  BY DEF Holding, In
<1>5. TakersAreShared'
  BY <1>2, <1>4 DEF TakersAreShared, TookUp, Ready
<1>6. SentWasFresh'
  BY <1>2 DEF SentWasFresh, Sent, Ready
<1>7. NothingIsRelayed'
  <2>1. \A s \in Requests : request'[s].bearer = request[s].bearer
    OBVIOUS
  <2>2. NothingIsRelayed
    OBVIOUS
  <2>3. QED
    BY <2>1, <2>2, TypeOK DEF NothingIsRelayed, TypeOK
<1>8. OneMailUnlessShared' /\ MailedWhileFresh'
  BY <1>5, <1>6, MailedIsPastNext
<1>9. QED
  BY <1>1, <1>3, <1>5, <1>6, <1>7, <1>8

\* A step that moves one request to another phase.
LEMMA KindsStep ==
    ASSUME IInv, NEW r \in Requests, NEW phase \in Phases, Move(r, phase),
           UNCHANGED <<held, now, mailed>>,
           LET q == request[r] IN
           /\ phase = "refused" \/ q.phase \notin {"none", "refused"}
           /\ q.kind = "ticket" => phase \in {"stored", "issued"}
           /\ q.kind = "direct" => phase \in {"refused", "accepted", "failed"}
           /\ q.kind = "ready" => phase \in Past \cup {"missing", "read"}
           /\ r \in mailed => phase \in {"accepted", "failed"}
    PROVE  KindsHavePhases'
<1> USE DEF IInv
<1>1. /\ request'[r].phase = phase /\ request'[r].kind = request[r].kind
      /\ request'[r].id = request[r].id /\ request'[r].bearer = request[r].bearer
      /\ request'[r].began = request[r].began
      /\ \A s \in Requests \ {r} : request'[s] = request[s]
  BY DEF Move, TypeOK, Request
<1>2. \A s \in Requests \ {r} : HasItsPhase(s)'
  BY <1>1 DEF KindsHavePhases, HasItsPhase
<1>3. HasItsPhase(r)
  BY DEF KindsHavePhases
<1>4. HasItsPhase(r)'
  <2>1. /\ request'[r].kind = "ticket" => request'[r].phase \in {"minting", "stored", "issued"}
        /\ request'[r].kind = "direct" => request'[r].phase \in {"refused", "accepted", "failed"}
        /\ request'[r].kind = "ready" => request'[r].phase \in Past \cup {"missing", "read"}
        /\ r \in mailed' => request'[r].phase \in {"accepted", "failed"}
    BY <1>1
  <2>2. /\ request'[r].kind = "direct" => request'[r].id = NoId
        /\ request'[r].kind # "direct" => request'[r].id \in Ids
        /\ request'[r].began <= now'
    BY <1>1, <1>3 DEF HasItsPhase
  <2>3. request'[r].phase \notin {"none", "refused"} => request'[r].bearer \in held'
    BY <1>1, <1>3 DEF HasItsPhase
  <2>4. QED
    BY <2>1, <2>2, <2>3 DEF HasItsPhase
<1>5. QED
  BY <1>2, <1>4 DEF KindsHavePhases

LEMMA QuietMove ==
    ASSUME IInv, TypeOK', NEW r \in Requests, NEW phase \in Phases, Move(r, phase),
           UNCHANGED <<held, emailBound, now, tickets, mailed, shared>>,
           LET q == request[r] IN
           /\ phase = "refused" \/ q.phase \notin {"none", "refused"}
           /\ q.kind = "ticket" => phase \in {"stored", "issued"}
           /\ q.kind = "direct" => phase \in {"refused", "accepted", "failed"}
           /\ q.kind = "ready" => phase \in Past \cup {"missing"}
           /\ r \in mailed => phase \in {"accepted", "failed"}
           /\ q.phase # "issued"
           /\ phase \in Past => q.phase \in Past
           /\ phase \in Sent => \/ q.phase \in Sent
                                \/ q.began - q.ticket.createdAt < TTL
    PROVE  IInv'
<1>1. KindsHavePhases'
  BY KindsStep
<1>2. /\ request'[r] = [request[r] EXCEPT !.phase = phase]
      /\ \A s \in Requests \ {r} : request'[s] = request[s]
  BY DEF Move, IInv, TypeOK
<1>3. phase # "read"
  BY DEF IInv, TypeOK, Request, Kinds, Past
<1>4. QED
  BY <1>1, <1>2, <1>3, QuietStep DEF In, IInv, TypeOK, Request

\* A request comes in: an id is minted afresh, or was issued.
LEMMA AdmitStep ==
    ASSUME IInv, TypeOK', NEW r \in Requests, NEW kind \in Kinds, NEW phase \in Phases,
           NEW id \in Ids \cup {NoId}, Admit(r, kind, phase, id),
           \/ kind = "direct" /\ phase = SendPhase /\ id = NoId
           \/ kind = "ticket" /\ phase = "minting" /\ id \in Ids \ Minted
           \/ kind = "ready" /\ phase = "asked" /\ id \in Issued
    PROVE  IInv'
<1> USE DEF IInv
<1>1. /\ request[r].phase = "none" /\ request[r].alive
      /\ request'[r].kind = kind /\ request'[r].phase = phase /\ request'[r].id = id
      /\ request'[r].bearer \in held /\ request'[r].began = now
      /\ \A s \in Requests \ {r} : request'[s] = request[s]
      /\ UNCHANGED <<held, emailBound, now, tickets, mailed, shared>>
  BY DEF Admit, BearerOk, In, TypeOK, Request
<1>2. request[r].kind = "direct" /\ r \notin mailed
  BY <1>1 DEF KindsHavePhases, HasItsPhase, TypeOK, Request, Kinds, Past
<1>3. id \in Issued => id \in Ids
  BY DEF Issued, In, KindsHavePhases, HasItsPhase, Past
<1>4. KindsHavePhases'
  <2>1. \A s \in Requests \ {r} : HasItsPhase(s)'
    BY <1>1 DEF KindsHavePhases, HasItsPhase
  <2>2. HasItsPhase(r)'
    BY <1>1, <1>2, <1>3, NotifyAssumption DEF HasItsPhase, SendPhase, TypeOK, Times
  <2>3. QED
    BY <2>1, <2>2 DEF KindsHavePhases
<1>5. IdsAreMinted'
  <2>1. Issued \subseteq Issued'
    BY <1>1 DEF Issued, In
  <2>2. \A s \in Requests \ {r} : request'[s].kind = "ready" => request'[s].id \in Issued'
    BY <1>1, <2>1 DEF IdsAreMinted
  <2>3. \A s \in Requests \ {r} :
            kind = "ticket" /\ request'[s].kind = "ticket" => request'[s].id # id
    BY <1>1 DEF Minted
  <2>4. QED
    BY <1>1, <2>1, <2>2, <2>3 DEF IdsAreMinted
<1>6. ASSUME NEW i \in Ids, NEW s \in Ready(i)', request'[s].phase # "asked"
      PROVE  s # r /\ s \in Ready(i) /\ request'[s] = request[s]
  BY <1>1, <1>6 DEF Ready
<1>7. \A i \in Ids : Holding(i)' = Holding(i)
  BY <1>1 DEF Holding, In, SendPhase
<1>8. RedeemedIsGone'
  BY <1>1, <1>6 DEF RedeemedIsGone, Past
<1>9. TakersAreShared'
  BY <1>1, <1>6, <1>7 DEF TakersAreShared, TookUp, Past
<1>10. SentWasFresh'
  BY <1>6 DEF SentWasFresh
<1>11. OneMailUnlessShared' /\ MailedWhileFresh'
  BY <1>4, <1>9, <1>10, MailedIsPastNext
<1>12. NothingIsRelayed'
  <2>1. \A s \in mailed' : request'[s].bearer = request[s].bearer /\ s \in mailed
    BY <1>1, <1>2 DEF TypeOK
  <2>2. QED
    BY <1>1, <2>1 DEF NothingIsRelayed
<1>13. QED
  BY <1>4, <1>5, <1>8, <1>9, <1>10, <1>11, <1>12

\* A ticket is put: nobody can have redeemed an id that was not issued.
LEMMA PutTicketStep ==
    ASSUME IInv, TypeOK', NEW r \in Requests, PutTicket(r)
    PROVE  IInv'
<1> USE DEF IInv
<1> DEFINE i == request[r].id
<1>1. /\ request[r].phase = "minting" /\ request[r].alive
      /\ Move(r, "stored")
      /\ UNCHANGED <<held, emailBound, now, mailed, shared>>
  BY DEF PutTicket, In
<1>2. HasItsPhase(r) /\ request[r].kind \in Kinds
  BY DEF KindsHavePhases, TypeOK, Request
<1>3. request[r].kind = "ticket" /\ i \in Ids /\ r \notin mailed /\ request[r].bearer \in held
  BY <1>1, <1>2 DEF HasItsPhase, Kinds, Past
<1>4. /\ request'[r] = [request[r] EXCEPT !.phase = "stored"]
      /\ \A s \in Requests \ {r} : request'[s] = request[s]
  BY <1>1 DEF Move, TypeOK
<1>5. /\ request'[r].kind = "ticket" /\ request'[r].phase = "stored" /\ request'[r].id = i
      /\ request'[r].bearer = request[r].bearer
  BY <1>3, <1>4 DEF TypeOK, Request
<1>6. \A k \in Ids \ {i} : tickets'[k] = tickets[k]
  BY DEF PutTicket, TypeOK
<1>7. i \notin Issued
  BY <1>1, <1>3 DEF Issued, In, IdsAreMinted, KindsHavePhases, HasItsPhase, Past, TypeOK, Request, Kinds
<1>8. KindsHavePhases'
  BY <1>1, <1>3, KindsStep DEF Phases
<1>9. IdsAreMinted'
  <2>1. Issued \subseteq Issued'
    BY <1>1, <1>4 DEF Issued, In
  <2>2. \A s \in Requests :
            request'[s].kind = request[s].kind /\ request'[s].id = request[s].id
    BY <1>3, <1>4, <1>5
  <2>3. QED
    BY <2>1, <2>2 DEF IdsAreMinted
<1>10. \A k \in Ids : Ready(k)' = Ready(k) /\ Holding(k)' = Holding(k)
  BY <1>1, <1>3, <1>4, <1>5 DEF Ready, Holding, In
<1>11. Ready(i) = {}
  BY <1>7 DEF Ready, IdsAreMinted
<1>12. \A k \in Ids : \A s \in Ready(k) : s # r /\ request'[s] = request[s]
  BY <1>3, <1>4 DEF Ready
<1>13. RedeemedIsGone'
  BY <1>6, <1>10, <1>11, <1>12 DEF RedeemedIsGone
<1>14. TakersAreShared'
  BY <1>1, <1>10, <1>12 DEF TakersAreShared, TookUp
<1>15. SentWasFresh'
  BY <1>10, <1>12 DEF SentWasFresh
<1>16. NothingIsRelayed'
  <2>1. \A s \in mailed' : request'[s].bearer = request[s].bearer /\ s \in mailed
    BY <1>1, <1>3, <1>4 DEF TypeOK
  <2>2. held' # {}
    BY <1>1, <1>3
  <2>3. QED
    BY <1>1, <2>1, <2>2 DEF NothingIsRelayed
<1>17. QED
  BY <1>8, <1>9, <1>13, <1>14, <1>15, <1>16, MailedIsPastNext

\* A redemption reads its ticket: it is alone with it, or the ticket is shared.
LEMMA ReadTicketStep ==
    ASSUME IInv, TypeOK', NEW r \in Requests, ReadTicket(r)
    PROVE  IInv'
<1> USE DEF IInv
<1> DEFINE i == request[r].id
<1>1. /\ request[r].phase = "asked" /\ tickets[i] # NoTicket
      /\ request' = [request EXCEPT ![r] = [@ EXCEPT !.phase = "read", !.ticket = tickets[i]]]
      /\ shared' = IF Holding(i) = {} THEN shared ELSE shared \cup {i}
      /\ UNCHANGED <<held, emailBound, now, tickets, mailed>>
  BY DEF ReadTicket, In
<1>2. HasItsPhase(r) /\ request[r].kind \in Kinds
  BY DEF KindsHavePhases, TypeOK, Request
<1>3. request[r].kind = "ready" /\ i \in Ids /\ r \notin mailed /\ request[r].bearer \in held
  BY <1>1, <1>2 DEF HasItsPhase, Kinds
<1>4. /\ request'[r].kind = "ready" /\ request'[r].phase = "read" /\ request'[r].id = i
      /\ request'[r].bearer = request[r].bearer /\ request'[r].began = request[r].began
      /\ \A s \in Requests \ {r} : request'[s] = request[s]
  BY <1>1, <1>3 DEF TypeOK, Request
<1>5. KindsHavePhases'
  <2>1. \A s \in Requests \ {r} : HasItsPhase(s)'
    BY <1>1, <1>4 DEF KindsHavePhases, HasItsPhase
  <2>2. HasItsPhase(r)'
    BY <1>1, <1>2, <1>3, <1>4 DEF HasItsPhase
  <2>3. QED
    BY <2>1, <2>2 DEF KindsHavePhases
<1>6. IdsAreMinted'
  <2>1. Issued \subseteq Issued'
    BY <1>1, <1>4 DEF Issued, In
  <2>2. QED
    BY <1>3, <1>4, <2>1 DEF IdsAreMinted
<1>7. \A k \in Ids : Ready(k)' = Ready(k)
  BY <1>3, <1>4 DEF Ready
<1>8. \A k \in Ids : \A s \in Ready(k) : request'[s].phase \in Past =>
          s # r /\ request'[s] = request[s]
  BY <1>4 DEF Ready, Past
<1>9. RedeemedIsGone'
  BY <1>1, <1>7, <1>8 DEF RedeemedIsGone
<1>10. TakersAreShared'
  <2> SUFFICES ASSUME NEW k \in Ids, k \notin shared',
                      NEW s \in TookUp(k)', NEW t \in TookUp(k)'
               PROVE  s = t
    BY DEF TakersAreShared
  <2>1. k \notin shared
    BY <1>1
  <2>2. ASSUME NEW u \in TookUp(k)', u # r
        PROVE  u \in TookUp(k)
    <3>1. CASE u \in Holding(k)'
      BY <2>2, <3>1, <1>4 DEF TookUp, Holding, In
    <3>2. CASE u \in Ready(k)' /\ request'[u].phase \in Past
      BY <2>2, <3>2, <1>4, <1>7 DEF TookUp, Ready
    <3>3. QED
      BY <2>2, <3>1, <3>2 DEF TookUp
  <2>3. CASE k # i
    <3>1. s # r /\ t # r
      BY <2>3, <1>4 DEF TookUp, Holding, Ready
    <3>2. QED
      BY <2>1, <2>2, <3>1 DEF TakersAreShared
  <2>4. CASE k = i
    <3>1. Holding(i) = {}
      BY <2>4, <1>1
    <3>2. \A u \in Ready(i) : request[u].phase \notin Past
      BY <1>1, <1>3 DEF RedeemedIsGone
    <3>3. TookUp(i) = {}
      BY <3>1, <3>2 DEF TookUp
    <3>4. QED
      BY <2>2, <2>4, <3>3
  <2>5. QED
    BY <2>3, <2>4
<1>11. SentWasFresh'
  BY <1>7, <1>8 DEF SentWasFresh, Past
<1>12. NothingIsRelayed'
  <2>1. \A s \in mailed' : request'[s].bearer = request[s].bearer /\ s \in mailed
    BY <1>1, <1>3, <1>4 DEF TypeOK
  <2>2. QED
    BY <1>1, <2>1 DEF NothingIsRelayed
<1>13. QED
  BY <1>5, <1>6, <1>9, <1>10, <1>11, <1>12, MailedIsPastNext

\* A redemption deletes its ticket: it had it in hand already.
LEMMA DeleteTicketStep ==
    ASSUME IInv, TypeOK', NEW r \in Requests, DeleteTicket(r)
    PROVE  IInv'
<1> USE DEF IInv
<1> DEFINE i == request[r].id
<1>1. /\ request[r].phase = "read" /\ request[r].alive
      /\ Move(r, "spent")
      /\ tickets' = [tickets EXCEPT ![i] = NoTicket]
      /\ UNCHANGED <<held, emailBound, now, mailed, shared>>
  BY DEF DeleteTicket, Without, In
<1>2. HasItsPhase(r) /\ request[r].kind \in Kinds
  BY DEF KindsHavePhases, TypeOK, Request
<1>3. request[r].kind = "ready" /\ i \in Ids /\ r \notin mailed
  BY <1>1, <1>2 DEF HasItsPhase, Kinds
<1>4. /\ request'[r] = [request[r] EXCEPT !.phase = "spent"]
      /\ \A s \in Requests \ {r} : request'[s] = request[s]
  BY <1>1 DEF Move, TypeOK
<1>5. /\ request'[r].kind = "ready" /\ request'[r].phase = "spent" /\ request'[r].id = i
      /\ request'[r].bearer = request[r].bearer
  BY <1>3, <1>4 DEF TypeOK, Request
<1>6. KindsHavePhases'
  BY <1>1, <1>3, KindsStep DEF Phases, Past
<1>7. IdsAreMinted'
  <2>1. Issued \subseteq Issued'
    BY <1>1, <1>4 DEF Issued, In
  <2>2. \A s \in Requests :
            request'[s].kind = request[s].kind /\ request'[s].id = request[s].id
    BY <1>3, <1>4, <1>5
  <2>3. QED
    BY <2>1, <2>2 DEF IdsAreMinted
<1>8. \A k \in Ids : Ready(k)' = Ready(k)
  <2>1. \A s \in Requests :
            request'[s].kind = request[s].kind /\ request'[s].id = request[s].id
    BY <1>3, <1>4, <1>5
  <2>2. QED
    BY <2>1 DEF Ready
<1>9. RedeemedIsGone'
  <2> SUFFICES ASSUME NEW k \in Ids, NEW s \in Ready(k), request'[s].phase \in Past
               PROVE  tickets'[k] = NoTicket
    BY <1>8 DEF RedeemedIsGone
  <2>1. CASE k = i
    BY <2>1, <1>1 DEF TypeOK
  <2>2. CASE k # i
    <3>1. s # r
      BY <2>2 DEF Ready
    <3>2. request[s].phase \in Past
      BY <3>1, <1>4 DEF Ready
    <3>3. tickets[k] = NoTicket
      BY <3>2 DEF RedeemedIsGone
    <3>4. QED
      BY <2>2, <3>3, <1>1 DEF TypeOK
  <2>3. QED
    BY <2>1, <2>2
<1>10. ASSUME NEW k \in Ids, NEW s \in TookUp(k)'
       PROVE  s \in TookUp(k)
  <2>1. CASE s = r
    <3>1. k = i
      BY <2>1, <1>5, <1>10 DEF TookUp, Holding, Ready
    <3>2. QED
      BY <2>1, <3>1, <1>1 DEF TookUp, Holding, In
  <2>2. CASE s # r
    <3>1. CASE s \in Holding(k)'
      BY <2>2, <3>1, <1>4 DEF TookUp, Holding, In
    <3>2. CASE s \in Ready(k)' /\ request'[s].phase \in Past
      BY <2>2, <3>2, <1>4, <1>8 DEF TookUp, Ready
    <3>3. QED
      BY <3>1, <3>2, <1>10 DEF TookUp
  <2>3. QED
    BY <2>1, <2>2
<1>11. TakersAreShared'
  BY <1>1, <1>10 DEF TakersAreShared
<1>12. SentWasFresh'
  <2>1. \A s \in Requests : request'[s].phase \in Sent => request'[s] = request[s]
    BY <1>4, <1>5 DEF Sent
  <2>2. QED
    BY <1>8, <2>1 DEF SentWasFresh, Ready, Sent
<1>13. NothingIsRelayed'
  <2>1. \A s \in mailed' : request'[s].bearer = request[s].bearer /\ s \in mailed
    BY <1>1, <1>3, <1>4 DEF TypeOK
  <2>2. \A k \in Ids : tickets[k] = NoTicket => tickets'[k] = NoTicket
    BY <1>1 DEF TypeOK
  <2>3. QED
    BY <1>1, <2>1, <2>2 DEF NothingIsRelayed
<1>14. QED
  BY <1>6, <1>7, <1>9, <1>11, <1>12, <1>13, MailedIsPastNext

LEMMA NextIInv == IInv /\ [Next]_vars => IInv'
<1> SUFFICES ASSUME IInv, [Next]_vars
             PROVE  IInv'
  OBVIOUS
<1> TypeOK /\ TypeOK'
  BY NextTypeOK DEF IInv
<1>1. ASSUME NEW r \in Requests, NotifyRoute(r)
      PROVE  IInv'
  <2> HasItsPhase(r) /\ request[r].kind \in Kinds
    BY DEF IInv, KindsHavePhases, TypeOK, Request
  <2>1. CASE Direct(r) \/ Mint(r) \/ Redeem(r)
    <3>1. SendPhase \in Phases
      BY DEF SendPhase, Phases
    <3>2. Issued \subseteq Ids \cup {NoId}
      BY DEF Issued, TypeOK, Request
    <3>3. QED
      BY <2>1, <3>1, <3>2, AdmitStep DEF Direct, Mint, Redeem, Kinds, Phases
  <2>2. CASE Refuse(r)
    BY <2>2, QuietMove DEF Refuse, In, HasItsPhase, Phases, Past, Sent
  <2>3. CASE Issue(r)
    BY <2>3, QuietMove DEF Issue, In, HasItsPhase, Kinds, Phases, Past, Sent
  <2>4. CASE Missing(r)
    BY <2>4, QuietMove DEF Missing, In, HasItsPhase, Kinds, Phases, Past, Sent
  <2>5. CASE Expire(r)
    BY <2>5, QuietMove DEF Expire, In, HasItsPhase, Kinds, Phases, Past, Sent
  <2>6. CASE Send(r)
    <3>1. request[r].kind = "ready" /\ r \notin mailed
      BY <2>6 DEF Send, In, HasItsPhase, Kinds
    <3>2. request[r].began \in Int /\ request[r].began <= now /\ now \in Int
      BY DEF HasItsPhase, TypeOK, Request, Times
    <3>3. request[r].ticket.createdAt \in Int
      BY DEF TypeOK, Request, Tickets, NoTicket, Times
    <3>4. request[r].began - request[r].ticket.createdAt < TTL
      BY <2>6, <3>2, <3>3, NotifyAssumption DEF Send, IsFresh
    <3>5. QED
      BY <2>6, <3>1, <3>4, QuietMove DEF Send, In, SendPhase, Phases, Past, Sent
  <2>7. CASE Accepted(r) \/ Failed(r)
    BY <2>7, QuietMove DEF Accepted, Failed, In, HasItsPhase, Kinds, Phases, Past, Sent
  <2>8. CASE Accept(r)
    <3>1. request[r].phase = "sending" /\ mailed' = mailed \cup {r}
      BY <2>8 DEF Accept, In
    <3>2. UNCHANGED <<held, emailBound, now, tickets, request, shared>>
      BY <2>8 DEF Accept
    <3>3. KindsHavePhases'
      BY <3>1, <3>2 DEF IInv, KindsHavePhases, HasItsPhase
    <3>4. TakersAreShared' /\ SentWasFresh' /\ IdsAreMinted' /\ RedeemedIsGone'
      BY <3>2 DEF IInv, TakersAreShared, SentWasFresh, IdsAreMinted, RedeemedIsGone,
                  TookUp, Holding, In, Ready, Issued
    <3>5. NothingIsRelayed'
      BY <3>1, <3>2 DEF IInv, NothingIsRelayed, HasItsPhase
    <3>6. QED
      BY <3>3, <3>4, <3>5, MailedIsPastNext DEF IInv
  <2>9. CASE Die(r)
    <3>1. /\ request'[r] = [request[r] EXCEPT !.alive = FALSE]
          /\ \A s \in Requests \ {r} : request'[s] = request[s]
          /\ request[r].phase # "issued"
          /\ UNCHANGED <<held, emailBound, now, tickets, mailed, shared>>
      BY <2>9 DEF Die, TypeOK
    <3>2. /\ request'[r].kind = request[r].kind /\ request'[r].id = request[r].id
          /\ request'[r].bearer = request[r].bearer /\ request'[r].began = request[r].began
          /\ request'[r].ticket = request[r].ticket /\ request'[r].phase = request[r].phase
          /\ ~request'[r].alive
      BY <3>1 DEF TypeOK, Request
    <3>3. KindsHavePhases'
      <4>1. \A s \in Requests \ {r} : HasItsPhase(s)'
        BY <3>1 DEF IInv, KindsHavePhases, HasItsPhase
      <4>2. HasItsPhase(r)'
        BY <3>1, <3>2 DEF HasItsPhase
      <4>3. QED
        BY <4>1, <4>2 DEF KindsHavePhases
    <3>4. QED
      BY <3>1, <3>2, <3>3, QuietStep DEF In
  <2>10. QED
    BY <1>1, <2>1, <2>2, <2>3, <2>4, <2>5, <2>6, <2>7, <2>8, <2>9,
       PutTicketStep, ReadTicketStep, DeleteTicketStep
       DEF NotifyRoute, TicketRoute, ReadyRoute, Sending
<1>2. CASE Tick
  <2>1. /\ now' = now + 1 /\ now \in Int
        /\ UNCHANGED <<held, emailBound, tickets, request, mailed, shared>>
    BY <1>2 DEF Tick, TypeOK, Times
  <2>2. \A r \in Requests : request[r].began \in Int
    BY DEF TypeOK, Request, Times
  <2>3. KindsHavePhases'
    BY <2>1, <2>2 DEF IInv, KindsHavePhases, HasItsPhase
  <2>4. QED
    BY <2>1, <2>3
       DEF IInv, TakersAreShared, SentWasFresh, IdsAreMinted, RedeemedIsGone,
           OneMailUnlessShared, MailedWhileFresh, NothingIsRelayed,
           TookUp, Holding, In, Ready, Issued
<1>3. CASE UNCHANGED vars
  BY <1>3
     DEF vars, IInv, KindsHavePhases, HasItsPhase, TakersAreShared, SentWasFresh,
         IdsAreMinted, RedeemedIsGone, OneMailUnlessShared, MailedWhileFresh,
         NothingIsRelayed, TookUp, Holding, In, Ready, Issued
<1>4. QED
  BY <1>1, <1>2, <1>3 DEF Next

(* The strengthening is inductive: ids are minted once and redeemed after  *)
(* that, and whoever has taken a ticket up is alone unless it is shared.   *)
THEOREM Invariance == Spec => []IInv
BY InitIInv, NextIInv, PTL DEF Spec

(* Every variable keeps its type, for any requests, ids, secrets and TTL.  *)
THEOREM TypeCorrect == Spec => []TypeOK
<1>1. IInv => TypeOK
  BY DEF IInv
<1>2. QED
  BY <1>1, Invariance, PTL

(* A redeemed ticket is gone, however its redemption goes on.              *)
THEOREM RedeemedTicketsAreGone == Spec => []RedeemedIsGone
<1>1. IInv => RedeemedIsGone
  BY DEF IInv
<1>2. QED
  BY <1>1, Invariance, PTL

(* A ticket that no two redemptions had in hand at once mails once at most. *)
THEOREM TicketsMailOnce == Spec => []OneMailUnlessShared
<1>1. IInv => OneMailUnlessShared
  BY DEF IInv
<1>2. QED
  BY <1>1, Invariance, PTL

(* No expired ticket mails anybody, for any TTL.                           *)
THEOREM TicketsMailWhileFresh == Spec => []MailedWhileFresh
<1>1. IInv => MailedWhileFresh
  BY DEF IInv
<1>2. QED
  BY <1>1, Invariance, PTL

(* Without a secret presented that the deployment has, nothing is sent and *)
(* nothing is held.                                                        *)
THEOREM NotifyFailsClosed == Spec => []NothingIsRelayed
<1>1. IInv => NothingIsRelayed
  BY DEF IInv
<1>2. QED
  BY <1>1, Invariance, PTL
=============================================================================
