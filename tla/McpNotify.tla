------------------------------ MODULE McpNotify ------------------------------
(***************************************************************************)
(* Telling somebody that their render is ready: the /notify routes of      *)
(* workers/mcp/src/notify.mjs over the tickets of notifyTicket.mjs.        *)
(*                                                                         *)
(* /notify/ticket holds an address under a random id, /notify/ready        *)
(* redeems the id for one mail, and /notify mails an address it is given.  *)
(* Requests are concurrent and interleave at every await on the bucket and *)
(* on the mail binding; a request may die at any of them.  An address is   *)
(* identified with the ticket that holds it, and a ticket with its age.    *)
(***************************************************************************)
EXTENDS Integers

CONSTANTS
    Requests,       \* requests to /notify, /notify/ticket and /notify/ready
    Ids,            \* ticket ids
    Secrets,        \* the values NOTIFY_TOKEN, MCP_TOKEN and ROOT_SECRET may have
    NoSecret,       \* no Authorization header, or one that is not a bearer
    NoId,           \* a request without a ticket
    TTL,            \* TICKET_TTL_MS
    MaxNow          \* bound on the clock

ASSUME NotifyAssumption ==
    /\ NoSecret \notin Secrets /\ NoId \notin Ids
    /\ TTL \in Nat /\ MaxNow \in Nat

Times == 0 .. MaxNow

\* No object under the ticket's key.
NoTicket == [createdAt |-> -1]

Tickets == [createdAt : Times]

\* A request before its first await on a binding is "none"; the ones that
\* never get further are "refused".
Phases == {"none", "refused", "minting", "stored", "issued",
           "asked", "missing", "read", "spent", "expired",
           "unbound", "sending", "accepted", "failed"}

Kinds == {"direct", "ticket", "ready"}

Request == [kind : Kinds, phase : Phases, alive : BOOLEAN, id : Ids \cup {NoId},
            bearer : Secrets \cup {NoSecret}, began : Times,
            ticket : Tickets \cup {NoTicket}]

VARIABLES
    held,           \* the secrets this deployment has
    emailBound,     \* is env.EMAIL bound?
    now,            \* Date.now()
    tickets,        \* notify/tickets/ in the PROVENANCE bucket
    request,        \* the state of each request
    mailed,         \* the requests whose message the mail binding took
    shared          \* history: tickets two requests had in hand at once

vars == <<held, emailBound, now, tickets, request, mailed, shared>>

TypeOK ==
    /\ held \subseteq Secrets
    /\ emailBound \in BOOLEAN
    /\ now \in Times
    /\ tickets \in [Ids -> Tickets \cup {NoTicket}]
    /\ request \in [Requests -> Request]
    /\ mailed \subseteq Requests
    /\ shared \subseteq Ids

NoRequest == [kind |-> "direct", phase |-> "none", alive |-> TRUE, id |-> NoId,
              bearer |-> NoSecret, began |-> 0, ticket |-> NoTicket]

Init ==
    /\ held \in SUBSET Secrets
    /\ emailBound \in BOOLEAN
    /\ now = 0
    /\ tickets = [id \in Ids |-> NoTicket]
    /\ request = [r \in Requests |-> NoRequest]
    /\ mailed = {}
    /\ shared = {}

In(r, phase) == request[r].alive /\ request[r].phase = phase

Move(r, phase) == request' = [request EXCEPT ![r].phase = phase]

\* The requests that read this ticket and have not deleted it yet.
Holding(id) == {r \in Requests : In(r, "read") /\ request[r].id = id}

Minted == {request[r].id : r \in {q \in Requests : request[q].kind = "ticket"}}

\* The ids a caller was given.
Issued == {request[r].id : r \in {q \in Requests : In(q, "issued")}}

-----------------------------------------------------------------------------
(* notifyRoute.                                                            *)

\* Mutant: a header that is missing matches a secret that is not set.
BearerUnlessSet(bearer) == bearer \in held \/ (bearer = NoSecret /\ held = {})

BearerOk(bearer) == bearer \in held

\* 405, 401, 404, 400, or 503 with no secret or no bucket.
Refuse(r) ==
    /\ In(r, "none")
    /\ Move(r, "refused")
    /\ UNCHANGED <<held, emailBound, now, tickets, mailed, shared>>

Admit(r, kind, phase, id) ==
    /\ In(r, "none")
    /\ \E bearer \in Secrets \cup {NoSecret} :
           /\ BearerOk(bearer)
           /\ request' = [request EXCEPT ![r] =
                  [@ EXCEPT !.kind = kind, !.phase = phase, !.id = id,
                            !.bearer = bearer, !.began = now]]
    /\ UNCHANGED <<held, emailBound, now, tickets, mailed, shared>>

\* send, up to its await.
SendPhase == IF emailBound THEN "sending" ELSE "unbound"

Direct(r) == Admit(r, "direct", SendPhase, NoId)

-----------------------------------------------------------------------------
(* ticketRoute.                                                            *)

Mint(r) == \E id \in Ids \ Minted : Admit(r, "ticket", "minting", id)

PutTicket(r) ==
    /\ In(r, "minting")
    /\ tickets' = [tickets EXCEPT ![request[r].id] = [createdAt |-> request[r].began]]
    /\ Move(r, "stored")
    /\ UNCHANGED <<held, emailBound, now, mailed, shared>>

Issue(r) ==
    /\ In(r, "stored")
    /\ Move(r, "issued")
    /\ UNCHANGED <<held, emailBound, now, tickets, mailed, shared>>

-----------------------------------------------------------------------------
(* readyRoute.                                                             *)

Redeem(r) == \E id \in Issued : Admit(r, "ready", "asked", id)

Missing(r) ==
    /\ In(r, "asked") /\ tickets[request[r].id] = NoTicket
    /\ Move(r, "missing")
    /\ UNCHANGED <<held, emailBound, now, tickets, mailed, shared>>

ReadTicket(r) ==
    LET id == request[r].id
    IN  /\ In(r, "asked") /\ tickets[id] # NoTicket
        /\ request' = [request EXCEPT ![r] =
               [@ EXCEPT !.phase = "read", !.ticket = tickets[id]]]
        /\ shared' = IF Holding(id) = {} THEN shared ELSE shared \cup {id}
        /\ UNCHANGED <<held, emailBound, now, tickets, mailed>>

\* Mutant: never deletes.
LeaveTicket(id) == tickets

\* Mutant: asks for the age first, and leaves a ticket that has expired.
WithoutFresh(id) ==
    [tickets EXCEPT ![id] = IF now - @.createdAt < TTL THEN NoTicket ELSE @]

Without(id) == [tickets EXCEPT ![id] = NoTicket]

DeleteTicket(r) ==
    /\ In(r, "read")
    /\ tickets' = Without(request[r].id)
    /\ Move(r, "spent")
    /\ UNCHANGED <<held, emailBound, now, mailed, shared>>

\* Mutant: honours a ticket on the stroke of its expiry.
FreshOnTheStroke(ticket) == now - ticket.createdAt <= TTL

IsFresh(ticket) == now - ticket.createdAt < TTL

Expire(r) ==
    /\ In(r, "spent") /\ ~IsFresh(request[r].ticket)
    /\ Move(r, "expired")
    /\ UNCHANGED <<held, emailBound, now, tickets, mailed, shared>>

Send(r) ==
    /\ In(r, "spent") /\ IsFresh(request[r].ticket)
    /\ Move(r, SendPhase)
    /\ UNCHANGED <<held, emailBound, now, tickets, mailed, shared>>

-----------------------------------------------------------------------------
(* send, at its await and after.                                           *)

\* The mail binding takes the message.
Accept(r) ==
    /\ In(r, "sending") /\ r \notin mailed
    /\ mailed' = mailed \cup {r}
    /\ UNCHANGED <<held, emailBound, now, tickets, request, shared>>

Accepted(r) ==
    /\ In(r, "sending") /\ r \in mailed
    /\ Move(r, "accepted")
    /\ UNCHANGED <<held, emailBound, now, tickets, mailed, shared>>

\* EMAIL.send throws: it refused the message, or its answer was lost.
Failed(r) ==
    /\ In(r, "sending")
    /\ Move(r, "failed")
    /\ UNCHANGED <<held, emailBound, now, tickets, mailed, shared>>

\* A binding throws, or the Worker is gone.
Die(r) ==
    /\ request[r].alive
    /\ request[r].phase \in {"minting", "stored", "asked", "read", "spent", "sending"}
    /\ request' = [request EXCEPT ![r].alive = FALSE]
    /\ UNCHANGED <<held, emailBound, now, tickets, mailed, shared>>

Tick ==
    /\ now < MaxNow
    /\ now' = now + 1
    /\ UNCHANGED <<held, emailBound, tickets, request, mailed, shared>>

TicketRoute(r) == Mint(r) \/ PutTicket(r) \/ Issue(r)

ReadyRoute(r) ==
    Redeem(r) \/ Missing(r) \/ ReadTicket(r) \/ DeleteTicket(r) \/ Expire(r) \/ Send(r)

Sending(r) == Accept(r) \/ Accepted(r) \/ Failed(r)

NotifyRoute(r) ==
    Refuse(r) \/ Direct(r) \/ TicketRoute(r) \/ ReadyRoute(r) \/ Sending(r) \/ Die(r)

Next == (\E r \in Requests : NotifyRoute(r)) \/ Tick

Spec == Init /\ [][Next]_vars

-----------------------------------------------------------------------------
(* Properties                                                              *)

\* The phases of a redemption whose delete came back.
Past == {"spent", "expired", "unbound", "sending", "accepted", "failed"}

Ready(id) == {r \in Requests : request[r].kind = "ready" /\ request[r].id = id}

(* A ticket is gone from the bucket once any redemption of it got past its *)
(* delete, whatever happens next: an expiry, a refused message, no mail    *)
(* binding, a death.                                                       *)
RedeemedIsGone ==
    \A id \in Ids : \A r \in Ready(id) :
        request[r].phase \in Past => tickets[id] = NoTicket

(* Single use, as far as a read and a delete without a lock give it: a     *)
(* ticket mails once, unless two redemptions of it overlapped.             *)
OneMailUnlessShared ==
    \A id \in Ids \ shared : \A r, s \in Ready(id) \cap mailed : r = s

(* Nobody is mailed out of a ticket that had expired when its redemption   *)
(* arrived, however long the redemption takes.                             *)
MailedWhileFresh ==
    \A id \in Ids : \A r \in Ready(id) \cap mailed :
        request[r].began - request[r].ticket.createdAt < TTL

(* The route fails closed: every message, and every address held, came     *)
(* from a request that presented a secret the deployment has, so with none *)
(* nothing is sent and nothing is stored.                                  *)
NothingIsRelayed ==
    /\ \A r \in mailed : request[r].bearer \in held
    /\ held = {} => \A id \in Ids : tickets[id] = NoTicket

-----------------------------------------------------------------------------
(* The inductive invariant behind them.                                    *)

\* An id is minted once, and redeemed only once its ticket was put.
IdsAreMinted ==
    /\ \A r, s \in Requests :
           request[r].kind = "ticket" /\ request[s].kind = "ticket"
               /\ request[s].id = request[r].id => s = r
    /\ \A r \in Requests : request[r].kind = "ready" => request[r].id \in Issued

HasItsPhase(r) ==
    LET q == request[r] IN
    /\ q.kind = "ticket" => q.phase \in {"minting", "stored", "issued"}
    /\ q.kind = "direct" =>
           q.phase \in {"none", "refused", "unbound", "sending", "accepted", "failed"}
    /\ q.kind = "ready" => q.phase \in Past \cup {"asked", "missing", "read"}
    /\ q.kind = "direct" => q.id = NoId
    /\ q.kind # "direct" => q.id \in Ids
    /\ r \in mailed => q.phase \in {"sending", "accepted", "failed"}
    /\ q.phase \notin {"none", "refused"} => q.bearer \in held
    /\ q.began <= now

KindsHavePhases == \A r \in Requests : HasItsPhase(r)

\* The redemptions that have the address, or had it.
TookUp(id) == Holding(id) \cup {r \in Ready(id) : request[r].phase \in Past}

TakersAreShared == \A id \in Ids \ shared : \A r, s \in TookUp(id) : r = s

\* Only what was fresh goes on to be sent.
SentWasFresh ==
    \A id \in Ids : \A r \in Ready(id) :
        request[r].phase \in {"unbound", "sending", "accepted", "failed"} =>
            request[r].began - request[r].ticket.createdAt < TTL

IInv ==
    /\ TypeOK
    /\ IdsAreMinted /\ KindsHavePhases /\ TakersAreShared /\ SentWasFresh
    /\ RedeemedIsGone /\ OneMailUnlessShared /\ MailedWhileFresh /\ NothingIsRelayed
=============================================================================
