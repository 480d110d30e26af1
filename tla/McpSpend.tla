------------------------------ MODULE McpSpend ------------------------------
(***************************************************************************)
(* What the MCP Worker lets a caller spend: the two per-minute windows of  *)
(* workers/mcp/src/index.mjs, the batch dispatch of protocol.mjs and the   *)
(* tool `generate` of tools.mjs.                                           *)
(*                                                                         *)
(* A window is a number in KV: a check reads it, compares it and puts it   *)
(* back plus one, three steps with no lock.  The items of one POST are     *)
(* handled concurrently.  KV is eventually consistent: a read may return   *)
(* a value already replaced.  A counter outlives its minute (its TTL is    *)
(* two), so it is never seen to expire.                                    *)
(*                                                                         *)
(* Only `generate` calls are followed: no other item of a body touches     *)
(* the windows.  A check is named by its POST and its slot: slot 0 is the  *)
(* POST's own check of the general window, the others are the generate     *)
(* calls of its body.                                                      *)
(***************************************************************************)
EXTENDS Integers, FiniteSets

CONSTANTS
    Posts,              \* authorised POSTs to /mcp
    Callers,            \* hashed caller keys
    GeneralLimit,       \* GENERAL_LIMIT
    GenerationLimit,    \* GENERATION_LIMIT
    EdgesLag,           \* may a read be behind?
    MaxBatch,           \* bound on the generate calls of one body
    MaxMinute           \* bound on the clock, in minutes

ASSUME SpendAssumption ==
    /\ GeneralLimit \in Nat /\ GenerationLimit \in Nat
    /\ EdgesLag \in BOOLEAN /\ MaxBatch \in Nat /\ MaxMinute \in Nat

Items == 1 .. MaxBatch

Checks == Posts \X (0 .. MaxBatch)

Minutes == 0 .. MaxMinute

Buckets == [kind : {"mcp", "mcp-generate"}, caller : Callers, minute : Minutes]

\* A generate call ends limited, refused (nothing was dispatched, or GitHub
\* said no), started, or in a fault of our own.
Phases == {"none", "asked", "counting", "admitted", "sent",
           "done", "limited", "refused", "started", "fault"}

Check == [phase : Phases, minute : Minutes, seen : Nat]

VARIABLES
    metered,    \* is the KV namespace RATE bound?
    minute,     \* Date.now(), in minutes
    used,       \* RATE
    edge,       \* what a read that is behind returns
    caller,     \* the caller of each POST
    check,      \* the state of each check
    queued,     \* the calls whose workflow_dispatch GitHub accepted
    admitted,   \* history: how many checks of a bucket passed
    serial      \* history: no check of it met another, or read behind

vars == <<metered, minute, used, edge, caller, check, queued, admitted, serial>>

TypeOK ==
    /\ metered \in BOOLEAN
    /\ minute \in Minutes
    /\ used \in [Buckets -> Nat]
    /\ edge \in [Buckets -> Nat]
    /\ caller \in [Posts -> Callers]
    /\ check \in [Checks -> Check]
    /\ queued \subseteq Checks
    /\ admitted \in [Buckets -> Nat]
    /\ serial \in [Buckets -> BOOLEAN]

Init ==
    /\ metered \in BOOLEAN
    /\ minute = 0
    /\ used = [b \in Buckets |-> 0]
    /\ edge = [b \in Buckets |-> 0]
    /\ caller \in [Posts -> Callers]
    /\ check = [x \in Checks |-> [phase |-> "none", minute |-> 0, seen |-> 0]]
    /\ queued = {}
    /\ admitted = [b \in Buckets |-> 0]
    /\ serial = [b \in Buckets |-> TRUE]

\* The check of a POST itself.
PostCheck(p) == <<p, 0>>

IsPost(x) == x[2] = 0

Kind(x) == IF IsPost(x) THEN "mcp" ELSE "mcp-generate"

Limit(x) == IF IsPost(x) THEN GeneralLimit ELSE GenerationLimit

BucketAt(x, m) == [kind |-> Kind(x), caller |-> caller[x[1]], minute |-> m]

Bucket(x) == BucketAt(x, check[x].minute)

Counting(b) == {x \in Checks : check[x].phase = "counting" /\ Bucket(x) = b}

-----------------------------------------------------------------------------
(* withinLimit.                                                            *)

Move(x, phase) == check' = [check EXCEPT ![x].phase = phase]

\* RATE.get of the bucket of this minute.
Readings(x) ==
    LET b == BucketAt(x, minute)
    IN  {used[b]} \cup IF EdgesLag THEN {edge[b]} ELSE {}

\* Mutant: refuses the last one of the allowance.
OverByOne(x, n) == n + 1 >= Limit(x)

\* Mutant: lets one more through.
OverLate(x, n) == n > Limit(x)

Over(x, n) == n >= Limit(x)

Refuse(x) ==
    /\ metered /\ check[x].phase = "asked"
    /\ \E n \in Readings(x) : Over(x, n)
    /\ check' = [check EXCEPT ![x] = [phase |-> "limited", minute |-> minute, seen |-> 0]]
    /\ UNCHANGED <<metered, minute, used, edge, caller, queued, admitted, serial>>

Read(x) ==
    /\ metered /\ check[x].phase = "asked"
    /\ LET b == BucketAt(x, minute)
       IN  \E n \in Readings(x) :
               /\ ~Over(x, n)
               /\ check' = [check EXCEPT ![x] =
                                [phase |-> "counting", minute |-> minute, seen |-> n]]
               /\ serial' = [serial EXCEPT ![b] = @ /\ n = used[b] /\ Counting(b) = {}]
    /\ UNCHANGED <<metered, minute, used, edge, caller, queued, admitted>>

Count(x) ==
    /\ check[x].phase = "counting"
    /\ Move(x, "admitted")
    /\ used' = [used EXCEPT ![Bucket(x)] = check[x].seen + 1]
    /\ admitted' = [admitted EXCEPT ![Bucket(x)] = @ + 1]
    /\ UNCHANGED <<metered, minute, edge, caller, queued, serial>>

\* Mutant: lets a render through where nothing counts it.
UnboundPasses(x) == "admitted"

\* With nothing to count in, a POST passes and a render does not.
Unbound(x) == IF IsPost(x) THEN "admitted" ELSE "limited"

Unmetered(x) ==
    /\ ~metered /\ check[x].phase = "asked"
    /\ Move(x, Unbound(x))
    /\ UNCHANGED <<metered, minute, used, edge, caller, queued, admitted, serial>>

-----------------------------------------------------------------------------
(* One POST, and the generate calls of its body.                           *)

Arrive(p) ==
    /\ check[PostCheck(p)].phase = "none"
    /\ Move(PostCheck(p), "asked")
    /\ UNCHANGED <<metered, minute, used, edge, caller, queued, admitted, serial>>

\* handleBody: every item of the batch is started before any is awaited.
Dispatch(p) ==
    /\ check[PostCheck(p)].phase = "admitted"
    /\ \E n \in 0 .. MaxBatch :
           check' = [x \in Checks |->
                        IF x = PostCheck(p) THEN [check[x] EXCEPT !.phase = "done"]
                        ELSE IF x[1] = p /\ x[2] <= n THEN [check[x] EXCEPT !.phase = "asked"]
                        ELSE check[x]]
    /\ UNCHANGED <<metered, minute, used, edge, caller, queued, admitted, serial>>

GenerateStep(x, from, to) ==
    /\ ~IsPost(x) /\ check[x].phase = from
    /\ Move(x, to)
    /\ UNCHANGED <<metered, minute, used, edge, caller, queued, admitted, serial>>

\* A ToolError before the dispatch: the tool is off, the brief or the run id
\* is not one, or there is no GitHub token.  The call has been counted.
Invalid(x) == GenerateStep(x, "admitted", "refused")

Send(x) == GenerateStep(x, "admitted", "sent")

\* GitHub queues the workflow.
Queue(x) ==
    /\ ~IsPost(x) /\ check[x].phase = "sent"
    /\ queued' = queued \cup {x}
    /\ UNCHANGED <<metered, minute, used, edge, caller, check, admitted, serial>>

Started(x) == x \in queued /\ GenerateStep(x, "sent", "started")

Rejected(x) == x \notin queued /\ GenerateStep(x, "sent", "refused")

\* fetch throws: before GitHub had the request, or before we had its answer.
Fault(x) == GenerateStep(x, "sent", "fault")

-----------------------------------------------------------------------------
\* A write becomes visible everywhere.
Settle(b) ==
    /\ edge[b] # used[b]
    /\ edge' = [edge EXCEPT ![b] = used[b]]
    /\ UNCHANGED <<metered, minute, used, caller, check, queued, admitted, serial>>

Tick ==
    /\ minute < MaxMinute
    /\ minute' = minute + 1
    /\ UNCHANGED <<metered, used, edge, caller, check, queued, admitted, serial>>

WithinLimit(x) == Refuse(x) \/ Read(x) \/ Count(x) \/ Unmetered(x)

Generate(x) ==
    Invalid(x) \/ Send(x) \/ Queue(x) \/ Started(x) \/ Rejected(x) \/ Fault(x)

Next ==
    \/ \E p \in Posts : Arrive(p) \/ Dispatch(p)
    \/ \E x \in Checks : WithinLimit(x) \/ Generate(x)
    \/ \E b \in Buckets : Settle(b)
    \/ Tick

Spec == Init /\ [][Next]_vars

-----------------------------------------------------------------------------
(* Properties                                                              *)

(* Nobody is refused on somebody else's account, or out of the other       *)
(* window: a check answered "rate limited" had its whole allowance, of     *)
(* that kind, that caller and that minute, let through before.  Neither    *)
(* lost counts nor stale ones turn that round.                             *)
RefusalIsEarned ==
    metered => \A x \in Checks :
        check[x].phase = "limited" => admitted[Bucket(x)] >= Limit(x)

(* The windows hold exactly as long as the checks of a bucket take turns   *)
(* and read what was last put: no allowance is then exceeded.              *)
SerialSpendIsCapped ==
    \A b \in Buckets : serial[b] =>
        admitted[b] <= IF b.kind = "mcp" THEN GeneralLimit ELSE GenerationLimit

(* Spend fails closed: with nowhere to count, no render is ever queued.    *)
UnmeteredStartsNothing == ~metered => queued = {}

-----------------------------------------------------------------------------
(* The inductive invariant behind them.                                    *)

\* Only what was let through was ever counted, whoever counted it.
CountedIsAdmitted ==
    \A b \in Buckets : used[b] <= admitted[b] /\ edge[b] <= admitted[b]

SeenIsAdmitted ==
    \A x \in Checks :
        check[x].phase = "counting" =>
            check[x].seen <= admitted[Bucket(x)] /\ check[x].seen < Limit(x)

\* While the checks of a bucket take turns its count is exact, and so is what
\* the one check under way has seen of it.
SerialIsExact ==
    \A b \in Buckets : serial[b] =>
        /\ used[b] = admitted[b]
        /\ \A x \in Counting(b) : check[x].seen = used[b]
        /\ \A x, y \in Counting(b) : x = y

\* A generate call is counted before it goes anywhere.
SpendersAreMetered ==
    \A x \in Checks :
        ~metered => /\ check[x].phase # "counting"
                    /\ ~IsPost(x) => check[x].phase \notin {"admitted", "sent"}

\* No call of a body is taken up before its POST is through.
CallsFollow ==
    \A x \in Checks :
        ~IsPost(x) /\ check[x].phase # "none" => check[PostCheck(x[1])].phase = "done"

IInv ==
    /\ TypeOK
    /\ CountedIsAdmitted /\ SeenIsAdmitted /\ SerialIsExact
    /\ SpendersAreMetered /\ CallsFollow
    /\ RefusalIsEarned /\ SerialSpendIsCapped /\ UnmeteredStartsNothing

-----------------------------------------------------------------------------
(* What the comments promise without qualification.                        *)

(* protocol.mjs tells the caller that a render is "capped per minute", and *)
(* index.mjs concedes a brief excess only to a caller "hammering several   *)
(* edge locations at once": what one POST starts within one minute stays   *)
(* within the cap.                                                         *)
OnePostIsCapped ==
    \A p \in Posts, m \in Minutes :
        Cardinality({x \in queued : x[1] = p /\ check[x].minute = m}) <= GenerationLimit
=============================================================================
