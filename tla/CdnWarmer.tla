----------------------------- MODULE CdnWarmer -----------------------------
(***************************************************************************)
(* The CDN warmer, api/_cdn-warmer/src/warmer.ts: a tick HEADs the outputs *)
(* of finished renders, the canonical list and what the hit predictor      *)
(* names, at most MAX_JOBS_PER_TICK of them, CONCURRENCY at a time, and    *)
(* skips what was warmed within HYSTERESIS_MS.                             *)
(*                                                                         *)
(* Three KV namespaces are shared without locks by the cron tick, by       *)
(* GET /warm-now, and by the posts that record renders.  Writes ride       *)
(* ctx.waitUntil: they land after the step that issued them, or never.     *)
(* KV is taken at its best (a landed write is read by everyone), and its   *)
(* TTLs (24 hours, 7 days) as longer than what is modelled.  Time is       *)
(* counted in steps of the clock, as what is left of the hysteresis.       *)
(***************************************************************************)
EXTENDS Integers, FiniteSets, Sequences

CONSTANTS
    Entries,        \* (id, kind) pairs that can be warmed
    NoEntry,        \* no output
    DeriveCount,    \* how many derive keys there are
    Canonical,      \* CANONICAL.json, a sequence of entries
    Popular,        \* the entries the hit predictor may name
    Unreachable,    \* the entries whose HEAD never succeeds
    Reported,       \* the statuses that POST /derive-result brings
    Ticks,          \* the runs that may overlap: the cron's and /warm-now's
    Cron,           \* the one the cron trigger starts
    MaxJobs,        \* MAX_JOBS_PER_TICK
    Concurrency,    \* CONCURRENCY
    Hysteresis,     \* HYSTERESIS_MS
    MaxPosts,       \* bound on the posts received
    MaxFaults       \* bound on failed HEADs, lost writes and aborted ticks

ASSUME WarmerAssumption ==
    /\ NoEntry \notin Entries
    /\ DeriveCount \in Nat
    /\ Canonical \in Seq(Entries)
    /\ Popular \subseteq Entries /\ IsFiniteSet(Popular)
    /\ Unreachable \subseteq Entries
    /\ Reported \subseteq {"queued", "rendering", "done", "failed"}
    /\ Cron \in Ticks
    /\ MaxJobs \in Nat \ {0} /\ Concurrency \in Nat \ {0} /\ Hysteresis \in Nat \ {0}
    /\ MaxPosts \in Nat /\ MaxFaults \in Nat

Derives == 1 .. DeriveCount     \* the derive keys, in the order of a listing

Statuses == {"absent", "requested", "queued", "rendering", "done", "failed", "warmed"}

Record == [status : Statuses, output : Entries \cup {NoEntry}]

NoRecord == [status |-> "absent", output |-> NoEntry]

DerivePut == [key : Derives, record : Record]

Left == 0 .. Hysteresis         \* what is left of the hysteresis of an entry

WarmPut == [entry : Entries, left : Left]

Tick == [phase : {"idle", "reading", "warming"},
         unread : SUBSET Derives,
         found : Seq([key : Derives, entry : Entries]),
         queue : Seq(Entries),
         checking : SUBSET Entries,
         heading : SUBSET Entries]

NoTick == [phase |-> "idle", unread |-> {}, found |-> <<>>, queue |-> <<>>,
           checking |-> {}, heading |-> {}]

VARIABLES
    derive,         \* DERIVE_LOG
    derivePuts,     \* writes to it under way
    marks,          \* markDeriveWarmed calls that have not read yet
    warmLog,        \* WARM_LOG
    warmPuts,       \* writes to it under way
    tick,           \* the state of each run
    posts,          \* posts received so far
    faults,         \* faults so far
    served,         \* history: the entries some HEAD succeeded for
    recent,         \* history: what is left since the last such HEAD
    orderly,        \* history: no tick yet met another, or a write under way
    raced           \* history: the derives written while being warmed

store == <<derive, derivePuts, marks>>
log == <<warmLog, warmPuts>>
bounds == <<posts, faults>>
history == <<served, recent, orderly, raced>>
vars == <<store, log, tick, bounds, history>>

TypeOK ==
    /\ derive \in [Derives -> Record]
    /\ derivePuts \subseteq DerivePut
    /\ marks \subseteq Derives
    /\ warmLog \in [Entries -> Left]
    /\ warmPuts \subseteq WarmPut
    /\ tick \in [Ticks -> Tick]
    /\ posts \in 0 .. MaxPosts /\ faults \in 0 .. MaxFaults
    /\ served \subseteq Entries
    /\ recent \in [Entries -> Left]
    /\ orderly \in BOOLEAN
    /\ raced \subseteq Derives

Init ==
    /\ derive = [d \in Derives |-> NoRecord]
    /\ derivePuts = {} /\ marks = {}
    /\ warmLog = [e \in Entries |-> 0] /\ warmPuts = {}
    /\ tick = [t \in Ticks |-> NoTick]
    /\ posts = 0 /\ faults = 0
    /\ served = {} /\ recent = [e \in Entries |-> 0]
    /\ orderly = TRUE /\ raced = {}

-----------------------------------------------------------------------------
(* The posts that record a render.                                         *)

\* A post acknowledges at once; its write is left under way.
Post(d, record) ==
    /\ posts < MaxPosts
    /\ posts' = posts + 1
    /\ derivePuts' = derivePuts \cup {[key |-> d, record |-> record]}
    /\ UNCHANGED <<derive, marks, log, tick, faults, history>>

\* POST /derive-variant starts over, whatever there was.
DeriveVariant(d) == Post(d, [status |-> "requested", output |-> NoEntry])

\* POST /derive-result: 404 without a record, and any status at any time.
DeriveResult(d, status, output) ==
    /\ derive[d] # NoRecord
    /\ Post(d, [status |-> status,
                output |-> IF output # NoEntry THEN output ELSE derive[d].output])

\* Has some run read d as done, and not yet stamped it?
Claimed(d) ==
    \/ d \in marks
    \/ \E t \in Ticks : \E i \in DOMAIN tick[t].found : tick[t].found[i].key = d

LandDerive(x) ==
    /\ x \in derivePuts
    /\ derivePuts' = derivePuts \ {x}
    /\ derive' = [derive EXCEPT ![x.key] = x.record]
    /\ raced' = IF x.record.status # "warmed" /\ Claimed(x.key)
                  THEN raced \cup {x.key} ELSE raced
    /\ UNCHANGED <<marks, log, tick, bounds, served, recent, orderly>>

\* markDeriveWarmed reads the record again, and stamps what it finds.
MarkDeriveWarmed(d) ==
    /\ d \in marks
    /\ marks' = marks \ {d}
    /\ derivePuts' = IF derive[d] = NoRecord THEN derivePuts
                     ELSE derivePuts \cup
                          {[key |-> d, record |-> [derive[d] EXCEPT !.status = "warmed"]]}
    /\ UNCHANGED <<derive, log, tick, bounds, history>>

-----------------------------------------------------------------------------
(* One run of runPredictAndWarm.                                           *)

\* The listing of DERIVE_LOG.
Start(t) ==
    /\ tick[t].phase = "idle"
    /\ tick' = [tick EXCEPT ![t] = [NoTick EXCEPT !.phase = "reading",
                                        !.unread = {d \in Derives : derive[d] # NoRecord}]]
    /\ orderly' = (orderly /\ warmPuts = {} /\ \A u \in Ticks \ {t} : tick[u].phase = "idle")
    /\ UNCHANGED <<store, log, bounds, served, recent, raced>>

Pending(record) == record.status = "done" /\ record.output # NoEntry

\* pendingDeriveWarms reads the records one after another.
ReadDerive(t) ==
    /\ tick[t].phase = "reading" /\ tick[t].unread # {}
    /\ LET d == CHOOSE d \in tick[t].unread : \A c \in tick[t].unread : d <= c
           seen == IF Pending(derive[d]) THEN <<[key |-> d, entry |-> derive[d].output]>>
                                         ELSE <<>>
       IN  tick' = [tick EXCEPT ![t].unread = @ \ {d}, ![t].found = @ \o seen]
    /\ UNCHANGED <<store, log, bounds, history>>

\* Mutant: the first MaxJobs entries, repeated or not.
CutRepeated(seq) == SubSeq(seq, 1, IF Len(seq) < MaxJobs THEN Len(seq) ELSE MaxJobs)

\* The first MaxJobs different entries of a sequence, in its order.
Cut(seq) ==
    LET firsts == {i \in DOMAIN seq : \A j \in 1 .. i - 1 : seq[j] # seq[i]}
        Place(i) == Cardinality({j \in firsts : j <= i})
    IN  [k \in {Place(i) : i \in firsts} \cap 1 .. MaxJobs |->
            seq[CHOOSE i \in firsts : Place(i) = k]]

Outputs(found) == [i \in DOMAIN found |-> found[i].entry]

\* Derives first, then the canonical list, then the predictions, best first.
Queue(found, hits) == Cut(Outputs(found) \o Canonical \o hits)

Predictions == UNION {[1 .. n -> Popular] : n \in 0 .. Cardinality(Popular)}

BuildQueue(t) ==
    /\ tick[t].phase = "reading" /\ tick[t].unread = {}
    /\ \E hits \in Predictions :
           tick' = [tick EXCEPT ![t].phase = "warming",
                                ![t].queue = Queue(tick[t].found, hits)]
    /\ UNCHANGED <<store, log, bounds, history>>

\* A worker shifts an entry and asks WARM_LOG for it.
Take(t) ==
    /\ tick[t].queue # <<>>
    /\ Cardinality(tick[t].checking) + Cardinality(tick[t].heading) < Concurrency
    /\ tick' = [tick EXCEPT ![t].queue = Tail(@), ![t].checking = @ \cup {Head(tick[t].queue)}]
    /\ UNCHANGED <<store, log, bounds, history>>

\* Mutant: an entry once warmed is skipped for as long as its log lives.
ShouldSkipLogged(e) == e \in served

ShouldSkip(e) == warmLog[e] > 0

Skip(t, e) ==
    /\ e \in tick[t].checking
    /\ ShouldSkip(e)
    /\ tick' = [tick EXCEPT ![t].checking = @ \ {e}]
    /\ UNCHANGED <<store, log, bounds, history>>

StartHead(t, e) ==
    /\ e \in tick[t].checking
    /\ ~ShouldSkip(e)
    /\ tick' = [tick EXCEPT ![t].checking = @ \ {e}, ![t].heading = @ \cup {e}]
    /\ UNCHANGED <<store, log, bounds, history>>

\* Mutant: queues the canonical list first, and keeps no key for what it names.
StampedAfterCanonical(found, e) ==
    {found[i].key : i \in {i \in DOMAIN found :
        found[i].entry = e /\ \A j \in DOMAIN Canonical : Canonical[j] # e}}

\* The key a run stamps for an entry: the first that named it.
Stamped(found, e) ==
    {found[i].key : i \in {i \in DOMAIN found :
        found[i].entry = e /\ \A j \in 1 .. i - 1 : found[j].entry # e}}

Warm(t, e) ==
    /\ e \in tick[t].heading \ Unreachable
    /\ tick' = [tick EXCEPT ![t].heading = @ \ {e}]
    /\ warmPuts' = warmPuts \cup {[entry |-> e, left |-> Hysteresis]}
    /\ marks' = marks \cup Stamped(tick[t].found, e)
    /\ served' = served \cup {e}
    /\ recent' = [recent EXCEPT ![e] = Hysteresis]
    /\ UNCHANGED <<derive, derivePuts, warmLog, bounds, orderly, raced>>

Fault == faults < MaxFaults /\ faults' = faults + 1

\* Mutant: stamps the derive whether or not its HEAD succeeded.
WarmFailStamps(t, e) ==
    /\ e \in tick[t].heading
    /\ IF e \in Unreachable THEN UNCHANGED faults ELSE Fault
    /\ tick' = [tick EXCEPT ![t].heading = @ \ {e}]
    /\ marks' = marks \cup Stamped(tick[t].found, e)
    /\ UNCHANGED <<derive, derivePuts, log, posts, history>>

\* A HEAD that throws, or answers 4xx or 5xx.
WarmFail(t, e) ==
    /\ e \in tick[t].heading
    /\ IF e \in Unreachable THEN UNCHANGED faults ELSE Fault
    /\ tick' = [tick EXCEPT ![t].heading = @ \ {e}]
    /\ UNCHANGED <<store, log, posts, history>>

End(t) ==
    /\ tick[t].phase = "warming"
    /\ tick[t].queue = <<>> /\ tick[t].checking \cup tick[t].heading = {}
    /\ tick' = [tick EXCEPT ![t] = NoTick]
    /\ UNCHANGED <<store, log, bounds, history>>

\* The run exceeds its limits, or one of its reads throws.
Abort(t) ==
    /\ tick[t].phase # "idle"
    /\ Fault
    /\ tick' = [tick EXCEPT ![t] = NoTick]
    /\ UNCHANGED <<store, log, posts, history>>

-----------------------------------------------------------------------------
(* Writes under way, and time.                                             *)

LandWarm(x) ==
    /\ warmPuts' = warmPuts \ {x}
    /\ warmLog' = [warmLog EXCEPT ![x.entry] = x.left]
    /\ UNCHANGED <<store, tick, bounds, history>>

LoseWarm(x) ==
    /\ Fault
    /\ warmPuts' = warmPuts \ {x}
    /\ orderly' = FALSE
    /\ UNCHANGED <<store, warmLog, tick, posts, served, recent, raced>>

LoseDerive(x) ==
    /\ Fault
    /\ derivePuts' = derivePuts \ {x}
    /\ UNCHANGED <<derive, marks, log, tick, posts, history>>

Cooled(left) == IF left > 0 THEN left - 1 ELSE 0

Elapse ==
    /\ \E e \in Entries : recent[e] > 0 \/ warmLog[e] > 0
    /\ warmLog' = [e \in Entries |-> Cooled(warmLog[e])]
    /\ warmPuts' = {[x EXCEPT !.left = Cooled(x.left)] : x \in warmPuts}
    /\ recent' = [e \in Entries |-> Cooled(recent[e])]
    /\ UNCHANGED <<store, tick, bounds, served, orderly, raced>>

Receive ==
    \E d \in Derives :
        \/ DeriveVariant(d)
        \/ \E status \in Reported, output \in Entries \cup {NoEntry} :
               DeriveResult(d, status, output)

LandDeriveOf(d) == \E x \in derivePuts : x.key = d /\ LandDerive(x)

Land ==
    \/ \E d \in Derives : LandDeriveOf(d) \/ MarkDeriveWarmed(d)
    \/ \E x \in warmPuts : LandWarm(x)

Lose ==
    \/ \E x \in warmPuts : LoseWarm(x)
    \/ \E x \in derivePuts : LoseDerive(x)

\* What a run does once started.
Run(t) ==
    \/ ReadDerive(t)
    \/ BuildQueue(t)
    \/ Take(t)
    \/ \E e \in Entries : \/ Skip(t, e)
                          \/ StartHead(t, e)
                          \/ Warm(t, e)
                          \/ WarmFail(t, e)
    \/ End(t)

Next ==
    \/ Receive
    \/ Land
    \/ Lose
    \/ Elapse
    \/ \E t \in Ticks : Start(t) \/ Run(t) \/ Abort(t)

Spec == Init /\ [][Next]_vars

(***************************************************************************)
(* The cron trigger fires every ten minutes, the runtime carries on what   *)
(* was started, and time passes.  Nothing obliges a post to come, a fault  *)
(* to happen or a write to WARM_LOG to land; faults are finitely many.     *)
(***************************************************************************)
Fairness ==
    /\ WF_vars(Start(Cron))
    /\ \A t \in Ticks : WF_vars(Run(t))
    /\ \A d \in Derives : WF_vars(LandDeriveOf(d)) /\ WF_vars(MarkDeriveWarmed(d))
    /\ WF_vars(Elapse)

FairSpec == Spec /\ Fairness

-----------------------------------------------------------------------------
(* Properties                                                              *)

(* A derive is stamped as warmed only when its output was: some HEAD of it *)
(* succeeded.  Except when a post rewrote the record while a run had it in *)
(* hand, for then the stamp lands on a record nobody warmed.               *)
WarmedIsServed ==
    \A d \in Derives \ raced :
        derive[d].status = "warmed" => derive[d].output \in served

(* As long as no run meets another run, or a write of an earlier one still *)
(* under way, nothing is warmed again within the hysteresis: the workers   *)
(* of one run share no entry, however many sources named it.               *)
OrderlyRunsKeepHysteresis ==
    orderly => \A t \in Ticks : \A e \in tick[t].heading : recent[e] = 0

(* A finished render whose output can be reached does not stay unwarmed,   *)
(* whatever writes were lost or runs aborted before, even when another     *)
(* derive has the same output and when the one before it never succeeds:   *)
(* provided that the queue has room for every entry.                       *)
DoneIsWarmed ==
    Cardinality(Entries) <= MaxJobs =>
        \A d \in Derives :
            []<>~(derive[d].status = "done" /\ derive[d].output \in Entries \ Unreachable)

(* The canonical list does not go cold: each entry that can be reached is  *)
(* warmed over and over, and neither the hysteresis of one run nor derives *)
(* that fail for ever keep the next from it.  Again while there is room.   *)
CanonicalStaysWarm ==
    Cardinality(Entries) <= MaxJobs =>
        \A i \in DOMAIN Canonical :
            Canonical[i] \notin Unreachable => []<>(recent[Canonical[i]] = Hysteresis)
=============================================================================
