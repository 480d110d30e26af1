------------------------------ MODULE CdnHits -------------------------------
(***************************************************************************)
(* The hits the warmer predicts from: POST /record-hit, recordHit and      *)
(* predictFromHits in api/_cdn-warmer/src/warmer.ts.                       *)
(*                                                                         *)
(* Hits are counted in KV, one bucket for each entry and hour, which       *)
(* expires two hours after it was last put.  recordHit reads the bucket    *)
(* and puts it back from ctx.waitUntil, after the post was answered, so    *)
(* hits of one hour overlap and one may never land.  A run of the warmer   *)
(* lists the buckets and then reads those of the last hours one by one.    *)
(* A post may name the time of its hit, and the code takes its word.       *)
(*                                                                         *)
(* CdnWarmer takes the prediction from here as any set of entries, in any  *)
(* order.  Regions, and the refusals of a post, are left out.              *)
(***************************************************************************)
EXTENDS Integers, FiniteSets

CONSTANTS
    Ids,            \* what is hit, an id and a kind: numbered as their keys sort
    Hits,           \* the posts
    Hour,           \* moments in an hour
    Drift,          \* how far the time a post names may be off, in hours
    HitThreshold,   \* HIT_THRESHOLD
    BucketLimit,    \* the buckets of one listing: 1000 in the code
    LastMoment      \* bound on the clock

ASSUME HitsAssumption ==
    /\ Ids \subseteq Nat /\ IsFiniteSet(Hits)
    /\ Hour \in Nat \ {0} /\ Drift \in Nat
    /\ HitThreshold \in Nat \ {0} /\ BucketLimit \in Nat \ {0}
    /\ LastMoment \in Nat

VARIABLES
    moment,     \* Date.now()
    buckets,    \* <<entry, hour>> |-> what KV holds, while it does
    hit,        \* the state of each post
    predictor,  \* a run's predictFromHits
    entangled   \* history: buckets two posts held at once, or ahead of their time

hitVars == <<moment, buckets, hit, predictor, entangled>>

HourNow == moment \div Hour
Hours == -Drift .. LastMoment \div Hour + Drift

\* Mutant: as long as the lookback.
TimeOfLookback == Hour

\* HIT_LOG_TTL_SEC: two hours, and PREDICTOR_LOOKBACK_HOURS is one.
TimeToLive == 2 * Hour

\* The first hour looked at: the one an hour ago.
Cutoff == HourNow - 1

NoHit == [phase |-> "unposted", entry |-> CHOOSE e \in Ids : TRUE, hour |-> 0, seen |-> 0]

\* `due` and `whole` are history: the hits that had landed when the buckets
\* were listed, and whether the listing took them all.
Idle == [phase |-> "idle", cutoff |-> 0, left |-> {}, totals |-> [e \in Ids |-> 0],
         due |-> {}, whole |-> TRUE]

HitsInit ==
    /\ moment = 0
    /\ buckets = [k \in {} |-> [count |-> 0, expires |-> 0]]
    /\ hit = [x \in Hits |-> NoHit]
    /\ predictor = Idle
    /\ entangled = {}

KeyOf(x) == <<hit[x].entry, hit[x].hour>>

(***************************************************************************)
(* recordHit, behind the answer of the post.                               *)
(***************************************************************************)

CountIn(k) == IF k \in DOMAIN buckets THEN buckets[k].count ELSE 0

\* The get of the bucket.  A bucket that is ahead of its time may expire before
\* its hour is over.
ReadBucket(x, e, h) ==
    /\ hit[x].phase = "unposted"
    /\ h \in HourNow - Drift .. HourNow + Drift
    /\ hit' = [hit EXCEPT ![x] = [phase |-> "read", entry |-> e, hour |-> h,
                                  seen |-> CountIn(<<e, h>>)]]
    /\ entangled' = IF \/ h > HourNow
                       \/ \E y \in Hits : hit[y].phase = "read" /\ KeyOf(y) = <<e, h>>
                    THEN entangled \cup {<<e, h>>} ELSE entangled
    /\ UNCHANGED <<moment, buckets, predictor>>

Holding(k, count) ==
    [j \in DOMAIN buckets \cup {k} |->
        IF j = k THEN [count |-> count, expires |-> moment + TimeToLive] ELSE buckets[j]]

PutBucket(x) ==
    /\ hit[x].phase = "read"
    /\ buckets' = Holding(KeyOf(x), hit[x].seen + 1)
    /\ hit' = [hit EXCEPT ![x].phase = "put"]
    /\ UNCHANGED <<moment, predictor, entangled>>

\* The runtime drops what was left to ctx.waitUntil, or KV refuses it.
LoseHit(x) ==
    /\ hit[x].phase = "read"
    /\ hit' = [hit EXCEPT ![x].phase = "lost"]
    /\ UNCHANGED <<moment, buckets, predictor, entangled>>

(***************************************************************************)
(* predictFromHits.                                                        *)
(***************************************************************************)

KeyBefore(j, k) == j[1] < k[1] \/ (j[1] = k[1] /\ j[2] < k[2])

\* A listing is cut in the order of the keys.
Listed == {k \in DOMAIN buckets :
              Cardinality({j \in DOMAIN buckets : KeyBefore(j, k)}) < BucketLimit}

ListBuckets ==
    /\ predictor.phase = "idle"
    /\ predictor' = [Idle EXCEPT !.phase = "reading", !.cutoff = Cutoff,
                                 !.left = {k \in Listed : k[2] >= Cutoff},
                                 !.due = {x \in Hits : hit[x].phase = "put"},
                                 !.whole = Listed = DOMAIN buckets]
    /\ UNCHANGED <<moment, buckets, hit, entangled>>

\* The next bucket in that order; one that has expired by now counts nothing.
ReadListed(k) ==
    /\ predictor.phase = "reading" /\ k \in predictor.left
    /\ \A j \in predictor.left : ~ KeyBefore(j, k)
    /\ predictor' = [predictor EXCEPT !.left = @ \ {k}, !.totals[k[1]] = @ + CountIn(k)]
    /\ UNCHANGED <<moment, buckets, hit, entangled>>

Predicted == {e \in Ids : predictor.totals[e] >= HitThreshold}

Predict ==
    /\ predictor.phase = "reading" /\ predictor.left = {}
    /\ predictor' = Idle
    /\ UNCHANGED <<moment, buckets, hit, entangled>>

\* Time passes, and a bucket expires when its time comes.
Pass ==
    /\ moment < LastMoment
    /\ moment' = moment + 1
    /\ buckets' = [k \in {j \in DOMAIN buckets : buckets[j].expires > moment + 1} |-> buckets[k]]
    /\ UNCHANGED <<hit, predictor, entangled>>

HitsNext ==
    \/ \E x \in Hits :
        \/ \E e \in Ids, h \in Hours : ReadBucket(x, e, h)
        \/ PutBucket(x) \/ LoseHit(x)
    \/ ListBuckets \/ (\E k \in predictor.left : ReadListed(k)) \/ Predict
    \/ Pass

HitsSpec == HitsInit /\ [][HitsNext]_hitVars

-----------------------------------------------------------------------------
(***************************************************************************)
(* Property.                                                               *)
(***************************************************************************)

HitsOf(e, X, hour) == {x \in X : hit[x].entry = e /\ hit[x].hour >= hour}

\* An entry is predicted only if as many hits as it takes have landed for the
\* hours looked at, and is not passed over if as many had landed when the
\* buckets were listed, in hours still looked at when the run is through with
\* them: no bucket expires while its hour counts.  The latter where one listing
\* takes all buckets and no two posts of the entry held one at once, nor one
\* named a time to come (warmer.ts:194, :205).
PredictionIsEarned ==
    [][predictor.phase = "reading" /\ predictor'.phase = "idle" =>
        \A e \in Ids :
            LET landed == HitsOf(e, {x \in Hits : hit[x].phase = "put"}, predictor.cutoff)
                due == HitsOf(e, predictor.due, Cutoff) IN
            /\ e \in Predicted => Cardinality(landed) >= HitThreshold
            /\ /\ e \notin Predicted /\ predictor.whole
               /\ \A k \in entangled : k[1] # e
               => Cardinality(due) < HitThreshold]_hitVars
=============================================================================
