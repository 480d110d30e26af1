--------------------------- MODULE CdnWarmerProofs ---------------------------
(* Machine-checked proofs about CdnWarmer and CdnHits. *)
EXTENDS CdnWarmer, CdnHits, FiniteSetTheorems, SequenceTheorems, TLAPS

\* The entries that a run has still to do with, which no two of its workers
\* share.
HeldBy(k) == {k.queue[i] : i \in DOMAIN k.queue} \cup k.checking \cup k.heading

Shared(k) ==
    /\ k.phase # "warming" => HeldBy(k) = {}
    /\ \A i, j \in DOMAIN k.queue : k.queue[i] = k.queue[j] => i = j
    /\ \A i \in DOMAIN k.queue : k.queue[i] \notin k.checking \cup k.heading
    /\ k.checking \cap k.heading = {}

WorkIsShared == \A t \in Ticks : Shared(tick[t])

\* While all was orderly only one run is on; the log knows every HEAD but those
\* whose write is under way, and these are of entries the run is through with.
OrderKept ==
    orderly =>
        /\ \A t, u \in Ticks : tick[t].phase # "idle" /\ tick[u].phase # "idle" => t = u
        /\ \A t \in Ticks : tick[t].phase = "reading" => warmPuts = {}
        /\ \A x \in warmPuts :
               x.left = recent[x.entry] /\ \A t \in Ticks : x.entry \notin HeldBy(tick[t])
        /\ \A e \in Entries : recent[e] <= warmLog[e] \/ \E x \in warmPuts : x.entry = e
        /\ \A t \in Ticks : \A e \in tick[t].heading : recent[e] = 0

\* What a run found for a derive is what the derive still has, or was served.
FoundFollows(k) ==
    \A i \in DOMAIN k.found :
        k.found[i].key \notin raced =>
            derive[k.found[i].key].output \in served \cup {k.found[i].entry}

\* A stamp, under way or still to be put, is of an output that was served.
StampsFollow ==
    /\ \A d \in Derives \ raced : derive[d].status = "warmed" => derive[d].output \in served
    /\ \A x \in derivePuts :
           x.record.status = "warmed" /\ x.key \notin raced => x.record.output \in served
    /\ \A d \in marks \ raced : derive[d].output \in served
    /\ \A t \in Ticks : FoundFollows(tick[t])

WarmIInv == TypeOK /\ WorkIsShared /\ OrderKept /\ StampsFollow
-----------------------------------------------------------------------------
(* The queue: Cut takes different entries, and all of them from its         *)
(* sequence.                                                               *)

LEMMA UpTo ==
    \A k \in Nat : IsFiniteSet(1 .. k) /\ Cardinality(1 .. k) = k
<1> TAKE k \in Nat
<1>1. IsFiniteSet(1 .. k) /\ Cardinality(1 .. k) = IF 1 > k THEN 0 ELSE k - 1 + 1
  BY FS_Interval
<1>2. QED
  BY <1>1

\* How many of a set of numbers are up to i: without a gap, one for each.
Rank(S, i) == Cardinality({j \in S : j <= i})

LEMMA RankGrows ==
    ASSUME NEW S, S \subseteq Nat, IsFiniteSet(S)
    PROVE  /\ \A i \in S : Rank(S, i) \in 1 .. Cardinality(S)
           /\ \A i, j \in S : i < j => Rank(S, i) < Rank(S, j)
<1> DEFINE R(i) == {j \in S : j <= i}
<1>1. ASSUME NEW i \in S
      PROVE  /\ R(i) \in SUBSET S /\ i \in R(i)
             /\ IsFiniteSet(R(i)) /\ Cardinality(R(i)) \in Nat
             /\ Cardinality(R(i)) <= Cardinality(S)
             /\ Rank(S, i) = Cardinality(R(i))
  <2>1. R(i) \in SUBSET S
    OBVIOUS
  <2>2. i \in R(i)
    BY <1>1
  <2>3. QED
    BY <2>1, <2>2, FS_Subset, FS_CardinalityType DEF Rank
<1>2. ASSUME NEW i \in S
      PROVE  Rank(S, i) \in 1 .. Cardinality(S)
  <2>1. Cardinality(R(i)) # 0
    BY <1>1, <1>2, FS_EmptySet
  <2>2. Cardinality(S) \in Nat
    BY FS_CardinalityType
  <2>3. QED
    BY <1>1, <1>2, <2>1, <2>2
<1>3. ASSUME NEW i \in S, NEW j \in S, i < j
      PROVE  Rank(S, i) < Rank(S, j)
  <2>1. i \in Nat /\ j \in Nat /\ j <= j /\ ~(j <= i)
    BY <1>3
  <2>2. R(i) \in SUBSET R(j)
    <3>1. \A k \in S : k \in Nat /\ (k <= i => k <= j)
      BY <1>3, <2>1
    <3>2. QED
      BY <3>1
  <2>3. j \in R(j) /\ j \notin R(i)
    BY <2>1
  <2>4. IsFiniteSet(R(j)) /\ Cardinality(R(j)) \in Nat /\ Cardinality(R(i)) \in Nat
        /\ Rank(S, i) = Cardinality(R(i)) /\ Rank(S, j) = Cardinality(R(j))
    BY <1>1, <1>3
  <2> HIDE DEF R
  <2>5. Cardinality(R(i)) <= Cardinality(R(j)) /\ Cardinality(R(i)) # Cardinality(R(j))
    BY <2>2, <2>3, <2>4, FS_Subset
  <2>6. QED
    BY <2>4, <2>5
<1>4. QED
  BY <1>2, <1>3

LEMMA RankOnto ==
    ASSUME NEW S, S \subseteq Nat, IsFiniteSet(S)
    PROVE  {Rank(S, i) : i \in S} = 1 .. Cardinality(S)
<1> DEFINE f == [i \in S |-> Rank(S, i)]
           n == Cardinality(S)
<1>1. n \in Nat /\ IsFiniteSet(1 .. n) /\ Cardinality(1 .. n) = n
  BY FS_CardinalityType, UpTo
<1>2. f \in [S -> 1 .. n]
  BY RankGrows
<1>3. \A i, j \in S : f[i] = f[j] => i = j
  <2> SUFFICES ASSUME NEW i \in S, NEW j \in S, i # j
               PROVE  Rank(S, i) # Rank(S, j)
    OBVIOUS
  <2>1. i \in Nat /\ j \in Nat
    OBVIOUS
  <2>2. i < j \/ j < i
    BY <2>1
  <2>3. Rank(S, i) \in 1 .. n /\ Rank(S, j) \in 1 .. n
    BY RankGrows
  <2>4. i < j => Rank(S, i) < Rank(S, j)
    BY RankGrows
  <2>5. j < i => Rank(S, j) < Rank(S, i)
    BY RankGrows
  <2> HIDE DEF n
  <2>6. Rank(S, i) \in Nat /\ Rank(S, j) \in Nat
    BY <1>1, <2>3
  <2>7. QED
    BY <2>2, <2>4, <2>5, <2>6
<1>4. f \in Injection(S, 1 .. n)
  BY <1>2, <1>3 DEF Injection, IsInjective
<1>5. f \in Surjection(S, 1 .. n)
  BY <1>1, <1>4, FS_Injection
<1>6. \A k \in 1 .. n : \E i \in S : f[i] = k
  BY <1>5 DEF Surjection
<1>7. QED
  BY <1>2, <1>6

\* So a set of numbers has a least one.
LEMMA HasLeast ==
    ASSUME NEW S, S \subseteq Nat, IsFiniteSet(S), S # {}
    PROVE  \E i \in S : \A j \in S : i <= j
<1>1. Cardinality(S) \in Nat /\ Cardinality(S) # 0
  BY FS_CardinalityType, FS_EmptySet
<1>2. {Rank(S, i) : i \in S} = 1 .. Cardinality(S)
  BY RankOnto
<1>3. PICK i \in S : Rank(S, i) = 1
  <2>1. 1 \in 1 .. Cardinality(S)
    BY <1>1
  <2>2. QED
    BY <1>2, <2>1
<1>4. ASSUME NEW j \in S
      PROVE  i <= j
  <2>1. Rank(S, j) \in 1 .. Cardinality(S)
    BY RankGrows
  <2>2. j < i => Rank(S, j) < Rank(S, i)
    BY RankGrows
  <2>3. ~(j < i) /\ i \in Nat /\ j \in Nat
    BY <1>1, <1>3, <2>1, <2>2
  <2>4. QED
    BY <2>3
<1>5. QED
  BY <1>4

LEMMA CutIs ==
    ASSUME NEW seq \in Seq(Entries)
    PROVE  /\ Cut(seq) \in Seq(Entries)
           /\ \A i, j \in DOMAIN Cut(seq) : Cut(seq)[i] = Cut(seq)[j] => i = j
<1> DEFINE firsts == {i \in DOMAIN seq : \A j \in 1 .. i - 1 : seq[j] # seq[i]}
           Place(i) == Rank(firsts, i)
           D == {Place(i) : i \in firsts}
           at(k) == CHOOSE i \in firsts : Place(i) = k
           n == Cardinality(firsts)
           m == IF n < MaxJobs THEN n ELSE MaxJobs
<1>1. Len(seq) \in Nat /\ DOMAIN seq = 1 .. Len(seq) /\ seq \in [1 .. Len(seq) -> Entries]
  BY LenProperties
<1>2. firsts \in SUBSET (1 .. Len(seq)) /\ firsts \subseteq Nat
  BY <1>1
<1>3. IsFiniteSet(firsts) /\ n \in Nat
  BY <1>1, <1>2, UpTo, FS_Subset, FS_CardinalityType
<1>4. \A i, j \in firsts : seq[i] = seq[j] => i = j
  <2> SUFFICES ASSUME NEW i \in firsts, NEW j \in firsts, i < j
               PROVE  seq[i] # seq[j]
    BY <1>2
  <2>1. i \in 1 .. j - 1
    BY <1>2
  <2>2. QED
    BY <2>1
<1>5. Cut(seq) = [k \in D \cap 1 .. MaxJobs |-> seq[at(k)]]
  BY DEF Cut, Rank
<1> HIDE DEF firsts
<1>6. D = 1 .. n
  BY <1>2, <1>3, RankOnto
<1>7. \A k \in D : at(k) \in firsts /\ Place(at(k)) = k
  OBVIOUS
<1> HIDE DEF D, at, n, Place
<1>8. m \in Nat /\ D \cap 1 .. MaxJobs = 1 .. m
  BY <1>3, <1>6, WarmerAssumption
<1> HIDE DEF m
<1>9. Cut(seq) = [k \in 1 .. m |-> seq[at(k)]]
  BY <1>5, <1>8
<1>10. \A k \in 1 .. m : k \in D /\ seq[at(k)] \in Entries
  BY <1>1, <1>2, <1>7, <1>8
<1>11. Cut(seq) \in [1 .. m -> Entries]
  BY <1>9, <1>10
<1>12. Cut(seq) \in Seq(Entries)
  BY <1>8, <1>11
<1>13. ASSUME NEW i \in 1 .. m, NEW j \in 1 .. m, Cut(seq)[i] = Cut(seq)[j]
       PROVE  i = j
  BY <1>4, <1>7, <1>9, <1>10, <1>13
<1>14. QED
  BY <1>11, <1>12, <1>13

LEMMA QueueIs ==
    ASSUME NEW found \in Seq([key : Derives, entry : Entries]), NEW hits \in Predictions
    PROVE  /\ Queue(found, hits) \in Seq(Entries)
           /\ \A i, j \in DOMAIN Queue(found, hits) :
                  Queue(found, hits)[i] = Queue(found, hits)[j] => i = j
<1>1. Outputs(found) \in Seq(Entries)
  <2>1. /\ Len(found) \in Nat /\ DOMAIN found = 1 .. Len(found)
        /\ found \in [1 .. Len(found) -> [key : Derives, entry : Entries]]
    BY LenProperties
  <2>2. Outputs(found) \in [1 .. Len(found) -> Entries]
    BY <2>1 DEF Outputs
  <2>3. QED
    BY <2>1, <2>2
<1>2. hits \in Seq(Entries)
  <2>1. Cardinality(Popular) \in Nat
    BY WarmerAssumption, FS_CardinalityType
  <2>2. PICK n \in Nat : hits \in [1 .. n -> Popular]
    BY <2>1 DEF Predictions
  <2>3. QED
    BY <2>2, WarmerAssumption
<1>3. Outputs(found) \o Canonical \o hits \in Seq(Entries)
  BY <1>1, <1>2, WarmerAssumption, ConcatProperties
<1>4. QED
  BY <1>3, CutIs DEF Queue
-----------------------------------------------------------------------------
(* The inductive step.                                                     *)

LEMMA NoTickIs ==
    /\ NoTick \in Tick /\ NoTick.phase = "idle" /\ NoTick.found = <<>> /\ NoTick.heading = {}
    /\ Shared(NoTick) /\ HeldBy(NoTick) = {}
<1>1. NoTick \in Tick /\ NoTick.phase = "idle" /\ NoTick.found = <<>> /\ NoTick.heading = {}
  BY DEF NoTick, Tick
<1>2. NoTick.queue = <<>> /\ NoTick.checking = {} /\ DOMAIN NoTick.queue = {}
  BY DEF NoTick
<1>3. HeldBy(NoTick) = {}
  BY <1>1, <1>2 DEF HeldBy
<1>4. Shared(NoTick)
  BY <1>1, <1>2, <1>3 DEF Shared
<1>5. QED
  BY <1>1, <1>3, <1>4

\* A run moves on and nothing else does.
LEMMA RunKeeps ==
    ASSUME WarmIInv, NEW t \in Ticks, tick[t].phase # "idle",
           NEW new \in Tick, tick' = [tick EXCEPT ![t] = new],
           UNCHANGED <<store, log, posts, history>>, faults' \in 0 .. MaxFaults,
           Shared(new), FoundFollows(new),
           new.phase = "reading" => tick[t].phase = "reading",
           \/ tick[t].phase = "reading"
           \/ HeldBy(new) \subseteq HeldBy(tick[t]),
           orderly => \A e \in new.heading : e \in tick[t].heading \/ recent[e] = 0
    PROVE  WarmIInv'
<1>1. /\ UNCHANGED <<derive, derivePuts, marks, warmLog, warmPuts>>
      /\ UNCHANGED <<posts, served, recent, orderly, raced>>
  BY DEF store, log, history
<1>2. /\ tick' \in [Ticks -> Tick] /\ tick'[t] = new
      /\ \A u \in Ticks \ {t} : tick'[u] = tick[u]
  BY DEF WarmIInv, TypeOK
<1>3. TypeOK'
  BY <1>1, <1>2 DEF WarmIInv, TypeOK
<1>4. WorkIsShared'
  <2>1. \A u \in Ticks : Shared(tick'[u])
    BY <1>2 DEF WarmIInv, WorkIsShared
  <2>2. QED
    BY <2>1 DEF WorkIsShared
<1>5. OrderKept'
  <2> SUFFICES ASSUME orderly
               PROVE  OrderKept'
    BY <1>1 DEF OrderKept
  <2>1. OrderKept
    BY DEF WarmIInv
  <2>2. ASSUME NEW x \in warmPuts, NEW u \in Ticks
        PROVE  x.entry \notin HeldBy(tick'[u])
    BY <1>2, <2>1, <2>2 DEF OrderKept
  <2>3. \A u \in Ticks : \A e \in tick'[u].heading : recent[e] = 0
    BY <1>2, <2>1 DEF OrderKept
  <2>4. \A u \in Ticks : tick'[u].phase = "reading" => warmPuts = {}
    BY <1>2, <2>1 DEF OrderKept
  <2>5. \A u, v \in Ticks : tick'[u].phase # "idle" /\ tick'[v].phase # "idle" => u = v
    BY <1>2, <2>1 DEF OrderKept
  <2>6. QED
    BY <1>1, <2>1, <2>2, <2>3, <2>4, <2>5 DEF OrderKept
<1>6. StampsFollow'
  <2>1. \A k : FoundFollows(k)' = FoundFollows(k)
    BY <1>1 DEF FoundFollows
  <2>2. \A u \in Ticks : FoundFollows(tick'[u])
    BY <1>2 DEF WarmIInv, StampsFollow
  <2>3. QED
    BY <1>1, <2>2 DEF WarmIInv, StampsFollow, FoundFollows
<1>7. QED
  BY <1>3, <1>4, <1>5, <1>6 DEF WarmIInv

\* What every run's state has.
LEMMA TickIs ==
    ASSUME WarmIInv, NEW t \in Ticks
    PROVE  /\ tick[t] \in Tick /\ Shared(tick[t]) /\ FoundFollows(tick[t])
           /\ Len(tick[t].queue) \in Nat /\ DOMAIN tick[t].queue = 1 .. Len(tick[t].queue)
           /\ tick[t].queue \in Seq(Entries)
           /\ tick[t].found \in Seq([key : Derives, entry : Entries])
           /\ Len(tick[t].found) \in Nat /\ DOMAIN tick[t].found = 1 .. Len(tick[t].found)
           /\ \A i \in DOMAIN tick[t].found :
                  tick[t].found[i] \in [key : Derives, entry : Entries]
<1>1. tick[t] \in Tick /\ Shared(tick[t]) /\ FoundFollows(tick[t])
  BY DEF WarmIInv, TypeOK, WorkIsShared, StampsFollow
<1>2. /\ tick[t].queue \in Seq(Entries)
      /\ tick[t].found \in Seq([key : Derives, entry : Entries])
  BY <1>1 DEF Tick
<1>3. QED
  BY <1>1, <1>2, LenProperties, ElementOfSeq

LEMMA ReadDeriveKeeps ==
    ASSUME WarmIInv, NEW t \in Ticks, ReadDerive(t)
    PROVE  WarmIInv'
<1> DEFINE unread == tick[t].unread
           d == CHOOSE d \in unread : \A c \in unread : d <= c
           one == [key |-> d, entry |-> derive[d].output]
           seen == IF Pending(derive[d]) THEN <<one>> ELSE <<>>
           rest == unread \ {d}
           found == tick[t].found \o seen
           new == [tick[t] EXCEPT !.unread = rest, !.found = found]
<1>1. /\ tick[t].phase = "reading" /\ unread # {}
      /\ UNCHANGED <<store, log, bounds, history>>
  BY DEF ReadDerive
<1>2. tick' = [tick EXCEPT ![t] = new]
  <2>1. tick' = [tick EXCEPT ![t].unread = @ \ {d}, ![t].found = @ \o seen]
    BY DEF ReadDerive
  <2> HIDE DEF d, seen
  <2>2. QED
    BY <2>1
<1>3. /\ tick[t] \in Tick /\ Shared(tick[t]) /\ FoundFollows(tick[t])
      /\ tick[t].found \in Seq([key : Derives, entry : Entries])
  BY TickIs
<1>4. d \in Derives /\ rest \in SUBSET Derives
  <2>1. unread \subseteq Derives /\ Derives \subseteq Nat /\ IsFiniteSet(Derives)
    BY <1>3, WarmerAssumption, UpTo DEF Tick, Derives
  <2>2. IsFiniteSet(unread) /\ unread \subseteq Nat
    BY <2>1, FS_Subset
  <2>3. \E c \in unread : \A b \in unread : c <= b
    BY <1>1, <2>2, HasLeast
  <2>4. QED
    BY <2>1, <2>3
<1> HIDE DEF d, unread, rest
<1>5. derive[d] \in Record
  BY <1>4 DEF WarmIInv, TypeOK
<1>6. /\ seen \in Seq([key : Derives, entry : Entries]) /\ Len(seen) \in Nat
      /\ \A i \in 1 .. Len(seen) : seen[i] = one
  <2>1. CASE Pending(derive[d])
    <3>1. one \in [key : Derives, entry : Entries]
      BY <1>4, <1>5, <2>1 DEF Pending, Record
    <3> HIDE DEF one
    <3>2. QED
      BY <2>1, <3>1
  <2>2. CASE ~Pending(derive[d])
    BY <2>2, EmptySeq
  <2>3. QED
    BY <2>1, <2>2
<1>7. one.key = d /\ one.entry = derive[d].output
  OBVIOUS
<1> HIDE DEF one, seen
<1>8. /\ found \in Seq([key : Derives, entry : Entries])
      /\ Len(found) = Len(tick[t].found) + Len(seen)
      /\ \A i \in 1 .. Len(found) : found[i] = IF i <= Len(tick[t].found) THEN tick[t].found[i]
                                              ELSE seen[i - Len(tick[t].found)]
      /\ DOMAIN found = 1 .. Len(found)
  BY <1>3, <1>6, ConcatProperties, LenProperties
<1>9. \A i \in DOMAIN found : \/ i \in DOMAIN tick[t].found /\ found[i] = tick[t].found[i]
                              \/ found[i] = one
  <2>1. Len(tick[t].found) \in Nat /\ DOMAIN tick[t].found = 1 .. Len(tick[t].found)
    BY TickIs
  <2> SUFFICES ASSUME NEW i \in DOMAIN found, i > Len(tick[t].found)
               PROVE  found[i] = one
    BY <1>8, <2>1, <1>6
  <2>2. PICK j \in Nat : j = i - Len(tick[t].found)
    BY <1>8, <2>1, <1>6
  <2>3. j \in 1 .. Len(seen)
    BY <1>6, <1>8, <2>1, <2>2
  <2>4. QED
    BY <1>6, <1>8, <2>1, <2>2, <2>3
<1> HIDE DEF found
<1>10. /\ new \in Tick /\ new.phase = tick[t].phase /\ new.queue = tick[t].queue
       /\ new.checking = tick[t].checking /\ new.heading = tick[t].heading
       /\ new.found = found
  BY <1>3, <1>4, <1>8 DEF Tick
<1> HIDE DEF new
<1>11. Shared(new) /\ HeldBy(new) = HeldBy(tick[t])
  BY <1>3, <1>10 DEF Shared, HeldBy
<1>12. FoundFollows(new)
  BY <1>3, <1>7, <1>9, <1>10 DEF FoundFollows
<1>13. UNCHANGED posts /\ faults' \in 0 .. MaxFaults
  BY <1>1 DEF bounds, WarmIInv, TypeOK
<1>14. QED
  BY <1>1, <1>2, <1>10, <1>11, <1>12, <1>13, RunKeeps

LEMMA BuildQueueKeeps ==
    ASSUME WarmIInv, NEW t \in Ticks, BuildQueue(t)
    PROVE  WarmIInv'
<1>1. PICK hits \in Predictions :
          tick' = [tick EXCEPT ![t].phase = "warming",
                               ![t].queue = Queue(tick[t].found, hits)]
  BY DEF BuildQueue
<1> DEFINE queue == Queue(tick[t].found, hits)
           new == [tick[t] EXCEPT !.phase = "warming", !.queue = queue]
<1>2. /\ tick[t].phase = "reading" /\ UNCHANGED <<store, log, bounds, history>>
      /\ tick' = [tick EXCEPT ![t] = new]
  BY <1>1 DEF BuildQueue
<1>3. tick[t] \in Tick /\ Shared(tick[t]) /\ FoundFollows(tick[t])
  BY TickIs
<1>4. /\ queue \in Seq(Entries)
      /\ \A i, j \in DOMAIN queue : queue[i] = queue[j] => i = j
  BY TickIs, QueueIs
<1> HIDE DEF queue
<1>5. /\ new \in Tick /\ new.phase = "warming" /\ new.queue = queue
      /\ new.checking = tick[t].checking /\ new.heading = tick[t].heading
      /\ new.found = tick[t].found
  BY <1>3, <1>4 DEF Tick
<1> HIDE DEF new
<1>6. new.checking = {} /\ new.heading = {}
  BY <1>2, <1>3, <1>5 DEF Shared, HeldBy
<1>7. Shared(new) /\ FoundFollows(new)
  BY <1>3, <1>4, <1>5, <1>6 DEF Shared, FoundFollows
<1>8. UNCHANGED posts /\ faults' \in 0 .. MaxFaults
  BY <1>2 DEF bounds, WarmIInv, TypeOK
<1>9. QED
  BY <1>2, <1>5, <1>6, <1>7, <1>8, RunKeeps

LEMMA TakeKeeps ==
    ASSUME WarmIInv, NEW t \in Ticks, Take(t)
    PROVE  WarmIInv'
<1> DEFINE queue == tick[t].queue
           rest == Tail(queue)
           checking == tick[t].checking \cup {Head(queue)}
           new == [tick[t] EXCEPT !.queue = rest, !.checking = checking]
<1>1. /\ tick' = [tick EXCEPT ![t] = new] /\ queue # <<>>
      /\ UNCHANGED <<store, log, bounds, history>>
  BY DEF Take
<1>2. /\ tick[t] \in Tick /\ Shared(tick[t]) /\ FoundFollows(tick[t])
      /\ queue \in Seq(Entries) /\ Len(queue) \in Nat /\ DOMAIN queue = 1 .. Len(queue)
  BY TickIs
<1>3. /\ rest \in Seq(Entries) /\ Len(queue) # 0 /\ Len(rest) = Len(queue) - 1
      /\ Head(queue) \in Entries /\ Head(queue) = queue[1]
      /\ \A i \in 1 .. Len(rest) : rest[i] = queue[i + 1]
      /\ DOMAIN rest = 1 .. Len(rest)
  BY <1>1, <1>2, HeadTailProperties, EmptySeq, LenProperties
<1>4. /\ 1 \in DOMAIN queue /\ \A i \in DOMAIN rest : i + 1 \in DOMAIN queue /\ i + 1 # 1
  BY <1>2, <1>3
<1>5. \A i, j \in DOMAIN rest : i + 1 = j + 1 => i = j
  BY <1>3
<1>6. checking \in SUBSET Entries /\ checking = tick[t].checking \cup {queue[1]}
  BY <1>2, <1>3 DEF Tick
<1> HIDE DEF rest, checking
<1>7. /\ new \in Tick /\ new.phase = tick[t].phase /\ new.queue = rest
      /\ new.checking = checking /\ new.heading = tick[t].heading
      /\ new.found = tick[t].found
  BY <1>2, <1>3, <1>6 DEF Tick
<1> HIDE DEF new, queue
<1>8. /\ \A i, j \in DOMAIN queue : queue[i] = queue[j] => i = j
      /\ \A i \in DOMAIN queue : queue[i] \notin tick[t].checking \cup tick[t].heading
      /\ tick[t].checking \cap tick[t].heading = {}
  BY <1>2 DEF Shared, queue
<1>9. HeldBy(new) \subseteq HeldBy(tick[t])
  BY <1>3, <1>4, <1>6, <1>7 DEF HeldBy, queue
<1>10. tick[t].phase = "warming"
  <2>1. queue[1] \in HeldBy(tick[t])
    BY <1>4 DEF HeldBy, queue
  <2>2. QED
    BY <1>2, <2>1 DEF Shared
<1>11. Shared(new)
  <2>1. \A i, j \in DOMAIN rest : rest[i] = rest[j] => i = j
    BY <1>3, <1>4, <1>5, <1>8
  <2>2. \A i \in DOMAIN rest : rest[i] \notin checking \cup tick[t].heading
    BY <1>3, <1>4, <1>6, <1>8
  <2>3. checking \cap tick[t].heading = {}
    BY <1>4, <1>6, <1>8
  <2>4. QED
    BY <1>7, <1>10, <2>1, <2>2, <2>3 DEF Shared
<1>12. FoundFollows(new)
  BY <1>2, <1>7 DEF FoundFollows
<1>13. UNCHANGED posts /\ faults' \in 0 .. MaxFaults
  BY <1>1 DEF bounds, WarmIInv, TypeOK
<1>14. QED
  BY <1>1, <1>7, <1>9, <1>10, <1>11, <1>12, <1>13, RunKeeps

\* A worker skips its entry, or HEADs it: the log then holds nothing of it.
LEMMA CheckKeeps ==
    ASSUME WarmIInv, NEW t \in Ticks, NEW e \in Entries, Skip(t, e) \/ StartHead(t, e)
    PROVE  WarmIInv'
<1> DEFINE checking == tick[t].checking \ {e}
<1>1. /\ e \in tick[t].checking /\ UNCHANGED <<store, log, bounds, history>>
  BY DEF Skip, StartHead
<1>2. tick[t] \in Tick /\ Shared(tick[t]) /\ FoundFollows(tick[t])
  BY TickIs
<1>3. checking \in SUBSET Entries /\ tick[t].heading \cup {e} \in SUBSET Entries
  BY <1>2 DEF Tick
<1>4. tick[t].phase = "warming" /\ e \in HeldBy(tick[t])
  BY <1>1, <1>2 DEF Shared, HeldBy
<1>5. PICK heading \in SUBSET Entries :
          /\ tick' = [tick EXCEPT ![t] = [tick[t] EXCEPT !.checking = checking,
                                                         !.heading = heading]]
          /\ \/ heading = tick[t].heading
             \/ heading = tick[t].heading \cup {e} /\ ~ShouldSkip(e)
  <2>1. CASE Skip(t, e)
    <3>1. tick[t].heading \in SUBSET Entries
      BY <1>2 DEF Tick
    <3>2. [tick[t] EXCEPT !.checking = checking] =
              [tick[t] EXCEPT !.checking = checking, !.heading = tick[t].heading]
      BY <1>2 DEF Tick
    <3>3. tick' = [tick EXCEPT ![t] = [tick[t] EXCEPT !.checking = checking]]
      BY <2>1 DEF Skip
    <3>4. QED
      BY <3>1, <3>2, <3>3
  <2>2. CASE StartHead(t, e)
    BY <1>3, <2>2 DEF StartHead
  <2>3. QED
    BY <2>1, <2>2
<1> DEFINE new == [tick[t] EXCEPT !.checking = checking, !.heading = heading]
<1> HIDE DEF checking
<1>6. /\ new \in Tick /\ new.phase = tick[t].phase /\ new.queue = tick[t].queue
      /\ new.checking = checking /\ new.heading = heading
      /\ new.found = tick[t].found
  BY <1>2, <1>3, <1>5 DEF Tick
<1>7. tick' = [tick EXCEPT ![t] = new]
  BY <1>5
<1> HIDE DEF new
<1>8. HeldBy(new) \subseteq HeldBy(tick[t])
  BY <1>1, <1>5, <1>6 DEF HeldBy, checking
<1>9. Shared(new)
  BY <1>1, <1>2, <1>4, <1>5, <1>6 DEF Shared, checking
<1>10. FoundFollows(new)
  BY <1>2, <1>6 DEF FoundFollows
<1>11. ASSUME orderly, ~ShouldSkip(e)
       PROVE  recent[e] = 0
  <2>1. OrderKept
    BY DEF WarmIInv
  <2>2. recent[e] <= warmLog[e]
    BY <1>4, <1>11, <2>1 DEF OrderKept
  <2>3. recent[e] \in Nat /\ warmLog[e] \in Nat
    BY WarmerAssumption DEF WarmIInv, TypeOK, Left
  <2>4. QED
    BY <1>11, <2>2, <2>3 DEF ShouldSkip
<1>12. UNCHANGED posts /\ faults' \in 0 .. MaxFaults
  BY <1>1 DEF bounds, WarmIInv, TypeOK
<1>13. orderly => \A f \in new.heading : f \in tick[t].heading \/ recent[f] = 0
  BY <1>5, <1>6, <1>11
<1>14. QED
  BY <1>1, <1>4, <1>6, <1>7, <1>8, <1>9, <1>10, <1>12, <1>13, RunKeeps

LEMMA FaultTyped ==
    ASSUME WarmIInv, Fault
    PROVE  faults' \in 0 .. MaxFaults
BY WarmerAssumption DEF Fault, WarmIInv, TypeOK

LEMMA FailKeeps ==
    ASSUME WarmIInv, NEW t \in Ticks, NEW e \in Entries, WarmFail(t, e)
    PROVE  WarmIInv'
<1> DEFINE heading == tick[t].heading \ {e}
           new == [tick[t] EXCEPT !.heading = heading]
<1>1. /\ e \in tick[t].heading /\ UNCHANGED <<store, log, posts, history>>
      /\ tick' = [tick EXCEPT ![t] = new]
      /\ UNCHANGED faults \/ Fault
  BY DEF WarmFail
<1>2. tick[t] \in Tick /\ Shared(tick[t]) /\ FoundFollows(tick[t])
  BY TickIs
<1>3. heading \in SUBSET Entries /\ heading \subseteq tick[t].heading
  BY <1>2 DEF Tick
<1>4. tick[t].phase = "warming"
  BY <1>1, <1>2 DEF Shared, HeldBy
<1> HIDE DEF heading
<1>5. /\ new \in Tick /\ new.phase = tick[t].phase /\ new.queue = tick[t].queue
      /\ new.checking = tick[t].checking /\ new.heading = heading
      /\ new.found = tick[t].found
  BY <1>2, <1>3 DEF Tick
<1> HIDE DEF new
<1>6. HeldBy(new) \subseteq HeldBy(tick[t])
  BY <1>3, <1>5 DEF HeldBy
<1>7. Shared(new) /\ FoundFollows(new)
  BY <1>2, <1>3, <1>4, <1>5 DEF Shared, FoundFollows
<1>8. faults' \in 0 .. MaxFaults
  BY <1>1, FaultTyped DEF WarmIInv, TypeOK
<1>9. QED
  BY <1>1, <1>3, <1>4, <1>5, <1>6, <1>7, <1>8, RunKeeps

LEMMA EndKeeps ==
    ASSUME WarmIInv, NEW t \in Ticks, End(t) \/ Abort(t)
    PROVE  WarmIInv'
<1>1. /\ tick' = [tick EXCEPT ![t] = NoTick] /\ tick[t].phase # "idle"
      /\ UNCHANGED <<store, log, posts, history>>
      /\ UNCHANGED faults \/ Fault
  BY DEF End, Abort, bounds
<1>2. faults' \in 0 .. MaxFaults
  BY <1>1, FaultTyped DEF WarmIInv, TypeOK
<1>3. FoundFollows(NoTick)
  BY NoTickIs DEF FoundFollows
<1>4. QED
  BY <1>1, <1>2, <1>3, NoTickIs, RunKeeps

LEMMA WarmKeeps ==
    ASSUME WarmIInv, NEW t \in Ticks, NEW e \in Entries, Warm(t, e)
    PROVE  WarmIInv'
<1> DEFINE heading == tick[t].heading \ {e}
           new == [tick[t] EXCEPT !.heading = heading]
           put == [entry |-> e, left |-> Hysteresis]
<1>1. /\ e \in tick[t].heading
      /\ tick' = [tick EXCEPT ![t] = new]
      /\ warmPuts' = warmPuts \cup {put} /\ marks' = marks \cup Stamped(tick[t].found, e)
      /\ served' = served \cup {e} /\ recent' = [recent EXCEPT ![e] = Hysteresis]
      /\ UNCHANGED <<derive, derivePuts, warmLog, posts, faults, orderly, raced>>
  BY DEF Warm, bounds
<1>2. tick[t] \in Tick /\ Shared(tick[t]) /\ FoundFollows(tick[t])
  BY TickIs
<1>3. heading \in SUBSET Entries /\ heading \subseteq tick[t].heading /\ e \notin heading
  BY <1>2 DEF Tick
<1>4. tick[t].phase = "warming" /\ e \in HeldBy(tick[t])
  BY <1>1, <1>2 DEF Shared, HeldBy
<1> HIDE DEF heading
<1>5. /\ new \in Tick /\ new.phase = tick[t].phase /\ new.queue = tick[t].queue
      /\ new.checking = tick[t].checking /\ new.heading = heading
      /\ new.found = tick[t].found
  BY <1>2, <1>3 DEF Tick
<1> HIDE DEF new
<1>6. /\ tick' \in [Ticks -> Tick] /\ tick'[t] = new
      /\ \A u \in Ticks \ {t} : tick'[u] = tick[u]
  BY <1>1, <1>5 DEF WarmIInv, TypeOK
<1>7. HeldBy(new) \subseteq HeldBy(tick[t]) /\ e \notin HeldBy(new)
  BY <1>1, <1>2, <1>3, <1>5 DEF HeldBy, Shared
<1>8. Shared(new)
  BY <1>2, <1>3, <1>4, <1>5 DEF Shared
<1>9. put \in WarmPut /\ put.entry = e /\ put.left = Hysteresis /\ Hysteresis \in Left
  BY WarmerAssumption DEF WarmPut, Left
<1> HIDE DEF put
<1>10. /\ recent' \in [Entries -> Left] /\ recent'[e] = Hysteresis
       /\ \A f \in Entries \ {e} : recent'[f] = recent[f]
  BY <1>1, <1>9 DEF WarmIInv, TypeOK
<1>11. /\ Stamped(tick[t].found, e) \subseteq Derives
       /\ \A d \in Stamped(tick[t].found, e) : \E i \in DOMAIN tick[t].found :
              tick[t].found[i].key = d /\ tick[t].found[i].entry = e
  BY TickIs DEF Stamped
<1>12. TypeOK'
  BY <1>1, <1>6, <1>9, <1>10, <1>11 DEF WarmIInv, TypeOK
<1>13. WorkIsShared'
  BY <1>6, <1>8 DEF WarmIInv, WorkIsShared
<1>14. OrderKept'
  <2> SUFFICES ASSUME orderly
               PROVE  OrderKept'
    BY <1>1 DEF OrderKept
  <2>1. OrderKept /\ warmPuts \subseteq WarmPut
    BY DEF WarmIInv, TypeOK
  <2>2. \A u \in Ticks \ {t} : tick[u].phase = "idle" /\ HeldBy(tick[u]) = {}
    BY <1>4, <2>1 DEF OrderKept, WarmIInv, WorkIsShared, Shared
  <2>3. \A u \in Ticks : tick'[u].phase # "reading"
    BY <1>4, <1>5, <1>6, <2>2
  <2>4. \A u, v \in Ticks : tick'[u].phase # "idle" /\ tick'[v].phase # "idle" => u = v
    BY <1>6, <2>2
  <2>5. ASSUME NEW x \in warmPuts'
        PROVE  x.left = recent'[x.entry] /\ \A u \in Ticks : x.entry \notin HeldBy(tick'[u])
    <3>1. CASE x = put
      BY <1>6, <1>7, <1>9, <1>10, <2>2, <3>1
    <3>2. CASE x \in warmPuts
      <4>1. /\ x.entry \in Entries /\ x.left = recent[x.entry]
            /\ x.entry \notin HeldBy(tick[t])
        BY <2>1, <3>2 DEF OrderKept, WarmPut
      <4>2. x.entry # e
        BY <1>4, <4>1
      <4>3. QED
        BY <1>6, <1>7, <1>10, <2>2, <4>1, <4>2
    <3>3. QED
      BY <1>1, <2>5, <3>1, <3>2
  <2>6. ASSUME NEW f \in Entries
        PROVE  recent'[f] <= warmLog'[f] \/ \E x \in warmPuts' : x.entry = f
    BY <1>1, <1>9, <1>10, <2>1 DEF OrderKept
  <2>7. ASSUME NEW u \in Ticks, NEW f \in tick'[u].heading
        PROVE  recent'[f] = 0
    <3>1. u = t
      BY <1>6, <2>2, <2>7 DEF HeldBy
    <3>2. f \in heading /\ f \in tick[t].heading /\ f \in Entries /\ f # e
      BY <1>3, <1>5, <1>6, <2>7, <3>1
    <3>3. QED
      BY <1>10, <2>1, <3>2 DEF OrderKept
  <2>8. QED
    BY <2>3, <2>4, <2>5, <2>6, <2>7 DEF OrderKept
<1>15. StampsFollow'
  <2>1. StampsFollow
    BY DEF WarmIInv
  <2>2. \A d \in marks' \ raced' : derive'[d].output \in served'
    BY <1>1, <1>2, <1>11, <2>1 DEF StampsFollow, FoundFollows
  <2>3. ASSUME NEW u \in Ticks
        PROVE  FoundFollows(tick[u])' /\ tick'[u].found = tick[u].found
    <3>1. tick'[u].found = tick[u].found
      BY <1>5, <1>6
    <3>2. QED
      BY <1>1, <2>1, <3>1 DEF StampsFollow, FoundFollows
  <2>4. QED
    BY <1>1, <2>1, <2>2, <2>3 DEF StampsFollow
<1>16. QED
  BY <1>12, <1>13, <1>14, <1>15 DEF WarmIInv

LEMMA StartKeeps ==
    ASSUME WarmIInv, NEW t \in Ticks, Start(t)
    PROVE  WarmIInv'
<1> DEFINE unread == {d \in Derives : derive[d] # NoRecord}
           new == [NoTick EXCEPT !.phase = "reading", !.unread = unread]
           alone == warmPuts = {} /\ \A u \in Ticks \ {t} : tick[u].phase = "idle"
<1>1. /\ tick[t].phase = "idle" /\ tick' = [tick EXCEPT ![t] = new]
      /\ orderly' = (orderly /\ alone)
      /\ UNCHANGED <<derive, derivePuts, marks, warmLog, warmPuts>>
      /\ UNCHANGED <<posts, faults, served, recent, raced>>
  BY DEF Start, store, log, bounds
<1>2. unread \in SUBSET Derives
  OBVIOUS
<1> HIDE DEF unread
<1>3. /\ new \in Tick /\ new.phase = "reading" /\ new.queue = NoTick.queue
      /\ new.checking = NoTick.checking /\ new.heading = NoTick.heading
      /\ new.found = NoTick.found
  BY <1>2, NoTickIs DEF Tick
<1> HIDE DEF new
<1>4. /\ tick' \in [Ticks -> Tick] /\ tick'[t] = new
      /\ \A u \in Ticks \ {t} : tick'[u] = tick[u]
  BY <1>1, <1>3 DEF WarmIInv, TypeOK
<1>5. HeldBy(new) = {} /\ Shared(new)
  BY <1>3, NoTickIs DEF HeldBy, Shared
<1>6. orderly' \in BOOLEAN /\ (orderly' => orderly /\ alone)
  BY <1>1
<1>7. TypeOK'
  BY <1>1, <1>4, <1>6 DEF WarmIInv, TypeOK
<1>8. WorkIsShared'
  BY <1>4, <1>5 DEF WarmIInv, WorkIsShared
<1>9. OrderKept'
  <2> SUFFICES ASSUME orderly'
               PROVE  OrderKept'
    BY DEF OrderKept
  <2>1. OrderKept /\ orderly /\ warmPuts = {} /\ \A u \in Ticks \ {t} : tick[u].phase = "idle"
    BY <1>6 DEF WarmIInv
  <2>2. \A u, v \in Ticks : tick'[u].phase # "idle" /\ tick'[v].phase # "idle" => u = v
    BY <1>4, <2>1
  <2>3. \A u \in Ticks : tick'[u].heading \subseteq tick[u].heading
    BY <1>3, <1>4, NoTickIs
  <2>4. QED
    BY <1>1, <2>1, <2>2, <2>3 DEF OrderKept
<1>10. StampsFollow'
  <2>1. StampsFollow
    BY DEF WarmIInv
  <2>2. DOMAIN new.found = {}
    BY <1>3, NoTickIs
  <2>3. \A u \in Ticks : FoundFollows(tick[u])'
    BY <1>1, <1>4, <2>1, <2>2 DEF StampsFollow, FoundFollows
  <2>4. QED
    BY <1>1, <2>1, <2>3 DEF StampsFollow
<1>11. QED
  BY <1>7, <1>8, <1>9, <1>10 DEF WarmIInv

\* A step that leaves the runs and the log alone.
LEMMA StoreKeeps ==
    ASSUME WarmIInv, UNCHANGED <<warmLog, warmPuts, tick, recent, orderly>>,
           TypeOK', StampsFollow'
    PROVE  WarmIInv'
BY DEF WarmIInv, WorkIsShared, OrderKept

LEMMA PostKeeps ==
    ASSUME WarmIInv, Receive
    PROVE  WarmIInv'
<1>1. PICK d \in Derives, record \in Record : record.status # "warmed" /\ Post(d, record)
  <2>1. PICK d \in Derives :
            \/ DeriveVariant(d)
            \/ \E status \in Reported, output \in Entries \cup {NoEntry} :
                   DeriveResult(d, status, output)
    BY DEF Receive
  <2>2. CASE DeriveVariant(d)
    BY <2>2 DEF DeriveVariant, Record, Statuses
  <2>3. CASE \E status \in Reported, output \in Entries \cup {NoEntry} :
                 DeriveResult(d, status, output)
    <3>1. PICK status \in Reported, output \in Entries \cup {NoEntry} :
              DeriveResult(d, status, output)
      BY <2>3
    <3> DEFINE kept == IF output # NoEntry THEN output ELSE derive[d].output
    <3>2. kept \in Entries \cup {NoEntry}
      BY DEF WarmIInv, TypeOK, Record
    <3>3. Post(d, [status |-> status, output |-> kept])
      BY <3>1 DEF DeriveResult
    <3> HIDE DEF kept
    <3>4. status \in Statuses /\ status # "warmed"
      BY WarmerAssumption DEF Statuses
    <3>5. [status |-> status, output |-> kept] \in Record
      BY <3>2, <3>4 DEF Record
    <3>6. QED
      BY <3>3, <3>4, <3>5
  <2>4. QED
    BY <2>1, <2>2, <2>3
<1>2. /\ posts' \in 0 .. MaxPosts
      /\ derivePuts' = derivePuts \cup {[key |-> d, record |-> record]}
      /\ UNCHANGED <<derive, marks, warmLog, warmPuts, tick, faults>>
      /\ UNCHANGED <<served, recent, orderly, raced>>
  BY <1>1, WarmerAssumption DEF Post, log, history, WarmIInv, TypeOK
<1>3. TypeOK'
  BY <1>2 DEF WarmIInv, TypeOK, DerivePut
<1>4. StampsFollow'
  <2>1. StampsFollow /\ \A u \in Ticks : FoundFollows(tick[u])' = FoundFollows(tick[u])
    BY <1>2 DEF WarmIInv, FoundFollows
  <2>2. QED
    BY <1>1, <1>2, <2>1 DEF StampsFollow
<1>5. QED
  BY <1>2, <1>3, <1>4, StoreKeeps

LEMMA LandDeriveKeeps ==
    ASSUME WarmIInv, NEW x \in derivePuts, LandDerive(x)
    PROVE  WarmIInv'
<1>1. x \in DerivePut /\ x.key \in Derives /\ x.record \in Record
  BY DEF WarmIInv, TypeOK, DerivePut
<1>2. /\ derivePuts' = derivePuts \ {x}
      /\ raced' \in {raced, raced \cup {x.key}}
      /\ x.record.status # "warmed" /\ Claimed(x.key) => x.key \in raced'
      /\ UNCHANGED <<marks, warmLog, warmPuts, tick, posts, faults, served, recent, orderly>>
      /\ derive' = [derive EXCEPT ![x.key] = x.record]
  BY DEF LandDerive, log, bounds
<1>3. /\ derive' \in [Derives -> Record] /\ derive'[x.key] = x.record
      /\ \A d \in Derives \ {x.key} : derive'[d] = derive[d]
  BY <1>1, <1>2 DEF WarmIInv, TypeOK
<1>4. TypeOK'
  BY <1>1, <1>2, <1>3 DEF WarmIInv, TypeOK
<1>5. StampsFollow'
  <2>1. StampsFollow
    BY DEF WarmIInv
  <2>2. x.record.status = "warmed" /\ x.key \notin raced' => x.record.output \in served
    BY <1>2, <2>1 DEF StampsFollow
  <2>3. \A d \in Derives \ raced' :
            derive'[d].status = "warmed" => derive'[d].output \in served
    BY <1>2, <1>3, <2>1, <2>2 DEF StampsFollow
  <2>4. x.key \notin raced' => x.record.status = "warmed" \/ ~Claimed(x.key)
    BY <1>2
  <2>5. \A d \in marks \ raced' : derive'[d].output \in served
    BY <1>2, <1>3, <2>1, <2>2, <2>4 DEF StampsFollow, Claimed, WarmIInv, TypeOK
  <2>6. ASSUME NEW t \in Ticks
        PROVE  FoundFollows(tick[t])'
    <3>1. ASSUME NEW i \in DOMAIN tick[t].found, tick[t].found[i].key \notin raced'
          PROVE  derive'[tick[t].found[i].key].output \in served \cup {tick[t].found[i].entry}
      <4>1. tick[t].found[i].key \in Derives
        BY TickIs
      <4>2. CASE tick[t].found[i].key = x.key
        BY <1>3, <2>2, <2>4, <3>1, <4>2 DEF Claimed
      <4>3. CASE tick[t].found[i].key # x.key
        BY <1>2, <1>3, <2>1, <3>1, <4>1, <4>3 DEF StampsFollow, FoundFollows
      <4>4. QED
        BY <4>2, <4>3
    <3>2. QED
      BY <1>2, <3>1 DEF FoundFollows
  <2>7. QED
    BY <1>2, <2>1, <2>3, <2>5, <2>6 DEF StampsFollow
<1>6. QED
  BY <1>2, <1>4, <1>5, StoreKeeps

LEMMA MarkKeeps ==
    ASSUME WarmIInv, NEW d \in Derives, MarkDeriveWarmed(d)
    PROVE  WarmIInv'
<1> DEFINE stamp == [derive[d] EXCEPT !.status = "warmed"]
           put == [key |-> d, record |-> stamp]
<1>1. /\ d \in marks /\ marks' = marks \ {d}
      /\ derivePuts' \in {derivePuts, derivePuts \cup {put}}
      /\ UNCHANGED <<derive, warmLog, warmPuts, tick, posts, faults>>
      /\ UNCHANGED <<served, recent, orderly, raced>>
  BY DEF MarkDeriveWarmed, log, bounds, history
<1>2. derive[d] \in Record
  BY DEF WarmIInv, TypeOK
<1>3. stamp \in Record /\ stamp.output = derive[d].output
  BY <1>2 DEF Record, Statuses
<1> HIDE DEF stamp
<1>4. put \in DerivePut /\ put.key = d /\ put.record = stamp
  BY <1>3 DEF DerivePut
<1> HIDE DEF put
<1>5. TypeOK'
  BY <1>1, <1>4 DEF WarmIInv, TypeOK
<1>6. StampsFollow'
  <2>1. StampsFollow /\ \A u \in Ticks : FoundFollows(tick[u])' = FoundFollows(tick[u])
    BY <1>1 DEF WarmIInv, FoundFollows
  <2>2. QED
    BY <1>1, <1>3, <1>4, <2>1 DEF StampsFollow
<1>7. QED
  BY <1>1, <1>5, <1>6, StoreKeeps

LEMMA LoseDeriveKeeps ==
    ASSUME WarmIInv, NEW x \in derivePuts, LoseDerive(x)
    PROVE  WarmIInv'
<1>1. /\ derivePuts' = derivePuts \ {x}
      /\ UNCHANGED <<derive, marks, warmLog, warmPuts, tick, posts>>
      /\ UNCHANGED <<served, recent, orderly, raced>>
      /\ faults' \in 0 .. MaxFaults
  BY FaultTyped DEF LoseDerive, log, history
<1>2. TypeOK'
  BY <1>1 DEF WarmIInv, TypeOK
<1>3. StampsFollow'
  BY <1>1 DEF WarmIInv, StampsFollow, FoundFollows
<1>4. QED
  BY <1>1, <1>2, <1>3, StoreKeeps

\* A step that leaves the derives and the runs alone.
LEMMA LogKeeps ==
    ASSUME WarmIInv, UNCHANGED <<store, tick, served, raced>>, TypeOK', OrderKept'
    PROVE  WarmIInv'
<1>1. WorkIsShared'
  BY DEF WarmIInv, WorkIsShared
<1>2. StampsFollow'
  BY DEF WarmIInv, StampsFollow, FoundFollows, store
<1>3. QED
  BY <1>1, <1>2 DEF WarmIInv

LEMMA LandWarmKeeps ==
    ASSUME WarmIInv, NEW x \in warmPuts, LandWarm(x) \/ LoseWarm(x)
    PROVE  WarmIInv'
<1>1. x \in WarmPut /\ x.entry \in Entries /\ x.left \in Left
  BY DEF WarmIInv, TypeOK, WarmPut
<1>2. /\ warmPuts' = warmPuts \ {x} /\ posts' = posts
      /\ UNCHANGED <<store, tick, served, recent, raced>>
  BY DEF LandWarm, LoseWarm, bounds, history
<1>3. CASE LandWarm(x)
  <2>1. /\ warmLog' = [warmLog EXCEPT ![x.entry] = x.left]
        /\ UNCHANGED <<faults, orderly>>
    BY <1>3 DEF LandWarm, bounds, history
  <2>2. /\ warmLog' \in [Entries -> Left] /\ warmLog'[x.entry] = x.left
        /\ \A e \in Entries \ {x.entry} : warmLog'[e] = warmLog[e]
    BY <1>1, <2>1 DEF WarmIInv, TypeOK
  <2>3. TypeOK'
    BY <1>2, <2>1, <2>2 DEF WarmIInv, TypeOK, store
  <2>4. OrderKept'
    <3> SUFFICES ASSUME orderly
                 PROVE  OrderKept'
      BY <2>1 DEF OrderKept
    <3>1. OrderKept
      BY DEF WarmIInv
    <3>2. x.left = recent[x.entry] /\ x.left \in Nat /\ x.left <= x.left
      BY <1>1, <3>1, WarmerAssumption DEF OrderKept, Left
    <3>3. ASSUME NEW e \in Entries
          PROVE  recent'[e] <= warmLog'[e] \/ \E y \in warmPuts' : y.entry = e
      <4>1. CASE e = x.entry
        BY <1>2, <2>2, <3>2, <4>1
      <4>2. CASE e # x.entry
        BY <1>2, <2>2, <3>1, <4>2 DEF OrderKept
      <4>3. QED
        BY <4>1, <4>2
    <3>4. QED
      BY <1>2, <3>1, <3>3 DEF OrderKept
  <2>5. QED
    BY <1>2, <2>3, <2>4, LogKeeps
<1>4. CASE LoseWarm(x)
  <2>1. warmLog' = warmLog /\ orderly' = FALSE /\ faults' \in 0 .. MaxFaults
    BY <1>4, FaultTyped DEF LoseWarm
  <2>2. TypeOK' /\ OrderKept'
    BY <1>2, <2>1 DEF WarmIInv, TypeOK, OrderKept, store
  <2>3. QED
    BY <1>2, <2>2, LogKeeps
<1>5. QED
  BY <1>3, <1>4

LEMMA ElapseKeeps ==
    ASSUME WarmIInv, Elapse
    PROVE  WarmIInv'
<1>1. /\ warmLog' = [e \in Entries |-> Cooled(warmLog[e])]
      /\ warmPuts' = {[x EXCEPT !.left = Cooled(x.left)] : x \in warmPuts}
      /\ recent' = [e \in Entries |-> Cooled(recent[e])]
      /\ UNCHANGED <<store, tick, posts, faults, served, orderly, raced>>
  BY DEF Elapse, bounds
<1>2. /\ \A n \in Left : Cooled(n) \in Left
      /\ \A m, n \in Left : m <= n => Cooled(m) <= Cooled(n)
      /\ Cooled(0) = 0
  BY WarmerAssumption DEF Left, Cooled
<1>3. \A x \in warmPuts : /\ [x EXCEPT !.left = Cooled(x.left)] \in WarmPut
                          /\ [x EXCEPT !.left = Cooled(x.left)].entry = x.entry
                          /\ [x EXCEPT !.left = Cooled(x.left)].left = Cooled(x.left)
                          /\ x.entry \in Entries
  BY <1>2 DEF WarmIInv, TypeOK, WarmPut
<1>4. TypeOK'
  BY <1>1, <1>2, <1>3 DEF WarmIInv, TypeOK, store
<1>5. OrderKept'
  <2> SUFFICES ASSUME orderly
               PROVE  OrderKept'
    BY <1>1 DEF OrderKept
  <2>1. OrderKept /\ warmLog \in [Entries -> Left] /\ recent \in [Entries -> Left]
    BY DEF WarmIInv, TypeOK
  <2>2. ASSUME NEW y \in warmPuts'
        PROVE  y.left = recent'[y.entry] /\ \A t \in Ticks : y.entry \notin HeldBy(tick'[t])
    <3>1. PICK x \in warmPuts : y = [x EXCEPT !.left = Cooled(x.left)]
      BY <1>1, <2>2
    <3>2. y.entry = x.entry /\ y.left = Cooled(x.left) /\ x.entry \in Entries
      BY <1>3, <3>1
    <3>3. QED
      BY <1>1, <2>1, <3>2 DEF OrderKept
  <2>3. ASSUME NEW e \in Entries
        PROVE  recent'[e] <= warmLog'[e] \/ \E y \in warmPuts' : y.entry = e
    <3>1. CASE recent[e] <= warmLog[e]
      BY <1>1, <1>2, <2>1, <3>1
    <3>2. CASE \E x \in warmPuts : x.entry = e
      BY <1>1, <1>3, <3>2
    <3>3. QED
      BY <2>1, <3>1, <3>2 DEF OrderKept
  <2>4. ASSUME NEW t \in Ticks, NEW e \in tick[t].heading
        PROVE  recent'[e] = 0
    <3>1. e \in Entries /\ recent[e] = 0
      BY <2>1, <2>4, TickIs DEF OrderKept, Tick
    <3>2. QED
      BY <1>1, <1>2, <3>1
  <2>5. \A t \in Ticks : tick[t].phase = "reading" => warmPuts' = {}
    BY <1>1, <2>1 DEF OrderKept
  <2>6. QED
    BY <1>1, <2>1, <2>2, <2>3, <2>4, <2>5 DEF OrderKept
<1>6. QED
  BY <1>1, <1>4, <1>5, LogKeeps

LEMMA InitWarmIInv == Init => WarmIInv
<1> SUFFICES ASSUME Init
             PROVE  WarmIInv
  OBVIOUS
<1>1. \A t \in Ticks : tick[t] = NoTick
  BY DEF Init
<1>2. NoRecord \in Record /\ NoRecord.status # "warmed" /\ 0 \in Left
  BY WarmerAssumption DEF NoRecord, Record, Statuses, Left
<1>3. TypeOK
  BY <1>2, NoTickIs, WarmerAssumption DEF Init, TypeOK
<1>4. WorkIsShared
  BY <1>1, NoTickIs DEF WorkIsShared
<1>5. OrderKept
  BY <1>1, NoTickIs DEF Init, OrderKept
<1>6. StampsFollow
  <2>1. FoundFollows(NoTick)
    BY NoTickIs DEF FoundFollows
  <2>2. QED
    BY <1>1, <1>2, <2>1 DEF Init, StampsFollow
<1>7. QED
  BY <1>3, <1>4, <1>5, <1>6 DEF WarmIInv

LEMMA NextWarmIInv == WarmIInv /\ [Next]_vars => WarmIInv'
<1> SUFFICES ASSUME WarmIInv, [Next]_vars
             PROVE  WarmIInv'
  OBVIOUS
<1>1. ASSUME Land
      PROVE  WarmIInv'
  BY <1>1, LandDeriveKeeps, MarkKeeps, LandWarmKeeps DEF Land, LandDeriveOf
<1>2. ASSUME Lose
      PROVE  WarmIInv'
  BY <1>2, LandWarmKeeps, LoseDeriveKeeps DEF Lose
<1>3. ASSUME NEW t \in Ticks, Start(t) \/ Run(t) \/ Abort(t)
      PROVE  WarmIInv'
  BY <1>3, StartKeeps, ReadDeriveKeeps, BuildQueueKeeps, TakeKeeps, CheckKeeps, WarmKeeps,
     FailKeeps, EndKeeps DEF Run
<1>4. CASE UNCHANGED vars
  <2>1. /\ UNCHANGED <<derive, derivePuts, marks, warmLog, warmPuts, tick, posts, faults>>
        /\ UNCHANGED <<served, recent, orderly, raced>>
    BY <1>4 DEF vars, store, log, bounds, history
  <2>2. TypeOK' /\ StampsFollow'
    BY <2>1 DEF WarmIInv, TypeOK, StampsFollow, FoundFollows
  <2>3. QED
    BY <2>1, <2>2, StoreKeeps
<1>5. QED
  BY <1>1, <1>2, <1>3, <1>4, PostKeeps, ElapseKeeps DEF Next

(* What the runs of the warmer may rely on: the workers of a run share no  *)
(* entry, the log lags behind the HEADs only by the writes under way while *)
(* the runs are orderly, and what is to be stamped was served.             *)
THEOREM WarmerKeepsCount == Spec => [](TypeOK /\ WarmIInv)
<1>1. WarmIInv => TypeOK
  BY DEF WarmIInv
<1>2. QED
  BY <1>1, InitWarmIInv, NextWarmIInv, PTL DEF Spec
-----------------------------------------------------------------------------
(* The properties.                                                         *)

(* OrderlyRunsKeepHysteresis: as long as no run meets another, or a write  *)
(* of an earlier one under way, nothing is warmed again within the         *)
(* hysteresis, whatever the number of workers and the sources of an entry. *)
THEOREM HysteresisIsKept == Spec => []OrderlyRunsKeepHysteresis
<1>1. WarmIInv => OrderlyRunsKeepHysteresis
  BY DEF WarmIInv, OrderKept, OrderlyRunsKeepHysteresis
<1>2. QED
  BY <1>1, WarmerKeepsCount, PTL

(* WarmedIsServed: a derive that nobody rewrote while a run had it in hand *)
(* is stamped as warmed only if some HEAD of its output succeeded.         *)
THEOREM StampsAreEarned == Spec => []WarmedIsServed
<1>1. WarmIInv => WarmedIsServed
  BY DEF WarmIInv, StampsFollow, WarmedIsServed
<1>2. QED
  BY <1>1, WarmerKeepsCount, PTL
-----------------------------------------------------------------------------
(***************************************************************************)
(* CdnHits: what the counts of hits are worth.                             *)
(***************************************************************************)

Bucket == [count : Nat, expires : Int]

Hit == [phase : {"unposted", "read", "put", "lost"}, entry : Ids \cup {NoHit.entry},
        hour : Int, seen : Nat]

Predictor == [phase : {"idle", "reading"}, cutoff : Int, left : SUBSET (Ids \X Int),
              totals : [Ids -> Nat], due : SUBSET Hits, whole : BOOLEAN]

HitsTypeOK ==
    /\ moment \in Nat
    /\ DOMAIN buckets \subseteq Ids \X Int
    /\ buckets \in [DOMAIN buckets -> Bucket]
    /\ hit \in [Hits -> Hit]
    /\ predictor \in Predictor

Putted == {x \in Hits : hit[x].phase = "put"}

Reading == {x \in Hits : hit[x].phase = "read"}

Landed(k) == {x \in Putted : KeyOf(x) = k}

\* The moment an hour begins.
Begins(h) == h * Hour

\* What a run has counted of an entry, at the most and at the least.
Gathered(e) == {x \in Putted : /\ hit[x].entry = e /\ hit[x].hour >= predictor.cutoff
                               /\ KeyOf(x) \notin predictor.left}

Owed(e) == {x \in predictor.due : /\ hit[x].entry = e /\ hit[x].hour >= Cutoff
                                  /\ KeyOf(x) \notin predictor.left}

\* No bucket counts more than has landed, and no run more than it has read.
NoneInvented ==
    /\ \A x \in Reading :
           KeyOf(x) \in Ids \X Int /\ hit[x].seen <= Cardinality(Landed(KeyOf(x)))
    /\ \A k \in Ids \X Int : CountIn(k) <= Cardinality(Landed(k))
    /\ predictor.phase = "reading" =>
           /\ \A k \in predictor.left : k[2] >= predictor.cutoff
           /\ \A e \in Ids : predictor.totals[e] <= Cardinality(Gathered(e))

\* A bucket that posts held one at a time, and none ahead of its hour, counts
\* what has landed for as long as its hour counts.
NoneLost ==
    /\ \A x \in Reading : KeyOf(x) \notin entangled =>
           /\ Begins(hit[x].hour) <= moment
           /\ hit[x].hour >= Cutoff => hit[x].seen >= Cardinality(Landed(KeyOf(x)))
           /\ \A y \in Reading : KeyOf(y) = KeyOf(x) => y = x
    /\ \A k \in (Ids \X Int) \ entangled :
           /\ k[2] >= Cutoff => CountIn(k) >= Cardinality(Landed(k))
           /\ k \in DOMAIN buckets => buckets[k].expires >= Begins(k[2]) + TimeToLive

DueIsCounted ==
    predictor.phase = "reading" =>
        /\ predictor.due \subseteq Putted
        /\ predictor.whole => \A e \in Ids : (\A k \in entangled : k[1] # e) =>
               predictor.totals[e] >= Cardinality(Owed(e))

HitsInv == HitsTypeOK /\ NoneInvented /\ NoneLost /\ DueIsCounted
-----------------------------------------------------------------------------
LEMMA HoursBegin ==
    ASSUME NEW m \in Nat, NEW h \in Int
    PROVE  /\ m \div Hour \in Nat /\ Begins(h) \in Int
           /\ Begins(h) <= m <=> h <= m \div Hour
           /\ Begins(h + 2) = Begins(h) + TimeToLive
<1> DEFINE q == m \div Hour
<1>1. Hour \in Nat \ {0}
  BY HitsAssumption
<1>2. q \in Nat /\ Begins(h) \in Int
  BY <1>1 DEF Begins
<1>3. Hour * q <= m /\ m < Hour * q + Hour
  BY <1>1
<1> HIDE DEF q
<1>4. h <= q => h * Hour <= Hour * q
  BY <1>1, <1>2
<1>5. h >= q + 1 => h * Hour >= Hour * q + Hour
  BY <1>1, <1>2
<1>6. (h + 2) * Hour = h * Hour + 2 * Hour
  BY <1>1
<1>7. h * Hour \in Int /\ Hour * q \in Int
  BY <1>1, <1>2
<1>8. Begins(h) <= m <=> h <= q
  <2>1. h <= q \/ h >= q + 1
    BY <1>2
  <2>2. QED
    BY <1>1, <1>2, <1>3, <1>4, <1>5, <1>7, <2>1 DEF Begins
<1>9. QED
  BY <1>2, <1>6, <1>8 DEF Begins, TimeToLive, q

LEMMA HitsFinite ==
    \A S \in SUBSET Hits :
        /\ IsFiniteSet(S) /\ Cardinality(S) \in Nat
        /\ \A T \in SUBSET S : Cardinality(T) <= Cardinality(S)
BY HitsAssumption, FS_Subset, FS_CardinalityType

LEMMA HitsTyped ==
    ASSUME HitsTypeOK
    PROVE  /\ HourNow \in Nat /\ Cutoff \in Int
           /\ \A k : CountIn(k) \in Nat /\ Landed(k) \in SUBSET Hits
           /\ \A k : Cardinality(Landed(k)) \in Nat
           /\ \A e : Gathered(e) \in SUBSET Hits /\ Owed(e) \in SUBSET Hits
<1>1. HourNow \in Nat /\ Cutoff \in Int
  <2>1. moment \div Hour \in Nat
    BY HoursBegin DEF HitsTypeOK
  <2>2. QED
    BY <2>1 DEF HourNow, Cutoff
<1>2. \A k : CountIn(k) \in Nat
  BY DEF CountIn, HitsTypeOK, Bucket
<1>3. \A k : Landed(k) \in SUBSET Hits
  BY DEF Landed, Putted
<1>4. \A e : Gathered(e) \in SUBSET Hits /\ Owed(e) \in SUBSET Hits
  BY DEF Gathered, Putted, Owed, HitsTypeOK, Predictor
<1>5. QED
  BY <1>1, <1>2, <1>3, <1>4, HitsFinite

\* A hit that has not landed, before or after a step, is nowhere counted.
LEMMA HitMoves ==
    ASSUME HitsInv, NEW x \in Hits, hit[x].phase # "put",
           NEW new \in Hit, new.phase # "put", hit' = [hit EXCEPT ![x] = new]
    PROVE  /\ hit' \in [Hits -> Hit] /\ hit'[x] = new
           /\ \A y \in Hits \ {x} : hit'[y] = hit[y]
           /\ Putted' = Putted /\ x \notin Putted
           /\ Reading' = IF new.phase = "read" THEN Reading \cup {x} ELSE Reading \ {x}
           /\ \A y \in Hits \ {x} : KeyOf(y)' = KeyOf(y)
           /\ \A k : Landed(k)' = Landed(k)
           /\ UNCHANGED <<moment, predictor>> /\ predictor.phase = "reading" =>
                  \A e \in Ids : Gathered(e)' = Gathered(e) /\ Owed(e)' = Owed(e)
<1>1. /\ hit' \in [Hits -> Hit] /\ hit'[x] = new
      /\ \A y \in Hits \ {x} : hit'[y] = hit[y]
  BY DEF HitsInv, HitsTypeOK
<1>2. Putted' = Putted /\ x \notin Putted /\ Putted \subseteq Hits
  BY <1>1 DEF Putted
<1>3. Reading' = IF new.phase = "read" THEN Reading \cup {x} ELSE Reading \ {x}
  BY <1>1 DEF Reading
<1>4. \A y \in Hits \ {x} : KeyOf(y)' = KeyOf(y)
  BY <1>1 DEF KeyOf
<1>5. \A k : Landed(k)' = Landed(k)
  BY <1>2, <1>4 DEF Landed
<1>6. ASSUME UNCHANGED <<moment, predictor>>, predictor.phase = "reading", NEW e \in Ids
      PROVE  Gathered(e)' = Gathered(e) /\ Owed(e)' = Owed(e)
  <2>1. Cutoff' = Cutoff
    BY <1>6 DEF Cutoff, HourNow
  <2>2. Gathered(e)' = Gathered(e)
    BY <1>1, <1>2, <1>4, <1>6 DEF Gathered
  <2>3. predictor.due \subseteq Hits \ {x}
    BY <1>2, <1>6 DEF HitsInv, DueIsCounted
  <2>4. Owed(e)' = Owed(e)
    BY <1>1, <1>4, <1>6, <2>1, <2>3 DEF Owed
  <2>5. QED
    BY <2>2, <2>4
<1>7. QED
  BY <1>1, <1>2, <1>3, <1>4, <1>5, <1>6

LEMMA ReadBucketKeeps ==
    ASSUME HitsInv, NEW x \in Hits, NEW e \in Ids, NEW h \in Hours, ReadBucket(x, e, h)
    PROVE  HitsInv'
<1> DEFINE key == <<e, h>>
           seen == CountIn(key)
           new == [phase |-> "read", entry |-> e, hour |-> h, seen |-> seen]
           met == h > HourNow \/ \E y \in Hits : hit[y].phase = "read" /\ KeyOf(y) = key
<1>1. /\ hit[x].phase = "unposted" /\ hit' = [hit EXCEPT ![x] = new]
      /\ UNCHANGED <<moment, buckets, predictor>>
  BY DEF ReadBucket
<1>2. entangled' = IF met THEN entangled \cup {key} ELSE entangled
  BY DEF ReadBucket
<1>3. h \in Int
  <2>1. \A a, b \in Int : a .. b \subseteq Int
    OBVIOUS
  <2>2. -Drift \in Int /\ LastMoment \div Hour + Drift \in Int
    BY HitsAssumption, HoursBegin
  <2>3. QED
    BY <2>1, <2>2 DEF Hours
<1>4. HitsTypeOK /\ key \in Ids \X Int /\ seen \in Nat
  BY <1>3, HitsTyped DEF HitsInv
<1>5. seen = CountIn(key)
  OBVIOUS
<1> HIDE DEF seen
<1>6. new \in Hit /\ new.phase = "read" /\ new.entry = e /\ new.hour = h /\ new.seen = seen
  BY <1>3, <1>4 DEF Hit
<1> HIDE DEF new
<1>7. /\ hit' \in [Hits -> Hit] /\ hit'[x] = new
      /\ \A y \in Hits \ {x} : hit'[y] = hit[y]
      /\ Putted' = Putted /\ Reading' = Reading \cup {x}
      /\ \A y \in Hits \ {x} : KeyOf(y)' = KeyOf(y)
      /\ \A k : Landed(k)' = Landed(k)
      /\ predictor.phase = "reading" =>
             \A f \in Ids : Gathered(f)' = Gathered(f) /\ Owed(f)' = Owed(f)
  BY <1>1, <1>6, HitMoves
<1>8. KeyOf(x)' = key /\ x \notin Reading
  BY <1>1, <1>6, <1>7 DEF KeyOf, Reading
<1>9. /\ Cutoff' = Cutoff /\ \A k : CountIn(k)' = CountIn(k)
      /\ entangled \subseteq entangled'
  BY <1>1, <1>2 DEF Cutoff, HourNow, CountIn
<1>10. key \notin entangled' => h <= HourNow /\ \A y \in Reading : KeyOf(y) # key
  BY <1>2, <1>3, <1>4, HitsTyped DEF Reading
<1> HIDE DEF met, key
<1>11. HitsTypeOK'
  BY <1>1, <1>4, <1>7 DEF HitsTypeOK
<1>12. NoneInvented'
  <2>1. NoneInvented /\ Reading \subseteq Hits
    BY DEF HitsInv, Reading
  <2>2. \A y \in Reading' :
            KeyOf(y)' \in Ids \X Int /\ hit'[y].seen <= Cardinality(Landed(KeyOf(y)'))
    BY <1>4, <1>5, <1>6, <1>7, <1>8, <2>1 DEF NoneInvented
  <2>3. \A y \in Reading' : Landed(KeyOf(y))' = Landed(KeyOf(y)')
    BY <1>7
  <2>4. QED
    BY <1>1, <1>7, <1>9, <2>1, <2>2, <2>3 DEF NoneInvented
<1>13. NoneLost'
  <2>1. NoneLost /\ Reading \subseteq Hits
    BY DEF HitsInv, Reading
  <2>2. ASSUME NEW y \in Reading', KeyOf(y)' \notin entangled'
        PROVE  /\ Begins(hit'[y].hour) <= moment
               /\ hit'[y].hour >= Cutoff => hit'[y].seen >= Cardinality(Landed(KeyOf(y))')
               /\ \A z \in Reading' : KeyOf(z)' = KeyOf(y)' => z = y
    <3>1. CASE y = x
      <4>1. h <= HourNow /\ \A z \in Reading : KeyOf(z) # key
        BY <1>8, <1>10, <2>2, <3>1
      <4>2. Begins(h) <= moment
        BY <1>3, <1>4, <4>1, HoursBegin DEF HourNow, HitsTypeOK
      <4>3. h >= Cutoff => seen >= Cardinality(Landed(key))
        <5>1. key \notin entangled /\ key[2] = h
          BY <1>8, <1>9, <2>2, <3>1 DEF key
        <5>2. QED
          BY <1>4, <1>5, <2>1, <5>1 DEF NoneLost
      <4>4. Landed(KeyOf(y))' = Landed(key)
        BY <1>7, <1>8, <3>1
      <4>5. QED
        BY <1>6, <1>7, <1>8, <2>1, <3>1, <4>1, <4>2, <4>3, <4>4
    <3>2. CASE y # x
      <4>1. /\ y \in Reading /\ KeyOf(y)' = KeyOf(y) /\ hit'[y] = hit[y]
            /\ KeyOf(y) \notin entangled /\ KeyOf(y) \notin entangled'
            /\ Landed(KeyOf(y))' = Landed(KeyOf(y))
        BY <1>7, <1>9, <2>1, <2>2, <3>2
      <4>2. KeyOf(y) # key
        BY <1>10, <4>1
      <4>3. QED
        BY <1>7, <1>8, <2>1, <4>1, <4>2 DEF NoneLost
    <3>3. QED
      BY <3>1, <3>2
  <2>3. QED
    BY <1>1, <1>7, <1>9, <2>1, <2>2 DEF NoneLost
<1>14. DueIsCounted'
  <2>1. DueIsCounted
    BY DEF HitsInv
  <2>2. QED
    BY <1>1, <1>7, <1>9, <2>1 DEF DueIsCounted
<1>15. QED
  BY <1>11, <1>12, <1>13, <1>14 DEF HitsInv

LEMMA LoseHitKeeps ==
    ASSUME HitsInv, NEW x \in Hits, LoseHit(x)
    PROVE  HitsInv'
<1> DEFINE new == [hit[x] EXCEPT !.phase = "lost"]
<1>1. /\ hit[x].phase = "read" /\ hit' = [hit EXCEPT ![x] = new]
      /\ UNCHANGED <<moment, buckets, predictor, entangled>>
  BY DEF LoseHit
<1>2. new \in Hit /\ new.phase = "lost"
  BY DEF HitsInv, HitsTypeOK, Hit
<1> HIDE DEF new
<1>3. /\ hit' \in [Hits -> Hit] /\ Putted' = Putted /\ Reading' = Reading \ {x}
      /\ \A y \in Hits \ {x} : hit'[y] = hit[y]
      /\ \A y \in Hits \ {x} : KeyOf(y)' = KeyOf(y)
      /\ \A k : Landed(k)' = Landed(k)
      /\ predictor.phase = "reading" =>
             \A f \in Ids : Gathered(f)' = Gathered(f) /\ Owed(f)' = Owed(f)
  BY <1>1, <1>2, HitMoves
<1>4. /\ Cutoff' = Cutoff /\ \A k : CountIn(k)' = CountIn(k)
      /\ Reading \subseteq Hits
      /\ \A y \in Hits \ {x} : Landed(KeyOf(y))' = Landed(KeyOf(y))
  BY <1>1, <1>3 DEF Cutoff, HourNow, CountIn, Reading
<1>5. HitsTypeOK'
  BY <1>1, <1>3 DEF HitsInv, HitsTypeOK
<1>6. NoneInvented'
  BY <1>1, <1>3, <1>4 DEF HitsInv, NoneInvented
<1>7. NoneLost'
  BY <1>1, <1>3, <1>4 DEF HitsInv, NoneLost
<1>8. DueIsCounted'
  BY <1>1, <1>3, <1>4 DEF HitsInv, DueIsCounted
<1>9. QED
  BY <1>5, <1>6, <1>7, <1>8 DEF HitsInv

LEMMA PutBucketKeeps ==
    ASSUME HitsInv, NEW x \in Hits, PutBucket(x)
    PROVE  HitsInv'
<1> DEFINE new == [hit[x] EXCEPT !.phase = "put"]
           k == KeyOf(x)
           count == hit[x].seen + 1
<1>1. /\ hit[x].phase = "read" /\ hit' = [hit EXCEPT ![x] = new]
      /\ buckets' = Holding(k, count)
      /\ UNCHANGED <<moment, predictor, entangled>>
  BY DEF PutBucket
<1>2. /\ HitsTypeOK /\ NoneInvented /\ NoneLost /\ DueIsCounted
      /\ x \in Reading /\ x \notin Putted /\ Reading \subseteq Hits /\ Putted \subseteq Hits
  BY <1>1 DEF HitsInv, Reading, Putted
<1>3. /\ new \in Hit /\ new.phase = "put" /\ new.entry = hit[x].entry
      /\ new.hour = hit[x].hour /\ new.seen = hit[x].seen
      /\ hit[x].seen \in Nat /\ count \in Nat /\ k[2] = hit[x].hour /\ k[2] \in Int
  BY <1>2 DEF HitsTypeOK, Hit, KeyOf
<1> HIDE DEF new
<1>4. /\ hit' \in [Hits -> Hit] /\ hit'[x] = new
      /\ \A y \in Hits \ {x} : hit'[y] = hit[y]
  BY <1>1, <1>2, <1>3 DEF HitsTypeOK
<1>5. /\ Putted' = Putted \cup {x} /\ Reading' = Reading \ {x}
      /\ \A y \in Hits : KeyOf(y)' = KeyOf(y)
  BY <1>3, <1>4 DEF Putted, Reading, KeyOf
<1>6. \A j : Landed(j)' = IF j = k THEN Landed(j) \cup {x} ELSE Landed(j)
  BY <1>2, <1>5 DEF Landed
<1>7. \A j : Landed(j) \in SUBSET Hits /\ x \notin Landed(j) /\ IsFiniteSet(Landed(j))
             /\ Cardinality(Landed(j)) \in Nat
  BY <1>2, HitsFinite DEF Landed
<1>8. \A j : Cardinality(Landed(j)') = IF j = k THEN Cardinality(Landed(j)) + 1
                                                ELSE Cardinality(Landed(j))
  BY <1>6, <1>7, FS_AddElement
<1>9. /\ DOMAIN buckets' = DOMAIN buckets \cup {k}
      /\ buckets'[k] = [count |-> count, expires |-> moment + TimeToLive]
      /\ \A j \in DOMAIN buckets \ {k} : buckets'[j] = buckets[j]
  BY <1>1 DEF Holding
<1>10. /\ moment + TimeToLive \in Int /\ TimeToLive \in Int
  BY <1>2, HitsAssumption DEF HitsTypeOK, TimeToLive
<1>11. \A j : CountIn(j)' = IF j = k THEN count ELSE CountIn(j)
  BY <1>9 DEF CountIn
<1>12. k \in Ids \X Int
  BY <1>2 DEF NoneInvented
<1>13. HitsTypeOK'
  <2>1. buckets' \in [DOMAIN buckets' -> Bucket]
    BY <1>1, <1>2, <1>3, <1>9, <1>10 DEF HitsTypeOK, Bucket, Holding
  <2>2. QED
    BY <1>1, <1>2, <1>4, <1>9, <1>12, <2>1 DEF HitsTypeOK
<1> HIDE DEF k, count
<1>14. NoneInvented'
  <2>1. \A y \in Reading' :
            KeyOf(y)' \in Ids \X Int /\ hit'[y].seen <= Cardinality(Landed(KeyOf(y))')
    <3> SUFFICES ASSUME NEW y \in Reading'
                 PROVE  /\ KeyOf(y)' \in Ids \X Int
                        /\ hit'[y].seen <= Cardinality(Landed(KeyOf(y))')
      OBVIOUS
    <3>1. y \in Reading /\ y # x /\ y \in Hits /\ hit'[y] = hit[y] /\ KeyOf(y)' = KeyOf(y)
      BY <1>2, <1>4, <1>5
    <3>2. /\ hit[y].seen \in Nat /\ hit[y].seen <= Cardinality(Landed(KeyOf(y)))
          /\ KeyOf(y) \in Ids \X Int
      BY <1>2, <3>1 DEF NoneInvented, HitsTypeOK, Hit
    <3>3. /\ Cardinality(Landed(KeyOf(y))') >= Cardinality(Landed(KeyOf(y)))
          /\ Cardinality(Landed(KeyOf(y))') \in Nat
      <4> DEFINE j == KeyOf(y)
      <4>1. Landed(KeyOf(y))' = IF j = k THEN Landed(j) \cup {x} ELSE Landed(j)
        BY <1>5, <1>2, <3>1 DEF Landed, k
      <4>2. QED
        BY <1>7, <4>1, FS_AddElement
    <3>4. QED
      BY <1>7, <3>1, <3>2, <3>3
  <2>2. \A j \in Ids \X Int : CountIn(j)' <= Cardinality(Landed(j)')
    <3>1. hit[x].seen <= Cardinality(Landed(k))
      BY <1>2 DEF NoneInvented, k
    <3>2. QED
      BY <1>2, <1>3, <1>7, <1>8, <1>11, <3>1 DEF NoneInvented, count
  <2>3. \A e \in Ids : Cardinality(Gathered(e)) <= Cardinality(Gathered(e)')
    <3> TAKE e \in Ids
    <3>1. Gathered(e) \in SUBSET (Gathered(e)') /\ Gathered(e)' \in SUBSET Hits
      BY <1>1, <1>2, <1>4, <1>5 DEF Gathered
    <3>2. QED
      BY <3>1, HitsFinite
  <2>4. \A e \in Ids : /\ predictor.totals[e] \in Nat
                       /\ Cardinality(Gathered(e)) \in Nat /\ Cardinality(Gathered(e)') \in Nat
    <3>1. \A e : Gathered(e) \in SUBSET Hits /\ Gathered(e)' \in SUBSET Hits
      BY <1>2, <1>5 DEF Gathered
    <3>2. QED
      BY <1>2, <3>1, HitsFinite DEF HitsTypeOK, Predictor
  <2>5. QED
    BY <1>1, <1>2, <2>1, <2>2, <2>3, <2>4 DEF NoneInvented
<1>15. NoneLost'
  <2>1. Cutoff' = Cutoff
    BY <1>1 DEF Cutoff, HourNow
  <2>2. ASSUME NEW y \in Reading', KeyOf(y)' \notin entangled'
        PROVE  /\ Begins(hit'[y].hour) <= moment
               /\ hit'[y].hour >= Cutoff => hit'[y].seen >= Cardinality(Landed(KeyOf(y))')
               /\ \A z \in Reading' : KeyOf(z)' = KeyOf(y)' => z = y
    <3>1. /\ y \in Reading /\ y # x /\ y \in Hits /\ hit'[y] = hit[y]
          /\ KeyOf(y)' = KeyOf(y) /\ KeyOf(y) \notin entangled
      BY <1>1, <1>2, <1>4, <1>5, <2>2
    <3>2. KeyOf(y) # k
      BY <1>2, <3>1 DEF NoneLost, k
    <3>3. Landed(KeyOf(y))' = Landed(KeyOf(y))
      BY <1>2, <1>5, <3>1, <3>2 DEF Landed, k
    <3>4. QED
      BY <1>2, <1>5, <3>1, <3>3 DEF NoneLost
  <2>3. ASSUME NEW j \in (Ids \X Int) \ entangled
        PROVE  /\ j[2] >= Cutoff => CountIn(j)' >= Cardinality(Landed(j)')
               /\ j \in DOMAIN buckets' => buckets'[j].expires >= Begins(j[2]) + TimeToLive
    <3>1. CASE j = k
      <4>1. /\ Begins(hit[x].hour) <= moment
            /\ hit[x].hour >= Cutoff => hit[x].seen >= Cardinality(Landed(k))
        BY <1>2, <2>3, <3>1 DEF NoneLost, k
      <4>2. Begins(k[2]) \in Int /\ moment \in Nat
        BY <1>2, <1>3, HoursBegin DEF k, HitsTypeOK
      <4>3. buckets'[k].expires = moment + TimeToLive
        BY <1>9
      <4>4. k[2] = hit[x].hour
        BY <1>3 DEF k
      <4>5. QED
        BY <1>3, <1>7, <1>8, <1>10, <1>11, <3>1, <4>1, <4>2, <4>3, <4>4 DEF count
    <3>2. CASE j # k
      <4>1. CountIn(j)' = CountIn(j) /\ Cardinality(Landed(j)') = Cardinality(Landed(j))
        BY <1>8, <1>11, <3>2
      <4>2. j \in DOMAIN buckets' => j \in DOMAIN buckets /\ buckets'[j] = buckets[j]
        BY <1>9, <3>2
      <4>3. QED
        BY <1>2, <2>3, <4>1, <4>2 DEF NoneLost
    <3>3. QED
      BY <3>1, <3>2
  <2>4. QED
    BY <1>1, <2>1, <2>2, <2>3 DEF NoneLost
<1>16. DueIsCounted'
  <2>1. ASSUME NEW e \in Ids, predictor.phase = "reading"
        PROVE  Owed(e)' = Owed(e)
    <3>1. predictor.due \subseteq Hits \ {x} /\ Cutoff' = Cutoff
      BY <1>1, <1>2, <2>1 DEF DueIsCounted, Cutoff, HourNow
    <3>2. QED
      BY <1>1, <1>4, <1>5, <3>1 DEF Owed
  <2>2. QED
    BY <1>1, <1>2, <1>5, <2>1 DEF DueIsCounted
<1>17. QED
  BY <1>13, <1>14, <1>15, <1>16 DEF HitsInv

LEMMA ListKeeps ==
    ASSUME HitsInv, ListBuckets
    PROVE  HitsInv'
<1> DEFINE left == {k \in Listed : k[2] >= Cutoff}
           cutoff == Cutoff
           whole == Listed = DOMAIN buckets
           new == [Idle EXCEPT !.phase = "reading", !.cutoff = cutoff, !.left = left,
                               !.due = Putted, !.whole = whole]
<1>1. predictor' = new /\ UNCHANGED <<moment, buckets, hit, entangled>>
  BY DEF ListBuckets, Putted
<1>2. /\ HitsTypeOK /\ NoneInvented /\ NoneLost
      /\ cutoff \in Int /\ cutoff = Cutoff /\ whole \in BOOLEAN
      /\ left \in SUBSET (Ids \X Int) /\ Putted \in SUBSET Hits
      /\ \A k \in left : k[2] >= cutoff
      /\ whole => \A k \in DOMAIN buckets : k[2] >= cutoff => k \in left
  BY HitsTyped DEF HitsInv, HitsTypeOK, Listed, Putted
<1> HIDE DEF left, cutoff, whole
<1>3. /\ new \in Predictor /\ new.phase = "reading" /\ new.cutoff = cutoff
      /\ new.left = left /\ new.due = Putted /\ new.whole = whole
      /\ new.totals = [e \in Ids |-> 0]
  BY <1>2 DEF Idle, Predictor
<1> HIDE DEF new
<1>4. /\ Putted' = Putted /\ Reading' = Reading /\ Cutoff' = Cutoff
      /\ \A k : Landed(k)' = Landed(k) /\ CountIn(k)' = CountIn(k)
      /\ \A x : KeyOf(x)' = KeyOf(x)
  BY <1>1 DEF Putted, Reading, Cutoff, HourNow, Landed, CountIn, KeyOf
<1>5. HitsTypeOK'
  BY <1>1, <1>2, <1>3 DEF HitsTypeOK
<1>6. NoneInvented'
  <2>1. \A e \in Ids : Cardinality(Gathered(e)') \in Nat
    BY <1>5, HitsFinite DEF Gathered, Putted
  <2>2. \A e \in Ids : predictor'.totals[e] <= Cardinality(Gathered(e)')
    BY <1>1, <1>3, <2>1
  <2>3. \A x \in Reading' : Landed(KeyOf(x))' = Landed(KeyOf(x))
    BY <1>4 DEF Landed
  <2>4. QED
    BY <1>1, <1>2, <1>3, <1>4, <2>2, <2>3 DEF NoneInvented
<1>7. NoneLost'
  <2>1. \A x \in Reading' : Landed(KeyOf(x))' = Landed(KeyOf(x))
    BY <1>4 DEF Landed
  <2>2. QED
    BY <1>1, <1>2, <1>4, <2>1 DEF NoneLost
<1>8. DueIsCounted'
  <2>1. ASSUME whole, NEW e \in Ids, \A k \in entangled : k[1] # e
        PROVE  Owed(e)' = {}
    <3> SUFFICES ASSUME NEW x \in Putted, hit[x].entry = e, hit[x].hour >= cutoff,
                        KeyOf(x) \notin left
                 PROVE  FALSE
      BY <1>1, <1>2, <1>3, <1>4 DEF Owed
    <3> DEFINE k == KeyOf(x)
    <3>1. /\ k \in Ids \X Int /\ k[1] = e /\ k[2] = hit[x].hour
      BY <1>2 DEF KeyOf, HitsTypeOK, Hit
    <3>2. k \notin entangled
      BY <2>1, <3>1
    <3>3. x \in Landed(k) /\ Landed(k) \in SUBSET Hits
      BY <1>2 DEF Landed
    <3> HIDE DEF k
    <3>4. Cardinality(Landed(k)) \in Nat /\ Cardinality(Landed(k)) # 0
      BY <3>3, HitsFinite, FS_EmptySet
    <3>5. CountIn(k) >= Cardinality(Landed(k))
      BY <1>2, <3>1, <3>2 DEF NoneLost
    <3>6. k \in DOMAIN buckets
      BY <3>4, <3>5 DEF CountIn
    <3>7. QED
      BY <1>2, <2>1, <3>1, <3>6 DEF k
  <2>2. \A e \in Ids : predictor'.totals[e] = 0
    BY <1>1, <1>3
  <2>3. Cardinality({}) = 0
    BY FS_EmptySet
  <2>4. ASSUME whole, NEW e \in Ids, \A k \in entangled : k[1] # e
        PROVE  predictor'.totals[e] >= Cardinality(Owed(e)')
    <3>1. Owed(e)' = {} /\ predictor'.totals[e] = 0
      BY <2>1, <2>2, <2>4
    <3>2. QED
      BY <2>3, <3>1
  <2>5. predictor'.due = Putted /\ predictor'.whole = whole
    BY <1>1, <1>3
  <2>6. QED
    BY <1>1, <1>4, <2>4, <2>5 DEF DueIsCounted
<1>9. QED
  BY <1>5, <1>6, <1>7, <1>8 DEF HitsInv

LEMMA ReadListedKeeps ==
    ASSUME HitsInv, NEW k \in predictor.left, ReadListed(k)
    PROVE  HitsInv'
<1> DEFINE left == predictor.left \ {k}
           entry == k[1]
           totals == [predictor.totals EXCEPT ![entry] = @ + CountIn(k)]
           new == [predictor EXCEPT !.left = left, !.totals = totals]
<1>1. /\ predictor.phase = "reading" /\ UNCHANGED <<moment, buckets, hit, entangled>>
      /\ predictor' = [predictor EXCEPT !.left = @ \ {k}, !.totals[k[1]] = @ + CountIn(k)]
  BY DEF ReadListed
<1>2. /\ HitsTypeOK /\ NoneInvented /\ NoneLost /\ DueIsCounted /\ predictor \in Predictor
      /\ k \in Ids \X Int /\ entry \in Ids /\ k = <<entry, k[2]>> /\ k[2] \in Int
      /\ k[2] >= predictor.cutoff /\ Putted \subseteq Hits /\ CountIn(k) \in Nat
      /\ predictor.totals \in [Ids -> Nat] /\ predictor.due \subseteq Putted
      /\ left \in SUBSET (Ids \X Int) /\ left = predictor.left \ {k}
      /\ Cutoff \in Int /\ predictor.cutoff \in Int
  BY <1>1, HitsTyped DEF HitsInv, HitsTypeOK, Predictor, NoneInvented, DueIsCounted, Putted
<1>3. predictor' = new
  BY <1>1, <1>2 DEF Predictor
<1>4. /\ totals \in [Ids -> Nat] /\ totals[entry] = predictor.totals[entry] + CountIn(k)
      /\ \A e \in Ids \ {entry} : totals[e] = predictor.totals[e]
  BY <1>2
<1> HIDE DEF left, totals, entry
<1>5. /\ new \in Predictor /\ new.phase = "reading" /\ new.cutoff = predictor.cutoff
      /\ new.left = left /\ new.due = predictor.due /\ new.whole = predictor.whole
      /\ new.totals = totals
  BY <1>1, <1>2, <1>4 DEF Predictor
<1> HIDE DEF new
<1>6. /\ Putted' = Putted /\ Reading' = Reading /\ Cutoff' = Cutoff
      /\ \A j : Landed(j)' = Landed(j) /\ CountIn(j)' = CountIn(j)
      /\ \A x : KeyOf(x)' = KeyOf(x)
      /\ \A x \in Reading' : Landed(KeyOf(x))' = Landed(KeyOf(x))
  BY <1>1 DEF Putted, Reading, Cutoff, HourNow, Landed, CountIn, KeyOf
<1>7. HitsTypeOK'
  BY <1>1, <1>2, <1>3, <1>5 DEF HitsTypeOK
<1>8. NoneLost'
  BY <1>1, <1>2, <1>6 DEF NoneLost
<1>9. \A x \in Putted : /\ KeyOf(x) = <<hit[x].entry, hit[x].hour>> /\ hit[x].hour \in Int
                        /\ KeyOf(x) = k <=> hit[x].entry = entry /\ hit[x].hour = k[2]
  BY <1>2 DEF KeyOf, HitsTypeOK, Hit
<1>10. \A e \in Ids \ {entry} : Gathered(e)' = Gathered(e) /\ Owed(e)' = Owed(e)
  <2> TAKE e \in Ids \ {entry}
  <2>1. Gathered(e)' = Gathered(e)
    BY <1>1, <1>2, <1>3, <1>5, <1>6, <1>9 DEF Gathered
  <2>2. Owed(e)' = Owed(e)
    BY <1>1, <1>2, <1>3, <1>5, <1>6, <1>9 DEF Owed
  <2>3. QED
    BY <2>1, <2>2
<1>11. /\ Gathered(entry)' = Gathered(entry) \cup Landed(k)
       /\ Gathered(entry) \cap Landed(k) = {}
  <2>1. Gathered(entry)' = Gathered(entry) \cup Landed(k)
    BY <1>1, <1>2, <1>3, <1>5, <1>6, <1>9 DEF Gathered, Landed
  <2>2. Gathered(entry) \cap Landed(k) = {}
    BY DEF Gathered, Landed
  <2>3. QED
    BY <2>1, <2>2
<1>12. /\ k[2] >= Cutoff => Owed(entry)' \subseteq Owed(entry) \cup Landed(k)
       /\ ~(k[2] >= Cutoff) => Owed(entry)' \subseteq Owed(entry)
  BY <1>1, <1>2, <1>3, <1>5, <1>6, <1>9 DEF Owed, Landed
<1>13. /\ IsFiniteSet(Landed(k)) /\ Cardinality(Landed(k)) \in Nat
       /\ \A e : /\ IsFiniteSet(Gathered(e)) /\ Cardinality(Gathered(e)) \in Nat
               /\ IsFiniteSet(Owed(e)) /\ Cardinality(Owed(e)) \in Nat
  <2>1. /\ Landed(k) \in SUBSET Hits
        /\ \A e : Gathered(e) \in SUBSET Hits /\ Owed(e) \in SUBSET Hits
    BY <1>2, HitsTyped
  <2>2. QED
    BY <2>1, HitsFinite
<1>14. NoneInvented'
  <2>1. Cardinality(Gathered(entry)') = Cardinality(Gathered(entry)) + Cardinality(Landed(k))
    <3>1. Cardinality(Gathered(entry) \cup Landed(k)) =
              Cardinality(Gathered(entry)) + Cardinality(Landed(k))
                  - Cardinality(Gathered(entry) \cap Landed(k))
      BY <1>13, FS_Union
    <3>2. Cardinality(Gathered(entry) \cap Landed(k)) = 0
      BY <1>11, FS_EmptySet
    <3>3. QED
      BY <1>11, <1>13, <3>1, <3>2
  <2>2. /\ predictor.totals[entry] <= Cardinality(Gathered(entry))
        /\ CountIn(k) <= Cardinality(Landed(k)) /\ predictor.totals[entry] \in Nat
    BY <1>1, <1>2 DEF NoneInvented
  <2>3. predictor'.totals[entry] <= Cardinality(Gathered(entry)')
    BY <1>2, <1>3, <1>4, <1>5, <1>13, <2>1, <2>2
  <2>4. \A e \in Ids \ {entry} : predictor'.totals[e] <= Cardinality(Gathered(e)')
    BY <1>1, <1>2, <1>3, <1>4, <1>5, <1>10 DEF NoneInvented
  <2>5. QED
    BY <1>1, <1>2, <1>3, <1>5, <1>6, <2>3, <2>4 DEF NoneInvented
<1>15. DueIsCounted'
  <2>1. ASSUME predictor.whole, \A j \in entangled : j[1] # entry
        PROVE  predictor'.totals[entry] >= Cardinality(Owed(entry)')
    <3>1. k \notin entangled
      BY <1>2, <2>1 DEF entry
    <3>2. /\ predictor.totals[entry] >= Cardinality(Owed(entry))
          /\ predictor.totals[entry] \in Nat
      BY <1>1, <1>2, <2>1 DEF DueIsCounted
    <3>3. IsFiniteSet(Owed(entry)') /\ Cardinality(Owed(entry)') \in Nat
      <4>1. Owed(entry)' \in SUBSET Hits
        BY <1>2, <1>12, HitsTyped
      <4>2. QED
        BY <4>1, HitsFinite
    <3>4. CASE k[2] >= Cutoff
      <4>1. CountIn(k) >= Cardinality(Landed(k))
        BY <1>2, <3>1, <3>4 DEF NoneLost
      <4>2. /\ IsFiniteSet(Owed(entry) \cup Landed(k))
            /\ Cardinality(Owed(entry) \cup Landed(k)) \in Nat
            /\ Cardinality(Owed(entry) \cup Landed(k))
                   <= Cardinality(Owed(entry)) + Cardinality(Landed(k))
        <5>1. IsFiniteSet(Owed(entry) \cap Landed(k))
          BY <1>13, FS_Subset
        <5>2. Cardinality(Owed(entry) \cap Landed(k)) \in Nat
          BY <5>1, FS_CardinalityType
        <5>3. /\ IsFiniteSet(Owed(entry) \cup Landed(k))
              /\ Cardinality(Owed(entry) \cup Landed(k)) =
                    Cardinality(Owed(entry)) + Cardinality(Landed(k))
                        - Cardinality(Owed(entry) \cap Landed(k))
          BY <1>13, FS_Union
        <5>4. QED
          BY <1>13, <5>2, <5>3, FS_CardinalityType
      <4>3. Cardinality(Owed(entry)') <= Cardinality(Owed(entry) \cup Landed(k))
        BY <1>12, <3>4, <4>2, FS_Subset
      <4>4. QED
        BY <1>2, <1>3, <1>4, <1>5, <1>13, <3>2, <3>3, <4>1, <4>2, <4>3
    <3>5. CASE ~(k[2] >= Cutoff)
      <4>1. Cardinality(Owed(entry)') <= Cardinality(Owed(entry))
        BY <1>12, <1>13, <3>5, FS_Subset
      <4>2. QED
        BY <1>2, <1>3, <1>4, <1>5, <1>13, <3>2, <3>3, <4>1
    <3>6. QED
      BY <3>4, <3>5
  <2>2. ASSUME predictor.whole, NEW e \in Ids \ {entry}, \A j \in entangled : j[1] # e
        PROVE  predictor'.totals[e] >= Cardinality(Owed(e)')
    BY <1>1, <1>2, <1>3, <1>4, <1>5, <1>10, <2>2 DEF DueIsCounted
  <2>3. QED
    BY <1>1, <1>2, <1>3, <1>5, <1>6, <2>1, <2>2 DEF DueIsCounted
<1>16. QED
  BY <1>7, <1>8, <1>14, <1>15 DEF HitsInv

LEMMA PredictKeeps ==
    ASSUME HitsInv, Predict
    PROVE  HitsInv'
<1>1. predictor' = Idle /\ UNCHANGED <<moment, buckets, hit, entangled>>
  BY DEF Predict
<1>2. Idle \in Predictor /\ Idle.phase # "reading"
  BY DEF Idle, Predictor
<1>3. /\ Reading' = Reading /\ Cutoff' = Cutoff
      /\ \A j : Landed(j)' = Landed(j) /\ CountIn(j)' = CountIn(j)
      /\ \A x : KeyOf(x)' = KeyOf(x)
      /\ \A x \in Reading' : Landed(KeyOf(x))' = Landed(KeyOf(x))
  BY <1>1 DEF Putted, Reading, Cutoff, HourNow, Landed, CountIn, KeyOf
<1>4. HitsTypeOK'
  BY <1>1, <1>2 DEF HitsInv, HitsTypeOK
<1>5. NoneInvented' /\ NoneLost' /\ DueIsCounted'
  BY <1>1, <1>2, <1>3 DEF HitsInv, NoneInvented, NoneLost, DueIsCounted
<1>6. QED
  BY <1>4, <1>5 DEF HitsInv

\* A bucket that was put in its hour, or later, outlives the hour that counts.
LEMMA PassKeeps ==
    ASSUME HitsInv, Pass
    PROVE  HitsInv'
<1>1. /\ moment' = moment + 1
      /\ buckets' = [k \in {j \in DOMAIN buckets : buckets[j].expires > moment + 1} |->
                        buckets[k]]
      /\ UNCHANGED <<hit, predictor, entangled>>
  BY DEF Pass
<1>2. HitsTypeOK /\ NoneInvented /\ NoneLost /\ DueIsCounted /\ moment \in Nat
  BY DEF HitsInv, HitsTypeOK
<1>3. /\ DOMAIN buckets' = {j \in DOMAIN buckets : buckets[j].expires > moment + 1}
      /\ \A j \in DOMAIN buckets' : buckets'[j] = buckets[j]
  BY <1>1
<1>4. HitsTypeOK'
  <2>1. buckets' \in [DOMAIN buckets' -> Bucket]
    BY <1>1, <1>2, <1>3 DEF HitsTypeOK
  <2>2. QED
    BY <1>1, <1>2, <1>3, <2>1 DEF HitsTypeOK
<1>5. /\ Putted' = Putted /\ Reading' = Reading
      /\ \A j : Landed(j)' = Landed(j)
      /\ \A x : KeyOf(x)' = KeyOf(x)
      /\ \A x \in Reading' : Landed(KeyOf(x))' = Landed(KeyOf(x))
      /\ \A e : Gathered(e)' = Gathered(e)
  BY <1>1 DEF Putted, Reading, Landed, KeyOf, Gathered
<1>6. HourNow' = (moment + 1) \div Hour /\ HourNow' \in Nat /\ Cutoff' = HourNow' - 1
  <2>1. moment + 1 \in Nat
    BY <1>2
  <2>2. (moment + 1) \div Hour \in Nat
    BY <2>1, HoursBegin
  <2>3. QED
    BY <1>1, <2>2 DEF HourNow, Cutoff
<1>7. Cutoff \in Int /\ Cutoff' \in Int /\ Cutoff <= Cutoff'
  <2>1. HourNow \in Nat /\ HourNow' \in Nat
    BY <1>2, <1>6, HitsTyped
  <2>2. Begins(HourNow) \in Int /\ Begins(HourNow) <= moment
    BY <1>2, <2>1, HoursBegin DEF HourNow
  <2>3. Begins(HourNow) <= moment + 1 /\ moment + 1 \in Nat
    BY <1>2, <2>2
  <2>4. HourNow <= (moment + 1) \div Hour
    BY <2>1, <2>3, HoursBegin
  <2>5. QED
    BY <1>6, <2>1, <2>4 DEF Cutoff
<1>8. \A j : CountIn(j)' \in {0, CountIn(j)} /\ CountIn(j) \in Nat
  BY <1>2, <1>3, HitsTyped DEF CountIn
<1>9. ASSUME NEW j \in (Ids \X Int) \ entangled, j[2] >= Cutoff'
      PROVE  CountIn(j)' = CountIn(j)
  <2>1. CASE j \in DOMAIN buckets
    <3> DEFINE m == moment + 1
               h == j[2] + 2
    <3>1. m \in Nat /\ h \in Int /\ j[2] \in Int /\ buckets[j].expires \in Int
      BY <1>2, <2>1 DEF HitsTypeOK, Bucket
    <3>2. buckets[j].expires >= Begins(j[2]) + TimeToLive
      BY <1>2, <2>1 DEF NoneLost
    <3>3. Begins(h) = Begins(j[2]) + TimeToLive
      BY <1>2, <3>1, HoursBegin
    <3>4. HourNow' = m \div Hour /\ HourNow' \in Nat /\ Cutoff' = HourNow' - 1
      BY <1>6
    <3>5. ~(h <= m \div Hour)
      BY <1>9, <3>1, <3>4
    <3> HIDE DEF h, m
    <3>6. Begins(h) \in Int /\ ~(Begins(h) <= m)
      BY <3>1, <3>5, HoursBegin
    <3>7. buckets[j].expires > m
      BY <3>1, <3>2, <3>3, <3>6
    <3>8. QED
      BY <1>3, <2>1, <3>7 DEF CountIn, m
  <2>2. CASE j \notin DOMAIN buckets
    BY <1>3, <2>2 DEF CountIn
  <2>3. QED
    BY <2>1, <2>2
<1>10. NoneInvented'
  <2>1. \A j \in Ids \X Int : CountIn(j)' <= Cardinality(Landed(j)')
    <3> TAKE j \in Ids \X Int
    <3>1. CountIn(j) <= Cardinality(Landed(j)) /\ Cardinality(Landed(j)) \in Nat
      BY <1>2, HitsTyped DEF NoneInvented
    <3>2. QED
      BY <1>5, <1>8, <3>1
  <2>2. QED
    BY <1>1, <1>2, <1>5, <2>1 DEF NoneInvented
<1>11. NoneLost'
  <2>1. ASSUME NEW x \in Reading, KeyOf(x) \notin entangled
        PROVE  /\ Begins(hit[x].hour) <= moment'
               /\ hit[x].hour >= Cutoff' => hit[x].seen >= Cardinality(Landed(KeyOf(x)))
    <3>1. hit[x].hour \in Int
      BY <1>2 DEF Reading, HitsTypeOK, Hit
    <3>2. Begins(hit[x].hour) \in Int
      BY <1>2, <3>1, HoursBegin
    <3>3. /\ Begins(hit[x].hour) <= moment
          /\ hit[x].hour >= Cutoff => hit[x].seen >= Cardinality(Landed(KeyOf(x)))
      BY <1>2, <2>1 DEF NoneLost
    <3>4. QED
      BY <1>1, <1>2, <1>7, <3>1, <3>2, <3>3
  <2>2. ASSUME NEW j \in (Ids \X Int) \ entangled, j[2] >= Cutoff'
        PROVE  CountIn(j)' >= Cardinality(Landed(j)')
    <3>1. j[2] >= Cutoff
      <4>1. j[2] \in Int
        OBVIOUS
      <4>2. QED
        BY <1>7, <2>2, <4>1
    <3>2. QED
      BY <1>2, <1>5, <1>9, <2>2, <3>1 DEF NoneLost
  <2>3. QED
    BY <1>1, <1>2, <1>3, <1>5, <2>1, <2>2 DEF NoneLost
<1>12. DueIsCounted'
  <2>1. ASSUME NEW e \in Ids, predictor.phase = "reading"
        PROVE  /\ Cardinality(Owed(e)') <= Cardinality(Owed(e))
               /\ Cardinality(Owed(e)') \in Nat /\ Cardinality(Owed(e)) \in Nat
               /\ predictor.totals[e] \in Nat
    <3>1. \A x \in predictor.due : hit[x].hour \in Int
      BY <1>2, <2>1 DEF DueIsCounted, Putted, HitsTypeOK, Hit
    <3>2. Owed(e)' \in SUBSET Owed(e)
      BY <1>1, <1>5, <1>7, <3>1 DEF Owed
    <3>3. Owed(e) \in SUBSET Hits /\ predictor.totals[e] \in Nat
      BY <1>2, HitsTyped DEF HitsTypeOK, Predictor
    <3>4. Owed(e)' \in SUBSET Hits
      BY <3>2, <3>3
    <3>5. QED
      BY <3>2, <3>3, <3>4, HitsFinite
  <2>2. ASSUME NEW e \in Ids, predictor.phase = "reading",
               predictor.totals[e] >= Cardinality(Owed(e))
        PROVE  predictor.totals[e] >= Cardinality(Owed(e)')
    BY <2>1, <2>2
  <2>3. QED
    BY <1>1, <1>2, <1>5, <2>2 DEF DueIsCounted
<1>13. QED
  BY <1>4, <1>10, <1>11, <1>12 DEF HitsInv

LEMMA InitHitsInv == HitsInit => HitsInv
<1> SUFFICES ASSUME HitsInit
             PROVE  HitsInv
  OBVIOUS
<1>1. /\ moment = 0 /\ buckets = [k \in {} |-> [count |-> 0, expires |-> 0]]
      /\ hit = [x \in Hits |-> NoHit] /\ predictor = Idle /\ entangled = {}
  BY DEF HitsInit
<1>2. NoHit \in Hit /\ NoHit.phase = "unposted"
  <2> DEFINE some == CHOOSE e \in Ids : TRUE
  <2>1. NoHit = [phase |-> "unposted", entry |-> some, hour |-> 0, seen |-> 0]
    BY DEF NoHit
  <2> HIDE DEF some
  <2>2. NoHit.entry = some /\ NoHit.phase = "unposted"
    BY <2>1
  <2>3. QED
    BY <2>1, <2>2 DEF Hit
<1>3. Idle \in Predictor /\ Idle.phase = "idle"
  BY DEF Idle, Predictor
<1>4. DOMAIN buckets = {} /\ buckets \in [DOMAIN buckets -> Bucket]
  BY <1>1
<1>5. HitsTypeOK
  BY <1>1, <1>2, <1>3, <1>4 DEF HitsTypeOK
<1>6. Putted = {} /\ Reading = {}
  BY <1>1, <1>2 DEF Putted, Reading
<1>7. \A k : CountIn(k) = 0 /\ Cardinality(Landed(k)) = 0
  BY <1>4, <1>6, FS_EmptySet DEF CountIn, Landed
<1>8. NoneInvented /\ NoneLost /\ DueIsCounted
  BY <1>1, <1>3, <1>4, <1>6, <1>7 DEF NoneInvented, NoneLost, DueIsCounted
<1>9. QED
  BY <1>5, <1>8 DEF HitsInv

LEMMA NextHitsInv == HitsInv /\ [HitsNext]_hitVars => HitsInv'
<1> SUFFICES ASSUME HitsInv, [HitsNext]_hitVars
             PROVE  HitsInv'
  OBVIOUS
<1>1. CASE HitsNext
  BY <1>1, ReadBucketKeeps, PutBucketKeeps, LoseHitKeeps, ListKeeps, ReadListedKeeps,
     PredictKeeps, PassKeeps DEF HitsNext
<1>2. CASE UNCHANGED hitVars
  <2>1. UNCHANGED <<moment, buckets, hit, predictor, entangled>>
    BY <1>2 DEF hitVars
  <2>2. /\ Putted' = Putted /\ Reading' = Reading /\ Cutoff' = Cutoff
        /\ \A j : Landed(j)' = Landed(j) /\ CountIn(j)' = CountIn(j)
        /\ \A x : KeyOf(x)' = KeyOf(x)
        /\ \A x \in Reading' : Landed(KeyOf(x))' = Landed(KeyOf(x))
        /\ \A e : Gathered(e)' = Gathered(e) /\ Owed(e)' = Owed(e)
    BY <2>1 DEF Putted, Reading, Cutoff, HourNow, Landed, CountIn, KeyOf, Gathered, Owed
  <2>3. HitsTypeOK'
    BY <2>1 DEF HitsInv, HitsTypeOK
  <2>4. NoneInvented' /\ NoneLost' /\ DueIsCounted'
    BY <2>1, <2>2 DEF HitsInv, NoneInvented, NoneLost, DueIsCounted
  <2>5. QED
    BY <2>3, <2>4 DEF HitsInv
<1>3. QED
  BY <1>1, <1>2

(* What the counts of hits are worth at every await of recordHit and       *)
(* predictFromHits: never more than has landed; and as much, while the     *)
(* hour counts, where posts held the bucket one at a time and not ahead of *)
(* its hour.                                                               *)
THEOREM CountsAreOfHits == HitsSpec => [](HitsTypeOK /\ HitsInv)
<1>1. HitsInv => HitsTypeOK
  BY DEF HitsInv
<1>2. QED
  BY <1>1, InitHitsInv, NextHitsInv, PTL DEF HitsSpec

(* PredictionIsEarned: an entry is predicted only if as many hits as it    *)
(* takes have landed for the hours looked at, and is not passed over if as *)
(* many had landed when the run listed the buckets, however long the run   *)
(* takes and however the clock moves meanwhile.                            *)
THEOREM PredictionsAreEarned == HitsSpec => PredictionIsEarned
<1>1. ASSUME HitsInv, [HitsNext]_hitVars
      PROVE  predictor.phase = "reading" /\ predictor'.phase = "idle" =>
                 \A e \in Ids :
                     LET landed == HitsOf(e, {x \in Hits : hit[x].phase = "put"},
                                          predictor.cutoff)
                         due == HitsOf(e, predictor.due, Cutoff) IN
                     /\ e \in Predicted => Cardinality(landed) >= HitThreshold
                     /\ /\ e \notin Predicted /\ predictor.whole
                        /\ \A k \in entangled : k[1] # e
                        => Cardinality(due) < HitThreshold
  <2> SUFFICES ASSUME predictor.phase = "reading", predictor'.phase = "idle", NEW e \in Ids
               PROVE  LET landed == HitsOf(e, {x \in Hits : hit[x].phase = "put"},
                                           predictor.cutoff)
                          due == HitsOf(e, predictor.due, Cutoff) IN
                      /\ e \in Predicted => Cardinality(landed) >= HitThreshold
                      /\ /\ e \notin Predicted /\ predictor.whole
                         /\ \A k \in entangled : k[1] # e
                         => Cardinality(due) < HitThreshold
    OBVIOUS
  <2>1. Predict
    <3>1. predictor' # predictor
      BY <1>1
    <3>2. \A k : ~ReadListed(k)
      BY <1>1 DEF ReadListed, HitsInv, HitsTypeOK, Predictor
    <3>3. ~ListBuckets
      BY <1>1 DEF ListBuckets
    <3>4. QED
      BY <1>1, <3>1, <3>2, <3>3 DEF HitsNext, hitVars, ReadBucket, PutBucket, LoseHit, Pass
  <2>2. predictor.left = {}
    BY <2>1 DEF Predict
  <2>3. /\ HitsOf(e, {x \in Hits : hit[x].phase = "put"}, predictor.cutoff) = Gathered(e)
        /\ HitsOf(e, predictor.due, Cutoff) = Owed(e)
    BY <2>2 DEF HitsOf, Gathered, Putted, Owed
  <2>4. /\ Cardinality(Gathered(e)) \in Nat /\ Cardinality(Owed(e)) \in Nat
        /\ predictor.totals[e] \in Nat
    BY <1>1, HitsTyped, HitsFinite DEF HitsInv, HitsTypeOK, Predictor
  <2>5. predictor.totals[e] <= Cardinality(Gathered(e))
    BY <1>1 DEF HitsInv, NoneInvented
  <2>6. predictor.whole /\ (\A k \in entangled : k[1] # e) =>
            predictor.totals[e] >= Cardinality(Owed(e))
    BY <1>1 DEF HitsInv, DueIsCounted
  <2>7. e \in Predicted <=> predictor.totals[e] >= HitThreshold
    BY DEF Predicted
  <2>8. QED
    BY <2>3, <2>4, <2>5, <2>6, <2>7, HitsAssumption
<1>2. QED
  BY <1>1, CountsAreOfHits, PTL DEF PredictionIsEarned, HitsSpec
=============================================================================
