--------------------------- MODULE SiteRepoProofs ---------------------------
(* Machine-checked proofs about SiteRepo. *)
EXTENDS SiteRepo, FiniteSetTheorems, TLAPS

\* The files of a run, those it has written when it comes to the file f, and
\* the one it comes to after f.
Own(p) == {"index", "readme"} \cup (IF p \in WithSpec THEN {"spec"} ELSE {})
                              \cup (IF p \in WithMedia THEN {"media"} ELSE {})

Before(p, f) == Own(p) \cap CASE f = "index" -> {}
                              [] f = "spec" -> {"index"}
                              [] f = "readme" -> {"index", "spec"}
                              [] f = "media" -> {"index", "spec", "readme"}

Last(p) == IF p \in WithMedia THEN "media" ELSE "readme"

After(p, f) == CASE f = "index" -> IF p \in WithSpec THEN "spec" ELSE "readme"
                 [] f = "spec" -> "readme"
                 [] OTHER -> "media"

\* The phases after the tags were counted.
Counted == {"reading", "writing", "heading", "tagging"}

\* The second repository of the name exists only once the first was archived.
IdsFollow ==
    /\ live.id = 0 => live = NoRepo
    /\ archive.id \in {0, 1}
    /\ archive.id = 0 => archive = NoRepo
    /\ live.id = 1 => archive.id = 0
    /\ live.id = 2 => archive.id = 1

\* A repository that a run has seen under the name is there, or was archived.
Known(i) == /\ i = 1 => 1 \in {live.id, archive.id}
            /\ i = 2 => live.id = 2

\* What a run may believe: the number it took is one more than there were
\* tags, or fewer.
RunFollows(p) ==
    /\ run[p].phase \in InFlight => run[p].file \in Own(p)
    /\ run[p].phase \in InFlight \ Counted =>
           run[p].repo = 0 /\ run[p].of = 0 /\ run[p].file = "index"
    /\ Known(run[p].repo) /\ Known(run[p].of)
    /\ run[p].phase \in Counted =>
           /\ run[p].n \in Versions
           /\ run[p].repo = 0 => run[p].n = 1 /\ ~run[p].clean
           /\ run[p].repo = live.id /\ Exists => run[p].n <= NextVersion
    /\ run[p].phase = "tagging" => run[p].of # 0

\* What a run that nothing hinders has achieved so far.
RunRecords(p) ==
    run[p].phase \in Counted /\ run[p].clean /\ run[p].alone =>
        /\ Exists /\ run[p].repo = live.id /\ run[p].n = NextVersion
        /\ run[p].phase \in {"reading", "writing"} =>
               \A f \in Before(p, run[p].file) : live.tree[f] = p
        /\ run[p].phase = "heading" => \A f \in Own(p) : live.tree[f] = p
        /\ run[p].phase = "tagging" =>
               run[p].of = live.id /\ \A f \in Own(p) : run[p].head[f] = p

\* A run alone is the only one in flight.
AloneIsAlone ==
    \A p, q \in Publishes :
        p # q /\ run[p].phase \in InFlight /\ run[p].alone => run[q].phase \notin InFlight

RepoIInv ==
    /\ TypeOK
    /\ IdsFollow
    /\ AloneIsAlone
    /\ \A p \in Publishes : RunFollows(p) /\ RunRecords(p)
-----------------------------------------------------------------------------
(* The files of a run, one after the other.                                *)

\* FilesOf is one of four sequences.
LEMMA FilesOfIs ==
    ASSUME NEW p \in Publishes
    PROVE  LET s == FilesOf(p) IN
           /\ DOMAIN s = 1 .. Len(s) /\ s[1] = "index"
           /\ p \in WithSpec /\ p \in WithMedia =>
                  Len(s) = 4 /\ s[2] = "spec" /\ s[3] = "readme" /\ s[4] = "media"
           /\ p \in WithSpec /\ p \notin WithMedia =>
                  Len(s) = 3 /\ s[2] = "spec" /\ s[3] = "readme"
           /\ p \notin WithSpec /\ p \in WithMedia =>
                  Len(s) = 3 /\ s[2] = "readme" /\ s[3] = "media"
           /\ p \notin WithSpec /\ p \notin WithMedia =>
                  Len(s) = 2 /\ s[2] = "readme"
<1>1. CASE p \in WithSpec /\ p \in WithMedia
  BY <1>1 DEF FilesOf
<1>2. CASE p \in WithSpec /\ p \notin WithMedia
  BY <1>2 DEF FilesOf
<1>3. CASE p \notin WithSpec /\ p \in WithMedia
  BY <1>3 DEF FilesOf
<1>4. CASE p \notin WithSpec /\ p \notin WithMedia
  BY <1>4 DEF FilesOf
<1>5. QED
  BY <1>1, <1>2, <1>3, <1>4

LEMMA FilesOfOwn ==
    \A p \in Publishes : \A i \in DOMAIN FilesOf(p) : FilesOf(p)[i] \in Own(p)
BY FilesOfIs DEF Own

LEMMA OwnFiles ==
    /\ \A p \in Publishes : Own(p) \subseteq Files /\ "readme" \in Own(p) /\ "index" \in Own(p)
    /\ \A p \in Publishes : \A f \in Own(p) : f # Last(p) => After(p, f) \in Own(p)
    /\ \A p \in Publishes : \A f \in Own(p) :
           f # Last(p) => Before(p, After(p, f)) = Before(p, f) \cup {f}
    /\ \A p \in Publishes : Own(p) = Before(p, Last(p)) \cup {Last(p)}
    /\ \A p \in Publishes : Before(p, "index") = {}
BY DEF Own, Files, Last, After, Before

\* The last file is followed by the branch's head, any other by the next one.
LEMMA ThroughIs ==
    ASSUME NEW p \in Publishes, run[p].file \in Own(p)
    PROVE  Through(p) =
               IF run[p].file = Last(p)
               THEN [run[p] EXCEPT !.phase = "heading", !.seen = NoFile]
               ELSE [run[p] EXCEPT !.phase = "reading", !.seen = NoFile,
                                   !.file = After(p, run[p].file)]
<1> DEFINE s == FilesOf(p)
           file == run[p].file
           i == CHOOSE i \in DOMAIN s : s[i] = file
<1> HIDE DEF s, file, i
<1>1. /\ i \in DOMAIN s /\ s[i] = file
      /\ i = Len(s) <=> file = Last(p)
      /\ i # Len(s) => s[i + 1] = After(p, file)
  <2>1. CASE p \in WithSpec /\ p \in WithMedia
    <3>1. /\ DOMAIN s = 1 .. 4 /\ Len(s) = 4
          /\ s[1] = "index" /\ s[2] = "spec" /\ s[3] = "readme" /\ s[4] = "media"
      BY <2>1, FilesOfIs DEF s
    <3>2. file \in {"index", "spec", "readme", "media"}
      BY <2>1 DEF Own, file
    <3>3. \E j \in DOMAIN s : s[j] = file
      BY <3>1, <3>2
    <3>4. i \in DOMAIN s /\ s[i] = file
      BY <3>3 DEF i
    <3>5. i \in 1 .. 4
      BY <3>1, <3>4
    <3>6. QED
      BY <2>1, <3>1, <3>4, <3>5 DEF Last, After
  <2>2. CASE p \in WithSpec /\ p \notin WithMedia
    <3>1. /\ DOMAIN s = 1 .. 3 /\ Len(s) = 3
          /\ s[1] = "index" /\ s[2] = "spec" /\ s[3] = "readme"
      BY <2>2, FilesOfIs DEF s
    <3>2. file \in {"index", "spec", "readme"}
      BY <2>2 DEF Own, file
    <3>3. \E j \in DOMAIN s : s[j] = file
      BY <3>1, <3>2
    <3>4. i \in DOMAIN s /\ s[i] = file
      BY <3>3 DEF i
    <3>5. i \in 1 .. 3
      BY <3>1, <3>4
    <3>6. QED
      BY <2>2, <3>1, <3>4, <3>5 DEF Last, After
  <2>3. CASE p \notin WithSpec /\ p \in WithMedia
    <3>1. /\ DOMAIN s = 1 .. 3 /\ Len(s) = 3
          /\ s[1] = "index" /\ s[2] = "readme" /\ s[3] = "media"
      BY <2>3, FilesOfIs DEF s
    <3>2. file \in {"index", "readme", "media"}
      BY <2>3 DEF Own, file
    <3>3. \E j \in DOMAIN s : s[j] = file
      BY <3>1, <3>2
    <3>4. i \in DOMAIN s /\ s[i] = file
      BY <3>3 DEF i
    <3>5. i \in 1 .. 3
      BY <3>1, <3>4
    <3>6. QED
      BY <2>3, <3>1, <3>4, <3>5 DEF Last, After
  <2>4. CASE p \notin WithSpec /\ p \notin WithMedia
    <3>1. /\ DOMAIN s = 1 .. 2 /\ Len(s) = 2
          /\ s[1] = "index" /\ s[2] = "readme"
      BY <2>4, FilesOfIs DEF s
    <3>2. file \in {"index", "readme"}
      BY <2>4 DEF Own, file
    <3>3. \E j \in DOMAIN s : s[j] = file
      BY <3>1, <3>2
    <3>4. i \in DOMAIN s /\ s[i] = file
      BY <3>3 DEF i
    <3>5. i \in 1 .. 2
      BY <3>1, <3>4
    <3>6. QED
      BY <2>4, <3>1, <3>4, <3>5 DEF Last, After
  <2>5. QED
    BY <2>1, <2>2, <2>3, <2>4
<1>2. Through(p) = IF i = Len(s)
                   THEN [run[p] EXCEPT !.phase = "heading", !.seen = NoFile]
                   ELSE [run[p] EXCEPT !.phase = "reading", !.seen = NoFile,
                                       !.file = s[i + 1]]
  BY DEF Through, i, s, file
<1>3. QED
  BY <1>1, <1>2 DEF file

-----------------------------------------------------------------------------
(* The count of the tags.                                                  *)

LEMMA UpTo ==
    \A k \in Nat : IsFiniteSet(1 .. k) /\ Cardinality(1 .. k) = k
<1> TAKE k \in Nat
<1>1. IsFiniteSet(1 .. k) /\ Cardinality(1 .. k) = IF 1 > k THEN 0 ELSE k - 1 + 1
  BY FS_Interval
<1>2. QED
  BY <1>1

LEMMA TaggedFinite ==
    ASSUME NEW repo
    PROVE  /\ Tagged(repo) \subseteq Versions /\ IsFiniteSet(Tagged(repo))
           /\ Cardinality(Tagged(repo)) \in Nat
<1>1. IsFiniteSet(Versions)
  BY RepoAssumption, FS_Interval DEF Versions
<1>2. Tagged(repo) \in SUBSET Versions
  BY DEF Tagged
<1>3. QED
  BY <1>1, <1>2, FS_Subset, FS_CardinalityType

LEMMA NextVersionTyped == NextVersion \in Versions /\ NextVersion' \in Versions
BY TaggedFinite, RepoAssumption DEF NextVersion, Versions

LEMMA NextVersionGrows ==
    ASSUME Tagged(live) \subseteq Tagged(live)'
    PROVE  NextVersion <= NextVersion'
<1>1. Cardinality(Tagged(live)) <= Cardinality(Tagged(live'))
  BY TaggedFinite, FS_Subset
<1>2. Cardinality(Tagged(live)) \in Nat /\ Cardinality(Tagged(live')) \in Nat
  BY TaggedFinite
<1>3. QED
  BY <1>1, <1>2, RepoAssumption DEF NextVersion

\* Where no version is left out, a free number that is not past the next one
\* is the next one.
LEMMA DenseTakesNext ==
    ASSUME NEW repo, Dense(repo), NEW n \in Versions, n \notin Tagged(repo),
           n <= Cardinality(Tagged(repo)) + 1
    PROVE  \A u \in Versions : u < n => u \in Tagged(repo)
<1> SUFFICES ASSUME NEW u \in Versions, u < n, u \notin Tagged(repo)
             PROVE  FALSE
  OBVIOUS
<1>1. u \in Nat \ {0} /\ n \in Nat
  BY RepoAssumption DEF Versions
<1>2. \A v \in Tagged(repo) : v \in Nat \ {0} /\ v < u
  <2>1. \A v \in Tagged(repo) : v \in Nat \ {0} /\ v # u
    BY TaggedFinite, RepoAssumption DEF Versions
  <2>2. \A v \in Tagged(repo) : ~(u < v)
    BY DEF Dense
  <2>3. QED
    BY <1>1, <2>1, <2>2
<1>3. PICK k \in Nat : k = u - 1
  BY <1>1
<1>4. Tagged(repo) \in SUBSET (1 .. k)
  BY <1>1, <1>2, <1>3
<1>5. Cardinality(Tagged(repo)) <= k
  BY <1>4, UpTo, FS_Subset
<1>6. QED
  BY <1>1, <1>3, <1>5, TaggedFinite

\* And a number past all tags is not among them.
LEMMA DenseCountIsFree ==
    ASSUME NEW repo, Dense(repo), NEW n \in Versions,
           n = Cardinality(Tagged(repo)) + 1
    PROVE  n \notin Tagged(repo)
<1> SUFFICES ASSUME n \in Tagged(repo)
             PROVE  FALSE
  OBVIOUS
<1>1. n \in Nat \ {0} /\ Versions \subseteq Nat \ {0}
  BY RepoAssumption DEF Versions
<1>2. \A u \in 1 .. n : u \in Tagged(repo)
  BY <1>1, RepoAssumption DEF Dense, Versions
<1>3. 1 .. n \in SUBSET Tagged(repo)
  BY <1>2
<1>4. Cardinality(1 .. n) = n
  BY <1>1, UpTo
<1>5. n <= Cardinality(Tagged(repo))
  BY <1>3, <1>4, TaggedFinite, FS_Subset
<1>6. QED
  BY <1>1, <1>5, TaggedFinite
-----------------------------------------------------------------------------
(* What a step does to its run, and what it leaves of the repositories.    *)

\* A repository that was seen is not lost, keeps its tags, and is not the one
\* that a later step makes.
Advances ==
    /\ live'.id = live.id => Tagged(live) \subseteq Tagged(live')
    /\ live.id = 2 => live'.id = 2
    /\ 1 \in {live.id, archive.id} => 1 \in {live'.id, archive'.id}
    /\ live'.id = 1 /\ live.id # 1 => 1 \notin {live.id, archive.id}

LEMMA EmptyTyped ==
    /\ Empty \in Tree /\ NoRepo \in Repo /\ NoRepo.id = 0
    /\ NoRepo.tags = [v \in Versions |-> Empty]
    /\ Fresh \in Run /\ Over \in Run
    /\ Fresh.phase = "idle" /\ Fresh.repo = 0 /\ Fresh.of = 0
    /\ Over.phase = "over" /\ Over.repo = 0 /\ Over.of = 0
    /\ "over" \notin InFlight /\ "idle" \notin InFlight
<1>1. Empty \in Tree
  BY DEF Empty, Tree
<1>2. NoRepo \in Repo /\ NoRepo.id = 0 /\ NoRepo.tags = [v \in Versions |-> Empty]
  BY <1>1 DEF NoRepo, Repo
<1>3. Fresh \in Run /\ Fresh.phase = "idle" /\ Fresh.repo = 0 /\ Fresh.of = 0
  BY <1>1 DEF Fresh, Run, Files
<1> "over" \notin InFlight /\ "idle" \notin InFlight
  BY DEF InFlight
<1>4. Over \in Run /\ Over.phase = "over" /\ Over.repo = 0 /\ Over.of = 0
  BY <1>3 DEF Over, Run
<1>5. QED
  BY <1>1, <1>2, <1>3, <1>4

LEMMA Moved ==
    ASSUME TypeOK, NEW p \in Publishes, NEW new \in Run, run' = [run EXCEPT ![p] = new]
    PROVE  /\ run' \in [Publishes -> Run] /\ run'[p] = new
           /\ \A q \in Publishes \ {p} : run'[q] = run[q]
BY DEF TypeOK

\* The others believe what they believed: a run beside the one that moves is
\* not alone.
LEMMA MoveKeeps ==
    ASSUME RepoIInv, NEW p \in Publishes, run[p].phase \in InFlight,
           NEW new \in Run, run' = [run EXCEPT ![p] = new],
           template' \in {"absent", "plain", "ready"}, live' \in Repo, archive' \in Repo,
           IdsFollow', Advances,
           new.phase \in InFlight => new.alone = run[p].alone,
           RunFollows(p)', RunRecords(p)'
    PROVE  RepoIInv'
<1>1. /\ run' \in [Publishes -> Run] /\ run'[p] = new
      /\ \A q \in Publishes \ {p} : run'[q] = run[q]
  BY Moved DEF RepoIInv
<1>2. AloneIsAlone'
  BY <1>1 DEF RepoIInv, AloneIsAlone
<1>3. \A i \in 0 .. 2 : Known(i) => Known(i)'
  BY DEF Advances, Known
<1>4. ASSUME NEW q \in Publishes \ {p}
      PROVE  RunFollows(q)' /\ RunRecords(q)'
  <2>1. RunFollows(q) /\ run[q] \in Run /\ run'[q] = run[q]
    BY <1>1, <1>4 DEF RepoIInv, TypeOK
  <2>2. run[q].repo \in 0 .. 2 /\ run[q].of \in 0 .. 2
    BY <2>1 DEF Run
  <2>3. ASSUME run[q].phase \in Counted, run[q].repo = live'.id, Exists'
        PROVE  run[q].n <= NextVersion'
    <3>1. run[q].repo = live.id
      BY <2>1, <2>2, <2>3 DEF RunFollows, Known, Advances, Exists
    <3>2. run[q].n <= NextVersion /\ NextVersion <= NextVersion'
      BY <2>1, <2>3, <3>1, NextVersionGrows DEF RunFollows, Exists, Advances
    <3>3. run[q].n \in Nat /\ NextVersion \in Nat /\ NextVersion' \in Nat
      <4>1. NextVersion \in Versions /\ NextVersion' \in Versions
        BY NextVersionTyped
      <4>2. QED
        BY <2>1, <2>3, <4>1, RepoAssumption DEF RunFollows, Versions
    <3>4. QED
      BY <3>2, <3>3
  <2>4. RunFollows(q)'
    BY <1>3, <2>1, <2>2, <2>3 DEF RunFollows
  <2>5. RunRecords(q)'
    BY <1>4, <2>1 DEF RunRecords, RepoIInv, AloneIsAlone, Counted, InFlight
  <2>6. QED
    BY <2>4, <2>5
<1>5. \A q \in Publishes : RunFollows(q)' /\ RunRecords(q)'
  BY <1>4
<1>6. QED
  BY <1>1, <1>2, <1>5 DEF RepoIInv, TypeOK

\* Nothing moves but the run.
LEMMA StillAdvances ==
    ASSUME RepoIInv, UNCHANGED <<live, archive>>
    PROVE  /\ live' \in Repo /\ archive' \in Repo
           /\ IdsFollow' /\ Advances /\ NextVersion' = NextVersion /\ Exists' = Exists
           /\ \A i : Known(i)' = Known(i)
BY DEF RepoIInv, TypeOK, IdsFollow, Advances, NextVersion, Exists, Known

\* A run that ends.
LEMMA EndKeeps ==
    ASSUME RepoIInv, NEW p \in Publishes, run[p].phase \in InFlight,
           run' = [run EXCEPT ![p] = Over],
           template' = template, live' \in Repo, archive' \in Repo, IdsFollow', Advances
    PROVE  RepoIInv'
<1>1. run'[p] = Over
  BY EmptyTyped, Moved DEF RepoIInv
<1>2. RunFollows(p)' /\ RunRecords(p)'
  BY <1>1, EmptyTyped DEF RunFollows, RunRecords, Known, Counted, InFlight
<1>3. QED
  BY <1>2, EmptyTyped, MoveKeeps DEF RepoIInv, TypeOK

\* A run that has not counted the tags yet.
LEMMA EarlyKeeps ==
    ASSUME RepoIInv, NEW p \in Publishes, run[p].phase \in InFlight \ Counted,
           NEW new \in Run, run' = [run EXCEPT ![p] = new],
           new.phase \in InFlight \ Counted,
           new.repo = run[p].repo, new.of = run[p].of, new.file = run[p].file,
           new.alone = run[p].alone,
           template' \in {"absent", "plain", "ready"}, live' \in Repo, archive' \in Repo,
           IdsFollow', Advances
    PROVE  RepoIInv'
<1>1. run'[p] = new
  BY Moved DEF RepoIInv
<1>2. new.repo = 0 /\ new.of = 0 /\ new.file = "index" /\ new.file \in Own(p)
  BY DEF RepoIInv, RunFollows
<1>3. RunFollows(p)' /\ RunRecords(p)'
  BY <1>1, <1>2 DEF RunFollows, RunRecords, Known, Counted
<1>4. QED
  BY <1>3, MoveKeeps

\* The same, where only its phase moves.
LEMMA GoKeeps ==
    ASSUME RepoIInv, NEW p \in Publishes, run[p].phase \in InFlight \ Counted,
           NEW phase \in InFlight \ Counted, Go(p, phase),
           template' \in {"absent", "plain", "ready"}, live' \in Repo, archive' \in Repo,
           IdsFollow', Advances
    PROVE  RepoIInv'
<1> DEFINE new == [run[p] EXCEPT !.phase = phase]
<1>1. run[p] \in Run /\ run' = [run EXCEPT ![p] = new]
  BY DEF RepoIInv, TypeOK, Go
<1>2. /\ new \in Run /\ new.phase = phase /\ new.repo = run[p].repo /\ new.of = run[p].of
      /\ new.file = run[p].file /\ new.alone = run[p].alone
  BY <1>1 DEF Run
<1> HIDE DEF new
<1>3. QED
  BY <1>1, <1>2, EarlyKeeps
-----------------------------------------------------------------------------
(* The inductive step, action by action.                                   *)

LEMMA StartKeeps ==
    ASSUME RepoIInv, NEW p \in Publishes, Start(p)
    PROVE  RepoIInv'
<1> DEFINE first == \A r \in Publishes : run[r].phase \notin InFlight
           still(q) == run[q].alone /\ run[q].phase \notin InFlight
           mine == [Fresh EXCEPT !.phase = "looking", !.alone = first]
           theirs(q) == [run[q] EXCEPT !.alone = still(q)]
<1>1. /\ run' = [q \in Publishes |-> IF q = p THEN mine ELSE theirs(q)]
      /\ run[p].phase = "idle"
      /\ UNCHANGED <<template, live, archive>>
  BY DEF Start
<1>2. first \in BOOLEAN /\ \A q \in Publishes : still(q) \in BOOLEAN
  BY DEF RepoIInv, TypeOK, Run
<1>3. first => \A q \in Publishes : run[q].phase \notin InFlight
  OBVIOUS
<1>4. \A q \in Publishes : still(q) = TRUE => run[q].alone /\ run[q].phase \notin InFlight
  BY DEF RepoIInv, TypeOK, Run
<1> HIDE DEF first, still
<1>5. /\ mine \in Run /\ mine.phase = "looking" /\ mine.file = "index"
      /\ mine.repo = 0 /\ mine.of = 0 /\ mine.alone = first
  BY <1>2, EmptyTyped DEF Run, Fresh, InFlight
<1>6. \A q \in Publishes :
          /\ theirs(q) \in Run /\ theirs(q).phase = run[q].phase
          /\ theirs(q).file = run[q].file /\ theirs(q).repo = run[q].repo
          /\ theirs(q).of = run[q].of /\ theirs(q).n = run[q].n
          /\ theirs(q).clean = run[q].clean /\ theirs(q).head = run[q].head
          /\ theirs(q).alone = still(q)
  BY <1>2 DEF RepoIInv, TypeOK, Run
<1> HIDE DEF mine, theirs
<1>7. /\ run' \in [Publishes -> Run] /\ run'[p] = mine
      /\ \A q \in Publishes \ {p} : run'[q] = theirs(q)
  BY <1>1, <1>5, <1>6
<1>8. \A q \in Publishes \ {p} :
          run'[q].phase = run[q].phase /\ (run'[q].phase \in InFlight => run'[q].alone = FALSE)
  BY <1>2, <1>4, <1>6, <1>7
<1>9. AloneIsAlone'
  <2> SUFFICES ASSUME NEW x \in Publishes, NEW y \in Publishes, x # y,
                      run'[x].phase \in InFlight, run'[x].alone
               PROVE  run'[y].phase \notin InFlight
    BY DEF AloneIsAlone
  <2>1. x = p
    BY <1>8
  <2>2. first
    BY <1>5, <1>7, <2>1
  <2>3. QED
    BY <1>3, <1>8, <2>1, <2>2
<1>10. /\ IdsFollow' /\ live' \in Repo /\ archive' \in Repo
       /\ NextVersion' = NextVersion /\ Exists' = Exists
       /\ \A i : Known(i)' = Known(i)
  BY <1>1, StillAdvances
<1>11. RunFollows(p)' /\ RunRecords(p)'
  BY <1>5, <1>7, OwnFiles DEF RunFollows, RunRecords, Known, Counted
<1>12. ASSUME NEW q \in Publishes \ {p}
       PROVE  RunFollows(q)' /\ RunRecords(q)'
  <2>1. RunFollows(q) /\ UNCHANGED <<live, archive>>
    BY <1>1 DEF RepoIInv
  <2>2. RunFollows(q)'
    BY <1>6, <1>7, <1>10, <2>1 DEF RunFollows
  <2>3. RunRecords(q)'
    BY <1>8 DEF RunRecords, Counted, InFlight
  <2>4. QED
    BY <2>2, <2>3
<1>13. \A q \in Publishes : RunFollows(q)' /\ RunRecords(q)'
  BY <1>11, <1>12
<1>14. QED
  BY <1>1, <1>7, <1>9, <1>10, <1>13 DEF RepoIInv, TypeOK

LEMMA LookKeeps ==
    ASSUME RepoIInv, NEW p \in Publishes,
           LookUpRepo(p) \/ LookUpTemplate(p) \/ MakeTemplate(p) \/ StopWaiting(p)
    PROVE  RepoIInv'
<1>1. /\ live' \in Repo /\ archive' \in Repo /\ IdsFollow' /\ Advances
      /\ template' \in {"absent", "plain", "ready"}
  <2>1. UNCHANGED <<live, archive>>
    BY DEF LookUpRepo, LookUpTemplate, MakeTemplate, StopWaiting
  <2>2. template' \in {template, "ready"}
    BY DEF LookUpRepo, LookUpTemplate, MakeTemplate, StopWaiting
  <2>3. QED
    BY <2>1, <2>2, StillAdvances DEF RepoIInv, TypeOK
<1>2. \A b \in BOOLEAN : AfterTemplate(p, b) \in InFlight \ Counted
  BY DEF AfterTemplate, InFlight, Counted
<1>3. {"template", "flagging", "seeding", "counting"} \subseteq InFlight \ Counted
  BY DEF InFlight, Counted
<1>4. ASSUME LookUpRepo(p)
      PROVE  RepoIInv'
  <2> DEFINE found == Exists
             new == [run[p] EXCEPT !.phase = "template", !.found = found]
  <2>1. found \in BOOLEAN
    BY DEF Exists
  <2>2. run' = [run EXCEPT ![p] = new] /\ run[p].phase = "looking"
    BY <1>4 DEF LookUpRepo
  <2> HIDE DEF found
  <2>3. /\ new \in Run /\ new.phase = "template" /\ new.repo = run[p].repo
        /\ new.of = run[p].of /\ new.file = run[p].file /\ new.alone = run[p].alone
    BY <2>1 DEF RepoIInv, TypeOK, Run, InFlight
  <2> HIDE DEF new
  <2>4. run[p].phase \in InFlight \ Counted
    BY <2>2 DEF InFlight, Counted
  <2>5. QED
    BY <1>1, <1>3, <2>2, <2>3, <2>4, EarlyKeeps
<1>5. ASSUME LookUpTemplate(p)
      PROVE  RepoIInv'
  <2>1. run[p].phase \in InFlight \ Counted
    BY <1>5 DEF LookUpTemplate, InFlight, Counted
  <2>2. PICK phase \in InFlight \ Counted : Go(p, phase)
    BY <1>2, <1>3, <1>5 DEF LookUpTemplate
  <2>3. QED
    BY <1>1, <2>1, <2>2, GoKeeps
<1>6. ASSUME MakeTemplate(p)
      PROVE  RepoIInv'
  <2>1. run[p].phase \in InFlight \ Counted
    BY <1>6 DEF MakeTemplate, InFlight, Counted
  <2>2. PICK phase \in InFlight \ Counted : Go(p, phase)
    BY <1>2, <1>6 DEF MakeTemplate
  <2>3. QED
    BY <1>1, <2>1, <2>2, GoKeeps
<1>7. ASSUME StopWaiting(p)
      PROVE  RepoIInv'
  <2>1. run[p].phase \in InFlight \ Counted
    BY <1>7 DEF StopWaiting, InFlight, Counted
  <2>2. QED
    BY <1>1, <1>3, <1>7, <2>1, GoKeeps DEF StopWaiting
<1>8. QED
  BY <1>4, <1>5, <1>6, <1>7

\* The repository is renamed aside, or another one made.
LEMMA BornFollows ==
    ASSUME RepoIInv, ~Exists, NEW copying \in BOOLEAN,
           live' = Born(copying), archive' = archive
    PROVE  live' \in Repo /\ archive' \in Repo /\ IdsFollow' /\ Advances
<1>1. Born(copying) \in Repo /\ Born(copying).id = IF archive = NoRepo THEN 1 ELSE 2
  <2> DEFINE id == IF archive = NoRepo THEN 1 ELSE 2
  <2>1. Born(copying) = [NoRepo EXCEPT !.id = id, !.copying = copying] /\ id \in 0 .. 2
    BY DEF Born
  <2> HIDE DEF id
  <2>2. Born(copying) \in Repo /\ Born(copying).id = id
    BY <2>1, EmptyTyped DEF Repo
  <2>3. QED
    BY <2>2 DEF id
<1>2. archive \in Repo /\ live.id = 0 /\ (archive = NoRepo <=> archive.id = 0)
  BY EmptyTyped DEF RepoIInv, TypeOK, Exists, IdsFollow
<1>3. IdsFollow'
  BY <1>1, <1>2 DEF RepoIInv, IdsFollow
<1>4. Advances
  BY <1>1, <1>2 DEF Advances
<1>5. QED
  BY <1>1, <1>2, <1>3, <1>4

LEMMA ReplaceKeeps ==
    ASSUME RepoIInv, NEW p \in Publishes, Rename(p) \/ Generate(p) \/ CreatePlain(p)
    PROVE  RepoIInv'
<1>1. template' \in {"absent", "plain", "ready"}
  BY DEF Rename, Generate, CreatePlain, RepoIInv, TypeOK
<1>2. /\ run[p].phase \in InFlight \ Counted
      /\ {"generating", "waiting", "creating", "counting"} \subseteq InFlight \ Counted
  BY DEF Rename, Generate, CreatePlain, InFlight, Counted
<1>3. ASSUME UNCHANGED <<live, archive>>,
             Go(p, "creating") \/ Go(p, "counting")
      PROVE  RepoIInv'
  BY <1>1, <1>2, <1>3, StillAdvances, GoKeeps
<1>4. ASSUME Rename(p)
      PROVE  RepoIInv'
  <2>1. CASE /\ Exists /\ archive = NoRepo
             /\ archive' = live /\ live' = NoRepo /\ Go(p, "generating")
    <3>1. live' \in Repo /\ archive' \in Repo /\ live'.id = 0
      BY <2>1, EmptyTyped DEF RepoIInv, TypeOK
    <3>2. live.id = 1 /\ archive.id = 0
      BY <2>1, EmptyTyped DEF RepoIInv, TypeOK, IdsFollow, Exists, Repo
    <3>3. IdsFollow' /\ Advances
      BY <2>1, <3>1, <3>2, EmptyTyped DEF IdsFollow, Advances
    <3>4. QED
      BY <1>1, <1>2, <2>1, <3>1, <3>3, GoKeeps
  <2>2. QED
    BY <1>3, <1>4, <2>1 DEF Rename
<1>5. ASSUME Generate(p)
      PROVE  RepoIInv'
  <2>1. CASE ~Exists /\ live' = Born(TRUE) /\ Go(p, "waiting")
    BY <1>1, <1>2, <1>5, <2>1, BornFollows, GoKeeps DEF Generate
  <2>2. QED
    BY <1>3, <1>5, <2>1 DEF Generate
<1>6. ASSUME CreatePlain(p)
      PROVE  RepoIInv'
  BY <1>1, <1>2, <1>6, BornFollows, GoKeeps DEF CreatePlain
<1>7. QED
  BY <1>4, <1>5, <1>6

\* The number of a run is one more than the tags it found.
LEMMA CountKeeps ==
    ASSUME RepoIInv, NEW p \in Publishes, CountTags(p)
    PROVE  RepoIInv'
<1>1. /\ run[p] \in Run /\ run[p].phase \in InFlight \ Counted
      /\ run[p].repo = 0 /\ run[p].of = 0 /\ run[p].file = "index"
      /\ UNCHANGED <<live, archive>> /\ template' \in {"absent", "plain", "ready"}
  BY DEF CountTags, RepoIInv, RunFollows, TypeOK, InFlight, Counted
<1>2. /\ live' \in Repo /\ archive' \in Repo /\ IdsFollow' /\ Advances
      /\ NextVersion' = NextVersion /\ Exists' = Exists
      /\ \A i : Known(i)' = Known(i)
  BY <1>1, StillAdvances
<1>3. /\ "reading" \in Counted /\ "reading" \in InFlight
      /\ NextVersion \in Versions /\ 1 \in Versions /\ Versions \subseteq Nat
      /\ live.id \in 0 .. 2
  BY NextVersionTyped, RepoAssumption DEF Counted, InFlight, Versions, RepoIInv, TypeOK, Repo
<1>4. "index" \in Own(p) /\ Before(p, "index") = {}
  BY OwnFiles
<1>5. CASE /\ Exists
           /\ run' = [run EXCEPT ![p].phase = "reading", ![p].n = NextVersion,
                                 ![p].repo = live.id]
  <2> DEFINE next == NextVersion
             new == [run[p] EXCEPT !.phase = "reading", !.n = next, !.repo = live.id]
  <2>1. run' = [run EXCEPT ![p] = new]
    BY <1>5
  <2> HIDE DEF next
  <2>2. next \in Versions /\ next = NextVersion
    BY <1>3 DEF next
  <2>3. /\ new \in Run /\ new.phase = "reading" /\ new.n = next /\ new.repo = live.id
        /\ new.of = 0 /\ new.file = "index"
        /\ new.alone = run[p].alone /\ new.clean = run[p].clean
    BY <1>1, <1>3, <2>2 DEF Run
  <2> HIDE DEF new
  <2>4. run'[p] = new
    BY <2>1, <2>3, Moved DEF RepoIInv
  <2>5. Known(live.id) /\ Known(0)
    BY DEF Known
  <2>6. RunFollows(p)'
    BY <1>1, <1>2, <1>3, <1>4, <1>5, <2>2, <2>3, <2>4, <2>5 DEF RunFollows, Counted, Exists
  <2>7. RunRecords(p)'
    BY <1>1, <1>2, <1>4, <1>5, <2>2, <2>3, <2>4 DEF RunRecords
  <2>8. QED
    BY <1>1, <1>2, <2>1, <2>3, <2>6, <2>7, MoveKeeps
<1>6. CASE run' = [run EXCEPT ![p].phase = "reading", ![p].n = 1, ![p].clean = FALSE]
  <2> DEFINE new == [run[p] EXCEPT !.phase = "reading", !.n = 1, !.clean = FALSE]
  <2>1. run' = [run EXCEPT ![p] = new]
    BY <1>6
  <2>2. /\ new \in Run /\ new.phase = "reading" /\ new.n = 1 /\ new.repo = 0
        /\ new.of = 0 /\ new.file = "index"
        /\ new.alone = run[p].alone /\ new.clean = FALSE
    BY <1>1, <1>3 DEF Run
  <2> HIDE DEF new
  <2>3. run'[p] = new
    BY <2>1, <2>2, Moved DEF RepoIInv
  <2>4. RunFollows(p)'
    BY <1>2, <1>3, <1>4, <2>2, <2>3 DEF RunFollows, Known, Exists
  <2>5. RunRecords(p)'
    BY <2>2, <2>3 DEF RunRecords
  <2>6. QED
    BY <1>1, <1>2, <2>1, <2>2, <2>4, <2>5, MoveKeeps
<1>7. QED
  BY <1>5, <1>6 DEF CountTags

\* What a run comes to when it is through with a file, given what it has written.
LEMMA ThroughFollows ==
    ASSUME RepoIInv, NEW p \in Publishes, run[p].phase \in {"reading", "writing"},
           NEW new \in Run, new.phase \in {"heading", "reading"},
           new.phase = "heading" => run[p].file = Last(p),
           new.phase = "reading" => run[p].file # Last(p),
           new.file = IF new.phase = "heading" THEN run[p].file ELSE After(p, run[p].file),
           new.n = run[p].n, new.repo = run[p].repo, new.of = run[p].of,
           new.alone = run[p].alone,
           run'[p] = new,
           live'.id = live.id, archive' = archive, Tagged(live') = Tagged(live),
           new.clean = FALSE
               \/ /\ new.clean = run[p].clean
                  /\ live'.tree[run[p].file] = p
                  /\ \A f \in Files : live.tree[f] = p => live'.tree[f] = p
    PROVE  RunFollows(p)' /\ RunRecords(p)'
<1>1. /\ RunFollows(p) /\ RunRecords(p) /\ run[p].phase \in InFlight
      /\ run[p].phase \in Counted
  BY DEF RepoIInv, InFlight, Counted
<1>2. run[p].file \in Own(p) /\ Own(p) \subseteq Files /\ new.file \in Own(p)
  BY <1>1, OwnFiles DEF RunFollows
<1>3. NextVersion' = NextVersion /\ Exists' = Exists /\ \A i : Known(i)' = Known(i)
  BY DEF NextVersion, Exists, Known
<1>4. RunFollows(p)'
  BY <1>1, <1>2, <1>3 DEF RunFollows, Counted
<1>5. ASSUME new.clean, new.alone
      PROVE  /\ Exists' /\ new.repo = live'.id /\ new.n = NextVersion'
             /\ new.phase = "reading" => \A f \in Before(p, new.file) : live'.tree[f] = p
             /\ new.phase = "heading" => \A f \in Own(p) : live'.tree[f] = p
  <2>1. /\ live'.tree[run[p].file] = p
        /\ \A f \in Files : live.tree[f] = p => live'.tree[f] = p
        /\ run[p].clean /\ run[p].alone
    BY <1>5
  <2>2. /\ \A f \in Before(p, run[p].file) : live.tree[f] = p
        /\ Exists /\ run[p].repo = live.id /\ run[p].n = NextVersion
    BY <1>1, <2>1 DEF RunRecords
  <2>3. Before(p, run[p].file) \subseteq Files
    BY <1>2 DEF Before
  <2>4. \A f \in Before(p, run[p].file) \cup {run[p].file} : live'.tree[f] = p
    BY <2>1, <2>2, <2>3
  <2>5. new.phase = "reading" =>
            Before(p, new.file) = Before(p, run[p].file) \cup {run[p].file}
    BY <1>2, OwnFiles
  <2>6. new.phase = "heading" => Own(p) = Before(p, run[p].file) \cup {run[p].file}
    BY OwnFiles
  <2>7. QED
    BY <1>3, <2>2, <2>4, <2>5, <2>6
<1>6. RunRecords(p)'
  BY <1>5 DEF RunRecords
<1>7. QED
  BY <1>4, <1>6

\* The fields of Through.
LEMMA ThroughFields ==
    ASSUME RepoIInv, NEW p \in Publishes, run[p].phase \in {"reading", "writing"}
    PROVE  LET new == Through(p) IN
           /\ new \in Run /\ new.phase \in {"heading", "reading"}
           /\ new.phase = "heading" => run[p].file = Last(p)
           /\ new.phase = "reading" => run[p].file # Last(p)
           /\ new.file = IF new.phase = "heading" THEN run[p].file ELSE After(p, run[p].file)
           /\ new.n = run[p].n /\ new.repo = run[p].repo /\ new.of = run[p].of
           /\ new.alone = run[p].alone /\ new.clean = run[p].clean
<1>1. run[p] \in Run /\ run[p].file \in Own(p)
  BY DEF RepoIInv, TypeOK, RunFollows, InFlight
<1>2. {"heading", "reading"} \subseteq InFlight
  BY DEF InFlight
<1>3. CASE run[p].file = Last(p)
  <2>1. Through(p) = [run[p] EXCEPT !.phase = "heading", !.seen = NoFile]
    BY <1>1, <1>3, ThroughIs
  <2>2. QED
    BY <1>1, <1>2, <1>3, <2>1 DEF Run
<1>4. CASE run[p].file # Last(p)
  <2>1. Through(p) = [run[p] EXCEPT !.phase = "reading", !.seen = NoFile,
                                    !.file = After(p, run[p].file)]
    BY <1>1, <1>4, ThroughIs
  <2>2. After(p, run[p].file) \in Files
    BY <1>1, <1>4, OwnFiles
  <2>3. QED
    BY <1>1, <1>2, <1>4, <2>1, <2>2 DEF Run
<1>5. QED
  BY <1>3, <1>4

LEMMA ReadKeeps ==
    ASSUME RepoIInv, NEW p \in Publishes, ReadFile(p)
    PROVE  RepoIInv'
<1> DEFINE seen == live.tree[run[p].file]
           new == [run[p] EXCEPT !.phase = "writing", !.seen = seen]
<1>1. /\ run[p] \in Run /\ run[p].phase = "reading" /\ run[p].phase \in InFlight
      /\ run' = [run EXCEPT ![p] = new]
      /\ UNCHANGED <<template, live, archive>>
      /\ RunFollows(p) /\ RunRecords(p)
  BY DEF ReadFile, RepoIInv, TypeOK, InFlight
<1>2. seen \in Publishes \cup {Template, NoFile}
  BY <1>1 DEF RepoIInv, TypeOK, Repo, Tree, Run
<1> HIDE DEF seen
<1>3. /\ new \in Run /\ new.phase = "writing" /\ new.file = run[p].file
      /\ new.n = run[p].n /\ new.repo = run[p].repo /\ new.of = run[p].of
      /\ new.alone = run[p].alone /\ new.clean = run[p].clean
  BY <1>1, <1>2 DEF Run, InFlight
<1> HIDE DEF new
<1>4. run'[p] = new
  BY <1>1, <1>3, Moved DEF RepoIInv
<1>5. /\ live' \in Repo /\ archive' \in Repo /\ IdsFollow' /\ Advances
      /\ NextVersion' = NextVersion /\ Exists' = Exists
      /\ \A i : Known(i)' = Known(i)
  BY <1>1, StillAdvances
<1>6. RunFollows(p)'
  BY <1>1, <1>3, <1>4, <1>5 DEF RunFollows, InFlight, Counted
<1>7. RunRecords(p)'
  BY <1>1, <1>3, <1>4, <1>5 DEF RunRecords, Counted
<1>8. template' \in {"absent", "plain", "ready"}
  BY <1>1 DEF RepoIInv, TypeOK
<1>9. QED
  BY <1>1, <1>3, <1>5, <1>6, <1>7, <1>8, MoveKeeps

LEMMA WriteKeeps ==
    ASSUME RepoIInv, NEW p \in Publishes, WriteFile(p)
    PROVE  RepoIInv'
<1> DEFINE f == run[p].file
           tree == [live.tree EXCEPT ![f] = p]
<1>1. /\ run[p] \in Run /\ live \in Repo /\ archive' = archive /\ template' = template
      /\ run[p].phase = "writing" /\ run[p].phase \in InFlight /\ Exists
      /\ live' = [live EXCEPT !.tree = tree]
      /\ run' = [run EXCEPT ![p] = Through(p)]
  BY DEF WriteFile, RepoIInv, TypeOK, InFlight
<1>2. f \in Files /\ live.tree \in Tree
  BY <1>1 DEF Run, Repo
<1>3. tree \in Tree /\ tree[f] = p /\ \A g \in Files : live.tree[g] = p => tree[g] = p
  BY <1>2 DEF Tree
<1> HIDE DEF f, tree
<1>4. live' \in Repo /\ live'.id = live.id /\ live'.tags = live.tags /\ live'.tree = tree
  BY <1>1, <1>3 DEF Repo
<1>5. Tagged(live') = Tagged(live)
  BY <1>4 DEF Tagged
<1>6. IdsFollow' /\ Advances
  BY <1>1, <1>4, <1>5 DEF RepoIInv, IdsFollow, Advances, Exists
<1>7. run'[p] = Through(p) /\ Through(p) \in Run /\ Through(p).alone = run[p].alone
  BY <1>1, ThroughFields, Moved DEF RepoIInv
<1>8. RunFollows(p)' /\ RunRecords(p)'
  BY <1>1, <1>3, <1>4, <1>5, <1>7, ThroughFields, ThroughFollows DEF f
<1>9. archive' \in Repo /\ template' \in {"absent", "plain", "ready"}
  BY <1>1 DEF RepoIInv, TypeOK
<1>10. QED
  BY <1>1, <1>4, <1>6, <1>7, <1>8, <1>9, MoveKeeps

LEMMA SkipKeeps ==
    ASSUME RepoIInv, NEW p \in Publishes, SkipMedium(p)
    PROVE  RepoIInv'
<1> DEFINE new == [Through(p) EXCEPT !.clean = FALSE]
<1>1. /\ run[p].phase \in {"reading", "writing"} /\ run[p].phase \in InFlight
      /\ run' = [run EXCEPT ![p] = new]
      /\ UNCHANGED <<template, live, archive>>
  BY DEF SkipMedium, InFlight
<1>2. /\ new \in Run /\ new.phase \in {"heading", "reading"}
      /\ new.phase = "heading" => run[p].file = Last(p)
      /\ new.phase = "reading" => run[p].file # Last(p)
      /\ new.file = IF new.phase = "heading" THEN run[p].file ELSE After(p, run[p].file)
      /\ new.n = run[p].n /\ new.repo = run[p].repo /\ new.of = run[p].of
      /\ new.alone = run[p].alone /\ new.clean = FALSE
  BY <1>1, ThroughFields DEF Run
<1> HIDE DEF new
<1>3. run'[p] = new
  BY <1>1, <1>2, Moved DEF RepoIInv
<1>4. live' \in Repo /\ archive' \in Repo /\ IdsFollow' /\ Advances
  BY <1>1, StillAdvances
<1>5. RunFollows(p)' /\ RunRecords(p)'
  BY <1>1, <1>2, <1>3, ThroughFollows
<1>6. template' \in {"absent", "plain", "ready"}
  BY <1>1 DEF RepoIInv, TypeOK
<1>7. QED
  BY <1>1, <1>2, <1>4, <1>5, <1>6, MoveKeeps

LEMMA HeadKeeps ==
    ASSUME RepoIInv, NEW p \in Publishes, ReadHead(p)
    PROVE  RepoIInv'
<1>1. /\ run[p].phase = "heading" /\ run[p].phase \in InFlight
      /\ UNCHANGED <<template, live, archive>>
  BY DEF ReadHead, InFlight
<1>2. /\ live' \in Repo /\ archive' \in Repo /\ IdsFollow' /\ Advances
      /\ NextVersion' = NextVersion /\ Exists' = Exists
      /\ \A i : Known(i)' = Known(i)
  BY <1>1, StillAdvances
<1>3. CASE run' = [run EXCEPT ![p] = Over]
  BY <1>1, <1>2, <1>3, EndKeeps
<1>4. CASE /\ Exists
           /\ run' = [run EXCEPT ![p].phase = "tagging", ![p].head = live.tree,
                                 ![p].of = live.id]
  <2> DEFINE head == live.tree
             of == live.id
             new == [run[p] EXCEPT !.phase = "tagging", !.head = head, !.of = of]
  <2>1. run' = [run EXCEPT ![p] = new]
    BY <1>4
  <2>2. run[p] \in Run /\ head \in Tree /\ of \in 0 .. 2 /\ of # 0 /\ Known(of)
    BY <1>4 DEF RepoIInv, TypeOK, Repo, Exists, Known
  <2>3. head = live.tree /\ of = live.id
    OBVIOUS
  <2> HIDE DEF head, of
  <2>4. /\ new \in Run /\ new.phase = "tagging" /\ new.head = head /\ new.of = of
        /\ new.file = run[p].file /\ new.n = run[p].n /\ new.repo = run[p].repo
        /\ new.alone = run[p].alone /\ new.clean = run[p].clean
    BY <2>2 DEF Run, InFlight
  <2> HIDE DEF new
  <2>5. run'[p] = new
    BY <2>1, <2>4, Moved DEF RepoIInv
  <2>6. RunFollows(p) /\ RunRecords(p)
    BY DEF RepoIInv
  <2>7. RunFollows(p)'
    BY <1>1, <1>2, <2>2, <2>4, <2>5, <2>6 DEF RunFollows, Counted, InFlight
  <2>8. RunRecords(p)'
    BY <1>1, <1>2, <2>3, <2>4, <2>5, <2>6 DEF RunRecords, Counted
  <2>9. template' \in {"absent", "plain", "ready"}
    BY <1>1 DEF RepoIInv, TypeOK
  <2>10. QED
    BY <1>1, <1>2, <2>1, <2>4, <2>7, <2>8, <2>9, MoveKeeps
<1>5. QED
  BY <1>3, <1>4 DEF ReadHead

\* A tag is made where there was none.
LEMMA TagIs ==
    ASSUME RepoIInv, NEW p \in Publishes, Tag(p)
    PROVE  /\ run[p].n \in Versions \ Tagged(live) /\ run[p].head \in Tree
           /\ live' \in Repo /\ live'.id = live.id
           /\ live'.tags = [live.tags EXCEPT ![run[p].n] = run[p].head]
           /\ archive' = archive /\ Exists
           /\ \A v \in Tagged(live) : live'.tags[v] = live.tags[v]
           /\ Tagged(live) \subseteq Tagged(live')
           /\ Tagged(live') \subseteq Tagged(live) \cup {run[p].n}
<1> DEFINE n == run[p].n
           head == run[p].head
           tags == [live.tags EXCEPT ![n] = head]
<1>1. /\ run[p] \in Run /\ live \in Repo /\ RunFollows(p)
      /\ run[p].phase = "tagging" /\ live.id = run[p].of /\ n \notin Tagged(live)
      /\ live' = [live EXCEPT !.tags = tags] /\ archive' = archive
  BY DEF Tag, RepoIInv, TypeOK
<1>2. n \in Versions /\ head \in Tree /\ live.tags \in [Versions -> Tree]
  BY <1>1 DEF RunFollows, Counted, Run, Repo
<1>3. Exists
  BY <1>1 DEF RunFollows, Exists
<1>4. tags \in [Versions -> Tree] /\ \A v \in Versions \ {n} : tags[v] = live.tags[v]
  BY <1>2
<1>5. tags = [live.tags EXCEPT ![n] = head]
  OBVIOUS
<1> HIDE DEF tags, n, head
<1>6. live' \in Repo /\ live'.id = live.id /\ live'.tags = tags
  BY <1>1, <1>4 DEF Repo
<1>7. \A v \in Tagged(live) : tags[v] = live.tags[v]
  BY <1>1, <1>4 DEF Tagged
<1>8. /\ Tagged(live) \subseteq Tagged(live')
      /\ Tagged(live') \subseteq Tagged(live) \cup {n}
  BY <1>4, <1>6, <1>7 DEF Tagged
<1>9. QED
  BY <1>1, <1>2, <1>3, <1>5, <1>6, <1>7, <1>8 DEF n, head

LEMMA FinishKeeps ==
    ASSUME RepoIInv, NEW p \in Publishes, Tag(p) \/ LeaveUntagged(p) \/ Fail(p)
    PROVE  RepoIInv'
<1>1. /\ run[p].phase \in InFlight /\ run' = [run EXCEPT ![p] = Over]
      /\ template' = template
  BY DEF Tag, LeaveUntagged, Fail, InFlight
<1>2. CASE Tag(p)
  <2>1. /\ live' \in Repo /\ live'.id = live.id /\ archive' = archive /\ Exists
        /\ Tagged(live) \subseteq Tagged(live')
    BY <1>2, TagIs
  <2>2. IdsFollow' /\ Advances /\ archive' \in Repo
    BY <2>1 DEF RepoIInv, TypeOK, IdsFollow, Advances, Exists
  <2>3. QED
    BY <1>1, <2>1, <2>2, EndKeeps
<1>3. CASE LeaveUntagged(p) \/ Fail(p)
  <2>1. UNCHANGED <<live, archive>>
    BY <1>3 DEF LeaveUntagged, Fail
  <2>2. QED
    BY <1>1, <2>1, StillAdvances, EndKeeps
<1>4. QED
  BY <1>2, <1>3

\* The template's README goes only where there is none.
LEMMA CopyIs ==
    ASSUME RepoIInv, CopyTemplate
    PROVE  /\ live' \in Repo /\ live'.id = live.id /\ live'.tags = live.tags
           /\ \A f \in Files, p \in Publishes : live.tree[f] = p => live'.tree[f] = p
           /\ UNCHANGED <<template, archive, run>>
<1> DEFINE readme == IF live.tree["readme"] = NoFile THEN Template ELSE live.tree["readme"]
           tree == [live.tree EXCEPT !["readme"] = readme]
<1>1. /\ live \in Repo /\ live' = [live EXCEPT !.copying = FALSE, !.tree = tree]
      /\ UNCHANGED <<template, archive, run>>
  BY DEF CopyTemplate, RepoIInv, TypeOK
<1>2. live.tree \in Tree /\ "readme" \in Files
  BY <1>1 DEF Repo, Files
<1>3. /\ readme \in Publishes \cup {Template, NoFile}
      /\ \A p \in Publishes : live.tree["readme"] = p => readme = p
  BY <1>2, RepoAssumption DEF Tree
<1> HIDE DEF readme
<1>4. tree \in Tree /\ \A f \in Files, p \in Publishes : live.tree[f] = p => tree[f] = p
  BY <1>2, <1>3 DEF Tree
<1> HIDE DEF tree
<1>5. live' \in Repo /\ live'.id = live.id /\ live'.tags = live.tags /\ live'.tree = tree
  BY <1>1, <1>4 DEF Repo
<1>6. QED
  BY <1>1, <1>4, <1>5

LEMMA CopyKeeps ==
    ASSUME RepoIInv, CopyTemplate
    PROVE  RepoIInv'
<1>1. /\ live' \in Repo /\ live'.id = live.id /\ live'.tags = live.tags
      /\ \A f \in Files, p \in Publishes : live.tree[f] = p => live'.tree[f] = p
      /\ UNCHANGED <<template, archive, run>>
  BY CopyIs
<1>2. Exists
  <2>1. live.copying
    BY DEF CopyTemplate
  <2>2. ~NoRepo.copying
    BY DEF NoRepo
  <2>3. QED
    BY <2>1, <2>2 DEF RepoIInv, IdsFollow, Exists
<1>3. NextVersion' = NextVersion /\ Exists' = Exists /\ \A i : Known(i)' = Known(i)
  BY <1>1 DEF NextVersion, Tagged, Exists, Known
<1>4. IdsFollow' /\ AloneIsAlone' /\ TypeOK'
  BY <1>1, <1>2 DEF RepoIInv, IdsFollow, AloneIsAlone, TypeOK, Exists
<1>5. ASSUME NEW p \in Publishes
      PROVE  RunFollows(p)' /\ RunRecords(p)'
  <2>1. RunFollows(p) /\ RunRecords(p)
    BY DEF RepoIInv
  <2>2. RunFollows(p)'
    BY <1>1, <1>3, <2>1 DEF RunFollows
  <2>3. Own(p) \subseteq Files /\ Before(p, run[p].file) \subseteq Files
    BY OwnFiles DEF Before
  <2>4. RunRecords(p)'
    BY <1>1, <1>3, <2>1, <2>3 DEF RunRecords
  <2>5. QED
    BY <2>2, <2>4
<1>6. QED
  BY <1>4, <1>5 DEF RepoIInv

LEMMA InitRepoIInv == Init => RepoIInv
<1> SUFFICES ASSUME Init
             PROVE  RepoIInv
  OBVIOUS
<1>1. /\ live = NoRepo /\ archive = NoRepo /\ \A p \in Publishes : run[p] = Fresh
      /\ run \in [Publishes -> Run] /\ template \in {"absent", "plain", "ready"}
  BY EmptyTyped DEF Init
<1>2. TypeOK /\ IdsFollow
  BY <1>1, EmptyTyped DEF TypeOK, IdsFollow
<1>3. AloneIsAlone
  BY <1>1, EmptyTyped DEF AloneIsAlone
<1>4. \A p \in Publishes : RunFollows(p) /\ RunRecords(p)
  BY <1>1, EmptyTyped DEF RunFollows, RunRecords, Known, Counted
<1>5. QED
  BY <1>2, <1>3, <1>4 DEF RepoIInv

LEMMA NextRepoIInv == RepoIInv /\ [Next]_vars => RepoIInv'
<1> SUFFICES ASSUME RepoIInv, [Next]_vars
             PROVE  RepoIInv'
  OBVIOUS
<1>1. ASSUME NEW p \in Publishes, Step(p)
      PROVE  RepoIInv'
  BY <1>1, StartKeeps, FinishKeeps, LookKeeps, ReplaceKeeps, CountKeeps, ReadKeeps,
     WriteKeeps, SkipKeeps, HeadKeeps DEF Step
<1>2. CASE UNCHANGED vars
  <2>1. UNCHANGED <<template, live, archive, run>>
    BY <1>2 DEF vars
  <2>2. NextVersion' = NextVersion /\ Exists' = Exists /\ \A i : Known(i)' = Known(i)
    BY <2>1 DEF NextVersion, Exists, Known
  <2>3. TypeOK' /\ IdsFollow' /\ AloneIsAlone'
    BY <2>1 DEF RepoIInv, TypeOK, IdsFollow, AloneIsAlone
  <2>4. \A p \in Publishes : RunFollows(p)' /\ RunRecords(p)'
    BY <2>1, <2>2 DEF RepoIInv, RunFollows, RunRecords
  <2>5. QED
    BY <2>3, <2>4 DEF RepoIInv
<1>3. QED
  BY <1>1, <1>2, CopyKeeps DEF Next

(* What publish_site_repo.mjs may rely on at every await: the repository   *)
(* it knows is there or was archived, the number it took is not past the   *)
(* next one, and what it has written stands while nobody else publishes.   *)
THEOREM RepoRunsFollow == Spec => [](TypeOK /\ RepoIInv)
<1>1. RepoIInv => TypeOK
  BY DEF RepoIInv
<1>2. QED
  BY <1>1, InitRepoIInv, NextRepoIInv, PTL DEF Spec
-----------------------------------------------------------------------------
(* The properties.                                                         *)

(* AloneIsRecorded: a run that overlapped no other and had no call refused *)
(* comes to the tag with a head that holds its own files, and with a       *)
(* number that is still free while versions are dense and fit one page.    *)
THEOREM RunsAloneAreRecorded == Spec => []AloneIsRecorded
<1>1. ASSUME RepoIInv
      PROVE  AloneIsRecorded
  <2> SUFFICES ASSUME NEW p \in Publishes, Unhindered(p)
               PROVE  /\ \A i \in DOMAIN FilesOf(p) : run[p].head[FilesOf(p)[i]] = p
                      /\ run[p].head["readme"] = p
                      /\ run[p].of = live.id
                      /\ Dense(live) /\ run[p].n <= TagsPerPage => run[p].n \notin Tagged(live)
    BY DEF AloneIsRecorded
  <2>1. /\ run[p].of = live.id /\ \A f \in Own(p) : run[p].head[f] = p
        /\ run[p].n = NextVersion /\ run[p].n \in Versions
    BY <1>1 DEF RepoIInv, RunFollows, RunRecords, Unhindered, Counted
  <2>2. ASSUME Dense(live), run[p].n <= TagsPerPage
        PROVE  run[p].n \notin Tagged(live)
    <3>1. Cardinality(Tagged(live)) \in Nat
      BY TaggedFinite
    <3>2. run[p].n = Cardinality(Tagged(live)) + 1
      BY <2>1, <2>2, <3>1, RepoAssumption DEF NextVersion
    <3>3. QED
      BY <2>1, <2>2, <3>2, DenseCountIsFree
  <2>3. QED
    BY <2>1, <2>2, FilesOfOwn, OwnFiles
<1>2. QED
  BY <1>1, RepoRunsFollow, PTL

\* What a step does to the repositories.
Stays == live'.id = live.id /\ live'.tags = live.tags /\ archive' = archive

Renamed == Exists /\ archive = NoRepo /\ archive' = live /\ live' = NoRepo

Made == ~Exists /\ archive' = archive /\ \E copying \in BOOLEAN : live' = Born(copying)

LEMMA StepIs ==
    ASSUME RepoIInv, [Next]_vars
    PROVE  Stays \/ Renamed \/ Made \/ \E p \in Publishes : Tag(p)
<1>1. ASSUME UNCHANGED <<live, archive>>
      PROVE  Stays
  BY <1>1 DEF Stays
<1>2. ASSUME NEW p \in Publishes, WriteFile(p)
      PROVE  Stays
  BY <1>2 DEF WriteFile, Stays, RepoIInv, TypeOK, Repo
<1>3. ASSUME CopyTemplate
      PROVE  Stays
  BY <1>3, CopyIs DEF Stays
<1>4. ASSUME NEW p \in Publishes, Rename(p) \/ Generate(p) \/ CreatePlain(p)
      PROVE  Stays \/ Renamed \/ Made
  BY <1>1, <1>4 DEF Rename, Generate, CreatePlain, Renamed, Made
<1>5. ASSUME NEW p \in Publishes, Step(p)
      PROVE  Stays \/ Renamed \/ Made \/ Tag(p)
  <2>1. CASE Start(p) \/ Fail(p) \/ LookUpRepo(p) \/ LookUpTemplate(p) \/ MakeTemplate(p)
    BY <1>1, <2>1 DEF Start, Fail, LookUpRepo, LookUpTemplate, MakeTemplate
  <2>2. CASE StopWaiting(p) \/ CountTags(p) \/ ReadFile(p) \/ SkipMedium(p) \/ ReadHead(p)
             \/ LeaveUntagged(p)
    BY <1>1, <2>2 DEF StopWaiting, CountTags, ReadFile, SkipMedium, ReadHead, LeaveUntagged
  <2>3. QED
    BY <1>2, <1>4, <1>5, <2>1, <2>2 DEF Step
<1>6. QED
  BY <1>1, <1>3, <1>5 DEF Next, vars

(* NothingIsDeleted: a tag stays on its tree through every later publish,  *)
(* and through the rename, after which the archive has it.                 *)
THEOREM TagsAreKept == Spec => NothingIsDeleted
<1>1. ASSUME RepoIInv, [Next]_vars
      PROVE  \A i \in {archive.id, live.id} \ {0} : \A v \in Tagged(Numbered(i)) :
                 /\ i \in {archive'.id, live'.id}
                 /\ Numbered(i)'.tags[v] = Numbered(i).tags[v]
  <2> SUFFICES ASSUME NEW i \in {archive.id, live.id} \ {0},
                      NEW v \in Tagged(Numbered(i))
               PROVE  /\ i \in {archive'.id, live'.id}
                      /\ Numbered(i)'.tags[v] = Numbered(i).tags[v]
    OBVIOUS
  <2>1. /\ IdsFollow /\ live \in Repo /\ archive \in Repo /\ live.id \in 0 .. 2
        /\ archive.id \in {0, 1}
    BY <1>1 DEF RepoIInv, TypeOK, IdsFollow, Repo
  <2>2. ASSUME NEW p \in Publishes, Tag(p)
        PROVE  /\ i \in {archive'.id, live'.id}
               /\ Numbered(i)'.tags[v] = Numbered(i).tags[v]
    <3>1. /\ live'.id = live.id /\ archive' = archive
          /\ \A w \in Tagged(live) : live'.tags[w] = live.tags[w]
      BY <1>1, <2>2, TagIs
    <3>2. QED
      BY <3>1 DEF Numbered
  <2>3. CASE Stays
    BY <2>3 DEF Stays, Numbered
  <2>4. CASE Renamed
    BY <2>1, <2>4, EmptyTyped DEF Renamed, Numbered, IdsFollow, Exists
  <2>5. CASE Made
    BY <2>1, <2>5 DEF Made, Numbered, Exists
  <2>6. QED
    BY <1>1, <2>2, <2>3, <2>4, <2>5, StepIs
<1>2. QED
  BY <1>1, RepoRunsFollow, PTL DEF NothingIsDeleted, Spec

(* VersionsAreDense: whoever tags takes the next number or an earlier one, *)
(* so the numbers of a repository have no gap; but for a run that counted  *)
(* the tags of the repository before the rename.                           *)
THEOREM VersionsStayDense == Spec => VersionsAreDense
<1>1. ASSUME RepoIInv, [Next]_vars, Dense(live),
             \A p \in Publishes : run[p].phase = "tagging" => run[p].repo \in {0, run[p].of}
      PROVE  Dense(live)'
  <2>1. Tagged(NoRepo) = {}
    BY EmptyTyped DEF Tagged
  <2>2. CASE Stays
    BY <1>1, <2>2 DEF Stays, Dense, Tagged
  <2>3. CASE Renamed
    BY <2>1, <2>3 DEF Renamed, Dense
  <2>4. CASE Made
    <3>1. PICK copying \in BOOLEAN : live' = Born(copying)
      BY <2>4 DEF Made
    <3>2. live'.tags = NoRepo.tags
      <4> DEFINE id == IF archive = NoRepo THEN 1 ELSE 2
      <4>1. Born(copying) = [NoRepo EXCEPT !.id = id, !.copying = copying]
        BY DEF Born
      <4> HIDE DEF id
      <4>2. Born(copying).tags = NoRepo.tags
        BY <4>1, EmptyTyped DEF Repo
      <4>3. QED
        BY <3>1, <4>2
    <3>3. Tagged(live') = {}
      BY <2>1, <3>2 DEF Tagged
    <3>4. QED
      BY <3>3 DEF Dense
  <2>5. ASSUME NEW p \in Publishes, Tag(p)
        PROVE  Dense(live)'
    <3>1. /\ run[p].n \in Versions /\ run[p].n \notin Tagged(live) /\ Exists
          /\ Tagged(live) \subseteq Tagged(live')
          /\ Tagged(live') \subseteq Tagged(live) \cup {run[p].n}
      BY <1>1, <2>5, TagIs
    <3>2. RunFollows(p) /\ run[p].phase = "tagging" /\ live.id = run[p].of
      BY <1>1, <2>5 DEF RepoIInv, Tag
    <3>3. run[p].n = 1 \/ run[p].n <= NextVersion
      BY <1>1, <3>1, <3>2 DEF RunFollows, Counted
    <3>4. /\ run[p].n \in Nat /\ run[p].n <= TagsPerPage + 1
          /\ Cardinality(Tagged(live)) \in Nat
      BY <3>1, TaggedFinite, RepoAssumption DEF Versions
    <3>5. run[p].n <= Cardinality(Tagged(live)) + 1
      BY <3>3, <3>4, RepoAssumption DEF NextVersion
    <3>6. \A u \in Versions : u < run[p].n => u \in Tagged(live)
      BY <1>1, <3>1, <3>5, DenseTakesNext
    <3>7. QED
      BY <1>1, <3>1, <3>6 DEF Dense
  <2>6. QED
    BY <1>1, <2>2, <2>3, <2>4, <2>5, StepIs
<1>2. QED
  BY <1>1, RepoRunsFollow, PTL DEF VersionsAreDense, Spec
=============================================================================
