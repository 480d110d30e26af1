-------------------------- MODULE ProvenanceProofs --------------------------
(* Machine-checked proofs about Provenance, with its refinement of          *)
(* RecordStore.                                                            *)
EXTENDS Provenance, FiniteSetTheorems, TLAPS

(***************************************************************************)
(* The invariant.                                                          *)
(***************************************************************************)

KeyWritten(w) == KeyOf[writer[w].record]

\* What a request to store that has found its key empty may believe of it: it is
\* still, or holds the same record, or was contended for.
WritersKnow ==
    \A w \in Writers :
        /\ writer[w].phase \in {"asked", "writing", "written", "stored"} =>
               writer[w].record \in Records
        /\ writer[w].phase = "writing" =>
               stored[KeyWritten(w)] \in {None, writer[w].record} \/ KeyWritten(w) \in contested
        /\ writer[w].phase \in {"written", "stored"} =>
               stored[KeyWritten(w)] = writer[w].record \/ KeyWritten(w) \in contested

\* Two different records being put at one key contend for it.
WritersContend ==
    \A v, w \in Writers :
        /\ writer[v].phase = "writing" /\ writer[w].phase = "writing"
        /\ KeyWritten(v) = KeyWritten(w)
        => writer[v].record = writer[w].record \/ KeyWritten(w) \in contested

\* A nonce is, wherever it is read, that of the key it was issued to, or gone.
NoncesAreMinted ==
    \A n \in Nonces : issuedTo[n] \in {None, minted[n]} /\ edge[n] \in {None, minted[n]}

Past == {"checked", "listing", "listed"}

\* A listing past the check of its nonce is the key's the nonce was issued to, past
\* the spending of it is signed, and shares it with no other unless it is loose.
ListersAreOwners ==
    \A l \in Listers :
        /\ lister[l].phase \notin {"none", "gone"} =>
               lister[l].nonce \in Nonces /\ minted[lister[l].nonce] # None
        /\ lister[l].phase \in Past => lister[l].key = minted[lister[l].nonce]
        /\ lister[l].phase \in {"listing", "listed"} =>
               lister[l].signed /\ issuedTo[lister[l].nonce] = None
        /\ \A m \in Listers :
               /\ l # m /\ lister[l].phase \in Past /\ lister[m].phase \in Past
               /\ lister[l].nonce = lister[m].nonce
               => lister[l].nonce \in loose

\* What a listing has is there and its own; up to its cursor, and when it is answered
\* altogether, it has all that was there when it began.
ListingsAreWhole ==
    \A l \in Listers :
        /\ base[l] \subseteq Held
        /\ lister[l].out \subseteq Held \cap ({lister[l].key} \X Numbers)
        /\ lister[l].phase \in {"none", "asked", "checked"} =>
               lister[l].cursor = 0 /\ lister[l].out = {}
        /\ \A n \in Numbers :
               /\ <<lister[l].key, n>> \in base[l]
               /\ \/ lister[l].phase = "listing" /\ n <= lister[l].cursor
                  \/ lister[l].phase = "listed"
               => <<lister[l].key, n>> \in lister[l].out

IInv ==
    /\ TypeOK
    /\ WritersKnow /\ WritersContend
    /\ NoncesAreMinted /\ ListersAreOwners /\ ListingsAreWhole

LEMMA InitInv == Init => IInv
<1> SUFFICES ASSUME Init PROVE IInv
  OBVIOUS
<1> USE DEF Init, NoLister
<1>1. TypeOK
  BY DEF TypeOK, Writer, Lister
<1>2. WritersKnow /\ WritersContend
  BY DEF WritersKnow, WritersContend
<1>3. NoncesAreMinted
  BY DEF NoncesAreMinted
<1>4. ListersAreOwners
  BY DEF ListersAreOwners, Past
<1>5. ListingsAreWhole
  BY DEF ListingsAreWhole
<1>6. QED
  BY <1>1, <1>2, <1>3, <1>4, <1>5 DEF IInv

(***************************************************************************)
(* Steps of the requests to store.                                         *)
(***************************************************************************)

\* They leave listings and nonces as they are, and only add keys.
LEMMA StoringKeepsListings ==
    ASSUME IInv, Held \subseteq Held',
           UNCHANGED <<lister, issuedTo, edge, base, loose, minted>>
    PROVE  NoncesAreMinted' /\ ListersAreOwners' /\ ListingsAreWhole'
<1>1. NoncesAreMinted'
  BY DEF IInv, NoncesAreMinted
<1>2. ListersAreOwners'
  BY DEF IInv, ListersAreOwners
<1>3. ListingsAreWhole'
  BY DEF IInv, ListingsAreWhole
<1>4. QED
  BY <1>1, <1>2, <1>3

\* A request that goes on, or goes, without a put.
LEMMA WriterMoves ==
    ASSUME IInv, NEW w \in Writers, NEW new \in Writer,
           writer' = [writer EXCEPT ![w] = new],
           contested \subseteq contested', contested' \subseteq Keys,
           UNCHANGED <<stored, lister, issuedTo, edge, base, loose, minted>>,
           new.phase \in {"asked", "writing", "written", "stored"} => new.record \in Records,
           new.phase = "writing" =>
               /\ stored[KeyOf[new.record]] = None
               /\ \A v \in Writers \ {w} :
                      /\ writer[v].phase = "writing" /\ KeyOf[new.record] = KeyWritten(v)
                      => new.record = writer[v].record \/ KeyWritten(v) \in contested',
           new.phase \in {"written", "stored"} =>
               stored[KeyOf[new.record]] = new.record \/ KeyOf[new.record] \in contested'
    PROVE  IInv'
<1> USE DEF IInv
<1>1. writer'[w] = new /\ \A v \in Writers \ {w} : writer'[v] = writer[v]
  BY DEF TypeOK
<1>2. TypeOK'
  BY DEF TypeOK
<1>3. WritersKnow'
  BY <1>1 DEF WritersKnow, KeyWritten
<1>4. WritersContend'
  BY <1>1 DEF WritersContend, KeyWritten
<1>5. Held' = Held
  BY DEF Held
<1>6. QED
  BY <1>2, <1>3, <1>4, <1>5, StoringKeepsListings

LEMMA GoneKeepsInv ==
    ASSUME IInv, NEW w \in Writers, WriterGone(w)
    PROVE  IInv'
<1>1. [phase |-> "gone", record |-> None] \in Writer
  BY DEF Writer
<1>2. contested' = contested /\ contested \subseteq Keys
  BY DEF IInv, TypeOK, WriterGone
<1>3. QED
  BY <1>1, <1>2, WriterMoves DEF WriterGone

LEMMA VerifiedKeepsInv ==
    ASSUME IInv, NEW w \in Writers, Verified(w)
    PROVE  IInv'
<1>1. PICK r \in Records : writer' = [writer EXCEPT ![w] = [phase |-> "asked", record |-> r]]
  BY DEF Verified
<1>2. [phase |-> "asked", record |-> r] \in Writer
  BY DEF Writer
<1>3. contested' = contested /\ contested \subseteq Keys
  BY DEF IInv, TypeOK, Verified
<1>4. QED
  BY <1>1, <1>2, <1>3, WriterMoves DEF Verified

LEMMA FoundKeepsInv ==
    ASSUME IInv, NEW w \in Writers, FindAbsent(w) \/ FindSame(w) \/ Stored(w)
    PROVE  IInv'
<1> DEFINE r == writer[w].record
           phase == IF FindAbsent(w) THEN "writing" ELSE "stored"
           new == [writer[w] EXCEPT !.phase = phase]
<1> USE DEF IInv
<1>1. writer[w] \in Writer /\ r \in Records
  BY DEF TypeOK, WritersKnow, FindAbsent, FindSame, Stored, Writing
<1>2. new \in Writer /\ new.phase = phase /\ new.record = r
  BY <1>1 DEF Writer
<1>3. writer' = [writer EXCEPT ![w] = new]
  BY DEF FindAbsent, FindSame, Stored, MoveWriter, Writing
<1>4. KeyOf[r] \in Keys
  BY <1>1, ProvenanceAssumption DEF Keys
<1>5. contested \subseteq contested' /\ contested' \subseteq Keys
  BY <1>4 DEF FindAbsent, FindSame, Stored, TypeOK
<1>6. FindAbsent(w) =>
        /\ stored[KeyOf[r]] = None
        /\ \A v \in Writers :
               /\ writer[v].phase = "writing" /\ KeyOf[r] = KeyWritten(v)
               => r = writer[v].record \/ KeyWritten(v) \in contested'
  BY DEF FindAbsent, Contenders, Writing, KeyWritten
<1>7. ~ FindAbsent(w) => stored[KeyOf[r]] = r \/ KeyOf[r] \in contested'
  BY <1>5 DEF FindSame, Same, Stored, Writing, WritersKnow, KeyWritten
<1>8. UNCHANGED <<stored, lister, issuedTo, edge, base, loose, minted>>
  BY DEF FindAbsent, FindSame, Stored, MoveWriter
<1> HIDE DEF new
<1>9. QED
  BY <1>1, <1>2, <1>3, <1>5, <1>6, <1>7, <1>8, WriterMoves

LEMMA WriteKeepsInv ==
    ASSUME IInv, NEW w \in Writers, Write(w)
    PROVE  IInv'
<1> DEFINE r == writer[w].record
           k == KeyOf[r]
           new == [writer[w] EXCEPT !.phase = "written"]
<1> USE DEF IInv
<1>1. writer[w] \in Writer /\ r \in Records /\ writer[w].phase = "writing"
  BY DEF TypeOK, WritersKnow, Write, Writing
<1>2. new \in Writer /\ new.phase = "written" /\ new.record = r
  BY <1>1 DEF Writer
<1>3. /\ writer' = [writer EXCEPT ![w] = new]
      /\ stored' = [stored EXCEPT ![k] = r]
      /\ UNCHANGED <<contested, lister, issuedTo, edge, base, loose, minted>>
  BY DEF Write, MoveWriter
<1>4. k \in Keys /\ r # None
  BY <1>1, ProvenanceAssumption DEF Keys
<1> HIDE DEF new
<1>5. writer'[w] = new /\ \A v \in Writers \ {w} : writer'[v] = writer[v]
  BY <1>3 DEF TypeOK
<1>6. stored' \in [Keys -> Records \cup {None}]
      /\ \A x \in Keys : stored'[x] = IF x = k THEN r ELSE stored[x]
  BY <1>1, <1>3, <1>4 DEF TypeOK
<1>7. TypeOK'
  BY <1>2, <1>3, <1>6 DEF TypeOK
<1>8. \A v \in Writers : writer[v].phase \in {"asked", "writing", "written", "stored"} =>
          writer[v].record \in Records /\ KeyWritten(v) \in Keys
  BY ProvenanceAssumption DEF WritersKnow, KeyWritten, Keys
<1>9. WritersKnow'
  <2> SUFFICES ASSUME NEW v \in Writers \ {w}
               PROVE  /\ writer[v].phase \in {"asked", "writing", "written", "stored"} =>
                             writer[v].record \in Records
                      /\ writer[v].phase = "writing" =>
                             \/ stored'[KeyWritten(v)] \in {None, writer[v].record}
                             \/ KeyWritten(v) \in contested
                      /\ writer[v].phase \in {"written", "stored"} =>
                             \/ stored'[KeyWritten(v)] = writer[v].record
                             \/ KeyWritten(v) \in contested
    BY <1>1, <1>2, <1>3, <1>4, <1>5, <1>6 DEF WritersKnow, KeyWritten
  <2>1. CASE writer[v].phase = "writing"
    BY <1>1, <1>6, <1>8, <2>1 DEF WritersKnow, WritersContend, KeyWritten
  <2>2. CASE writer[v].phase \in {"written", "stored"}
    <3>1. stored[KeyWritten(v)] = writer[v].record \/ KeyWritten(v) \in contested
      BY <2>2 DEF WritersKnow
    <3>2. stored[k] \in {None, r} \/ k \in contested
      BY <1>1 DEF WritersKnow, KeyWritten
    <3>3. writer[v].record # None
      BY <1>8, <2>2, ProvenanceAssumption
    <3>4. QED
      BY <1>6, <1>8, <2>2, <3>1, <3>2, <3>3
  <2>3. QED
    BY <1>8, <2>1, <2>2
<1>10. WritersContend'
  BY <1>2, <1>3, <1>5 DEF WritersContend, KeyWritten
<1>11. Held \subseteq Held'
  BY <1>4, <1>6 DEF Held
<1>12. QED
  BY <1>3, <1>7, <1>9, <1>10, <1>11, StoringKeepsListings

(***************************************************************************)
(* Steps of the nonces.                                                    *)
(***************************************************************************)

LEMMA NonceKeepsInv ==
    ASSUME IInv, NEW n \in Nonces, IssueNonce(n) \/ Expire(n) \/ Settle(n)
    PROVE  IInv'
<1> USE DEF IInv
<1>1. UNCHANGED <<stored, writer, lister, contested, base, loose>>
  BY DEF IssueNonce, Expire, Settle
<1>2. /\ issuedTo' \in [Nonces -> Creators \cup {None}]
      /\ edge' \in [Nonces -> Creators \cup {None}]
      /\ minted' \in [Nonces -> Creators \cup {None}]
      /\ \A m \in Nonces \ {n} : minted'[m] = minted[m] /\ issuedTo'[m] = issuedTo[m]
      /\ minted[n] # None => minted'[n] = minted[n] /\ issuedTo'[n] \in {None, issuedTo[n]}
      /\ minted'[n] # None \/ minted'[n] = minted[n]
  BY ProvenanceAssumption DEF IssueNonce, Expire, Settle, TypeOK
<1>3. TypeOK'
  BY <1>1, <1>2 DEF TypeOK
<1>4. NoncesAreMinted'
  <2>1. CASE IssueNonce(n)
    BY <2>1 DEF IssueNonce, NoncesAreMinted, TypeOK
  <2>2. CASE Expire(n)
    BY <2>2 DEF Expire, NoncesAreMinted, TypeOK
  <2>3. CASE Settle(n)
    BY <2>3 DEF Settle, NoncesAreMinted, TypeOK
  <2>4. QED
    BY <2>1, <2>2, <2>3
<1>5. \A l \in Listers : lister[l].phase \notin {"none", "gone"} =>
          /\ minted'[lister[l].nonce] = minted[lister[l].nonce]
          /\ issuedTo[lister[l].nonce] = None => issuedTo'[lister[l].nonce] = None
  BY <1>2 DEF ListersAreOwners
<1>6. ListersAreOwners'
  BY <1>1, <1>5 DEF ListersAreOwners, Past
<1>7. WritersKnow' /\ WritersContend' /\ ListingsAreWhole'
  BY <1>1 DEF WritersKnow, WritersContend, KeyWritten, ListingsAreWhole, Held
<1>8. QED
  BY <1>3, <1>4, <1>6, <1>7

(***************************************************************************)
(* Steps of the requests to list.                                          *)
(***************************************************************************)

\* They leave the bucket and who writes to it as they are.
LEMMA ListingKeepsWriters ==
    ASSUME IInv, UNCHANGED <<stored, writer, contested>>
    PROVE  WritersKnow' /\ WritersContend' /\ Held' = Held
BY DEF IInv, WritersKnow, WritersContend, KeyWritten, Held

LEMMA NothingListed ==
    ASSUME NEW gone, gone = [NoLister EXCEPT !.phase = "gone"]
    PROVE  /\ gone \in Lister /\ gone.phase = "gone" /\ gone.out = {}
BY DEF NoLister, Lister

LEMMA AskKeepsInv ==
    ASSUME IInv, NEW l \in Listers, AskList(l)
    PROVE  IInv'
<1> USE DEF IInv
<1>1. PICK c \in Creators, n \in Nonces, signed \in BOOLEAN :
        /\ minted[n] # None
        /\ lister' = [lister EXCEPT ![l] =
               [@ EXCEPT !.phase = "asked", !.key = c, !.nonce = n, !.signed = signed]]
  BY DEF AskList
<1> DEFINE new == [lister[l] EXCEPT !.phase = "asked", !.key = c, !.nonce = n,
                                    !.signed = signed]
<1>2. lister[l] \in Lister /\ lister[l].phase = "none"
  BY DEF TypeOK, AskList, Listing
<1>3. /\ new \in Lister /\ new.phase = "asked" /\ new.nonce = n
      /\ new.cursor = lister[l].cursor /\ new.out = lister[l].out
  BY <1>2 DEF Lister
<1>4. lister' = [lister EXCEPT ![l] = new]
  BY <1>1
<1> HIDE DEF new
<1>5. lister'[l] = new /\ \A m \in Listers \ {l} : lister'[m] = lister[m]
  BY <1>4 DEF TypeOK
<1>6. /\ base' = [base EXCEPT ![l] = Held]
      /\ UNCHANGED <<stored, writer, issuedTo, edge, contested, loose, minted>>
  BY DEF AskList
<1>7. WritersKnow' /\ WritersContend' /\ Held' = Held /\ Held \subseteq Keys
  BY <1>6, ListingKeepsWriters DEF Held
<1>8. TypeOK'
  BY <1>3, <1>4, <1>6, <1>7 DEF TypeOK
<1>9. NoncesAreMinted'
  BY <1>6 DEF NoncesAreMinted
<1>10. ListersAreOwners'
  BY <1>1, <1>3, <1>5, <1>6 DEF ListersAreOwners, Past
<1>11. ListingsAreWhole'
  <2>1. new.cursor = 0 /\ new.out = {}
    BY <1>2, <1>3 DEF ListingsAreWhole
  <2>2. base'[l] = Held /\ \A m \in Listers \ {l} : base'[m] = base[m]
    BY <1>6 DEF TypeOK
  <2>3. QED
    BY <1>3, <1>5, <1>7, <2>1, <2>2 DEF ListingsAreWhole
<1>12. QED
  BY <1>7, <1>8, <1>9, <1>10, <1>11

\* A listing that is refused or dies leaves nothing behind.
LEMMA LeavingKeepsInv ==
    ASSUME IInv, NEW l \in Listers, MoveLister(l, "gone"),
           issuedTo' \in [Nonces -> Creators \cup {None}],
           \A n \in Nonces : issuedTo'[n] \in {None, issuedTo[n]},
           UNCHANGED <<edge, base, loose, minted>>
    PROVE  IInv'
<1> USE DEF IInv
<1> DEFINE new == [NoLister EXCEPT !.phase = "gone"]
<1>1. new \in Lister /\ new.phase = "gone" /\ new.out = {}
  BY NothingListed
<1>2. lister' = [lister EXCEPT ![l] = new] /\ UNCHANGED <<stored, writer, contested>>
  BY DEF MoveLister
<1> HIDE DEF new
<1>3. lister'[l] = new /\ \A m \in Listers \ {l} : lister'[m] = lister[m]
  BY <1>2 DEF TypeOK
<1>4. WritersKnow' /\ WritersContend' /\ Held' = Held
  BY <1>2, ListingKeepsWriters
<1>5. TypeOK'
  BY <1>1, <1>2 DEF TypeOK
<1>6. NoncesAreMinted'
  BY DEF NoncesAreMinted
<1>7. ListersAreOwners'
  BY <1>1, <1>3 DEF ListersAreOwners, Past
<1>8. ListingsAreWhole'
  BY <1>1, <1>3, <1>4 DEF ListingsAreWhole
<1>9. QED
  BY <1>4, <1>5, <1>6, <1>7, <1>8

LEMMA CheckKeepsInv ==
    ASSUME IInv, NEW l \in Listers, CheckNonce(l)
    PROVE  IInv'
<1> DEFINE n == lister[l].nonce
           new == [lister[l] EXCEPT !.phase = "checked"]
<1> USE DEF IInv
<1>1. lister[l] \in Lister /\ lister[l].phase = "asked" /\ n \in Nonces
  BY DEF TypeOK, ListersAreOwners, CheckNonce, Listing
<1>2. UNCHANGED <<issuedTo, edge, base, minted>>
  BY DEF CheckNonce
<1>3. PICK issued \in {issuedTo[n], edge[n]} :
        IF NonceOk(issued, lister[l].key)
        THEN /\ MoveLister(l, "checked")
             /\ loose' = IF issued = issuedTo[n] /\ Checked(n) = {}
                         THEN loose ELSE loose \cup {n}
        ELSE MoveLister(l, "gone") /\ UNCHANGED loose
  BY DEF CheckNonce
<1>4. CASE ~ NonceOk(issued, lister[l].key)
  BY <1>2, <1>3, <1>4, LeavingKeepsInv DEF TypeOK
<1>5. CASE NonceOk(issued, lister[l].key)
  <2>1. new \in Lister /\ new.phase = "checked" /\ new.nonce = n
        /\ new.key = lister[l].key /\ new.cursor = lister[l].cursor /\ new.out = lister[l].out
    BY <1>1 DEF Lister
  <2>2. lister' = [lister EXCEPT ![l] = new] /\ UNCHANGED <<stored, writer, contested>>
    BY <1>3, <1>5 DEF MoveLister
  <2> HIDE DEF new
  <2>3. lister'[l] = new /\ \A m \in Listers \ {l} : lister'[m] = lister[m]
    BY <2>2 DEF TypeOK
  <2>4. WritersKnow' /\ WritersContend' /\ Held' = Held
    BY <2>2, ListingKeepsWriters
  <2>5. loose \subseteq loose' /\ loose' \subseteq Nonces
    BY <1>1, <1>3, <1>5 DEF TypeOK
  <2>6. TypeOK'
    BY <1>2, <2>1, <2>2, <2>5 DEF TypeOK
  <2>7. NoncesAreMinted'
    BY <1>2 DEF NoncesAreMinted
  <2>8. new.key = minted[n] /\ issued # None
    BY <1>1, <1>3, <1>5, <2>1 DEF NonceOk, NoncesAreMinted
  <2>9. ASSUME NEW m \in Listers \ {l}, lister[m].phase \in Past, lister[m].nonce = n
        PROVE  n \in loose'
    <3>1. CASE lister[m].phase = "checked"
      BY <1>3, <1>5, <2>9, <3>1 DEF Checked, Listing
    <3>2. CASE lister[m].phase \in {"listing", "listed"}
      <4>1. issuedTo[n] = None
        BY <2>9, <3>2 DEF ListersAreOwners
      <4>2. QED
        BY <1>3, <1>5, <2>8, <4>1
    <3>3. QED
      BY <2>9, <3>1, <3>2 DEF Past
  <2>10. ListersAreOwners'
    BY <1>1, <1>2, <2>1, <2>3, <2>5, <2>8, <2>9 DEF ListersAreOwners, Past
  <2>11. ListingsAreWhole'
    BY <1>1, <1>2, <2>1, <2>3, <2>4 DEF ListingsAreWhole
  <2>12. QED
    BY <2>4, <2>6, <2>7, <2>10, <2>11
<1>6. QED
  BY <1>4, <1>5

LEMMA SpendKeepsInv ==
    ASSUME IInv, NEW l \in Listers, SpendNonce(l)
    PROVE  IInv'
<1> DEFINE n == lister[l].nonce
           new == [lister[l] EXCEPT !.phase = "listing"]
<1> USE DEF IInv
<1>1. lister[l] \in Lister /\ lister[l].phase = "checked" /\ n \in Nonces
  BY DEF TypeOK, ListersAreOwners, SpendNonce, Listing
<1>2. issuedTo' = [issuedTo EXCEPT ![n] = None] /\ UNCHANGED <<edge, base, loose, minted>>
  BY DEF SpendNonce, Spend
<1>3. /\ issuedTo' \in [Nonces -> Creators \cup {None}]
      /\ \A m \in Nonces : issuedTo'[m] \in {None, issuedTo[m]}
      /\ issuedTo'[n] = None
  BY <1>1, <1>2 DEF TypeOK
<1>4. CASE ~ lister[l].signed
  BY <1>2, <1>3, <1>4, LeavingKeepsInv DEF SpendNonce
<1>5. CASE lister[l].signed
  <2>1. /\ new \in Lister /\ new.phase = "listing" /\ new.nonce = n
        /\ new.key = lister[l].key /\ new.cursor = lister[l].cursor
        /\ new.out = lister[l].out /\ new.signed = lister[l].signed
    BY <1>1 DEF Lister
  <2>2. lister' = [lister EXCEPT ![l] = new] /\ UNCHANGED <<stored, writer, contested>>
    BY <1>5 DEF SpendNonce, MoveLister
  <2> HIDE DEF new
  <2>3. lister'[l] = new /\ \A m \in Listers \ {l} : lister'[m] = lister[m]
    BY <2>2 DEF TypeOK
  <2>4. WritersKnow' /\ WritersContend' /\ Held' = Held
    BY <2>2, ListingKeepsWriters
  <2>5. TypeOK'
    BY <1>2, <1>3, <2>1, <2>2 DEF TypeOK
  <2>6. NoncesAreMinted'
    BY <1>2, <1>3 DEF NoncesAreMinted
  <2>7. ListersAreOwners'
    <3>1. new.signed
      BY <1>5, <2>1, Zenon
    <3>2. \A m \in Listers \ {l} : lister[m].phase \in {"listing", "listed"} =>
             issuedTo'[lister[m].nonce] = None
      BY <1>3 DEF ListersAreOwners
    <3>3. new.key = minted[n] /\ minted[n] # None
      BY <1>1, <2>1 DEF ListersAreOwners, Past
    <3>4. \A m \in Listers \ {l} :
             lister[m].phase \in Past /\ lister[m].nonce = n => n \in loose
      BY <1>1 DEF ListersAreOwners, Past
    <3>5. QED
      BY <1>1, <1>2, <1>3, <2>1, <2>3, <3>1, <3>2, <3>3, <3>4 DEF ListersAreOwners, Past
  <2>8. ListingsAreWhole'
    <3>1. new.cursor = 0 /\ new.out = {}
      BY <1>1, <2>1 DEF ListingsAreWhole
    <3>2. \A i \in Numbers : ~ (i <= 0)
      BY ProvenanceAssumption
    <3>3. QED
      BY <1>2, <2>1, <2>3, <2>4, <3>1, <3>2 DEF ListingsAreWhole
  <2>9. QED
    BY <2>4, <2>5, <2>6, <2>7, <2>8
<1>6. QED
  BY <1>4, <1>5

\* A page is a beginning of what is left.
LEMMA PageIsABeginning ==
    ASSUME TypeOK, NEW l \in Listers, NEW n \in Rest(l), NEW m \in Page(l), n <= m
    PROVE  n \in Page(l)
<1> DEFINE Below(i) == {j \in Rest(l) : j < i}
<1>1. Rest(l) \subseteq Numbers /\ IsFiniteSet(Numbers) /\ Numbers \subseteq Nat
  BY ProvenanceAssumption DEF Rest
<1>2. IsFiniteSet(Rest(l))
  BY <1>1, FS_Subset
<1>3. Below(n) \subseteq Below(m)
  <2>1. m \in Rest(l)
    BY DEF Page
  <2>2. \A j \in Rest(l) : j < n => j < m
    <3>1. \A j \in Rest(l) : j \in Nat
      BY <1>1
    <3>2. QED
      BY <2>1, <3>1
  <2>3. QED
    BY <2>2
<1>4. IsFiniteSet(Below(m)) /\ IsFiniteSet(Below(n))
  BY <1>2, FS_Subset
<1>5. Cardinality(Below(n)) <= Cardinality(Below(m))
  BY <1>3, <1>4, FS_Subset
<1>6. Cardinality(Below(n)) \in Nat /\ Cardinality(Below(m)) \in Nat
  BY <1>4, FS_CardinalityType
<1>7. Cardinality(Below(m)) < PageSize
  BY DEF Page
<1>8. Cardinality(Below(n)) < PageSize
  BY <1>5, <1>6, <1>7, ProvenanceAssumption
<1>9. QED
  BY <1>8 DEF Page

LEMMA PageKeepsInv ==
    ASSUME IInv, NEW l \in Listers, ListPage(l)
    PROVE  IInv'
<1> USE DEF IInv
<1>1. PICK c \in Numbers \cup {0} :
        /\ IsCursor(l, c)
        /\ lister' = [lister EXCEPT ![l] =
               [@ EXCEPT !.out = lister[l].out \cup ({lister[l].key} \X Page(l)),
                         !.cursor = c,
                         !.phase = IF Truncated(l) THEN "listing" ELSE "listed"]]
  BY DEF ListPage
<1>20. base[l] \subseteq Held /\ lister[l].out \subseteq Held \cap ({lister[l].key} \X Numbers)
  BY DEF ListingsAreWhole
<1> DEFINE key == lister[l].key
           phase == IF Truncated(l) THEN "listing" ELSE "listed"
           out == lister[l].out \cup ({key} \X Page(l))
           new == [lister[l] EXCEPT !.out = out, !.cursor = c, !.phase = phase]
<1>2. lister[l] \in Lister /\ lister[l].phase = "listing"
  BY DEF TypeOK, ListPage, Listing
<1>3. UNCHANGED <<stored, writer, issuedTo, edge, contested, base, loose, minted>>
  BY DEF ListPage
<1>4. Held \subseteq Keys /\ {key} \X Page(l) \subseteq Held \cap ({key} \X Numbers)
  BY DEF Held, Page, Rest
<1>5. out \subseteq Held \cap ({key} \X Numbers)
  BY <1>4, <1>20
<1>6. lister' = [lister EXCEPT ![l] = new]
  BY <1>1
<1>7. /\ new \in Lister /\ new.phase = phase /\ new.nonce = lister[l].nonce
      /\ new.key = key /\ new.signed = lister[l].signed /\ new.cursor = c /\ new.out = out
  <2>1. out \in SUBSET Keys /\ c \in Numbers \cup {0}
    BY <1>4, <1>5
  <2>2. phase \in {"listing", "listed"}
    OBVIOUS
  <2> HIDE DEF out, phase
  <2>3. QED
    BY <1>2, <2>1, <2>2 DEF Lister
<1> HIDE DEF new
<1>8. lister'[l] = new /\ \A m \in Listers \ {l} : lister'[m] = lister[m]
  BY <1>6 DEF TypeOK
<1>9. WritersKnow' /\ WritersContend' /\ Held' = Held
  BY <1>3, ListingKeepsWriters
<1>10. TypeOK'
  BY <1>3, <1>6, <1>7 DEF TypeOK
<1>11. NoncesAreMinted'
  BY <1>3 DEF NoncesAreMinted
<1>12. ListersAreOwners'
  BY <1>2, <1>3, <1>7, <1>8 DEF ListersAreOwners, Past
<1>13. ASSUME NEW n \in Numbers, <<key, n>> \in base[l],
              phase = "listing" => n <= c
       PROVE  <<key, n>> \in out
  <2>1. <<key, n>> \in Held
    BY <1>13, <1>20
  <2>2. n \in Nat /\ c \in Nat /\ lister[l].cursor \in Nat
    <3>1. \A i \in Numbers \cup {0} : i \in Nat
      BY ProvenanceAssumption
    <3>2. lister[l].cursor \in Numbers \cup {0}
      BY <1>2 DEF Lister
    <3>3. QED
      BY <3>1, <3>2
  <2>3. CASE n <= lister[l].cursor
    BY <1>2, <1>13, <2>3 DEF ListingsAreWhole
  <2>4. CASE ~ (n <= lister[l].cursor)
    <3>1. n \in Rest(l)
      BY <2>1, <2>2, <2>4 DEF Rest
    <3>2. CASE Page(l) = Rest(l)
      BY <3>1, <3>2
    <3>3. CASE Page(l) # Rest(l)
      <4>1. n <= c
        BY <1>13, <3>3 DEF Truncated
      <4>2. c \in Page(l)
        BY <1>1, <2>2, <2>4, <4>1 DEF IsCursor
      <4>3. QED
        BY <3>1, <4>1, <4>2, PageIsABeginning
    <3>4. QED
      BY <3>2, <3>3
  <2>5. QED
    BY <2>3, <2>4
<1>14. ListingsAreWhole'
  <2> HIDE DEF out
  <2>1. \A n \in Numbers :
           /\ <<new.key, n>> \in base'[l]
           /\ \/ new.phase = "listing" /\ n <= new.cursor
              \/ new.phase = "listed"
           => <<new.key, n>> \in new.out
    BY <1>3, <1>7, <1>13
  <2>2. /\ base'[l] \subseteq Held'
        /\ new.out \subseteq Held' \cap ({new.key} \X Numbers)
        /\ new.phase \notin {"none", "asked", "checked"}
    BY <1>3, <1>5, <1>7, <1>9 DEF ListingsAreWhole
  <2>3. QED
    BY <1>3, <1>8, <1>9, <2>1, <2>2 DEF ListingsAreWhole
<1>15. QED
  BY <1>9, <1>10, <1>11, <1>12, <1>14

LEMMA NextInv == IInv /\ [Next]_vars => IInv'
<1> SUFFICES ASSUME IInv, [Next]_vars
             PROVE  IInv'
  OBVIOUS
<1>1. ASSUME NEW w \in Writers, Put(w)
      PROVE  IInv'
  BY <1>1, GoneKeepsInv, VerifiedKeepsInv, FoundKeepsInv, WriteKeepsInv
     DEF Put, Unverified, FindDifferent, WriterDies
<1>2. ASSUME NEW n \in Nonces, IssueNonce(n) \/ Expire(n) \/ Settle(n)
      PROVE  IInv'
  BY <1>2, NonceKeepsInv
<1>3. ASSUME NEW l \in Listers, ListRecords(l)
      PROVE  IInv'
  <2>1. CASE ListerDies(l)
    BY <2>1, LeavingKeepsInv DEF ListerDies, IInv, TypeOK
  <2>2. QED
    BY <1>3, <2>1, AskKeepsInv, CheckKeepsInv, SpendKeepsInv, PageKeepsInv DEF ListRecords
<1>4. CASE UNCHANGED vars
  BY <1>4 DEF vars, IInv, TypeOK, WritersKnow, WritersContend, KeyWritten, NoncesAreMinted,
              ListersAreOwners, ListingsAreWhole, Held
<1>5. QED
  BY <1>1, <1>2, <1>3, <1>4 DEF Next

\* The type invariant and what the properties rest on hold of every reachable state
\* of the store and of the requests to it (provenance.mjs put, issueNonce,
\* listRecords).
THEOREM Invariance == Spec => []IInv
BY InitInv, NextInv, PTL DEF Spec

\* Who is answered `stored` has its bytes at its key for good, unless somebody
\* contended for it (provenance.mjs:218-230).
THEOREM StoredRecordsAreKept == Spec => []StoredIsKept
<1>1. IInv => StoredIsKept
  BY DEF IInv, StoredIsKept, WritersKnow, KeyWritten
<1>2. QED
  BY Invariance, <1>1, PTL

\* An answered listing bears the signature of the key its nonce was issued to and
\* has that creator's records only (provenance.mjs:301-319).
THEOREM ListingsAreOwners == Spec => []ListedToOwner
<1>1. IInv => ListedToOwner
  <2> SUFFICES ASSUME IInv, NEW l \in Answered
               PROVE  /\ lister[l].signed
                      /\ lister[l].out \subseteq {minted[lister[l].nonce]} \X Numbers
                      /\ lister[l].key = minted[lister[l].nonce]
    BY DEF ListedToOwner
  <2>1. l \in Listers /\ lister[l].phase = "listed"
    BY DEF Answered
  <2>2. lister[l].key = minted[lister[l].nonce] /\ lister[l].signed
    BY <2>1 DEF IInv, ListersAreOwners, Past
  <2>3. lister[l].out \subseteq {lister[l].key} \X Numbers
    BY <2>1 DEF IInv, ListingsAreWhole
  <2>4. QED
    BY <2>2, <2>3
<1>2. QED
  BY Invariance, <1>1, PTL

\* A nonce that was never read behind its delete, nor twice before it, has at most
\* one answered listing (provenance.mjs:301-309).
THEOREM NoncesListOnce == Spec => []NonceListsOnce
<1>1. IInv => NonceListsOnce
  BY DEF IInv, NonceListsOnce, ListersAreOwners, Answered, Past
<1>2. QED
  BY Invariance, <1>1, PTL

(***************************************************************************)
(* The refinement.                                                         *)
(***************************************************************************)

Answers == [l \in Listers |-> IF l \in Answered THEN {lister[l].out} ELSE {}]

Shown == <<stored, contested, base, Answers>>

LEMMA StoreInit == Init => Store!Init
<1> SUFFICES ASSUME Init PROVE Store!Init
  OBVIOUS
<1>1. Answers = [l \in Listers |-> {}]
  BY DEF Init, Answers, Answered, NoLister
<1>2. QED
  BY <1>1 DEF Init, Store!Init, Store!Keys, Keys, Answers

\* A request to list that was not answered, and is not by this step.
LEMMA AnswersStay ==
    ASSUME NEW l \in Listers, NEW new, lister \in [Listers -> Lister],
           lister' = [lister EXCEPT ![l] = new],
           lister[l].phase # "listed", new.phase # "listed"
    PROVE  Answers' = Answers
<1>1. lister'[l] = new /\ \A m \in Listers \ {l} : lister'[m] = lister[m]
  OBVIOUS
<1>2. Answered' = Answered /\ l \notin Answered
  BY <1>1 DEF Answered
<1>3. \A m \in Answered : lister'[m] = lister[m]
  BY <1>1, <1>2 DEF Answered
<1>4. QED
  BY <1>2, <1>3 DEF Answers

\* Storing is a Contest, a Write, or nothing of it shows.
LEMMA PutImplements ==
    ASSUME IInv, NEW w \in Writers, Put(w)
    PROVE  Store!Next \/ UNCHANGED Shown
<1> DEFINE r == writer[w].record
           k == KeyOf[r]
<1>1. lister' = lister /\ base' = base
  BY DEF Put, Unverified, Verified, FindAbsent, FindSame, FindDifferent, Write, Stored,
         WriterDies, WriterGone, MoveWriter
<1>2. Answers' = Answers
  BY <1>1 DEF Answers, Answered
<1>3. writer[w].phase \in {"asked", "writing"} => r \in Records /\ k \in Keys
  BY ProvenanceAssumption DEF IInv, WritersKnow, Keys
<1>4. CASE FindAbsent(w)
  <2>1. /\ stored[k] = None /\ stored' = stored /\ k \in Keys
        /\ contested' = contested \/ contested' = contested \cup {k}
    BY <1>3, <1>4 DEF FindAbsent, Writing
  <2>2. CASE contested' = contested
    BY <1>1, <1>2, <2>1, <2>2 DEF Shown
  <2>3. CASE contested' = contested \cup {k}
    <3>1. Store!Contest(k)
      BY <1>1, <1>2, <2>1, <2>3 DEF Store!Contest, Answers
    <3>2. QED
      BY <2>1, <3>1 DEF Store!Next, Store!Keys, Keys
  <2>4. QED
    BY <2>1, <2>2, <2>3
<1>5. CASE Write(w)
  <2>1. /\ r \in Records /\ k \in Keys /\ contested' = contested
        /\ stored' = [stored EXCEPT ![k] = r]
    BY <1>3, <1>5 DEF Write, Writing, MoveWriter
  <2>2. stored[k] \in {None, r} \/ k \in contested
    BY <1>5 DEF IInv, WritersKnow, KeyWritten, Write, Writing
  <2>3. CASE stored[k] = r
    <3>1. stored' = stored
      BY <2>1, <2>3 DEF IInv, TypeOK
    <3>2. QED
      BY <1>1, <1>2, <2>1, <3>1 DEF Shown
  <2>4. CASE stored[k] = None \/ k \in contested
    <3>1. Store!Write(k, r)
      BY <1>1, <1>2, <2>1, <2>4 DEF Store!Write, Answers
    <3>2. QED
      BY <2>1, <3>1 DEF Store!Next, Store!Keys, Keys
  <2>5. QED
    BY <2>2, <2>3, <2>4
<1>6. CASE ~ FindAbsent(w) /\ ~ Write(w)
  <2>1. stored' = stored /\ contested' = contested
    BY <1>6 DEF Put, Unverified, Verified, FindSame, FindDifferent, Stored, WriterDies,
                WriterGone
  <2>2. QED
    BY <1>1, <1>2, <2>1 DEF Shown
<1>7. QED
  BY <1>4, <1>5, <1>6

\* Listing is a Begin, an Answer, or nothing of it shows.
LEMMA ListImplements ==
    ASSUME IInv, NEW l \in Listers, ListRecords(l)
    PROVE  Store!Next \/ UNCHANGED Shown
<1>1. /\ lister \in [Listers -> Lister] /\ lister[l].phase # "listed"
      /\ UNCHANGED <<stored, contested>>
  BY DEF IInv, TypeOK, ListRecords, AskList, CheckNonce, SpendNonce, ListPage, ListerDies,
         Listing, MoveLister
<1>2. ASSUME NEW phase, phase # "listed", MoveLister(l, phase) PROVE Answers' = Answers
  <2> DEFINE new == IF phase = "gone" THEN [NoLister EXCEPT !.phase = "gone"]
                    ELSE [lister[l] EXCEPT !.phase = phase]
  <2>1. lister' = [lister EXCEPT ![l] = new]
    BY <1>2 DEF MoveLister
  <2>2. new.phase # "listed"
    BY <1>1, <1>2 DEF NoLister, Lister
  <2> HIDE DEF new
  <2>3. QED
    BY <1>1, <2>1, <2>2, AnswersStay
<1>3. CASE AskList(l)
  <2>1. PICK c \in Creators, n \in Nonces, signed \in BOOLEAN :
          lister' = [lister EXCEPT ![l] =
              [@ EXCEPT !.phase = "asked", !.key = c, !.nonce = n, !.signed = signed]]
    BY <1>3 DEF AskList
  <2> DEFINE new == [lister[l] EXCEPT !.phase = "asked", !.key = c, !.nonce = n,
                                      !.signed = signed]
  <2>2. lister' = [lister EXCEPT ![l] = new] /\ new.phase # "listed"
    BY <1>1, <2>1 DEF Lister
  <2> HIDE DEF new
  <2>3. Answers' = Answers /\ Answers[l] = {}
    BY <1>1, <2>2, AnswersStay DEF Answers, Answered
  <2>4. base' = [base EXCEPT ![l] = Held]
    BY <1>3 DEF AskList
  <2>5. Store!Begin(l)
    BY <1>1, <2>3, <2>4 DEF Store!Begin, Store!Held, Store!Keys, Held, Keys, Answers
  <2>6. QED
    BY <2>5 DEF Store!Next
<1>4. CASE CheckNonce(l) \/ SpendNonce(l) \/ ListerDies(l)
  <2>1. base' = base
    BY <1>4 DEF CheckNonce, SpendNonce, ListerDies
  <2>2. MoveLister(l, "checked") \/ MoveLister(l, "listing") \/ MoveLister(l, "gone")
    BY <1>4 DEF CheckNonce, SpendNonce, ListerDies
  <2>3. Answers' = Answers
    BY <1>2, <2>2
  <2>4. QED
    BY <1>1, <2>1, <2>3 DEF Shown
<1>5. CASE ListPage(l)
  <2>1. PICK c \in Numbers \cup {0} :
          lister' = [lister EXCEPT ![l] =
              [@ EXCEPT !.out = lister[l].out \cup ({lister[l].key} \X Page(l)),
                        !.cursor = c,
                        !.phase = IF Truncated(l) THEN "listing" ELSE "listed"]]
    BY <1>5 DEF ListPage
  <2> DEFINE phase == IF Truncated(l) THEN "listing" ELSE "listed"
             new == [lister[l] EXCEPT
                        !.out = lister[l].out \cup ({lister[l].key} \X Page(l)),
                        !.cursor = c, !.phase = phase]
             key == lister[l].key
             keys == new.out
  <2>2. lister' = [lister EXCEPT ![l] = new] /\ new.phase = phase /\ new.key = key
    BY <1>1, <2>1 DEF Lister
  <2> HIDE DEF new
  <2>3. lister'[l] = new /\ \A m \in Listers \ {l} : lister'[m] = lister[m]
    BY <1>1, <2>2
  <2>4. base' = base /\ minted' = minted
    BY <1>5 DEF ListPage
  <2>5. CASE Truncated(l)
    BY <1>1, <2>2, <2>4, <2>5, AnswersStay DEF Shown
  <2>6. CASE ~ Truncated(l)
    <3>1. new.phase = "listed"
      BY <2>2, <2>6
    <3>2. Answered' = Answered \cup {l} /\ l \notin Answered
      BY <1>1, <2>3, <3>1 DEF Answered
    <3>3. Answers' = [Answers EXCEPT ![l] = {keys}] /\ Answers[l] = {}
      BY <2>3, <3>2 DEF Answers, Answered
    <3>4. IInv'
      BY <1>5, PageKeepsInv
    <3>5. Held' = Held
      BY <1>1 DEF Held
    <3>6. /\ keys \subseteq Held \cap ({key} \X Numbers)
          /\ base[l] \subseteq Held
          /\ \A n \in Numbers : <<key, n>> \in base[l] => <<key, n>> \in keys
      BY <2>2, <2>3, <2>4, <3>1, <3>4, <3>5 DEF IInv, ListingsAreWhole
    <3>7. base[l] \cap ({key} \X Numbers) \subseteq keys
      BY <3>6
    <3>8. key \in Creators
      <4>1. lister[l].phase \in Past /\ lister[l].nonce \in Nonces
        BY <1>5 DEF IInv, ListersAreOwners, ListPage, Listing, Past
      <4>2. key = minted[lister[l].nonce] /\ minted[lister[l].nonce] # None
        BY <1>5, <4>1 DEF IInv, ListersAreOwners, ListPage, Listing
      <4>3. QED
        BY <4>1, <4>2 DEF IInv, TypeOK
    <3>9. PICK c1 \in Creators : c1 = key
      BY <3>8
    <3>10. Store!Answer(l, c1)
      <4>1. /\ keys \in SUBSET (Held \cap ({c1} \X Numbers))
            /\ base[l] \cap ({c1} \X Numbers) \subseteq keys
        BY <3>6, <3>7, <3>9
      <4> HIDE DEF keys
      <4>2. QED
        BY <1>1, <2>4, <3>3, <4>1
           DEF Store!Answer, Store!Held, Store!Keys, Held, Keys, Answers
    <3>11. QED
      BY <3>10 DEF Store!Next
  <2>7. QED
    BY <2>5, <2>6
<1>6. QED
  BY <1>3, <1>4, <1>5 DEF ListRecords

LEMMA StepImplements == IInv /\ [Next]_vars => [Store!Next]_(Store!vars)
<1> SUFFICES ASSUME IInv, [Next]_vars
             PROVE  Store!Next \/ UNCHANGED Shown
  BY DEF Store!vars, Shown, Answers
<1>1. ASSUME NEW n \in Nonces, IssueNonce(n) \/ Expire(n) \/ Settle(n)
      PROVE  UNCHANGED Shown
  BY <1>1 DEF IssueNonce, Expire, Settle, Shown, Answers, Answered
<1>2. CASE UNCHANGED vars
  BY <1>2 DEF vars, Shown, Answers, Answered
<1>3. QED
  BY <1>1, <1>2, PutImplements, ListImplements DEF Next

\* The store keeps the promises of RecordStore: records are written once unless
\* contended for, and a listing, through all its pages, misses none of its
\* creator's that was there when it began (provenance.mjs:315-329).
THEOREM StoreIsImplemented == Spec => StoreSpec
BY Invariance, StoreInit, StepImplements, PTL DEF Spec, StoreSpec, Store!Spec
=============================================================================
