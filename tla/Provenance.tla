----------------------------- MODULE Provenance -----------------------------
(***************************************************************************)
(* The provenance store of workers/mcp/src/provenance.mjs, as              *)
(* provenanceRoutes.mjs serves it: POST /provenance, /provenance/nonce and *)
(* /provenance/list.                                                       *)
(*                                                                         *)
(* Requests are concurrent and interleave at every await on the bucket     *)
(* (R2: strongly consistent) and on the nonces (KV: a read may be behind); *)
(* any may die at one.  A record stands for its canonical bytes, and only  *)
(* the key it derives is told of it: two records of one key are what a     *)
(* forged id makes.  Ids are numbers, in the order a listing has them.     *)
(***************************************************************************)
EXTENDS Integers, FiniteSets

CONSTANTS
    Writers, Listers,   \* requests to store, to list
    Creators,           \* public keys
    Numbers,            \* record ids
    Records,            \* signed records that verify
    KeyOf,              \* keyFor
    Nonces,
    PageSize,           \* how many keys one page of a listing has
    None

ASSUME ProvenanceAssumption ==
    /\ None \notin Records \cup Creators \cup Nonces
    /\ IsFiniteSet(Numbers) /\ Numbers \subseteq Nat \ {0}
    /\ KeyOf \in [Records -> Creators \X Numbers]
    /\ PageSize \in Nat \ {0}

Keys == Creators \X Numbers

\* A request is "gone" when it was refused or died.
Writer == [phase : {"none", "asked", "writing", "written", "stored", "gone"},
           record : Records \cup {None}]

\* A listing names a key and a nonce, and carries a signature that proves the
\* key or does not.
Lister == [phase : {"none", "asked", "checked", "listing", "listed", "gone"},
           key : Creators \cup {None}, nonce : Nonces \cup {None},
           signed : BOOLEAN, cursor : Numbers \cup {0}, out : SUBSET Keys]

NoLister == [phase |-> "none", key |-> None, nonce |-> None,
             signed |-> FALSE, cursor |-> 0, out |-> {}]

VARIABLES
    stored,     \* provenance/ in the bucket
    writer,     \* the state of each request to store
    lister,     \* the state of each request to list
    issuedTo,   \* nonce: in RATE
    edge,       \* what a read of it that is behind returns
    contested,  \* history: keys two different records were being put at
    base,       \* history: the keys there were when a listing began
    loose,      \* history: nonces read behind, or twice before a delete
    minted      \* history: the key each nonce was issued to

vars == <<stored, writer, lister, issuedTo, edge, contested, base, loose, minted>>

TypeOK ==
    /\ stored \in [Keys -> Records \cup {None}]
    /\ writer \in [Writers -> Writer]
    /\ lister \in [Listers -> Lister]
    /\ issuedTo \in [Nonces -> Creators \cup {None}]
    /\ edge \in [Nonces -> Creators \cup {None}]
    /\ contested \subseteq Keys
    /\ base \in [Listers -> SUBSET Keys]
    /\ loose \subseteq Nonces
    /\ minted \in [Nonces -> Creators \cup {None}]

Init ==
    /\ stored = [k \in Keys |-> None]
    /\ writer = [w \in Writers |-> [phase |-> "none", record |-> None]]
    /\ lister = [l \in Listers |-> NoLister]
    /\ issuedTo = [n \in Nonces |-> None]
    /\ edge = [n \in Nonces |-> None]
    /\ contested = {}
    /\ base = [l \in Listers |-> {}]
    /\ loose = {}
    /\ minted = [n \in Nonces |-> None]

Held == {k \in Keys : stored[k] # None}

-----------------------------------------------------------------------------
(* put.                                                                    *)

Writing(w, phase) == writer[w].phase = phase

MoveWriter(w, phase) ==
    /\ writer' = [writer EXCEPT ![w].phase = phase]
    /\ UNCHANGED <<lister, issuedTo, edge, base, loose, minted>>

WriterGone(w) ==
    /\ writer' = [writer EXCEPT ![w] = [phase |-> "gone", record |-> None]]
    /\ UNCHANGED <<stored, lister, issuedTo, edge, contested, base, loose, minted>>

\* verifyRecord: what does not verify is refused before it is looked up.
Unverified(w) == Writing(w, "none") /\ WriterGone(w)

Verified(w) ==
    /\ Writing(w, "none")
    /\ \E r \in Records : writer' = [writer EXCEPT ![w] = [phase |-> "asked", record |-> r]]
    /\ UNCHANGED <<stored, lister, issuedTo, edge, contested, base, loose, minted>>

Contenders(r) ==
    {w \in Writers : /\ Writing(w, "writing") /\ writer[w].record # r
                     /\ KeyOf[writer[w].record] = KeyOf[r]}

FindAbsent(w) ==
    LET r == writer[w].record
    IN  /\ Writing(w, "asked") /\ stored[KeyOf[r]] = None
        /\ MoveWriter(w, "writing")
        /\ contested' = IF Contenders(r) = {} THEN contested ELSE contested \cup {KeyOf[r]}
        /\ UNCHANGED stored

\* Mutant: takes whatever is there for a retry.
SameKey(r) == stored[KeyOf[r]] # None

Same(r) == stored[KeyOf[r]] = r

FindSame(w) ==
    /\ Writing(w, "asked") /\ Same(writer[w].record)
    /\ MoveWriter(w, "stored")
    /\ UNCHANGED <<stored, contested>>

FindDifferent(w) ==
    LET r == writer[w].record
    IN  Writing(w, "asked") /\ stored[KeyOf[r]] # None /\ ~Same(r) /\ WriterGone(w)

Write(w) ==
    /\ Writing(w, "writing")
    /\ stored' = [stored EXCEPT ![KeyOf[writer[w].record]] = writer[w].record]
    /\ MoveWriter(w, "written")
    /\ UNCHANGED contested

Stored(w) ==
    /\ Writing(w, "written")
    /\ MoveWriter(w, "stored")
    /\ UNCHANGED <<stored, contested>>

WriterDies(w) == writer[w].phase \in {"asked", "writing", "written"} /\ WriterGone(w)

-----------------------------------------------------------------------------
(* issueNonce and listRecords.                                             *)

\* Random: a nonce is issued once.  A caller has it only after the put.
IssueNonce(n) ==
    /\ minted[n] = None
    /\ \E c \in Creators :
           /\ issuedTo' = [issuedTo EXCEPT ![n] = c]
           /\ minted' = [minted EXCEPT ![n] = c]
    /\ UNCHANGED <<stored, writer, lister, edge, contested, base, loose>>

\* NONCE_TTL_SECONDS.
Expire(n) ==
    /\ issuedTo[n] # None
    /\ issuedTo' = [issuedTo EXCEPT ![n] = None]
    /\ UNCHANGED <<stored, writer, lister, edge, contested, base, loose, minted>>

Settle(n) ==
    /\ edge[n] # issuedTo[n]
    /\ edge' = [edge EXCEPT ![n] = issuedTo[n]]
    /\ UNCHANGED <<stored, writer, lister, issuedTo, contested, base, loose, minted>>

Listing(l, phase) == lister[l].phase = phase

MoveLister(l, phase) ==
    /\ lister' = [lister EXCEPT ![l] =
           IF phase = "gone" THEN [NoLister EXCEPT !.phase = "gone"]
           ELSE [@ EXCEPT !.phase = phase]]
    /\ UNCHANGED <<stored, writer, contested>>

\* A request to list: anybody's, with a nonce that was issued, and with a
\* signature that may be one seen before.
AskList(l) ==
    /\ Listing(l, "none")
    /\ \E c \in Creators, n \in Nonces, signed \in BOOLEAN :
           /\ minted[n] # None
           /\ lister' = [lister EXCEPT ![l] =
                  [@ EXCEPT !.phase = "asked", !.key = c, !.nonce = n, !.signed = signed]]
    /\ base' = [base EXCEPT ![l] = Held]
    /\ UNCHANGED <<stored, writer, issuedTo, edge, contested, loose, minted>>

\* Mutant: any nonce will do.
NonceOfAny(issued, key) == issued # None

NonceOk(issued, key) == issued # None /\ issued = key

Checked(n) == {m \in Listers : Listing(m, "checked") /\ lister[m].nonce = n}

CheckNonce(l) ==
    LET n == lister[l].nonce
    IN  /\ Listing(l, "asked")
        /\ \E issued \in {issuedTo[n], edge[n]} :
               IF NonceOk(issued, lister[l].key)
               THEN /\ MoveLister(l, "checked")
                    /\ loose' = IF issued = issuedTo[n] /\ Checked(n) = {}
                                THEN loose ELSE loose \cup {n}
               ELSE MoveLister(l, "gone") /\ UNCHANGED loose
        /\ UNCHANGED <<issuedTo, edge, base, minted>>

\* Mutant: a nonce outlives its use.
Keep(n) == issuedTo

Spend(n) == [issuedTo EXCEPT ![n] = None]

\* Spent before the signature is looked at.
SpendNonce(l) ==
    /\ Listing(l, "checked")
    /\ issuedTo' = Spend(lister[l].nonce)
    /\ MoveLister(l, IF lister[l].signed THEN "listing" ELSE "gone")
    /\ UNCHANGED <<edge, base, loose, minted>>

\* The ids under the key's prefix that the cursor has not passed.
Rest(l) == {n \in Numbers : n > lister[l].cursor /\ <<lister[l].key, n>> \in Held}

Page(l) == {n \in Rest(l) : Cardinality({m \in Rest(l) : m < n}) < PageSize}

\* The cursor names the last key of the page.
IsCursor(l, c) ==
    IF Page(l) = {} THEN c = lister[l].cursor
    ELSE c \in Page(l) /\ \A n \in Page(l) : n <= c

\* Mutant: answers with the first page.
NeverTruncated(l) == FALSE

Truncated(l) == Page(l) # Rest(l)

ListPage(l) ==
    /\ Listing(l, "listing")
    /\ \E c \in Numbers \cup {0} : IsCursor(l, c) /\ lister' = [lister EXCEPT ![l] =
           [@ EXCEPT !.out = lister[l].out \cup ({lister[l].key} \X Page(l)),
                     !.cursor = c,
                     !.phase = IF Truncated(l) THEN "listing" ELSE "listed"]]
    /\ UNCHANGED <<stored, writer, issuedTo, edge, contested, base, loose, minted>>

ListerDies(l) ==
    /\ lister[l].phase \in {"asked", "checked", "listing"}
    /\ MoveLister(l, "gone")
    /\ UNCHANGED <<issuedTo, edge, base, loose, minted>>

Put(w) ==
    \/ Unverified(w) \/ Verified(w) \/ FindAbsent(w) \/ FindSame(w)
    \/ FindDifferent(w) \/ Write(w) \/ Stored(w) \/ WriterDies(w)

ListRecords(l) ==
    AskList(l) \/ CheckNonce(l) \/ SpendNonce(l) \/ ListPage(l) \/ ListerDies(l)

Next ==
    \/ \E w \in Writers : Put(w)
    \/ \E n \in Nonces : IssueNonce(n) \/ Expire(n) \/ Settle(n)
    \/ \E l \in Listers : ListRecords(l)

Spec == Init /\ [][Next]_vars

-----------------------------------------------------------------------------
(* Properties                                                              *)

Answered == {l \in Listers : lister[l].phase = "listed"}

(* The code keeps what RecordStore promises: a key that no two different   *)
(* records contended for while it had none keeps its record for good, and  *)
(* a listing, whatever is stored between its pages, misses no record of    *)
(* its creator that was there when it began and invents none.              *)
Store == INSTANCE RecordStore WITH
    NoRecord <- None,
    answer <- [l \in Listers |-> IF l \in Answered THEN {lister[l].out} ELSE {}]

StoreSpec == Store!Spec

(* Whoever is answered `stored` is right, and stays right: the bytes at    *)
(* the key are theirs, also if they sent them again after a dropped        *)
(* connection, unless somebody contended for the key.                      *)
StoredIsKept ==
    \A w \in Writers :
        writer[w].phase = "stored" =>
            LET k == KeyOf[writer[w].record]
            IN  k \in contested \/ stored[k] = writer[w].record

(* Who asks for a nonce, and who signs with it, are one: an answered        *)
(* listing bears the signature of the key its nonce was issued to, and has *)
(* no other creator's records, though the nonce may have expired, been     *)
(* spent by another request or been read behind in between.                *)
ListedToOwner ==
    \A l \in Answered :
        /\ lister[l].signed
        /\ lister[l].out \subseteq {minted[lister[l].nonce]} \X Numbers
        /\ lister[l].key = minted[lister[l].nonce]

(* A nonce lists once: a captured request replayed finds its nonce spent,  *)
(* unless it overlaps the first one or reads KV where the delete has not   *)
(* arrived.                                                                *)
NonceListsOnce ==
    \A l, m \in Answered :
        lister[l].nonce = lister[m].nonce /\ lister[l].nonce \notin loose => l = m
=============================================================================
