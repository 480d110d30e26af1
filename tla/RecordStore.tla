---------------------------- MODULE RecordStore ----------------------------
(***************************************************************************)
(* What the provenance store promises (the header of                       *)
(* workers/mcp/src/provenance.mjs): nothing is overwritten, and a listing  *)
(* is the creator's own and stable.  Records are written once, unless two  *)
(* different ones contended for a key before it had any; a listing leaves  *)
(* out none that was there when it began and holds none that is not there  *)
(* when it is answered.                                                    *)
(***************************************************************************)
CONSTANTS
    Creators, Numbers,      \* a key is a creator and an id, by its order
    Records, NoRecord,      \* NoRecord: none of them
    Listers                 \* requests to list

Keys == Creators \X Numbers

VARIABLES
    stored,     \* the record of each key
    contested,  \* the keys that different records contended for
    base,       \* what a listing found when it began
    answer      \* the answer of each listing: at most one set of keys

vars == <<stored, contested, base, answer>>

Held == {k \in Keys : stored[k] # NoRecord}

Init ==
    /\ stored = [k \in Keys |-> NoRecord]
    /\ contested = {}
    /\ base = [l \in Listers |-> {}]
    /\ answer = [l \in Listers |-> {}]

Contest(k) ==
    /\ stored[k] = NoRecord
    /\ contested' = contested \cup {k}
    /\ UNCHANGED <<stored, base, answer>>

Write(k, r) ==
    /\ stored[k] = NoRecord \/ k \in contested
    /\ stored' = [stored EXCEPT ![k] = r]
    /\ UNCHANGED <<contested, base, answer>>

Begin(l) ==
    /\ answer[l] = {}
    /\ base' = [base EXCEPT ![l] = Held]
    /\ UNCHANGED <<stored, contested, answer>>

Answer(l, c) ==
    /\ answer[l] = {}
    /\ \E keys \in SUBSET (Held \cap ({c} \X Numbers)) :
           /\ base[l] \cap ({c} \X Numbers) \subseteq keys
           /\ answer' = [answer EXCEPT ![l] = {keys}]
    /\ UNCHANGED <<stored, contested, base>>

Next ==
    \/ \E k \in Keys : Contest(k) \/ \E r \in Records : Write(k, r)
    \/ \E l \in Listers : Begin(l) \/ \E c \in Creators : Answer(l, c)

Spec == Init /\ [][Next]_vars
=============================================================================
