\* Two stores among two records that claim one id and a third, and two
\* listings, one id to a page.
CONSTANTS
    Writers = {w1, w2}
    Listers = {l1, l2}
    Creators = {alice, bob}
    Numbers = {1, 2}
    claim = claim
    forged = forged
    second = second
    alice = alice
    bob = bob
    Records = {claim, forged, second}
    KeyOf <- AlicesKeys
    Nonces = {n1}
    PageSize = 1
    None = None
SPECIFICATION Spec
SYMMETRY ProvenanceSymmetry
CHECK_DEADLOCK FALSE
INVARIANTS
    StoredIsKept
    ListedToOwner
    NonceListsOnce
PROPERTY StoreSpec
