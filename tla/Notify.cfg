\* One ticket with three redemptions, or two with one each; no age, half the
\* lifetime, all of it.
CONSTANTS
    Requests = {r1, r2, r3, r4}
    Ids = {t1, t2}
    Secrets = {root}
    NoSecret = NoSecret
    NoId = NoId
    TTL = 2
    MaxNow = 2
SPECIFICATION Spec
SYMMETRY NotifySymmetry
CHECK_DEADLOCK FALSE
INVARIANTS
    RedeemedIsGone
    OneMailUnlessShared
    MailedWhileFresh
    NothingIsRelayed
