\* Two derives before the canonical entry; one entry is unreachable.
CONSTANTS
    hero = hero
    film = film
    Entries = {hero, film}
    NoEntry = NoEntry
    DeriveCount = 2
    Canonical <- OneCanonical
    Popular = {}
    Unreachable = {film}
    Reported = {"done"}
    Ticks = {cron}
    Cron = cron
    MaxJobs = 2
    Concurrency = 1
    Hysteresis = 1
    MaxPosts = 4
    MaxFaults = 1
SPECIFICATION FairSpec
INVARIANT WarmedIsServed
PROPERTIES
    DoneIsWarmed
    CanonicalStaysWarm
