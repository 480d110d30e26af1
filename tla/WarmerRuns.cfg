\* Two runs that may overlap; one entry that all three sources name.
CONSTANTS
    hero = hero
    film = film
    Entries = {hero}
    NoEntry = NoEntry
    DeriveCount = 1
    Canonical <- OneCanonical
    Popular = {hero}
    Unreachable = {}
    Reported = {"queued", "rendering", "done", "failed"}
    Ticks = {cron, manual}
    Cron = cron
    MaxJobs = 2
    Concurrency = 2
    Hysteresis = 1
    MaxPosts = 3
    MaxFaults = 1
SPECIFICATION Spec
INVARIANTS
    OrderlyRunsKeepHysteresis
