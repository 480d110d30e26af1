\* The components that share nothing, one at a time.
CONSTANTS
    f1 = f1
    f2 = f2
    g1 = g1
    Rendered <- MCRendered
    Resolved <- MCResolved
    StampOf <- MCStampOf
    MaxVersion <- MCMaxVersion
    Attempts = 2
    s1 = s1
    s2 = s2
    s3 = s3
    Targets = {"production", "preview", "development"}
    Syncs = {s1, s2, s3}
    AskedOf <- MCAskedOf
    HasValue = {s1, s2}
    Groups = {"Rules", "Sending", "Addresses", "R2"}
    Want = {"Rules", "Sending", "Addresses"}
    AccountScoped = {"Addresses"}
    Found <- MCFound
    MaxEdits = 1
    Theirs = {mxa, mxb}
    Cloudflares = {route}
    Others = {other}
    c1 = c1
    c2 = c2
    Consents = {c1, c2}
    Verified = {c1}
    ChannelsOf <- MCChannelsOf
    CeilingOf <- MCCeilingOf
    Contacts = {a1, a2}
    w1 = w1
    absent = absent
    malformed = malformed
    Workers = {w1}
    NoWorker = noworker
    Platform = platform
    NoAccount = noaccount
    Absent = absent
    Malformed = malformed
    Unlimited = unlimited
    Amounts = {5, 20}
    Caps = {5, 20}
    Decimals = {0, 1, 2}
    NotANumber = nan
    UsdcDecimals = 1
    CapAtomic <- MCCapAtomic
    Validity = 2
    Envs <- MCEnvs
    MaxSigned = 1
    MaxTime = 3
    Ids = {1}
    Hits = {h1, h2, h3}
    Hour = 2
    Drift = 1
    HitThreshold = 2
    BucketLimit = 2
    LastMoment = 4
SPECIFICATION EstateSpec
CHECK_DEADLOCK FALSE
INVARIANTS
    StudioNamesUploaded
    ReachWasAgreed
    TurnsKeepTheCeiling
    SettledWasMandated
PROPERTIES
    GreenIsShown
    ZeroMeansDone
    GreenIsSynced
    GrantOnlyAdds
    PredictionIsEarned
