\* SiteInbox: the life of a customer's domain and of the leads that come in on it.
CONSTANTS
    a = a
    b = b
    apex = apex
    none = none
    d1 = d1
    p1 = p1
    p2 = p2
    p3 = p3
    g1 = g1
    nolead = nolead
    Slugs <- MCSlugs
    Root = apex
    Domains <- MCDomains
    NoSite = none
    Posts <- MCPosts
    Inboxes <- MCInboxes
    Visits <- MCVisits
    NoLead = nolead
    ListLimit = 2
    ShowLimit = 1
    MaxTime = 2
SPECIFICATION Spec
SYMMETRY Symmetry
CHECK_DEADLOCK FALSE
INVARIANTS
    LeadIsKept
    InboxIsOwn
PROPERTIES
    HostIsObeyed
    InboxShowsNewest
