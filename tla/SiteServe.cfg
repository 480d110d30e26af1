\* One reader, of a page or of the sitemap, of a site both Workers publish.
CONSTANTS
    HostRequests = {h1}
    McpCalls = {m1}
    Pages = {p1}
    Subpaths = {s1, a1}
    Assets = {a1}
    Files = {a1}
    Early = {s1}
    Readers = {r1}
    NoPage = NoPage
    MaxTime = 0
    ListLimit = 1
    CrawlLimit = 1
    Ahead = {0, 1}
SPECIFICATION ServeSpec
VIEW ServeView
INVARIANTS
PROPERTIES
    AnswerMatchesVisibility
    LiveIsServed
    FreeWasNeverHosted
    SitemapOffersPublic
    SitemapMissesNone
