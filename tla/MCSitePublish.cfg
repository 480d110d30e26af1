\* Two site-host publishes and one MCP publish of the same slug.
CONSTANTS
    HostRequests = {h1, h2}
    McpCalls = {m1}
    Pages = {p1, p2}
    Subpaths = {s1}
    NoPage = NoPage
    MaxTime = 2
SPECIFICATION Spec
SYMMETRY PublishSymmetry
INVARIANTS
    LiveIsVersioned
    UnchangedIsVersioned
    ClobberNeedsRace
    ReplacedIsKept
