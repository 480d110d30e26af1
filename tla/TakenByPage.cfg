\* A page put at the path `index` under a live site.
CONSTANTS
    HostRequests = {h1, h2}
    McpCalls = {}
    Pages = {p1, p2}
    Subpaths = {s1}
    NoPage = NoPage
    MaxTime = 1
SPECIFICATION Spec
PROPERTY TakingIsDeliberate
