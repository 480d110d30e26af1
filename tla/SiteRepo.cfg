\* SiteRepo: three publishes of one site, overlapping or one after the other.
CONSTANTS
    Publishes = {p1, p2, p3}
    WithSpec = {p1}
    WithMedia = {p2}
    Recreates = {p2, p3}
    Template = Template
    NoFile = NoFile
    TagsPerPage = 2
    MaxTogether = 2
SPECIFICATION Spec
CHECK_DEADLOCK FALSE
INVARIANTS
    AloneIsRecorded
PROPERTIES
    VersionsAreDense
    NothingIsDeleted
