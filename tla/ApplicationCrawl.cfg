SPECIFICATION Spec
CONSTANTS
    j1 = j1
    j2 = j2
    Jobs = {j1, j2}
    Pages <- MCPages
    Elsewhere <- MCElsewhere
    Lands <- MCLands
    Links <- MCLinks
    Controls <- MCControls
    Suggested <- MCSuggested
    Requests <- MCRequests
    Configured <- MCConfigured
INVARIANTS
    PublishedCovers
    StopBounds
    CacheCovers
PROPERTIES
    JobEnds
CHECK_DEADLOCK FALSE
