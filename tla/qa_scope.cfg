SPECIFICATION Spec
CONSTANTS
    doc1 = doc1
    doc2 = doc2
    Newest <- TwoDocuments
    UPSTREAM_PAGE_SIZE = 1
    MAX_PAGES = 2
    Words = {Blank, "w"}
    Blank = Blank
    Holds <- OfWord
    Filters = {"All", "completed"}
    Nothing = Nothing
    SIZES <- Sizes
    Terminal = {doc2}
    Ranges = {"7d", "30d"}
    Within <- InPeriod
    MAX_FLAGGED = 2
    Low = {doc1}
    High = {}
    Pii = {"p"}
    Scopes = {"All", "One"}
    InScope <- ScopeOf
    Fixtures = {"f"}
    PageOf <- SecondPage
    TotalPages = 2
    MaxRuns = 1
    MaxTimers = 1
    MaxAsks = 2
    Watching = 1
    Listing = 3
    Reading = 4
    Asking = 3
    Viewing = 2
    MaxLooks <- LooksAt
    MaxMoves <- MovesOn
INVARIANT GroundedInThisDocument
CHECK_DEADLOCK FALSE
