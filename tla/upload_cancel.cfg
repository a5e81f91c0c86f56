SPECIFICATION TabSpec
CONSTANTS
    d1 = d1
    Newest <- OneDocument
    UPSTREAM_PAGE_SIZE = 2
    MAX_PAGES = 2
    Words = {}
    Blank = Blank
    Holds <- Nowhere
    Filters = {}
    Nothing = Nothing
    Empty = ""
    Emails = {"", "demo", "free"}
    IsEmail = {"demo", "free"}
    Taken = {"demo"}
    Unreachable = {"free"}
    Passwords = {"", "demo", "breached"}
    LongEnough = {"demo", "breached"}
    Strong = {"demo", "breached"}
    Breached = {"breached"}
    Names = {"", "Rowan"}
    DEMO <- DemoAccount
    MaxRuns = 2
    Visited = {"/dashboard", "/upload"}
    MaxReads = 2
    MaxLoads = 2
    Files = {1, 2}
    MaxConcurrent = 1
    MaxRetries = 1
    Deletions = TRUE
PROPERTY TakenBackIsNotSent
CHECK_DEADLOCK FALSE
