SPECIFICATION SearchSpec
CONSTANTS
    Documents = {p1, p2}
    Threads = {t1, t2}
    Length = 2
    MaxRestarts = 1
    MaxLosses = 1
    NoDocument = NoDocument
    NoStore = NoStore
    ChunkSize = 6
    Overlap = 4
    TextLength = 1
    Papers <- PapersOfTexts
    MaxTexts = 200
    CHUNK_SIZE = 500
    MaxTokens <- TokensOfChunk
    ClientBatch = 64
    MaxEmbedBatch = 96
    TokenBudget = 8000
    Nothing = Nothing
    GroupCap <- Caps
    TotalCap = 5
    DetailDepth = 2
    Name <- Names
    Pages <- PageCounts
    Uploaded <- Times
    Findings <- FindingTitles
    Fields <- FieldTitles
    Blocks <- Headings
    Queries = {"", ",", "renewal"}
    Blank = ""
    Terms <- TermsOf
    All = All
    Scopes = {All}
    First <- FirstLibrary
INVARIANTS AbortIsOwnDoing
CHECK_DEADLOCK FALSE
