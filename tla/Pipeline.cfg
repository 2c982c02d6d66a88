SPECIFICATION PipelineSpec
CONSTANTS
    Feeds <- MCFeeds
    FirstSeq = 1
    FeedDepth = 1
    MaxDatagrams = 4
    Symbols = {"A", "B"}
    Reports <- MCReports
    ReportDepth = 2
    kBatch = 1
    NoFill = NoFill
INVARIANTS BooksBalance StopBooksAll UntroubledIsRight
