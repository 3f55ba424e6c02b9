SPECIFICATION AllSpec
CONSTANTS
    LedgerLines <- MCLedgerLines
    AccountTypes <- MCAccountTypes
    Partials <- MCPartials
    ReportRequests <- MCReportRequests
    LedgerPage = 2
    LedgerRecords = 10
    ReportLimit = 1
    Precision = 100
    LedgerChanges = 2
    JournalCurrency <- MCJournalCurrency
    Increment <- MCIncrement
    CompanyCurrency = 1
    BankRecords = 2
    Statements = {1, 2}
    Items = {1, 2}
    SomeStatements <- MCSomeStatements
    SomeItems <- MCSomeItems
    MatchRequests <- MCMatchRequests
    MatchPage = 2
    RaceStatements = {1, 2}
    RaceItems = {1, 2, 3}
    RaceStatementData <- MCRaceStatementData
    RaceItemData <- MCRaceItemData
    RaceRequests <- MCRaceRequests
    RacePage = 1
    RaceChanges = 3
    Rate <- MCRate
    RateRequests <- MCRateRequests
    Foreign = 2
    RateLimit = 1
    RatePage = 2
    RateRecords = 4
    RateChanges = 2
INVARIANT QuietReportExact
INVARIANT PostingSeenBalanced
INVARIANT PagesCover
INVARIANT MatchesJustified
INVARIANT OfOneMoment
CHECK_DEADLOCK FALSE
