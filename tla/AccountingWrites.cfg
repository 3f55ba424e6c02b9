SPECIFICATION AllSpec
CONSTANTS
    Calls = {c1, c2}
    Requests <- PostingRequests
    MoveIds = {1, 2, 3, 4}
    FirstMoves <- PostingMoves
    Drafts <- MCDrafts
    Journals = {"bank"}
    NoJournal = NoJournal
    Codes = {"none", "manual", "online"}
    Refs = {"partner", "account"}
    Currencies = {"home", "foreign"}
    Home = "home"
    Increment <- MCIncrement
    MaxEdits = 2
SYMMETRY CallSymmetry
INVARIANT WrittenAsValidated
INVARIANT CreditNoteOwn
INVARIANT OverpaidOnlyStale
CHECK_DEADLOCK FALSE
