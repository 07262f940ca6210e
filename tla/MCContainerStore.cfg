SPECIFICATION Spec
CONSTANTS
    mb1 = mb1
    f1 = f1
    f2 = f2
    m1 = m1
    m2 = m2
    p1 = p1
    Root = Root
    Uncommitted = Uncommitted
    ToBeDeleted = ToBeDeleted
    ToRetryDelete = ToRetryDelete
    Invalid = Invalid
    None = None
    MailBoxes <- OneMailBox
    SystemFolder <- FirstSystem
    Owner <- AllOwned
    Folders = {f1, f2}
    Messages = {m1, m2}
    Parts = {}
    FolderMoves <- SomeMoves
    WithContent = {}
    Encrypted = FALSE
    MaxRestarts = 1
    MaxFailures = 0
SYMMETRY MessageSymmetry
INVARIANTS
    TypeOK
    FolderCountsExact
    TotalsExact
    SortingExact
    FoldersListed
PROPERTIES
    SortingRowsAccounted
    NoResurrection
CHECK_DEADLOCK FALSE
