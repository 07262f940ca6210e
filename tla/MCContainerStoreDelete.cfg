SPECIFICATION FairSpec
CONSTANTS
    mb1 = mb1
    f1 = f1
    f2 = f2
    m1 = m1
    m2 = m2
    p1 = p1
    Root = Root
    Uncommitted = Uncommitted
    ToBeDeleted = ToBeDeleted
    ToRetryDelete = ToRetryDelete
    Invalid = Invalid
    None = None
    MailBoxes <- OneMailBox
    SystemFolder <- FirstSystem
    Owner <- AllOwned
    Folders = {f1}
    Messages = {m1}
    Parts = {p1}
    FolderMoves <- NoMoves
    WithContent = {p1}
    Encrypted = TRUE
    MaxRestarts = 1
    MaxFailures = 1
INVARIANTS
    StackDead
    ParentsExist
PROPERTIES
    PurgedEventually
CHECK_DEADLOCK FALSE
