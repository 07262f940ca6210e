SPECIFICATION FairSpec
CHECK_DEADLOCK FALSE
CONSTANTS
    s1 = s1
    s2 = s2
    m1 = m1
    m2 = m2
    f1 = f1
    f2 = f2
    x = x
    y = y
    NoHandler = NoHandler
    Sessions = {s1}
    Messages = {m1, m2}
    Folders = {f1, f2}
    FolderOf <- MCFolderOf
    Criteria = {x, y}
    FolderLists <- MCFolderLists
    BufferMatches = 2
    Large = {}
    MaxEvents = 4
INVARIANTS TypeOK GivesMatches NothingHeldBack ServerRuns
PROPERTIES SearchEnds
