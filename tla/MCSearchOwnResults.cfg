SPECIFICATION Spec
CHECK_DEADLOCK FALSE
CONSTANTS
    s1 = s1
    s2 = s2
    m1 = m1
    m2 = m2
    f1 = f1
    f2 = f2
    x = x
    y = y
    NoHandler = NoHandler
    Sessions = {s1, s2}
    Messages = {m1, m2}
    Folders = {f1, f2}
    FolderOf <- MCFolderOf
    Criteria = {x, y}
    FolderLists <- MCFolderLists
    BufferMatches = 1
    Large = {}
    MaxEvents = 3
INVARIANTS GivesMatchesAgain
