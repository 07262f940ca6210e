SPECIFICATION Spec
CHECK_DEADLOCK FALSE
SYMMETRY Symmetry
CONSTANTS
    s1 = s1
    s2 = s2
    inbox = inbox
    NoFile = NoFile
    Nobody = Nobody
    Sessions = {s1, s2}
    Folders = {inbox}
    Block = 2
    MaxId = 4
    MaxWrites = 2
    MaxFaults = 2
INVARIANTS TypeOK IdsUnique ContentKept MessagesWhole
