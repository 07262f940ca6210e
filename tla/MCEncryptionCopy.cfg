SPECIFICATION Spec
CONSTANTS
    NoFile = NoFile
    MaxRows <- MCMaxRows
    MaxToggles = 2
    MaxFaults = 1
INVARIANTS CopyReadable
