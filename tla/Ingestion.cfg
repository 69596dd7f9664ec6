CONSTANTS
    Nil = Nil
    Uploads = {u}
    Forms = {f}
    Commands = {c}
    Names = {n}
    MaxTime = 2
SPECIFICATION Spec
INVARIANTS TempsAreOwned SharedOnlyIfOverlapping SuccessMeansWritten
PROPERTY EveryUploadEnds
