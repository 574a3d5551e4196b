\* Mapped integer column: range queries walk LMDB keys in little-endian byte
\* order while ordinals follow numeric order.
CONSTANTS
    Docs <- ManyDocs
    NoValue = NoValue
    Inputs <- ManyInputs
    InsertVals <- NoInserts
    QueryVals <- ManyQueryVals
    ValueKind = "int"
    KeyWidth = 2
    NeighbourPrefixes = {}
    Encodings = {"INTERVAL", "RANGE"}
    IndexTypes = {"BITMAP"}
SPECIFICATION Spec
INVARIANT OrderQueriesCorrect
\* A failed build or a crashed query ends the index's life.
CHECK_DEADLOCK FALSE
