\* greater() on an unmapped integer column: the cardinality test of line 750.
CONSTANTS
    Docs = {d1, d2, d3}
    NoValue = NoValue
    Inputs <- IntInputs
    InsertVals <- NoInserts
    QueryVals <- IntQueryVals
    ValueKind = "int"
    KeyWidth = 2
    NeighbourPrefixes = {}
    Encodings = {"EQUALITY", "INTERVAL", "RANGE"}
    IndexTypes = {"BITMAP", "BITSLICED"}
SPECIFICATION Spec
SYMMETRY DocSymmetry
INVARIANT GreaterCorrect
\* A failed build or a crashed query ends the index's life.
CHECK_DEADLOCK FALSE
