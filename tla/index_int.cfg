\* Integer column, unmapped: every encoding and index type.
CONSTANTS
    Docs = {d1, d2, d3}
    NoValue = NoValue
    Inputs <- IntInputs
    InsertVals <- NoInserts
    QueryVals <- IntQueryVals
    ValueKind = "int"
    KeyWidth = 2
    NeighbourPrefixes = {}
    Encodings = {"EQUALITY", "INTERVAL", "RANGE"}
    IndexTypes = {"BITMAP", "BITSLICED"}
SPECIFICATION Spec
SYMMETRY DocSymmetry
INVARIANT BasisRepresentsMappedValues
INVARIANT DigitsDecodeExactly
INVARIANT EqualityQueriesCorrect
INVARIANT OrderQueriesCorrect
\* A failed build or a crashed query ends the index's life.
CHECK_DEADLOCK FALSE
