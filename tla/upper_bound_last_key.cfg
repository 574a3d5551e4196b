\* Mapped string column that may hold the last keys of the attribute-value
\* database: greater and range_search with an excluded left endpoint.
CONSTANTS
    Docs = {d1, d2, d3}
    NoValue = NoValue
    Inputs <- StrInputs
    InsertVals <- NoInserts
    QueryVals <- StrQueryVals
    ValueKind = "string"
    KeyWidth = 2
    NeighbourPrefixes = {0, 2}
    Encodings = {"INTERVAL"}
    IndexTypes = {"BITMAP", "BITSLICED"}
SPECIFICATION Spec
SYMMETRY DocSymmetry
INVARIANT NoInternalFault
\* A failed build or a crashed query ends the index's life.
CHECK_DEADLOCK FALSE
