\* insert(row_id, value) into an unmapped INTERVAL index of basis <<6, 6>>.
CONSTANTS
    Docs = {d1, d2, d3}
    NoValue = NoValue
    Inputs <- WideInputs
    InsertVals <- WideInsertVals
    QueryVals <- WideInsertVals
    ValueKind = "int"
    KeyWidth = 2
    NeighbourPrefixes = {}
    Encodings = {"INTERVAL"}
    IndexTypes = {"BITMAP"}
SPECIFICATION Spec
SYMMETRY DocSymmetry
INVARIANT EqualityQueriesCorrect
\* A failed build or a crashed query ends the index's life.
CHECK_DEADLOCK FALSE
