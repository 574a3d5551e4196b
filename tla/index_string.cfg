\* String column, always mapped through the LMDB attribute-value database,
\* with or without other indexes' keys before and after this index's keys.
CONSTANTS
    Docs = {d1, d2, d3}
    NoValue = NoValue
    Inputs <- StrInputs
    InsertVals <- StrInsertVals
    QueryVals <- StrQueryVals
    ValueKind = "string"
    KeyWidth = 2
    NeighbourPrefixes = {0, 2}
    Encodings = {"EQUALITY", "INTERVAL", "RANGE"}
    IndexTypes = {"BITMAP", "BITSLICED"}
SPECIFICATION Spec
SYMMETRY DocSymmetry
INVARIANT TypeOK
INVARIANT DigitsDecodeExactly
INVARIANT EqualityQueriesCorrect
INVARIANT OrderQueriesCorrect
INVARIANT GreaterCorrect
INVARIANT CandidatesExact
\* A failed build or a crashed query ends the index's life.
CHECK_DEADLOCK FALSE
PROPERTY DocumentIndexRefined
