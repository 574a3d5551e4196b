\* Two indexes, up to three add_index calls per builder (so an index may be
\* added twice), failing disk writes and one crash with a new builder.
CONSTANTS
    Indexes = {ixA, ixB}
    ixA = ixA
    ixB = ixB
    IndexPrefix <- Prefixes
    IndexCardinality <- SmallCardinality
    IndexEnc <- SmallEnc
    IndexType <- SmallType
    BitmapBytes <- SmallBytes
    BlockSize = 4096
    MaxAdds = 3
    MaxRestarts = 1
    WriteOutcomes = {"ok", "failed"}
    Uninit = Uninit
    NoIndex = NoIndex
SPECIFICATION Spec
INVARIANT TypeOK
INVARIANT AuxRoundTrip
INVARIANT CommittedIndexOpens
