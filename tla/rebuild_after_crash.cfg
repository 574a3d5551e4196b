\* A crash and a new builder on the same paths: the new builder truncates
\* the bitmap file while the offsets committed by the first one stay.
CONSTANTS
    Indexes = {ixA, ixB}
    ixA = ixA
    ixB = ixB
    IndexPrefix <- Prefixes
    IndexCardinality <- SmallCardinality
    IndexEnc <- SmallEnc
    IndexType <- SmallType
    BitmapBytes <- SmallBytes
    BlockSize = 4096
    MaxAdds = 2
    MaxRestarts = 1
    WriteOutcomes = {"ok"}
    Uninit = Uninit
    NoIndex = NoIndex
SPECIFICATION Spec
INVARIANT OpenedBitmapsAreOwn
