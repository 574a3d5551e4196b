--------------------------- MODULE MC_CacheStorage ---------------------------
EXTENDS CacheStorage

CONSTANTS b1, b2, b3, r1, r2

\* Three bitmaps, so that a cache of one or two holds some but not all.
MCBitmaps == {b1, b2, b3}
MCReaders == {r1, r2}

\* Two bitmaps, so that a cache of one holds one but not both.
MCTwoBitmaps == {b1, b2}
=============================================================================
