--------------------------- MODULE MC_BatchStore ---------------------------
(* Instances of BatchStore for TLC: two (row group, column) indexes whose  *)
(* keys share the bitmap-offsets database.                                 *)
EXTENDS BatchStore

CONSTANTS ixA, ixB

\* rg_id, column path and NUL of each index; A's keys sort before B's.
Prefixes == (ixA :> <<1>>) @@ (ixB :> <<2>>)

\* A: three values, EQUALITY (4 bitmaps of 1000 bytes, one block).
\* B: nine values, BITMAP basis <<3, 3>>, INTERVAL (5 bitmaps of 1500 bytes,
\* two blocks).
SmallCardinality == (ixA :> 3) @@ (ixB :> 9)
SmallEnc         == (ixA :> "EQUALITY") @@ (ixB :> "INTERVAL")
SmallType        == (ixA :> "BITMAP") @@ (ixB :> "BITMAP")
SmallBytes       == (ixA :> 1000) @@ (ixB :> 1500)

\* A: an unmapped column of 16384 values, BITMAP basis <<128, 128>> and
\* EQUALITY: 256 component bitmaps and the all-values bitmap.
WideCardinality == (ixA :> 16384) @@ (ixB :> 9)
WideEnc         == (ixA :> "EQUALITY") @@ (ixB :> "INTERVAL")
WideBytes       == (ixA :> 100) @@ (ixB :> 1500)
=============================================================================
