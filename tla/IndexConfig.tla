---------------------------- MODULE IndexConfig ----------------------------
(***************************************************************************)
(* The parts of BatchBitmapIndexBuilder that size an index: the basis of   *)
(* the value decomposition (get_basis) and the number of bitmaps of each   *)
(* component for an encoding (calculate_bitmap_counts).  Shared by the     *)
(* index model (BitmapIndex) and the persistence model (BatchStore).       *)
(***************************************************************************)
EXTENDS Naturals, Integers, Sequences

\* Mutation: the second base of a BITMAP basis is not rounded up.
GetBasisNoRoundUp(c, type) ==
    LET s == CHOOSE r \in 0..c : r * r <= c /\ (r + 1) * (r + 1) > c
        RECURSIVE Bits(_)
        Bits(n) == IF n = 0 THEN 0 ELSE 1 + Bits(n \div 2)
    IN  IF c < 4 THEN <<c>>
        ELSE IF type = "BITMAP" THEN <<s, c \div s>>
        ELSE [i \in 1..Bits(c) |-> 2]

\* get_basis(cardinality, index_type): one base below 4; for BITMAP the
\* integer square root and the rounded-up quotient; for BITSLICED one base
\* 2 per bit of the cardinality.
GetBasis(c, type) ==
    LET s == CHOOSE r \in 0..c : r * r <= c /\ (r + 1) * (r + 1) > c
        RECURSIVE Bits(_)
        Bits(n) == IF n = 0 THEN 0 ELSE 1 + Bits(n \div 2)
    IN  IF c < 4 THEN <<c>>
        ELSE IF type = "BITMAP"
             THEN <<s, c \div s + (IF c % s # 0 THEN 1 ELSE 0)>>
        ELSE [i \in 1..Bits(c) |-> 2]

\* calculate_bitmap_counts(basis, enc_type).  A count is a uint32_t: base 0
\* minus 1 wraps, and is kept as -1, standing for 2^32 - 1.
CalculateBitmapCounts(basis, enc) ==
    [i \in DOMAIN basis |->
        CASE enc = "EQUALITY" -> basis[i]
          [] enc = "INTERVAL" -> (basis[i] + 1) \div 2
          [] enc = "RANGE"    -> basis[i] - 1]
=============================================================================
