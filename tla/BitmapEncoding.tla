-------------------------- MODULE BitmapEncoding ---------------------------
(***************************************************************************)
(* The read side of the encodings of BitmapIndex<T> (bitmap_index.hpp):    *)
(* how the stored bitmaps of one component are combined into the set of    *)
(* documents whose digit equals a (equality bitmap) or is below a (lesser  *)
(* bitmap), and how those are combined over the components into the        *)
(* answer of lookup_mapped_value and less_or_equal_query.                 *)
(*                                                                         *)
(* A bitmap is the set of documents it holds.  Bitmaps[i][j] is bitmap j   *)
(* (numbered from 0 as in the code) of component i (numbered from 1).     *)
(* Stored bitmaps, for a digit d of base b (m = b \div 2 - 1):            *)
(*   EQUALITY  bitmap j holds the documents with d = j        (b bitmaps) *)
(*   INTERVAL  bitmap j holds the documents with j <= d <= j+m ((b+1)\div 2)*)
(*   RANGE     bitmap j holds the documents with d <= j            (b-1)   *)
(***************************************************************************)
EXTENDS Naturals, Sequences, TLC, ValueDecomposer

CONSTANTS
    Encoding,     \* aux_data_->enc_type
    Basis,        \* aux_data_->vd->get_basis()
    Bitmaps,      \* the bitmaps of the storage, by component and number
    AllValues,    \* the all-values bitmap: every document that has a value
    MaxOrdinal    \* aux_data_->max_mapped_value - aux_data_->min_mapped_value

Base(i) == Basis[i]

\* const uint32_t m = base / 2 - 1 (never used with base 1, where it wraps).
M(i) == Base(i) \div 2 - 1

\* get_equality_bitmap_range_encoding(i, attribute_i)
EqualityBitmapRange(i, a) ==
    IF Base(i) = 1 /\ a = 0 THEN AllValues
    ELSE IF a = Base(i) - 1 THEN AllValues \ Bitmaps[i][Base(i) - 2]
    ELSE IF a = 0 THEN Bitmaps[i][0]
    ELSE Bitmaps[i][a] \ Bitmaps[i][a - 1]

\* Mutation: the last digit is decoded from bitmap b \div 2 - 1.
EqualityBitmapIntervalLast(i, a) ==
    LET b == Base(i)
        m == M(i)
    IN  IF b = 1 THEN (IF a = 0 THEN AllValues ELSE {})
        ELSE IF a = 0 /\ m = 0 THEN Bitmaps[i][0]
        ELSE IF b = 2 /\ a = 1 THEN AllValues \ Bitmaps[i][0]
        ELSE IF b = 3 /\ a = 1 THEN Bitmaps[i][1]
        ELSE IF a < m THEN Bitmaps[i][a] \ Bitmaps[i][a + 1]
        ELSE IF a = m /\ m > 0 THEN Bitmaps[i][a] \cap Bitmaps[i][0]
        ELSE IF a > m /\ a < b - 1 /\ m > 0
             THEN Bitmaps[i][a - m] \ Bitmaps[i][a - m - 1]
        ELSE AllValues \ (Bitmaps[i][(b \div 2) - 1] \cup Bitmaps[i][0])

\* get_equality_bitmap_interval_encoding(i, attribute_i): the rules of
\* Chan and Ioannidis, tried in the order of the code.
EqualityBitmapInterval(i, a) ==
    LET b == Base(i)
        m == M(i)
    IN  IF b = 1 THEN (IF a = 0 THEN AllValues ELSE {})
        ELSE IF a = 0 /\ m = 0 THEN Bitmaps[i][0]
        ELSE IF b = 2 /\ a = 1 THEN AllValues \ Bitmaps[i][0]
        ELSE IF b = 3 /\ a = 1 THEN Bitmaps[i][1]
        ELSE IF a < m THEN Bitmaps[i][a] \ Bitmaps[i][a + 1]
        ELSE IF a = m /\ m > 0 THEN Bitmaps[i][a] \cap Bitmaps[i][0]
        ELSE IF a > m /\ a < b - 1 /\ m > 0
             THEN Bitmaps[i][a - m] \ Bitmaps[i][a - m - 1]
        ELSE IF a = b - 1
             THEN AllValues \ (Bitmaps[i][(b \div 2) + (b % 2) - 1] \cup Bitmaps[i][0])
        ELSE Assert(FALSE, "System error in LookUp: no interval rule applies")

\* get_equality_bitmap(i, attribute_i)
EqualityBitmap(i, a) ==
    CASE Encoding = "EQUALITY" -> Bitmaps[i][a]
      [] Encoding = "INTERVAL" -> EqualityBitmapInterval(i, a)
      [] Encoding = "RANGE"    -> EqualityBitmapRange(i, a)

\* get_lesser_bitmap(i, attribute_i): the documents whose digit i is below a.
\* Callers never reach it for the EQUALITY encoding, where it throws.
LesserBitmap(i, a) ==
    LET a1 == a - 1
        b  == Base(i)
        m  == M(i)
    IN  IF a = 0 THEN {}
        ELSE IF Encoding = "RANGE" THEN Bitmaps[i][a1]
        ELSE IF Encoding # "INTERVAL"
             THEN Assert(FALSE, "System error in LookUp: lesser bitmap of EQUALITY")
        ELSE IF a1 = 0 THEN EqualityBitmap(i, 0)
        ELSE IF a1 < m THEN Bitmaps[i][0] \ Bitmaps[i][a1 + 1]
        ELSE IF a1 = m THEN Bitmaps[i][0]
        ELSE IF a1 < b - 1 THEN Bitmaps[i][0] \cup Bitmaps[i][a1 - m]
        ELSE AllValues

\* Mutation: the bound test excludes the greatest mapped value.
LookupMappedValueOffByOne(x) ==
    IF x < 0 \/ x >= MaxOrdinal THEN {}
    ELSE LET d == Decompose(Basis, x).digits
         IN  {doc \in AllValues : \A i \in DOMAIN Basis : doc \in EqualityBitmap(i, d[i])}

\* lookup_mapped_value(value): the intersection of the equality bitmaps of
\* the digits of value; empty for a value outside [0, MaxOrdinal].
LookupMappedValue(x) ==
    IF x < 0 \/ x > MaxOrdinal THEN {}
    ELSE LET d == Decompose(Basis, x).digits
         IN  {doc \in AllValues : \A i \in DOMAIN Basis : doc \in EqualityBitmap(i, d[i])}

\* less_or_equal_query(upper_bound): folding over the components from the
\* most significant, res collects the documents already known to be below
\* and eq those equal to upper_bound on every component so far.
LessOrEqualQuery(u) ==
    IF u < 0 THEN {}
    ELSE IF u >= MaxOrdinal THEN AllValues
    ELSE LET d == Decompose(Basis, u).digits
             RECURSIVE Fold(_, _, _)
             Fold(i, res, eq) ==
                 IF i > Len(Basis) THEN res \cup eq
                 ELSE Fold(i + 1, res \cup (LesserBitmap(i, d[i]) \cap eq),
                           eq \cap EqualityBitmap(i, d[i]))
         IN  Fold(2, LesserBitmap(1, d[1]), EqualityBitmap(1, d[1]))

\* range_search_internal(v1, v2): documents with a mapped value in [v1, v2].
RangeSearchInternal(v1, v2) ==
    IF v1 = 0 THEN LessOrEqualQuery(v2)
    ELSE LessOrEqualQuery(v2) \ LessOrEqualQuery(v1 - 1)
=============================================================================
