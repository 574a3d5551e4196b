--------------------------- MODULE MC_BitmapIndex ---------------------------
(***************************************************************************)
(* Instances of BitmapIndex for TLC.  Documents are model values and       *)
(* symmetric: no operation of the index tells two documents apart.         *)
(***************************************************************************)
EXTENDS BitmapIndex

DocSymmetry == Permutations(Docs)

\* Integer columns with few documents are never mapped (cardinality above
\* values.size() / 10).  The values give ranges 1, 4, 6, 9, 28, 33 and 36,
\* hence bases 1 to 7 and one to six components.
IntVals      == {0, 3, 8, 35}
IntInputs    == [Docs -> IntVals \cup {NoValue}]
IntQueryVals == {-1, 0, 3, 5, 35, 36}

\* String columns are always mapped.  Strings are sequences of character
\* codes: "a", "ab", "b"; "c" is in no index.
StrA  == <<97>>
StrAB == <<97, 98>>
StrB  == <<98>>
StrC  == <<99>>
StrInputs    == [Docs -> {StrA, StrAB, StrB, NoValue}]
StrQueryVals == {StrA, StrAB, StrB, StrC}
StrInsertVals == {StrA, StrC}

NoInserts == {}

\* An integer column is mapped only when values.size() >= 10 * cardinality:
\* twenty documents holding 1 and 256 (documents 1..k hold 1).  The
\* little-endian keys of 256 (00 01) sort before those of 1 (01 00).
ManyDocs     == 1..20
ManyInputs   == {[d \in ManyDocs |-> IF d <= k THEN 1 ELSE 256] : k \in 1..19}
ManyQueryVals == {2, 300}

\* Unmapped integer columns whose range of 36 gives a basis <<6, 6>> (m = 2),
\* and single inserts of values inside that range.
WideInputs     == {in \in [Docs -> {0, 35, NoValue}] : {0, 35, NoValue} \subseteq Range(in)}
WideInsertVals == {6, 13}
=============================================================================
