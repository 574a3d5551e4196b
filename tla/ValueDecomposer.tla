-------------------------- MODULE ValueDecomposer --------------------------
(***************************************************************************)
(* ValueDecomposer::decompose (value_decomposer.cc): a mapped value is     *)
(* written in the mixed radix given by the basis <<b_0, ..., b_{k-1}>>,    *)
(* the last component being the least significant one.  The code walks    *)
(* the basis from the last component down to the first, taking value %    *)
(* b_i and dividing by b_i; it reports failure when a residue is left,     *)
(* i.e. when the value is not smaller than the product of the basis.  The *)
(* all-twos fast path (value & 1, value >>= 1) is the same arithmetic.    *)
(* Components are numbered 1..k here, 0..k-1 in the code.                 *)
(***************************************************************************)
EXTENDS Naturals, Sequences

\* The loop of decompose over components i, i-1, ..., 1 applied to value:
\* the digits of components 1..i and what is left of value after them.
RECURSIVE DecomposeFrom(_, _, _)
DecomposeFrom(basis, i, value) ==
    IF i = 0
    THEN [digits |-> <<>>, rest |-> value]
    ELSE LET lower == DecomposeFrom(basis, i - 1, value \div basis[i])
         IN  [digits |-> Append(lower.digits, value % basis[i]),
              rest   |-> lower.rest]

\* decompose(result, value): the digits, and whether value was representable.
Decompose(basis, value) ==
    LET r == DecomposeFrom(basis, Len(basis), value)
    IN  [digits |-> r.digits, ok |-> r.rest = 0]

-----------------------------------------------------------------------------
(* Reference definitions, used only by properties.                         *)

\* The number of values the basis can represent.
RECURSIVE BasisProduct(_)
BasisProduct(basis) ==
    IF basis = <<>> THEN 1 ELSE Head(basis) * BasisProduct(Tail(basis))

\* The value whose mixed-radix digits are the given ones.
RECURSIVE Recompose(_, _)
Recompose(basis, digits) ==
    IF basis = <<>> THEN 0
    ELSE Head(digits) * BasisProduct(Tail(basis)) + Recompose(Tail(basis), Tail(digits))
=============================================================================
