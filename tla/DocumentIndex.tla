---------------------------- MODULE DocumentIndex ---------------------------
(***************************************************************************)
(* What a bitmap index of one column promises (BitmapIndexBase): it holds  *)
(* a value for some documents, given once by create and then one document  *)
(* at a time by insert, and answers each query with exactly the documents  *)
(* whose value satisfies it.  An index may refuse a query it does not      *)
(* support (invalid_argument), and a process may stop on a failure, after  *)
(* which nothing more happens.  Nothing here depends on how values are     *)
(* encoded in bitmaps.                                                     *)
(***************************************************************************)
EXTENDS Naturals

CONSTANTS
    Docs,
    NoValue,
    Less(_, _)      \* the order of the column's values

VARIABLES
    phase,      \* "empty", "built" or "failed"
    contents,   \* contents[d]: the value of document d, or NoValue
    answer      \* the last operation: op, x (min / value), y (max), f (flags), status, docs

avars == <<phase, contents, answer>>

HasValue(d) == contents[d] # NoValue
InclLeft(f)  == f \in {1, 3}
InclRight(f) == f \in {2, 3}

\* The documents whose value lies above v / below v, v itself included or not.
Above(v, incl) == {d \in Docs : HasValue(d) /\ (Less(v, contents[d]) \/ (incl /\ contents[d] = v))}
Below(v, incl) == {d \in Docs : HasValue(d) /\ (Less(contents[d], v) \/ (incl /\ contents[d] = v))}

\* The exact answer of a query.
Expected(a) ==
    CASE a.op = "lookup"       -> {d \in Docs : HasValue(d) /\ contents[d] = a.x}
      [] a.op = "not_equals"   -> {d \in Docs : HasValue(d) /\ contents[d] # a.x}
      [] a.op = "get_not_null" -> {d \in Docs : HasValue(d)}
      [] a.op = "lesser"       -> Below(a.y, InclRight(a.f))
      [] a.op = "greater"      -> Above(a.x, InclLeft(a.f))
      [] a.op = "range_search" -> Above(a.x, InclLeft(a.f)) \cap Below(a.y, InclRight(a.f))

Queries == {"lookup", "not_equals", "get_not_null", "lesser", "greater", "range_search"}
Failures == {"crash", "out_of_bounds", "bad_alloc"}

Init ==
    /\ phase = "empty"
    /\ contents = [d \in Docs |-> NoValue]
    /\ answer.op = "none"

\* create(values): the documents get their values.
Build ==
    /\ phase = "empty" /\ phase' = "built"
    /\ answer'.op = "create" /\ answer'.status = "ok"

\* insert(row_id, value) of a document without a value; it may be refused.
Add ==
    /\ phase = "built" /\ phase' = "built"
    /\ answer'.op = "insert"
    /\ \/ /\ answer'.status = "ok"
          /\ \E d \in Docs : /\ ~HasValue(d)
                             /\ contents' = [contents EXCEPT ![d] = answer'.x]
       \/ answer'.status = "invalid_argument" /\ UNCHANGED contents

\* A query: the exact answer, or a refusal of an order query or of a range
\* whose min is above its max.
Query ==
    /\ phase = "built" /\ phase' = "built"
    /\ answer'.op \in Queries
    /\ UNCHANGED contents
    /\ \/ answer'.status = "ok" /\ answer'.docs = Expected(answer')
       \/ /\ answer'.status = "invalid_argument"
          /\ answer'.op \in {"lesser", "greater", "range_search"}

\* The process stops on a failure.
Halt ==
    /\ phase # "failed" /\ phase' = "failed"
    /\ answer'.status \in Failures
    /\ UNCHANGED contents

Next == Build \/ Add \/ Query \/ Halt

Spec == Init /\ [][Next]_avars
=============================================================================
