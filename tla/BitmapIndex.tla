----------------------------- MODULE BitmapIndex ----------------------------
(***************************************************************************)
(* One bitmap index of one (row group, column): how the batch builder      *)
(* configures it (BatchBitmapIndexBuilder::configure, get_basis,           *)
(* calculate_bitmap_counts, build_index), how BitmapIndex<T> fills its     *)
(* storage (create, insert, insert_mapped_values, insert_mapped_value) and *)
(* the attribute-value mapping in LMDB, and how its queries are answered   *)
(* (lookup, not_equals, get_not_null, lesser, greater, range_search).      *)
(*                                                                         *)
(* The storage is the in-memory BitMapStorage of a freshly created index   *)
(* (cache size INT_MAX, every bitmap resident); its cache is modelled in   *)
(* BitmapStorage.  The attribute-value database is shared with the indexes *)
(* of other row groups and columns, whose keys sort wholly before or after *)
(* this index's keys; they are the neighbour keys.                         *)
(***************************************************************************)
EXTENDS Naturals, Integers, Sequences, FiniteSets, TLC, Functions, ValueDecomposer, LMDBDictionary, IndexConfig

CONSTANTS
    Docs,          \* document ids
    NoValue,       \* a document without a value for the column
    Inputs,        \* the value vectors given to add_index: [Docs -> values \cup {NoValue}]
    InsertVals,    \* values given to the single-value insert(row_id, value)
    QueryVals,     \* values given to the queries
    ValueKind,     \* "int": integral T; "string": T = std::string
    KeyWidth,      \* bytes of an integral T in an LMDB key
    NeighbourPrefixes, \* first key bytes of other indexes' keys: 0 before, 2 after this one's
    Encodings,     \* encodings add_index is called with
    IndexTypes     \* index types add_index is called with

ASSUME ValueKind \in {"int", "string"} /\ KeyWidth \in Nat \ {0} /\ NeighbourPrefixes \subseteq {0, 2}

VARIABLES
    phase,       \* "empty", "built", or "failed" after a crash or exception
    contents,    \* the value each document was given (the abstract index)
    aux,         \* BitmapIndexAuxData
    attrKV,      \* attribute-value LMDB: key bytes -> mapped value
    storage,     \* storage[i][j]: bitmap j of component i
    allValues,   \* the all-values bitmap
    result       \* the last operation and its outcome

vars == <<phase, contents, aux, attrKV, storage, allValues, result>>

IntervalFlags == 0..3                    \* OPEN, INCLUDE_LEFT, INCLUDE_RIGHT, CLOSED
InclLeft(f)  == f \in {1, 3}
InclRight(f) == f \in {2, 3}

\* The keys of this index and of its neighbours start with these bytes,
\* standing for rg_id and column_dotted_path.
SelfPrefix == 1

\* The order of T: numeric for integers, std::string::operator< (unsigned
\* characters, a prefix first) for strings.
ValueLess(a, b) == IF ValueKind = "int" THEN a < b ELSE ByteLess(a, b)

\* AttributeValue<T>::to_byte_array for an integral T: the memcpy of the
\* value, little-endian two's complement in KeyWidth bytes.
IntValueBytes(v) ==
    LET u == IF v < 0 THEN v + 256^KeyWidth ELSE v
    IN  [i \in 1..KeyWidth |-> (u \div 256^(i - 1)) % 256]

\* AttributeValue<std::string>::to_byte_array: the characters and a
\* terminating 0 (byte_length counts it).
StringValueBytes(v) == v \o <<0>>

\* Mutation: the key without the rg_id / column prefix.
AttributeKeyNoPrefix(v) ==
    IF ValueKind = "int" THEN IntValueBytes(v) ELSE StringValueBytes(v)

\* The key AttributeValue<T>(rg_id, column_dotted_path, value) is written
\* as: the prefix (rg_id, the path and a 0), then the value's bytes.
AttributeKey(v) ==
    <<SelfPrefix>> \o (IF ValueKind = "int" THEN IntValueBytes(v) ELSE StringValueBytes(v))

Keys == DOMAIN attrKV
OwnKey(k) == k # End /\ k[1] = SelfPrefix
-----------------------------------------------------------------------------
(* Configuration by the batch builder.                                     *)

\* configure(values, ...) for the given value vector: cardinality, whether
\* values are mapped to ordinals, the mapped range and the basis.
Configure(input, enc, type) ==
    LET present == {d \in Docs : input[d] # NoValue}
        vals    == {input[d] : d \in present}
        card    == Cardinality(vals)
        mapping == ValueKind # "int" \/ ~(card > Cardinality(present) \div 10)
        lo      == IF mapping THEN 0 ELSE CHOOSE v \in vals : \A w \in vals : v <= w
        hi      == IF mapping THEN card ELSE CHOOSE v \in vals : \A w \in vals : v >= w
        basis   == GetBasis(IF mapping THEN card ELSE hi - lo + 1, type)
    IN  [enc |-> enc, cardinality |-> card, useMapping |-> mapping,
         minMapped |-> lo, maxMapped |-> hi, basis |-> basis,
         counts |-> CalculateBitmapCounts(basis, enc)]
-----------------------------------------------------------------------------
(* Filling the storage.                                                    *)

\* Mutation: an INTERVAL document is put in every bitmap from 0 up to d.
BatchBitsFromZero(enc, b, cnt, d) ==
    CASE enc = "EQUALITY" -> {d}
      [] enc = "INTERVAL" -> 0 .. (IF d < cnt - 1 THEN d ELSE cnt - 1)
      [] enc = "RANGE"    -> d .. (b - 2)

\* insert_mapped_values: the bitmaps of a component of base b (count cnt)
\* that hold a document whose digit is d.  m_values[i] is a uint32_t: for
\* base 1 it wraps, and is kept as -1, above every digit.
BatchBits(enc, b, cnt, d) ==
    LET m == b \div 2 - 1
    IN  CASE enc = "EQUALITY" -> {d}
          [] enc = "INTERVAL" ->
                (IF m >= 0 /\ d > m THEN d - m ELSE 0) .. (IF d < cnt - 1 THEN d ELSE cnt - 1)
          [] enc = "RANGE"    -> d .. (b - 2)

\* insert_mapped_value: the same for one document.  start_of_range is
\* max(d - m, 0u) in uint32_t: when d < m the subtraction wraps and the
\* loop is empty; for base 1, m wraps and start is d + 1.  end_of_range is
\* min(d, base - m - 1).
SingleBits(enc, b, d) ==
    LET m == b \div 2 - 1
        e == IF d < b - m - 1 THEN d ELSE b - m - 1
    IN  CASE enc = "EQUALITY" -> {d}
          [] enc = "INTERVAL" -> IF m >= 0 /\ d < m THEN {} ELSE (d - m) .. e
          [] enc = "RANGE"    -> d .. (b - 2)
-----------------------------------------------------------------------------
(* Mapping attribute values.                                               *)

\* get_lmdb_attr_value: whether value has a mapped value, and which.  A
\* mapped index throws invalid_argument for a value not in the mapping.
Found(v) == ~aux.useMapping \/ Find(Keys, AttributeKey(v)) # End
MappedValue(v) ==
    IF aux.useMapping THEN attrKV[AttributeKey(v)] ELSE v - aux.minMapped

\* insert_mapped_value takes a uint64_t: an unmapped value below
\* min_mapped_value gives a negative int64 that becomes 2^64 + x.  The
\* digits decompose takes depend only on that number modulo the product P
\* of the basis (its residue check is ignored by the caller), so u mod P is
\* computed, with 2^64 mod P by repeated doubling.
RECURSIVE PowMod(_, _, _)
PowMod(b, e, m) == IF e = 0 THEN 1 % m ELSE (b * PowMod(b, e - 1, m)) % m

Uint64Residue(x, p) == IF x >= 0 THEN x % p ELSE (PowMod(2, 64, p) + (x % p)) % p

\* The digits insert_mapped_value stores for mapped value x.
StoredDigits(x) == Decompose(aux.basis, Uint64Residue(x, BasisProduct(aux.basis))).digits

\* lookup_min_value(min, interval_flags): the least mapped value a
\* document must have to be above min.
LookupMinValue(v, f) ==
    IF ~aux.useMapping
    THEN LET mv == IF InclLeft(f) THEN v ELSE v + 1
         IN  IF mv < aux.minMapped THEN 0 ELSE mv - aux.minMapped
    ELSE LET it == IF InclLeft(f) THEN LowerBound(Keys, AttributeKey(v))
                   ELSE UpperBound(Keys, AttributeKey(v))
         IN  IF ~OwnKey(it) THEN aux.maxMapped ELSE attrKV[it]

\* lookup_min_value_with_mapping reaches upper_bound on the last key.
LookupMinCrashes(v, f) ==
    aux.useMapping /\ ~InclLeft(f) /\ UpperBoundCrashes(Keys, AttributeKey(v))

\* Mutation: unmapped, the right endpoint is dropped when the LEFT one is
\* excluded; mapped, no step back from a lower_bound past max.
LookupMaxValueSwapped(v, f) ==
    IF ~aux.useMapping
    THEN LET mv == IF InclLeft(f) THEN v ELSE v - 1
         IN  (IF mv > aux.maxMapped THEN aux.maxMapped ELSE mv) - aux.minMapped
    ELSE LET lb == LowerBound(Keys, AttributeKey(v))
         IN  IF ~OwnKey(lb) THEN aux.cardinality - 1 ELSE attrKV[lb]

\* lookup_max_value(max, interval_flags): the greatest mapped value a
\* document may have to be below max; -1 when there is none.
LookupMaxValue(v, f) ==
    IF ~aux.useMapping
    THEN LET mv == IF InclRight(f) THEN v ELSE v - 1
         IN  (IF mv > aux.maxMapped THEN aux.maxMapped ELSE mv) - aux.minMapped
    ELSE LET k  == AttributeKey(v)
             lb == LowerBound(Keys, k)
             p  == Predecessor(Keys, lb)
         IN  IF ~OwnKey(lb) THEN aux.cardinality - 1
             ELSE IF lb = k /\ InclRight(f) THEN attrKV[lb]
             ELSE IF lb = Begin(Keys) \/ ~OwnKey(p) THEN -1
             ELSE attrKV[p]
-----------------------------------------------------------------------------
(* Queries.  Each gives a status and, when it is "ok", the documents.      *)

Ok(S)    == [status |-> "ok", docs |-> S]
Fail(s)  == [status |-> s, docs |-> {}]

Enc == INSTANCE BitmapEncoding
         WITH Encoding <- aux.enc, Basis <- aux.basis, Bitmaps <- storage,
              AllValues <- allValues, MaxOrdinal <- aux.maxMapped - aux.minMapped

\* lookup(value): an unmapped value answers the empty bitmap.
Lookup(v) == Ok(IF Found(v) THEN Enc!LookupMappedValue(MappedValue(v)) ELSE {})

\* Mutation: the complement is taken over every document, null ones too.
NotEqualsAllDocs(v) == Ok(Docs \ Lookup(v).docs)

\* not_equals(value)
NotEquals(v) == Ok(allValues \ Lookup(v).docs)

\* lesser(max_value, interval_flags)
Lesser(v, f) ==
    LET v2 == LookupMaxValue(v, f)
    IN  IF aux.useMapping /\ v2 = -1 THEN Ok({})
        ELSE IF aux.enc = "EQUALITY" THEN Fail("invalid_argument")
        ELSE Ok(Enc!LessOrEqualQuery(v2))

\* greater(min, interval_flags)
Greater(v, f) ==
    LET v1 == LookupMinValue(v, f)
    IN  IF aux.enc = "EQUALITY" THEN Fail("invalid_argument")
        ELSE IF LookupMinCrashes(v, f) THEN Fail("crash")
        ELSE IF v1 = aux.cardinality THEN Ok({})
        ELSE Ok(allValues \ (IF v1 # 0 THEN Enc!LessOrEqualQuery(v1 - 1) ELSE {}))

\* range_search(min, max, interval_flags)
RangeSearch(lo, hi, f) ==
    LET v1 == LookupMinValue(lo, f)
        v2 == LookupMaxValue(hi, f)
    IN  IF ValueLess(hi, lo) THEN Fail("invalid_argument")
        ELSE IF LookupMinCrashes(lo, f) THEN Fail("crash")
        ELSE IF aux.useMapping /\ v1 = aux.cardinality THEN Ok({})
        ELSE IF aux.useMapping /\ v2 = -1 THEN Ok({})
        ELSE IF v1 > v2 THEN Ok({})
        ELSE IF v1 = v2 THEN Ok(Enc!LookupMappedValue(v1))
        ELSE IF aux.enc = "EQUALITY" THEN Fail("invalid_argument")
        ELSE Ok(Enc!RangeSearchInternal(v1, v2))
-----------------------------------------------------------------------------
(* BitmapIndexImpl::find_candidate_documents, the index as a document     *)
(* filter of the expression evaluator.                                     *)

\* The predicates the evaluator may hand to one column's index: a
\* BinaryConstPredicate<T> with a comparison (or another operator, which
\* falls to the default case), a UnaryPredicate, and a predicate of another
\* kind.
BinaryOps == {"OP_EQUAL_TO", "OP_NOT_EQUAL_TO", "OP_GT", "OP_GTE", "OP_LT", "OP_LTE"}
Predicates ==
    [kind : {"BINARY_CONST"}, op : BinaryOps \cup {"OP_IN"}, value : QueryVals]
    \cup [kind : {"UNARY"}, op : {"OP_IS_NULL", "OP_IS_NOT_NULL", "OP_NOT"}, value : {NoValue}]
    \cup [kind : {"BINARY_CONST_STRING"}, op : {"OP_STRING_STARTS_WITH"}, value : QueryVals]

\* BinaryConstPredicate<T>::operator(): whether a column value satisfies
\* the comparison (T's operators; the index's order for strings).
Satisfies(op, c, v) ==
    CASE op = "OP_EQUAL_TO"     -> c = v
      [] op = "OP_NOT_EQUAL_TO" -> c # v
      [] op = "OP_GT"           -> ValueLess(v, c)
      [] op = "OP_GTE"          -> ~ValueLess(c, v)
      [] op = "OP_LT"           -> ValueLess(c, v)
      [] op = "OP_LTE"          -> ~ValueLess(v, c)

\* The query a predicate is dispatched to; NoBitmap is the future of a null
\* bitmap that the other cases return.
NoBitmap == [status |-> "null", docs |-> {}]
Dispatch(p, gteFlags) ==
    CASE p.kind = "BINARY_CONST" /\ p.op = "OP_EQUAL_TO"     -> Lookup(p.value)
      [] p.kind = "BINARY_CONST" /\ p.op = "OP_NOT_EQUAL_TO" -> NotEquals(p.value)
      [] p.kind = "BINARY_CONST" /\ p.op = "OP_GT"           -> Greater(p.value, 0)
      [] p.kind = "BINARY_CONST" /\ p.op = "OP_GTE"          -> Greater(p.value, gteFlags)
      [] p.kind = "BINARY_CONST" /\ p.op = "OP_LT"           -> Lesser(p.value, 0)
      [] p.kind = "BINARY_CONST" /\ p.op = "OP_LTE"          -> Lesser(p.value, 2)
      [] p.kind = "UNARY" /\ p.op = "OP_IS_NOT_NULL"         -> Ok(allValues)
      [] OTHER                                               -> NoBitmap

\* The IndexResult: IA_EXACT with the bitmap, or IA_NONE (a full scan) for
\* a null one; a query that throws leaves its status.
AsIndexResult(q) ==
    IF q.status = "null" THEN [accuracy |-> "IA_NONE", status |-> "ok", docs |-> {}]
    ELSE [accuracy |-> "IA_EXACT", status |-> q.status, docs |-> q.docs]

\* Mutation: OP_GTE is dispatched with IntervalFlags::OPEN.
FindCandidatesGteOpen(p) == AsIndexResult(Dispatch(p, 0))

\* find_candidate_documents(predicate)
FindCandidates(p) == AsIndexResult(Dispatch(p, 1))
-----------------------------------------------------------------------------
(* Actions.                                                                *)

NoAux == [enc |-> "EQUALITY", cardinality |-> 0, useMapping |-> TRUE, minMapped |-> 0,
          maxMapped |-> 0, basis |-> <<>>, counts |-> <<>>]

Init ==
    /\ phase = "empty"
    /\ contents = [d \in Docs |-> NoValue]
    /\ aux = NoAux
    /\ \E nb \in SUBSET NeighbourPrefixes : attrKV = [k \in {<<p>> : p \in nb} |-> 0]
    /\ storage = <<>>
    /\ allValues = {}
    /\ result = [op |-> "none", x |-> NoValue, y |-> NoValue, f |-> 0, status |-> "ok", docs |-> {}]

\* insert_values_mapping_into_lmdb: the distinct values, sorted by T's
\* order, get the ordinals 0, 1, ...; the pairs key -> ordinal are inserted
\* into the attribute-value LMDB.
OrdinalOf(vals, v) == Cardinality({w \in vals : ValueLess(w, v)})
ValueMapping(vals) ==
    [k \in {AttributeKey(v) : v \in vals} |->
        OrdinalOf(vals, CHOOSE v \in vals : AttributeKey(v) = k)]

\* insert(values): the mapped value of each document of the vector.
MappedInput(a, input, d) ==
    IF a.useMapping
    THEN OrdinalOf({input[e] : e \in {x \in Docs : input[x] # NoValue}}, input[d])
    ELSE input[d] - a.minMapped

\* insert_mapped_values: every document goes to the all-values bitmap and,
\* for each component, to the bitmaps BatchBits gives for its digit.
InsertMappedValues(a, input) ==
    [i \in DOMAIN a.basis |-> [j \in 0..(a.counts[i] - 1) |->
        {d \in Docs :
            /\ input[d] # NoValue
            /\ j \in BatchBits(a.enc, a.basis[i], a.counts[i],
                             Decompose(a.basis, MappedInput(a, input, d)).digits[i])}]]

\* build_index run by an add_index task: configure, create the storage
\* (bitmaps.resize(bitmap_counts[i]): a wrapped count cannot be allocated),
\* then BitmapIndex<T>::create: insert(values) and save the aux data.
Create(input, enc, type) ==
    LET a    == Configure(input, enc, type)
        vals == {input[d] : d \in {x \in Docs : input[x] # NoValue}}
    IN  /\ phase = "empty"
        /\ aux' = a
        /\ IF \E i \in DOMAIN a.counts : a.counts[i] < 0
           THEN /\ phase' = "failed"
                /\ result' = [result EXCEPT !.op = "create", !.status = "bad_alloc", !.docs = {}]
                /\ UNCHANGED <<contents, attrKV, storage, allValues>>
           ELSE /\ phase' = "built"
                /\ contents' = input
                /\ attrKV' = IF a.useMapping THEN attrKV @@ ValueMapping(vals) ELSE attrKV
                /\ storage' = InsertMappedValues(a, input)
                /\ allValues' = {d \in Docs : input[d] # NoValue}
                /\ result' = [result EXCEPT !.op = "create", !.status = "ok", !.docs = {}]

\* insert(row_id, value): map the value (invalid_argument if a mapped index
\* does not know it), then insert_mapped_value.  A bitmap number at or past
\* bitmap_counts[i] indexes past the storage's vectors.  An unmapped value
\* outside [min_mapped_value, max_mapped_value] is not refused: it is
\* stored with the digits of its wrapped mapped value.
Insert(d, v) ==
    LET dg   == StoredDigits(MappedValue(v))
        B(i) == SingleBits(aux.enc, aux.basis[i], dg[i])
    IN  /\ phase = "built"
        /\ contents[d] = NoValue
        /\ IF ~Found(v)
           THEN /\ result' = [op |-> "insert", x |-> v, y |-> NoValue, f |-> 0,
                              status |-> "invalid_argument", docs |-> {}]
                /\ UNCHANGED <<phase, contents, aux, attrKV, storage, allValues>>
           ELSE IF \E i \in DOMAIN aux.basis : \E j \in B(i) : j >= aux.counts[i]
           THEN /\ phase' = "failed"
                /\ result' = [op |-> "insert", x |-> v, y |-> NoValue, f |-> 0,
                              status |-> "out_of_bounds", docs |-> {}]
                /\ UNCHANGED <<contents, aux, attrKV, storage, allValues>>
           ELSE /\ contents' = [contents EXCEPT ![d] = v]
                /\ allValues' = allValues \cup {d}
                /\ storage' = [i \in DOMAIN storage |-> [j \in DOMAIN storage[i] |->
                                 IF j \in B(i) THEN storage[i][j] \cup {d} ELSE storage[i][j]]]
                /\ result' = [op |-> "insert", x |-> v, y |-> NoValue, f |-> 0,
                              status |-> "ok", docs |-> {}]
                /\ UNCHANGED <<phase, aux, attrKV>>

\* A query: its outcome becomes the result; a crash ends the process.
Answer(op, x, y, f, out) ==
    /\ phase = "built"
    /\ result' = [op |-> op, x |-> x, y |-> y, f |-> f, status |-> out.status, docs |-> out.docs]
    /\ phase' = IF out.status = "crash" THEN "failed" ELSE phase
    /\ UNCHANGED <<contents, aux, attrKV, storage, allValues>>

Next ==
    \/ \E input \in Inputs, enc \in Encodings, type \in IndexTypes : Create(input, enc, type)
    \/ \E d \in Docs, v \in InsertVals : Insert(d, v)
    \/ \E v \in QueryVals : Answer("lookup", v, NoValue, 0, Lookup(v))
    \/ \E v \in QueryVals : Answer("not_equals", v, NoValue, 0, NotEquals(v))
    \/ Answer("get_not_null", NoValue, NoValue, 0, Ok(allValues))
    \/ \E v \in QueryVals, f \in IntervalFlags : Answer("lesser", NoValue, v, f, Lesser(v, f))
    \/ \E v \in QueryVals, f \in IntervalFlags : Answer("greater", v, NoValue, f, Greater(v, f))
    \/ \E lo, hi \in QueryVals, f \in IntervalFlags :
          Answer("range_search", lo, hi, f, RangeSearch(lo, hi, f))

Spec == Init /\ [][Next]_vars
-----------------------------------------------------------------------------
(* Properties.                                                             *)

Statuses == {"ok", "invalid_argument", "crash", "out_of_bounds", "bad_alloc"}

TypeOK ==
    /\ phase \in {"empty", "built", "failed"}
    /\ \A d \in Docs : contents[d] = NoValue \/ contents[d] \in UNION {Range(i) : i \in Inputs} \cup InsertVals
    /\ allValues \subseteq Docs
    /\ \A i \in DOMAIN storage : \A j \in DOMAIN storage[i] : storage[i][j] \subseteq Docs
    /\ \A k \in Keys : OwnKey(k) \/ k[1] \in NeighbourPrefixes
    /\ result.status \in Statuses /\ result.docs \subseteq Docs

\* The promise of an index, with the last operation as its answer.
Abs == INSTANCE DocumentIndex WITH answer <- result, Less <- ValueLess

HasValue(d) == Abs!HasValue(d)

\* get_basis chooses a basis whose decomposition (decompose) represents
\* every mapped value of the index exactly: each of 0 .. range-1 decomposes
\* without residue and recomposes to itself.
BasisRepresentsMappedValues ==
    phase = "built" =>
        LET range == IF aux.useMapping THEN aux.cardinality ELSE aux.maxMapped - aux.minMapped + 1
        IN  \A x \in 0..(range - 1) :
               /\ Decompose(aux.basis, x).ok
               /\ Recompose(aux.basis, Decompose(aux.basis, x).digits) = x

\* After create and any number of single inserts, the equality bitmap that
\* get_equality_bitmap decodes for digit a of component i holds exactly the
\* documents whose mapped value has digit a there: the fill rules of
\* insert_mapped_values / insert_mapped_value and the decoding rules of the
\* encoding agree on every component and digit.
DigitsDecodeExactly ==
    phase = "built" =>
        \A i \in DOMAIN aux.basis, d \in Docs :
            \A a \in 0..(aux.basis[i] - 1) :
                d \in Enc!EqualityBitmap(i, a)
                    <=> HasValue(d) /\ a = StoredDigits(MappedValue(contents[d]))[i]

\* lookup, not_equals and get_not_null answer exactly the documents with,
\* without, and with any value: the value mapping through LMDB, the
\* decomposition and the equality decoders compose correctly.
EqualityQueriesCorrect ==
    result.op \in {"lookup", "not_equals", "get_not_null"} => result.docs = Abs!Expected(result)

\* lesser and range_search answer exactly the documents whose value lies in
\* the queried interval, with each endpoint included as interval_flags say;
\* an EQUALITY index refuses (invalid_argument) and so does a range whose
\* min is above its max.
OrderQueriesCorrect ==
    result.op \in {"lesser", "range_search"} /\ result.status # "crash" =>
        \/ result.status = "ok" /\ result.docs = Abs!Expected(result)
        \/ /\ result.status = "invalid_argument"
           /\ \/ aux.enc = "EQUALITY"
              \/ result.op = "range_search" /\ ValueLess(result.y, result.x)

\* greater answers exactly the documents whose value is above min (or equal
\* to it when the left endpoint is included).
GreaterCorrect ==
    result.op = "greater" /\ result.status # "crash" =>
        \/ result.status = "ok" /\ result.docs = Abs!Expected(result)
        \/ result.status = "invalid_argument" /\ aux.enc = "EQUALITY"

\* The index implements DocumentIndex: create, insert and every query,
\* whatever the encoding, index type and the neighbouring LMDB keys, either
\* give the exact answer, refuse, or stop the process; no step gives a
\* wrong answer or changes a document's value.
DocumentIndexRefined == Abs!Spec


\* The index as a document filter: for every predicate the evaluator may
\* pass, find_candidate_documents either throws, asks for a full scan
\* (IA_NONE), or answers IA_EXACT with exactly the documents that have a
\* value and satisfy the predicate as BinaryConstPredicate::operator()
\* evaluates it (IS_NOT_NULL: the documents with a value).  The dispatch of
\* comparison operators to lesser / greater with interval flags, and the
\* queries below it, agree with the evaluator's own comparisons.
CandidatesExact ==
    phase = "built" =>
        \A p \in Predicates :
            LET c == FindCandidates(p)
            IN  c.status = "ok" /\ c.accuracy = "IA_EXACT" =>
                   c.docs = {d \in Docs : HasValue(d) /\
                                (p.op = "OP_IS_NOT_NULL" \/ Satisfies(p.op, contents[d], p.value))}

\* No operation on an index ends in a crash, an out-of-bounds access or a
\* failed allocation (upper_bound past the last key, insert_mapped_value past
\* bitmap_counts, bitmaps.resize of a wrapped count).
NoInternalFault == result.status \notin {"crash", "out_of_bounds", "bad_alloc"}
=============================================================================
