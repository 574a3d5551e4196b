--------------------------- MODULE LMDBDictionary ---------------------------
(***************************************************************************)
(* The cursor operations of LMDBDictionary<Key, Value> (lmdb_dictionary.  *)
(* hpp) over the keys of one database.  LMDB keeps its keys ordered by the *)
(* default comparison, memcmp of the key bytes with the shorter key first  *)
(* on a tie, so a key is modelled by its byte sequence (Key::to_byte_array)*)
(* and a database by the finite set of its keys.                           *)
(*                                                                         *)
(* An iterator is modelled by the key it stands on.  end() is a default-   *)
(* constructed iterator whose key is empty and matches no stored key; it  *)
(* is modelled by the empty sequence.                                      *)
(***************************************************************************)
EXTENDS Naturals, Sequences

End == <<>>

\* Mutation: keys compared on their common length only.
ByteLessCommonLength(a, b) ==
    \E i \in 1..Len(a) : i <= Len(b) /\ a[i] < b[i] /\ \A j \in 1..(i - 1) : a[j] = b[j]

\* memcmp order of two byte strings, the shorter first when one is a prefix
\* of the other (mdb_cmp_memn).
ByteLess(a, b) ==
    \/ \E i \in 1..Len(a) :
          /\ i <= Len(b)
          /\ a[i] < b[i]
          /\ \A j \in 1..(i - 1) : a[j] = b[j]
    \/ /\ Len(a) < Len(b)
       /\ a = SubSeq(b, 1, Len(a))

\* The least key of a non-empty set of keys, or End for an empty one.
Least(S) ==
    IF S = {} THEN End ELSE CHOOSE x \in S : \A y \in S \ {x} : ByteLess(x, y)

\* The greatest key of a set of keys, or End for an empty one.
Greatest(S) ==
    IF S = {} THEN End ELSE CHOOSE x \in S : \A y \in S \ {x} : ByteLess(y, x)

\* begin(txn): the first key of the database.
Begin(keys) == Least(keys)

\* lower_bound(key): mdb_cursor_get(MDB_SET_RANGE), the first key not below
\* key, or end() on MDB_NOTFOUND.
LowerBound(keys, k) == Least({x \in keys : ~ByteLess(x, k)})

\* find(key): mdb_cursor_get(MDB_SET), an iterator at key, or end() on
\* MDB_NOTFOUND.
Find(keys, k) == IF k \in keys THEN k ELSE End

\* const_iterator::operator++ on an iterator at x: MDB_NEXT.  On
\* MDB_NOTFOUND the cursor is reset but the iterator keeps the key it had
\* (see UpperBoundCrashes).
Successor(keys, x) == Least({y \in keys : ByteLess(x, y)})

\* const_iterator::operator-- on an iterator at x: MDB_PREV.
Predecessor(keys, x) == Greatest({y \in keys : ByteLess(y, x)})

\* Mutation: upper_bound returns lower_bound (no skip of an equal key).
UpperBoundNoSkip(keys, k) == LowerBound(keys, k)

\* upper_bound(key): lower_bound, then ++ while the iterator's key equals
\* key.  Keys are unique, so one step suffices unless key is the last key
\* of the database (see UpperBoundCrashes).
UpperBound(keys, k) ==
    IF k \in keys THEN Successor(keys, k) ELSE LowerBound(keys, k)

\* When key is the last key of the database, ++ hits MDB_NOTFOUND, resets
\* the cursor and leaves the iterator's key equal to key, so the loop of
\* upper_bound calls ++ again and dereferences the null cursor.
UpperBoundCrashes(keys, k) ==
    k \in keys /\ Successor(keys, k) = End
=============================================================================
