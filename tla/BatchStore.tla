----------------------------- MODULE BatchStore -----------------------------
(***************************************************************************)
(* How the indexes of a batch are persisted and opened again.              *)
(*                                                                         *)
(* Writer: BatchBitmapIndexBuilder.  add_index starts an asynchronous      *)
(* build_index (folly::async) whose BitmapIndex<T>::create saves the aux   *)
(* data; save_all waits for every build, then, index after index, calls    *)
(* BitMapStorage::save(offset) (bitmap offsets into the bitmap-offsets     *)
(* LMDB, then one write of the whole block) and get_total_byte_size, and   *)
(* finally checks every write and puts the storage offset ranges into the  *)
(* storage-offsets LMDB.                                                   *)
(*                                                                         *)
(* Reader: BatchBitmapIndex::get_bitmap_index, BitMapStorage::load with    *)
(* load_all_bitmaps, load_offsets, and BitmapIndex<T>::load.               *)
(*                                                                         *)
(* A bitmap is abstracted to its identity <<index, number>> and its saved  *)
(* size; number 0 is the all-values bitmap.  The file is a set of extents, *)
(* each the bytes of one bitmap.  The LMDB databases are functions from    *)
(* keys to values; every transaction here commits, also when an exception  *)
(* leaves the scope of its LMDBTxn (the destructor commits).               *)
(***************************************************************************)
EXTENDS Naturals, Integers, Sequences, FiniteSets, TLC, Functions, LMDBDictionary, IndexConfig

CONSTANTS
    Indexes,          \* the (row group, column) pairs given to add_index
    IndexPrefix,      \* IndexPrefix[ix]: key bytes for rg_id, column path and the NUL
    IndexCardinality, \* IndexCardinality[ix]: the value range get_basis is given
    IndexEnc,         \* IndexEnc[ix]: the encoding of ix
    IndexType,        \* IndexType[ix]: BITMAP or BITSLICED
    BitmapBytes,      \* BitmapBytes[ix]: get_save_byte_size of each bitmap of ix
    BlockSize,        \* block_size of round_to_disk_block_size
    MaxAdds,          \* add_index calls per builder
    MaxRestarts,      \* crashes followed by a new builder on the same paths
    WriteOutcomes,    \* what a disk write may return: {"ok"} or {"ok", "failed"}
    Uninit,           \* a byte of a buffer that nothing wrote
    NoIndex

VARIABLES
    pending,       \* bmp_futures_: the builds started since the last save_all
    saving,        \* the state of a running save_all
    saveOutcome,   \* how the last save_all ended
    currentOffset, \* current_offset_
    file,          \* the bitmap file: a set of extents [at, len, id]
    fileEnd,       \* the size of the bitmap file
    auxKV,         \* aux-data LMDB: index -> serialised BitmapIndexAuxData
    bitmapKV,      \* bitmap-offsets LMDB: BitmapLMDBID bytes -> OffsetRange
    storageKV,     \* storage-offsets LMDB: index -> OffsetRange
    adds,          \* add_index calls made by this builder
    loaded,        \* the last get_bitmap_index, its outcome, and whether the
                   \* index was committed then, and by the running builder
    epoch,         \* the number of builders opened before this one
    committedIn    \* for each index, the builder that committed its offsets

vars == <<pending, saving, saveOutcome, currentOffset, file, fileEnd, auxKV,
          bitmapKV, storageKV, adds, loaded, epoch, committedIn>>

NoSave == [active |-> FALSE, k |-> 0, offset |-> 0, results |-> <<>>, entries |-> <<>>]
-----------------------------------------------------------------------------
(* The aux data of an index and its serialisation.                         *)

\* build_index's aux data for ix (configure, get_basis, calculate_bitmap_counts).
AuxOf(ix) ==
    LET basis == GetBasis(IndexCardinality[ix], IndexType[ix])
    IN  [basis |-> basis, counts |-> CalculateBitmapCounts(basis, IndexEnc[ix]),
         enc |-> IndexEnc[ix], cardinality |-> IndexCardinality[ix],
         useMapping |-> FALSE, minMapped |-> 0, maxMapped |-> IndexCardinality[ix] - 1]

\* BitmapIndexAuxData::to_byte_array, one cell per memcpy'd field.
\* bitmap_counts_size is copied to the start of the buffer, over
\* basis_size, and the cell after the basis is never written.
AuxToBytes(a) ==
    LET B    == Len(a.basis)
        C    == Len(a.counts)
        tail == <<a.enc, a.cardinality, a.enc, a.useMapping, a.minMapped, a.maxMapped>>
    IN  [i \in 1..(B + C + 8) |->
            CASE i = 1          -> C
              [] i <= B + 1     -> a.basis[i - 1]
              [] i = B + 2      -> Uninit
              [] i <= B + C + 2 -> a.counts[i - B - 2]
              [] OTHER          -> tail[i - B - C - 2]]

Cell(bytes, i) == IF i \in DOMAIN bytes THEN bytes[i] ELSE Uninit

\* The value from_byte_array yields when it reads a size nobody wrote.
Corrupt == [basis |-> <<>>, counts |-> <<>>, enc |-> Uninit, cardinality |-> Uninit,
            useMapping |-> Uninit, minMapped |-> Uninit, maxMapped |-> Uninit]

\* Mutation: the reader takes bitmap_counts_size from where the writer
\* should have put it, after the basis.
AuxFromBytesCountAfterBasis(bytes) ==
    LET B == Cell(bytes, 1)
        C == IF B \in Nat THEN Cell(bytes, B + 2) ELSE Uninit
    IN  IF B \notin Nat \/ C \notin Nat THEN Corrupt
        ELSE [basis |-> [i \in 1..B |-> Cell(bytes, 1 + i)],
              counts |-> [i \in 1..C |-> Cell(bytes, B + 2 + i)],
              enc |-> Cell(bytes, B + C + 5), cardinality |-> Cell(bytes, B + C + 4),
              useMapping |-> Cell(bytes, B + C + 6), minMapped |-> Cell(bytes, B + C + 7),
              maxMapped |-> Cell(bytes, B + C + 8)]

\* BitmapIndexAuxData::from_byte_array: basis_size and bitmap_counts_size
\* are both read from the start of the buffer; the enc_type read as one
\* byte is then read again as a whole field.
AuxFromBytes(bytes) ==
    LET B == Cell(bytes, 1)
        C == Cell(bytes, 1)
    IN  IF B \notin Nat \/ C \notin Nat THEN Corrupt
        ELSE [basis |-> [i \in 1..B |-> Cell(bytes, 1 + i)],
              counts |-> [i \in 1..C |-> Cell(bytes, B + 2 + i)],
              enc |-> Cell(bytes, B + C + 5), cardinality |-> Cell(bytes, B + C + 4),
              useMapping |-> Cell(bytes, B + C + 6), minMapped |-> Cell(bytes, B + C + 7),
              maxMapped |-> Cell(bytes, B + C + 8)]
-----------------------------------------------------------------------------
(* Keys, sizes and the file.                                               *)

\* BitmapLMDBID(rg_id, path, bitmap_number).to_byte_array: the prefix,
\* then the uint16_t bitmap number as memcpy'd, low byte first.
BitmapKey(ix, n) == IndexPrefix[ix] \o <<n % 256, (n \div 256) % 256>>

\* The bitmaps of a storage: the all-values bitmap and every component's.
NumBitmaps(counts) == 1 + SumFunction(counts)

\* Mutation: the byte count rounded down to a whole block.
RoundToBlockDown(n) == (n \div BlockSize) * BlockSize

\* round_to_disk_block_size
RoundToBlock(n) == (n \div BlockSize + (IF n % BlockSize # 0 THEN 1 ELSE 0)) * BlockSize

\* get_total_byte_size of the storage of ix.
StorageBytes(ix) == RoundToBlock(NumBitmaps(AuxOf(ix).counts) * BitmapBytes[ix])

\* A write of len bytes at o replaces the extents it touches.
Overwrite(extents, o, len, new) ==
    {e \in extents : e.at + e.len <= o \/ e.at >= o + len} \cup new

\* The identity of the bitmap whose bytes start at p, if any.
BitmapAt(p) ==
    IF \E e \in file : e.at = p THEN (CHOOSE e \in file : e.at = p).id ELSE NoIndex

\* LMDBDictionary::insert(key, value, txn): mdb_put with MDB_NOOVERWRITE;
\* an existing key throws (MDB_KEYEXIST) and nothing is put.
InsertNoOverwrite(kv, k, v) ==
    IF k \in DOMAIN kv THEN [kv |-> kv, ok |-> FALSE]
    ELSE [kv |-> kv @@ (k :> v), ok |-> TRUE]

\* LMDBDictionary::insert(values, txn): mdb_put with MDB_NOOVERWRITE pair
\* after pair; the first existing key throws, and the destructor of the
\* transaction commits the pairs put before it.
BulkInsert(kv, entries) ==
    LET taken(i) == entries[i][1] \in DOMAIN kv \/ \E j \in 1..(i - 1) : entries[j][1] = entries[i][1]
        bad      == {i \in 1..Len(entries) : taken(i)}
        stop     == IF bad = {} THEN Len(entries) + 1 ELSE CHOOSE i \in bad : \A j \in bad : i <= j
        put      == [i \in 1..(stop - 1) |-> entries[i]]
    IN  [kv |-> [k \in DOMAIN kv \cup {put[i][1] : i \in DOMAIN put} |->
                   IF k \in DOMAIN kv THEN kv[k]
                   ELSE (CHOOSE e \in {put[i] : i \in DOMAIN put} : e[1] = k)[2]],
         ok |-> bad = {}]
-----------------------------------------------------------------------------
(* Reading an index back.                                                  *)

\* load_offsets: find the key of bitmap 0, then step the cursor with ++
\* and expect the keys of bitmaps 1, 2, ... in turn; another key throws.
\* The offsets of bitmap j are then bitmapKV[BitmapKey(ix, j)].
LoadOffsets(ix, n) ==
    LET keys == DOMAIN bitmapKV
        RECURSIVE Walk(_, _)
        Walk(cur, j) ==
            IF j = n THEN TRUE
            ELSE LET nxt == Successor(keys, cur)
                 IN  nxt = BitmapKey(ix, j) /\ Walk(nxt, j + 1)
    IN  Find(keys, BitmapKey(ix, 0)) = BitmapKey(ix, 0) /\ Walk(BitmapKey(ix, 0), 1)

\* get_bitmap_index(rg_id, column_ref) and the future it returns: no
\* storage offsets or no aux data is "absent"; a short read of the storage
\* block, or load_offsets meeting a foreign key, throws ("error"); a bitmap
\* read from outside the block or from bytes that are not its own is
\* "garbage"; otherwise the index is open with its own bitmaps.
\* load_storage_offset_range: find (MDB_SET) the storage id in the
\* storage-offsets LMDB; false when it is not there.
LoadStorageOffsetRange(ix) ==
    IF ix \in DOMAIN storageKV THEN [found |-> TRUE, range |-> storageKV[ix]]
    ELSE [found |-> FALSE, range |-> [start |-> 0, end |-> 0]]

\* get_aux_data: find the storage id in the aux-data LMDB and read the
\* value back with from_byte_array; nullptr when it is not there.
GetAuxData(ix) ==
    IF ix \in DOMAIN auxKV THEN [found |-> TRUE, aux |-> AuxFromBytes(auxKV[ix])]
    ELSE [found |-> FALSE, aux |-> Corrupt]

LoadOutcome(ix) ==
    IF ~LoadStorageOffsetRange(ix).found \/ ~GetAuxData(ix).found THEN "absent"
    ELSE LET r == LoadStorageOffsetRange(ix).range
             a == GetAuxData(ix).aux
             n == NumBitmaps(a.counts)
         IN  IF a = Corrupt THEN "garbage"
             ELSE IF r.end > fileEnd THEN "error"
             ELSE IF ~LoadOffsets(ix, n) THEN "error"
             ELSE IF \A j \in 0..(n - 1) :
                        LET p == bitmapKV[BitmapKey(ix, j)].start
                        IN  r.start <= p /\ p < r.end /\ BitmapAt(p) = <<ix, j>>
                  THEN "ok"
                  ELSE "garbage"
-----------------------------------------------------------------------------
(* Actions.                                                                *)

Init ==
    /\ pending = <<>>
    /\ saving = NoSave
    /\ saveOutcome = "none"
    /\ currentOffset = 0
    /\ file = {}
    /\ fileEnd = 0
    /\ auxKV = [x \in {} |-> <<>>]
    /\ bitmapKV = [x \in {} |-> [start |-> 0, end |-> 0]]
    /\ storageKV = [x \in {} |-> [start |-> 0, end |-> 0]]
    /\ adds = 0
    /\ loaded = [ix |-> NoIndex, outcome |-> "none", committed |-> FALSE, current |-> FALSE]
    /\ epoch = 0
    /\ committedIn = [ix \in Indexes |-> -1]

\* add_index: push the future of an asynchronous build_index.
AddIndex(ix) ==
    /\ ~saving.active
    /\ adds < MaxAdds
    /\ pending' = Append(pending, [ix |-> ix, state |-> "building"])
    /\ adds' = adds + 1
    /\ UNCHANGED <<saving, saveOutcome, currentOffset, file, fileEnd, auxKV, bitmapKV,
                   storageKV, loaded, epoch, committedIn>>

\* The build_index task of the k-th future: BitmapIndex<T>::create ends by
\* inserting the aux data with MDB_NOOVERWRITE; for an index whose aux data
\* is already there it throws and the future holds the exception.
BuildIndex(k) ==
    LET ix  == pending[k].ix
        put == InsertNoOverwrite(auxKV, ix, AuxToBytes(AuxOf(ix)))
    IN  /\ pending[k].state = "building"
        /\ pending' = [pending EXCEPT ![k].state = IF put.ok THEN "built" ELSE "failed"]
        /\ auxKV' = put.kv
        /\ UNCHANGED <<saving, saveOutcome, currentOffset, file, fileEnd, bitmapKV,
                       storageKV, adds, loaded, epoch, committedIn>>

\* save_all: collect(bmp_futures_).get() waits for every build; a failed
\* build throws out of save_all, leaving bmp_futures_ as it was.
SaveAllBegin ==
    /\ ~saving.active
    /\ pending # <<>>
    /\ \A k \in DOMAIN pending : pending[k].state # "building"
    /\ IF \E k \in DOMAIN pending : pending[k].state = "failed"
       THEN /\ saveOutcome' = "threw"
            /\ UNCHANGED saving
       ELSE /\ saving' = [NoSave EXCEPT !.active = TRUE, !.k = 1, !.offset = currentOffset]
            /\ saveOutcome' = "running"
    /\ UNCHANGED <<pending, currentOffset, file, fileEnd, auxKV, bitmapKV, storageKV,
                   adds, loaded, epoch, committedIn>>

\* One turn of save_all's loop for the k-th index: storage.save(offset)
\* puts the OffsetRange of each of its bitmaps into the bitmap-offsets LMDB
\* (bitmap j at offset + j * size) and then writes the whole block at
\* offset and waits for the write; an existing key throws before the
\* write, into the future save returns.  Then get_total_byte_size gives
\* the block's size: the storage's range is recorded and offset moves on.
SaveStorage ==
    LET ix    == pending[saving.k].ix
        sz    == BitmapBytes[ix]
        n     == NumBitmaps(AuxOf(ix).counts)
        total == StorageBytes(ix)
        o     == saving.offset
        ents  == [j \in 1..n |-> <<BitmapKey(ix, j - 1),
                                   [start |-> o + (j - 1) * sz, end |-> o + j * sz]>>]
        ins   == BulkInsert(bitmapKV, ents)
        Turn(r) == [saving EXCEPT !.k = @ + 1, !.offset = @ + total,
                                  !.results = Append(@, r),
                                  !.entries = Append(@, <<ix, [start |-> o, end |-> o + total]>>)]
    IN  /\ saving.active
        /\ saving.k <= Len(pending)
        /\ bitmapKV' = ins.kv
        /\ IF ~ins.ok
           THEN /\ saving' = Turn("exception")
                /\ UNCHANGED <<file, fileEnd>>
           ELSE \E r \in WriteOutcomes :
                   /\ saving' = Turn(r)
                   /\ IF r = "ok"
                      THEN /\ file' = Overwrite(file, o, total,
                                          {[at |-> o + j * sz, len |-> sz, id |-> <<ix, j>>] : j \in 0..(n - 1)})
                           /\ fileEnd' = IF o + total > fileEnd THEN o + total ELSE fileEnd
                      ELSE UNCHANGED <<file, fileEnd>>
        /\ UNCHANGED <<pending, saveOutcome, currentOffset, auxKV, storageKV, adds, loaded,
                       epoch, committedIn>>

\* Mutation: current_offset_ moves on also when save_all throws.
SaveAllEndAdvanceOnThrow ==
    LET ins == BulkInsert(storageKV, saving.entries)
        ok  == \A i \in DOMAIN saving.results : saving.results[i] = "ok"
    IN  /\ saving.active
        /\ saving.k > Len(pending)
        /\ saving' = NoSave
        /\ storageKV' = IF ok THEN ins.kv ELSE storageKV
        /\ committedIn' = [x \in Indexes |->
                              IF ok /\ x \in DOMAIN ins.kv \ DOMAIN storageKV
                              THEN epoch ELSE committedIn[x]]
        /\ IF ok /\ ins.ok
           THEN /\ saveOutcome' = "committed"
                /\ currentOffset' = saving.offset
                /\ pending' = <<>>
           ELSE /\ saveOutcome' = "threw"
                /\ currentOffset' = saving.offset
                /\ UNCHANGED pending
        /\ UNCHANGED <<file, fileEnd, auxKV, bitmapKV, adds, loaded, epoch>>

\* The end of save_all: collect(save_futures) throws on an exception, and
\* the loop over the results throws on a write of the wrong size or with an
\* error; otherwise the storage ranges are put into the storage-offsets LMDB
\* (the durability point), current_offset_ moves past the written blocks
\* and bmp_futures_ is cleared.  A throw leaves both as they were.
SaveAllEnd ==
    LET ins == BulkInsert(storageKV, saving.entries)
        ok  == \A i \in DOMAIN saving.results : saving.results[i] = "ok"
    IN  /\ saving.active
        /\ saving.k > Len(pending)
        /\ saving' = NoSave
        /\ storageKV' = IF ok THEN ins.kv ELSE storageKV
        /\ committedIn' = [x \in Indexes |->
                              IF ok /\ x \in DOMAIN ins.kv \ DOMAIN storageKV
                              THEN epoch ELSE committedIn[x]]
        /\ IF ok /\ ins.ok
           THEN /\ saveOutcome' = "committed"
                /\ currentOffset' = saving.offset
                /\ pending' = <<>>
           ELSE /\ saveOutcome' = "threw"
                /\ UNCHANGED <<currentOffset, pending>>
        /\ UNCHANGED <<file, fileEnd, auxKV, bitmapKV, adds, loaded, epoch>>

\* The process stops at any point and a new BatchBitmapIndexBuilder is
\* opened on the same paths: bmp_futures_ is empty, current_offset_ is 0
\* and the bitmap file is opened with O_TRUNC, while the LMDB environments
\* keep every committed transaction.
Restart ==
    /\ epoch < MaxRestarts
    /\ pending' = <<>>
    /\ saving' = NoSave
    /\ saveOutcome' = "none"
    /\ currentOffset' = 0
    /\ file' = {}
    /\ fileEnd' = 0
    /\ adds' = 0
    /\ epoch' = epoch + 1
    /\ UNCHANGED <<auxKV, bitmapKV, storageKV, loaded, committedIn>>

\* A reader opens the index of ix (get_bitmap_index) and waits for it.
LoadIndex(ix) ==
    /\ loaded' = [ix |-> ix, outcome |-> LoadOutcome(ix), committed |-> ix \in DOMAIN storageKV,
                   current |-> committedIn[ix] = epoch]
    /\ UNCHANGED <<pending, saving, saveOutcome, currentOffset, file, fileEnd, auxKV,
                   bitmapKV, storageKV, adds, epoch, committedIn>>

Next ==
    \/ \E ix \in Indexes : AddIndex(ix)
    \/ \E k \in DOMAIN pending : BuildIndex(k)
    \/ SaveAllBegin
    \/ SaveStorage
    \/ SaveAllEnd
    \/ Restart
    \/ \E ix \in Indexes : LoadIndex(ix)

Spec == Init /\ [][Next]_vars
-----------------------------------------------------------------------------
(* Properties.                                                             *)

TypeOK ==
    /\ pending \in Seq([ix : Indexes, state : {"building", "built", "failed"}])
    /\ saveOutcome \in {"none", "running", "committed", "threw"}
    /\ currentOffset \in Nat /\ fileEnd \in Nat /\ currentOffset <= fileEnd
    /\ DOMAIN auxKV \subseteq Indexes /\ DOMAIN storageKV \subseteq Indexes
    /\ loaded.outcome \in {"none", "absent", "ok", "error", "garbage"}
    /\ \A x \in Indexes : committedIn[x] \in -1..epoch

\* The aux data of every index reads back as it was built: from_byte_array
\* undoes to_byte_array although both take bitmap_counts_size from the
\* start of the buffer (it equals basis_size, calculate_bitmap_counts
\* giving one count per base).
AuxRoundTrip ==
    \A ix \in DOMAIN auxKV : AuxFromBytes(auxKV[ix]) = AuxOf(ix)

\* An index whose save_all committed in the running builder opens with
\* exactly its own bitmaps: save's offsets, the block writes and
\* load_offsets' walk over the bitmap-offsets keys agree.
CommittedIndexOpens ==
    loaded.current => loaded.outcome = "ok"

\* Whatever builders ran before, an index opened by a reader never holds
\* bytes that are not its own bitmaps.
OpenedBitmapsAreOwn == loaded.outcome # "garbage"
=============================================================================
