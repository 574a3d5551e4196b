# TLA+ models of bitmap_index

This directory holds TLA+ models of the bitmap index library under
`src/src/bitmap_index` and of the parts of `src/src/iosubsystem` that it uses.
TLC checks them with the `.cfg` files listed below. `PROJECT.json` records
three things:

- the components and which module models each one;
- every run, its properties and the mutants that show each property can fail;
- the source lines that every definition translates.

## The system

A *batch* of documents is split into row groups. For every row group and
every indexed column, `BatchBitmapIndexBuilder` (batch_bitmap_index_builder.h
and .cc) builds a `BitmapIndex<T>` (src/bitmap_index.hpp).

**Building an index**

1. `configure` decides whether values are *mapped*. They are mapped when T is
   non-integral, or when the column's cardinality is at most a tenth of the
   row count. A mapped value is replaced by its ordinal in sorted order, and
   the pairs are stored in an LMDB *attribute-value* database. Its keys are
   rg_id, column path, NUL, then the value bytes (`AttributeValue<T>`,
   src/lmdb_values.h).
2. `configure` chooses a mixed-radix basis (`get_basis`).
3. `calculate_bitmap_counts` derives the number of bitmaps per component for
   the encoding: EQUALITY, INTERVAL or RANGE.
4. `BitmapIndex<T>::create` decomposes every mapped value (`ValueDecomposer`)
   and sets the document's bit in the bitmaps its digit selects.

**Queries**

- `lookup`, `not_equals`, `get_not_null`, `lesser`, `greater` and
  `range_search` decode the per-digit bitmaps. Equality and lesser bitmaps go
  through `get_equality_bitmap` and `get_lesser_bitmap`, with
  `less_or_equal_query` as the digit-wise comparator.
- An order query on a mapped index first translates its endpoints into
  ordinals. It does this by walking the attribute-value LMDB with
  `lower_bound` and `upper_bound` (src/lmdb_dictionary.hpp).

**Storage and I/O.** The bitmaps of an index live in a `BitMapStorage`: a
cache with load and save through the `IOExecutor` and the disk thread pool.
`DiskIOThreadPool` keeps one `IOExecutor` per CPU core: a Linux AIO
io_context of `queueDepth_` slots, a bounded lock-free request queue, an
eventfd, and a handler thread that reaps completions when the eventfd
fires. A reader calls `submitReadTask` and gets a future of the job's
retcode. While no slot is free, the submitting thread reaps completions
itself. Whoever runs `ProcessRequestQueue` takes a slot, takes a job from
the queue, and hands its batch to `io_submit`.

**Filtering documents.** The expression evaluator asks each column's index
for candidate documents (`BitmapIndexImpl::find_candidate_documents`,
batch_bitmap_index.cc). A comparison predicate is dispatched to `lookup`,
`not_equals`, `greater` or `lesser` with interval flags, and `IS_NOT_NULL`
to `get_not_null`. A non-null bitmap is an `IA_EXACT` answer; anything else
asks for a full scan (`IA_NONE`).

**Persisting a batch.** `add_index` starts `build_index` asynchronously
(`folly::async`). Its `BitmapIndex<T>::create` ends by inserting the aux data
(`BitmapIndexAuxData`) into the aux-data LMDB with `MDB_NOOVERWRITE`.
`save_all` then does four things in order:

1. It waits for every build.
2. For each storage, `BitMapStorage::save(offset)` puts one `OffsetRange` per
   bitmap into the bitmap-offsets LMDB (key `BitmapLMDBID`), then writes the
   whole block at `offset`.
3. It checks every write.
4. It puts each storage's range into the storage-offsets LMDB. This commit is
   the durability point.

A reader (`BatchBitmapIndex::get_bitmap_index`) looks up the storage range
and the aux data. It reads the block, and `load_offsets` walks the
bitmap-offsets keys with `++`, expecting bitmap numbers 0, 1, 2, ... in turn.

## Modules

| module | models | state / actions |
|---|---|---|
| `ValueDecomposer` | value_decomposer.cc | `Decompose` (RECURSIVE `DecomposeFrom`), with the reference `Recompose` and `BasisProduct` |
| `LMDBDictionary` | lmdb_dictionary.hpp cursor | keys are byte sequences in memcmp order (`ByteLess`); `Begin`, `Find` (MDB_SET or `end()`), `LowerBound`, `UpperBound`, `Successor` (++), `Predecessor` (--); `UpperBoundCrashes` is the reset-cursor case |
| `BitmapEncoding` | get_equality_bitmap*, get_lesser_bitmap, lookup_mapped_value, less_or_equal_query, range_search_internal | operators over a storage `Bitmaps[i][j]` (a set of documents), parameterised by the encoding, the basis, the all-values bitmap and the largest ordinal |
| `BitmapIndex` | BitmapIndex<T> and the builder's configure/build_index | variables `phase`, `contents`, `aux` (BitmapIndexAuxData), `attrKV` (the attribute-value LMDB), `storage`, `allValues`, `result`; actions `Create` (add_index → build_index → create), `Insert` (insert(row, value); an unmapped value outside `[min_mapped_value, max_mapped_value]` is not refused and is stored under the digits of its mapped value as a uint64, modulo the basis product: `Uint64Residue`, `StoredDigits`), one `Answer` per query; `FindCandidates` is find_candidate_documents as an operator over the queries, with `Satisfies` (BinaryConstPredicate::operator()) as its reference |
| `DocumentIndex` | the promise of an index | abstract: documents have values; a query returns exactly the documents whose value matches, or refuses, or the process stops |
| `MC_BitmapIndex` | model values and input sets for TLC | |
| `IndexConfig` | get_basis, calculate_bitmap_counts | pure operators shared by `BitmapIndex` and `BatchStore` |
| `BatchStore` | add_index, build_index, save_all, BitMapStorage::save/get_total_byte_size/load/load_offsets, LMDBDictionary bulk insert and single `MDB_NOOVERWRITE` insert (`InsertNoOverwrite`), the reader's `load_storage_offset_range` and `get_aux_data` (`LoadStorageOffsetRange`, `GetAuxData`), BitmapLMDBID and aux-data serialisation, get_bitmap_index, the builder constructor | variables `pending` (bmp_futures_), `saving` (save_all's loop), `currentOffset`, `file` (extents `[at, len, id]`), `fileEnd`, `auxKV`, `bitmapKV`, `storageKV`, plus `epoch`, `committedIn` and `loaded`, which record what happened for the properties; actions `AddIndex`, `BuildIndex`, `SaveAllBegin`, `SaveStorage` (one turn of the loop), `SaveAllEnd`, `Restart` (crash and a new builder), `LoadIndex` |
| `CacheStorage` | BitMapStorage's cache: constructor (for `create` and for `load`), increase_frequency (with the uint32 wrap, `Increment`), recompute_frequency_threshold, check_unload, load_bitmap, load_const_bitmap, load_all_values_bitmap(_const), add_to_bitmap, reset_usage_frequencies | variables `resident` (non-null `bitmaps[c][i]`), `freq`, `threshold`, `pc` (per reader: idle, between test and copy, or waiting for a read), `accesses`, `allCached` (non-null `all_values_bitmap`), `created` (the storage was made by `create`: every bitmap in memory and a cache of `INT_MAX`, used by the one `Builder` thread), and `fault`, which records a null dereference; actions `AddToBitmap` (the builder's add: load_const_bitmap with `always_store`, add, check_unload),  `ResetUsageFrequencies`, `LoadBitmap` and `LoadConstBitmap` (count, test), `CopyCached` (copy or share, check_unload), `ReadDone` (the read's continuation: store, check_unload), `ReadFailed` (the read's retcode is not 0: the continuation throws, nothing is stored), `LoadAllValuesBitmap(Const)` and `ReadAllDone` |
| `IOExecutor` | IOExecutor (submitReadTask, submitTask, ProcessRequestQueue, handleDiskCompletion, ProcessCallbacks), the per-core handler of DiskIOThreadPool, EventFD::readfd | variables `avail` (numAvailable_), `reqSize` (requestQueueSize_), `queue`, `kernel` (accepted iocbs), `ring` (completion events), `efd`, `io` (each thread's label and locals), `result` (each submitter's future); one action per step of submitTask (`SubmitRead` and `SubmitWrite`, both through `AsyncStart`; an unaligned write takes the synchronous `pwrite` of `SyncWrite`, whose result `DoPostProcessingOfJob` sets; `PreReap`, `Full`, `Inc`, `Push`, `Post`) and of ProcessRequestQueue (`PrqWait`, `PrqLoop`, `PrqDec`, `PrqConsume`, `PrqSubmit`), `Complete` (the kernel) and `HandlerReady` |
| `AsyncRead` | what submitReadTask and submitWriteTask promise | abstract: each caller's future is fulfilled once with `ok`, `err` or `eagain` |
| `MC_IOExecutor` | submitter and core model values | |
| `MC_CacheStorage` | three bitmaps and two readers | |
| `MC_BatchStore` | two indexes with their prefixes, cardinalities, encodings and bitmap sizes | |

`BitmapIndex` instantiates `BitmapEncoding` with its own variables
(`Enc == INSTANCE BitmapEncoding WITH Bitmaps <- storage, ...`). It also
instantiates `DocumentIndex` with `answer <- result`, which is the refinement
mapping. `DocumentIndexRefined == Abs!Spec` is checked as a temporal property.

### Abstraction

- Documents are model values.
- A bitmap is the set of its documents.
- Integer values are small integers. `KeyWidth` is the byte width of their
  LMDB key, which is enough to separate little-endian byte order from numeric
  order.
- String values are short byte sequences.
- The keys of *other* indexes that share the attribute-value database are the
  neighbour keys `<<0>>` (sorting before this index) and `<<2>>` (sorting
  after).
- In `BatchStore`, a bitmap is its identity `<<index, number>>` with a fixed
  saved size, and an LMDB database is a function from keys to values. Every
  transaction commits, as `~LMDBTxn` does even while an exception unwinds.
  uint32 offsets past 4 GiB are not modelled.
- uint32 arithmetic keeps its wrap: a count or range that would wrap is
  represented by its negative value. The action then takes the code's
  outcome: `bad_alloc` for `resize` of a wrapped count, and `out_of_bounds`
  for a bitmap number past `bitmap_counts[i]`.
- An upper_bound step on a reset cursor ends the process with `crash`.

## Runs

### BitmapIndex

Every passing `MC_BitmapIndex` run uses three documents with symmetry over them. It covers
every input vector over four values, all three encodings and both index
types. That is enough for bases with two components, digits at both ends of
each component, and INTERVAL's `m` at 0 and above.

| run | expect | what it shows |
|---|---|---|
| `index_int` | pass | Unmapped integer columns (values 0, 3, 8, 35). The basis represents every mapped value (`BasisRepresentsMappedValues`). Every equality bitmap decodes to exactly the documents with that digit (`DigitsDecodeExactly`). Equality, lesser and range queries are exact (`EqualityQueriesCorrect`, `OrderQueriesCorrect`). |
| `index_string` | pass | String columns, always mapped, with neighbour keys present or absent. Also single inserts. All query properties, including `GreaterCorrect`. The index refines `DocumentIndex`. In every state, `find_candidate_documents` answers every predicate either with a full scan, with an error, or exactly as `BinaryConstPredicate::operator()` evaluates it, nulls excluded (`CandidatesExact`). This checks the flags each comparison is dispatched with. |
| `greater_unmapped` | violation | `greater(5, CLOSED)` over values {3, 8} (TLC may report {3, 35} instead, with the same cause): `lookup_min_value` returns 2, which equals the cardinality, so the answer is empty (bitmap_index.hpp:750). |
| `mapped_int_order` | violation | 20 documents with values 1 and 256 (mapped, cardinality ≤ n/10). Little-endian keys sort 256 before 1, so `lesser(2, OPEN)` includes the document with 256. |
| `upper_bound_last_key` | violation | `upper_bound` of the last key of the database calls `++` on a reset cursor (`NoInternalFault`). |
| `single_insert_interval` | violation | Create over {0, 35} (basis ⟨6, 6⟩) and then `insert(d, 6)`. `decomposed[i] - m` wraps in uint32, no bitmap is set, and `lookup(6)` misses the document. |

Two more defects are kept as hazards in `PROJECT.json`, because the run
list is full:

- `insert` into an unmapped index does not check the range. Under
  `single_insert_interval` with inputs {-1, 40} and EQUALITY,
  `EqualityQueriesCorrect` fails in four steps: -1 becomes 2^64 - 1 as a
  uint64, and it is stored as 15 in basis ⟨6, 6⟩.
- An all-null column builds a RANGE index with basis ⟨0⟩. `basis[i] - 1`
  wraps, and the `resize` throws `bad_alloc`. `index_int`'s inputs reach
  this, which is why its cfg does not check `NoInternalFault`.

### BatchStore

`BatchStore` runs use two indexes A and B.

- `batch_store` uses cardinalities 3 and 9 (EQUALITY and INTERVAL). There
  are 4 and 5 bitmaps of 1000 and 1500 bytes, so both storages span more
  than one 4096-byte block. It allows up to three `add_index` calls per
  builder (enough to add one index twice), writes that fail, and one restart.

| run | expect | what it shows |
|---|---|---|
| `batch_store` | pass | The aux data reads back as built, although `to_byte_array` writes `bitmap_counts_size` over `basis_size` (`AuxRoundTrip`; it holds because the two sizes are equal). An index committed by the running builder opens with exactly its own bitmaps (`CommittedIndexOpens`). This holds across failed writes, retries of `save_all`, and duplicate `add_index` calls. `TypeOK` includes `currentOffset <= fileEnd`: `current_offset_` never moves past what was written. |
| `rebuild_after_crash` | violation | Index A is committed, then the process restarts. The new builder opens the file with `O_TRUNC` and starts at offset 0, but the LMDB offsets survive. B's block is written over A's range, and A opens with B's bitmaps (`OpenedBitmapsAreOwn`). |

### CacheStorage

`CacheStorage` runs use three bitmaps, so a cache of one or two holds some
of them but not all, and two readers, the fewest that can interleave.
The initial state is either a storage opened by `load` or one made by
`create`. `MaxAccesses` bounds the `load_bitmap` and `add_to_bitmap` calls.
`FreqMax` stands for `UINT32_MAX`: a count wraps from it to 0, and it is
the threshold of a cache that holds every bitmap. In these runs it is
1000000, out of reach of the bound. These runs say
`CHECK_DEADLOCK FALSE` because readers may stop reading.

| run | expect | what it shows |
|---|---|---|
| `cache_lazy` | pass | With a cache of 2 and up to 9 accesses, a storage opened with `load_all_bitmaps = false` never holds more than `bitmap_cache_size` bitmaps (`ResidentWithinCache`). This holds across all interleavings of the readers, reads that complete late, and a threshold recomputed only now and then. The initial states also include a storage made by `create`, which its builder adds to, queries and resets. No property is checked of it here: its threshold is `FreqMax`, which nine accesses cannot reach, so nothing is evicted in this bound. |
| `reader_null_copy` | violation | Reader 1 finds `bitmaps[c][i]` set. Reader 2's `check_unload` nulls it. Reader 1 then copies `*bitmaps[c][i]` (`NoNullCopy`). |

Two more defects are kept as hazards in `PROJECT.json`, with no run of
their own:

- `HotBitmapKept` (an action property) states the eviction rule that the
  comment of `check_unload` and the spec describe: the most used bitmap
  stays in memory. `check_unload` evicts at or above the threshold, so a
  cfg with `PROPERTY HotBitmapKept` fails on the first access.
- The bitmap number of `BitmapLMDBID` is a little-endian u16. Key 256 sorts
  right after key 0, so `load_offsets` throws for a committed index with
  more than 256 bitmaps. A `batch_store` instance with cardinality 16384
  shows this through `CommittedIndexOpens`.

The frequency counter's wrap is checked with a narrow counter (`FreqMax`
3). With that counter, a check that a created storage keeps every bitmap
(`created => resident = Bitmaps`; its bitmaps exist nowhere else until
`save`) fails at the third access of one bitmap: the count reaches the
threshold `UINT32_MAX`, and `check_unload` drops a bitmap that has not
been saved. `ResidentWithinCache` fails once
`nth_element` has made the threshold `UINT32_MAX` and a count wraps to 0.
`reset_usage_frequencies` does not recompute the threshold. On a storage
opened by `load`, the stale threshold is above every count, and the cache
grows past its size. Its only caller resets a storage it has just
created, which is how the model uses it. These three are hazards in
`PROJECT.json`, because the run list has no room for more findings. The
runs below do not reach them.

The cache matters only when a storage is opened with a small cache.
`BatchBitmapIndex` always passes `INT_MAX`, but `BitMapStorage::load`
defaults to a cache of 1.

The violation runs are code bugs; `PROJECT.json` lists them as findings.

`batch_store` checks deadlock, because a builder can always restart or a
reader can always open. `BatchStore` has no liveness property. A
`save_all` retried after a failure can never commit: `MDB_NOOVERWRITE` on
the bitmap offsets it already put throws `KEYEXIST`. Nothing in the code or
the spec promises that a retry succeeds, so this is listed as a hazard.

The `BitmapIndex` model has no liveness either. Every operation of `BitmapIndex<T>` is a
synchronous call, and a crash or failed build ends the index's life, so the
cfgs say `CHECK_DEADLOCK FALSE`.

### IOExecutor

| run | expect | what it shows |
|---|---|---|
| `io_executor` | pass | Two submitters and one core, with `QueueDepth` 1 and `MinSubmitSize` 1. io_context slots are never lost or counted twice (`PermitsConserved`), and `requestQueueSize_` never falls behind the queue (`QueueCountNeverBehind`). This holds across racing decrements, an io_submit that accepts nothing (with the job aborted and its slot given back), and reaps by submitters and the handler. Every job the executor holds is completed (`JobsComplete`). The executor refines `AsyncRead` (`AsyncReadRefined`). |
| `lost_push` | violation | Both submitters pass the queue-full test, and the second `requestQueue_.push` fails on the full queue. Its result is ignored, so the job is lost, and `requestQueueSize_` stays one too high (`QueueCountExact`, IOExecutor.cpp:436). |

**Bounds.**

- With depth 1, each of a full io_context, a full request queue, the
  pre-loop reap, and an `io_submit` that accepts nothing happens with two
  submitters.
- Three submitters with depth 2 exceed a million states. Checked on its own,
  that instance shows a second liveness failure: when the only
  `ProcessRequestQueue` pass that took a job has its `io_submit` fail, a
  job queued behind it waits until some other submission.
- Two cores (`Cores <- MCTwoCores`) show a third: a thread that migrates
  between `getIOExecutor()` and `getEventFD()` registers its iocb with the
  other core's eventfd.

The last two are hazards with notes; the run keeps the instance in which
`JobsComplete` holds.

**Abstractions.**

- The eventfd counter is kept as 0 or 1. `handlerReady` only tests it for
  > 0, and as `io_getevents`'s `min_nr` it only bounds a 1µs wait.
- `decrementNumAvailable` and the give-back of a slot taken below zero are
  one step. Other threads see only the net effect of the pair, and each
  is an atomic operation.

**Fairness.**

- `WF` on every thread's steps and on each handler: they are OS threads
  that keep running.
- `SF` on taking a free slot: the decrement loop is lock-free, not
  wait-free, and without it a thread could lose the race for ever.
- `WF` on the kernel's completion of each submitter's iocb: the kernel
  completes every iocb it accepted.

**Refinement.** `AsyncReadRefined` maps `result` to `future`. A future
goes from `none` to a retcode once; `eagain` comes from the queue-full
test.

## Not modelled yet, and the plan

1. **BitMapStorage**: the bitmaps' contents are not modelled, so
   `add_to_all_values_bitmap` makes no step: a created storage's all-values
   bitmap is never null. The continuations of the asynchronous reads capture `component` and `i`
   by reference after `load_bitmap` has returned. `CacheStorage` assumes
   they still hold the right values.
2. **IOExecutor**: the -ENXIO answer of a stopped executor is not
   modelled, since the pool never stops executors in use.
   `CacheStorage` is not composed with `IOExecutor`, because the product is
   beyond TLC's reach. Each read's outcome (0, an error, -EAGAIN) is a
   nondeterministic choice there.
3. **find_candidate_documents** hands the evaluator the storage's own
   all-values bitmap on the cached path. The evaluator that could modify it
   is not in this repository.

The following are left out as pure I/O or wrappers: EventFD other than `readfd`, Timer, Stats,
OSUtils, the BitMap wrapper of the compressed-bitmap library (modelled as
sets), perf_benchmark and the tests.
