---------------------------- MODULE CacheStorage ----------------------------
(***************************************************************************)
(* The bitmap cache of one BitMapStorage opened for reading, with readers  *)
(* calling load_bitmap concurrently.                                       *)
(*                                                                         *)
(* bitmaps[c][i] is a pointer that is null when the bitmap is not in       *)
(* memory; frequencies[c][i] counts the accesses; frequency_threshold is   *)
(* recomputed with nth_element when an accessed bitmap's count equals it,  *)
(* and check_unload drops a bitmap after an access whose count is at or    *)
(* above it.  A bitmap that is not in memory is read asynchronously and    *)
(* stored by the continuation of the read.  The read itself is the        *)
(* DiskIOThreadPool's (module IOExecutor); here it completes with retcode  *)
(* 0 or with an error or -EAGAIN, which makes the continuation throw, so   *)
(* the bitmap is not stored.                                               *)
(*                                                                         *)
(* A bitmap is a model value; its contents do not change while the storage *)
(* is read, so only whether it is in memory matters.  FreqMax stands for   *)
(* UINT32_MAX: a count wraps from FreqMax to 0, and the threshold of a     *)
(* cache that holds every bitmap is FreqMax.  A small FreqMax is a narrow  *)
(* counter, which reaches its wrap in a few accesses.                      *)
(***************************************************************************)
EXTENDS Naturals, FiniteSets

CONSTANTS
    Bitmaps,      \* the (component, i) pairs of the storage
    CacheSize,    \* bitmap_cache_size
    FreqMax,      \* UINT32_MAX, the largest frequency count
    LoadAll,      \* load_all_bitmaps of BitMapStorage::load
    Readers,      \* threads calling load_bitmap
    MaxAccesses   \* load_bitmap calls in a behaviour

VARIABLES
    resident,   \* {b : bitmaps[b] is not null}
    freq,       \* frequencies
    threshold,  \* frequency_threshold
    pc,         \* pc[r]: where reader r is in load_bitmap
    accesses,   \* load_bitmap calls so far
    fault,      \* a reader dereferenced a null bitmaps[b]
    allCached,  \* all_values_bitmap is not null
    created     \* the storage was made by create (its bitmaps exist only in memory)

vars == <<resident, freq, threshold, pc, accesses, fault, allCached, created>>

\* The index being created is built by the one thread that runs
\* build_index (add_index's folly::async task).
Builder == CHOOSE r \in Readers : TRUE

Idle == [state |-> "idle", b |-> CHOOSE b \in Bitmaps : TRUE]
-----------------------------------------------------------------------------
\* freqs[k] after std::nth_element(freqs.begin(), freqs.begin() + k,
\* freqs.end()): the k-th smallest frequency, counting from 0.
NthSmallest(f, k) ==
    CHOOSE v \in {f[b] : b \in Bitmaps} :
        /\ Cardinality({b \in Bitmaps : f[b] < v}) <= k
        /\ Cardinality({b \in Bitmaps : f[b] <= v}) > k

\* bitmap_cache_size: create passes INT_MAX, which is at least the number
\* of bitmaps; only its comparison with that number matters.
BitmapCacheSize == IF created THEN Cardinality(Bitmaps) ELSE CacheSize

\* recompute_frequency_threshold
RecomputeThreshold(f) ==
    IF BitmapCacheSize >= Cardinality(Bitmaps) THEN FreqMax ELSE NthSmallest(f, BitmapCacheSize)

\* ++frequencies[component][i] on a uint32.
Increment(n) == (n + 1) % (FreqMax + 1)

\* increase_frequency: the threshold is recomputed from the counts before
\* the increment when the accessed bitmap's count equals it.
NewThreshold(b) == IF freq[b] = threshold THEN RecomputeThreshold(freq) ELSE threshold

\* Mutation: a bitmap is dropped only above the threshold.
CheckUnloadAbove(res, b) == IF freq[b] > threshold THEN res \ {b} ELSE res

\* check_unload, with the counts and threshold of the moment it runs.
CheckUnload(res, b) == IF freq[b] >= threshold THEN res \ {b} ELSE res

-----------------------------------------------------------------------------
\* The constructor, called by create (every bitmap and all_values_bitmap
\* allocated empty, a cache of INT_MAX) or by BitMapStorage::load (every
\* bitmap read from the block if load_all_bitmaps): all counts 0 and the
\* threshold recomputed.
Init ==
    /\ created \in BOOLEAN
    /\ resident = IF created \/ LoadAll THEN Bitmaps ELSE {}
    /\ freq = [b \in Bitmaps |-> 0]
    /\ threshold = RecomputeThreshold([b \in Bitmaps |-> 0])
    /\ pc = [r \in Readers |-> Idle]
    /\ accesses = 0
    /\ fault = FALSE
    /\ allCached = (created \/ LoadAll)

\* load_bitmap(c, i): increase_frequency, then test bitmaps[c][i]; a
\* null pointer submits an asynchronous read (load_bitmap_async).
LoadBitmap(r, b) ==
    /\ created => r = Builder
    /\ pc[r].state = "idle"
    /\ accesses < MaxAccesses
    /\ threshold' = NewThreshold(b)
    /\ freq' = [freq EXCEPT ![b] = Increment(@)]
    /\ accesses' = accesses + 1
    /\ pc' = [pc EXCEPT ![r] = [state |-> IF b \in resident THEN "copy" ELSE "read", b |-> b]]
    /\ UNCHANGED <<resident, fault, allCached, created>>

\* load_const_bitmap(c, i) makes the same steps: its cached path shares
\* the pointer instead of copying the bitmap, but it too tests
\* bitmaps[c][i] and reads it again, so a pointer nulled in between is
\* handed to the caller, which dereferences it.
LoadConstBitmap(r, b) == LoadBitmap(r, b)

\* add_to_bitmap(c, i, value), while the index is built: load_const_bitmap
\* with always_store, so neither of its paths unloads, then
\* bitmaps[c][i]->add(value) and check_unload.  On the storage's state
\* these are load_bitmap's steps; the add dereferences bitmaps[c][i] where
\* load_bitmap copies it.  add_to_all_values_bitmap makes no step: the
\* all-values bitmap of a created storage is never null.
AddToBitmap(r, b) == created /\ LoadBitmap(r, b)

\* reset_usage_frequencies: every count back to 0; frequency_threshold is
\* not recomputed.  Its one caller resets the index it has just built.
ResetUsageFrequencies(r) ==
    /\ created /\ r = Builder
    /\ pc[r].state = "idle"
    /\ freq' = [b \in Bitmaps |-> 0]
    /\ UNCHANGED <<resident, threshold, pc, accesses, fault, allCached, created>>

\* The rest of the cached path: copy *bitmaps[c][i], then check_unload.
\* Another reader may have nulled the pointer since the test.
CopyCached(r) ==
    LET b == pc[r].b
        res == CheckUnload(resident, b)
    IN  /\ pc[r].state = "copy"
        /\ fault' = (fault \/ b \notin resident)
        /\ resident' = res
        /\ pc' = [pc EXCEPT ![r] = Idle]
        /\ UNCHANGED <<freq, threshold, accesses, allCached, created>>

\* The read's promise holds a retcode of 0: load_bitmap_async's
\* continuation loads the bitmap, and load_bitmap's stores it, then
\* check_unload.
ReadDone(r) ==
    LET b == pc[r].b
        res == CheckUnload(resident \cup {b}, b)
    IN  /\ pc[r].state = "read"
        /\ resident' = res
        /\ pc' = [pc EXCEPT ![r] = Idle]
        /\ UNCHANGED <<freq, threshold, accesses, fault, allCached, created>>

\* Any other retcode: load_bitmap_async's continuation throws "Problem
\* reading bitmap file.", load_bitmap's is skipped and the caller's future
\* holds the exception.
ReadFailed(r) ==
    /\ pc[r].state \in {"read", "readAll"}
    /\ pc' = [pc EXCEPT ![r] = Idle]
    /\ UNCHANGED <<resident, freq, threshold, accesses, fault, allCached, created>>

\* load_all_values_bitmap(): a cached all-values bitmap is returned at once
\* (no step); a null one is read asynchronously.  No frequency is counted
\* and check_unload is never called for it.
LoadAllValuesBitmap(r) ==
    /\ pc[r].state = "idle"
    /\ ~allCached
    /\ pc' = [pc EXCEPT ![r] = [Idle EXCEPT !.state = "readAll"]]
    /\ UNCHANGED <<resident, freq, threshold, accesses, fault, allCached, created>>

\* load_all_values_bitmap_const() makes the same steps.
LoadAllValuesBitmapConst(r) == LoadAllValuesBitmap(r)

\* The read's continuation stores all_values_bitmap ("Always cache
\* all_values_bitmap"); a read that fails is ReadFailed.
ReadAllDone(r) ==
    /\ pc[r].state = "readAll"
    /\ allCached' = TRUE
    /\ pc' = [pc EXCEPT ![r] = Idle]
    /\ UNCHANGED <<resident, freq, threshold, accesses, fault, created>>

Next ==
    \/ \E r \in Readers, b \in Bitmaps : LoadBitmap(r, b) \/ LoadConstBitmap(r, b) \/ AddToBitmap(r, b)
    \/ \E r \in Readers : CopyCached(r) \/ ReadDone(r) \/ ReadFailed(r) \/ ResetUsageFrequencies(r)
    \/ \E r \in Readers : LoadAllValuesBitmap(r) \/ LoadAllValuesBitmapConst(r) \/ ReadAllDone(r)

Spec == Init /\ [][Next]_vars
-----------------------------------------------------------------------------
\* Opened by BitMapStorage::load lazily (load_all_bitmaps false), the
\* storage never holds more bitmaps in memory than bitmap_cache_size,
\* whatever the order of the readers' accesses and of the reads'
\* completions.
ResidentWithinCache == (~created /\ ~LoadAll) => Cardinality(resident) <= CacheSize

\* The eviction rule of the cache: when an access of a bitmap used
\* strictly more than every other completes (the copy of the cached path,
\* or the store of a successful read, then check_unload), the bitmap stays
\* in memory.
HotBitmapKept ==
    [][\A r \in Readers :
         LET b       == pc[r].b
             hottest == \A c \in Bitmaps \ {b} : freq[c] < freq[b]
         IN  (CacheSize >= 1 /\ (CopyCached(r) \/ ReadDone(r)) /\ hottest) => b \in resident']_vars

\* No reader copies a bitmap through a null pointer in load_bitmap.
NoNullCopy == ~fault
=============================================================================
