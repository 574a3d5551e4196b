------------------------------ MODULE IOExecutor ------------------------------
(***************************************************************************)
(* The asynchronous disk I/O of the iosubsystem: DiskIOThreadPool keeps,   *)
(* per CPU core, one IOExecutor (a Linux AIO io_context of queueDepth_     *)
(* slots and a bounded lock-free request queue), one eventfd, and one      *)
(* event-handler thread that reaps completions when the eventfd fires.     *)
(*                                                                         *)
(* Reader threads submit jobs (submitReadTask, submitTask) and, while no   *)
(* io_context slot is free, reap completions themselves                    *)
(* (ProcessRequestQueue's wait, handleDiskCompletion).  Any thread that    *)
(* runs ProcessRequestQueue takes a slot (numAvailable_), takes a job from *)
(* the queue (requestQueueSize_) and finally hands its batch to io_submit. *)
(*                                                                         *)
(* A job is identified with the thread that submitted it: a thread waits   *)
(* for its read before it submits another.  A core stands for its          *)
(* event-handler thread.  Buffers, offsets and sizes are left out; the     *)
(* kernel completes a job with success or with an error (a negative res or *)
(* a short transfer), and io_submit may accept only a prefix of a batch.   *)
(***************************************************************************)
EXTENDS Naturals, Sequences, FiniteSets, FiniteSetsExt

CONSTANTS
    Submitters,    \* threads calling DiskIOThreadPool::submitReadTask
    Cores,         \* cores; each has an IOExecutor, an eventfd and a handler thread
    QueueDepth,    \* Config::queueDepth_ (and maxRequestQueueSize_, setDerivedParam)
    MinSubmitSize  \* minSubmitSize_

ASSUME /\ Submitters \cap Cores = {}
       /\ QueueDepth \in Nat \ {0}
       /\ MinSubmitSize \in 1 .. QueueDepth   \* setMinSubmitSize's bound check

VARIABLES
    avail,     \* avail[e]: ctx_.numAvailable_, free io_context slots of executor e
    reqSize,   \* reqSize[e]: requestQueueSize_
    queue,     \* queue[e]: requestQueue_, jobs [job, fd] not yet given to io_submit
    kernel,    \* kernel[e]: iocbs io_submit accepted that have not completed
    ring,      \* ring[e]: completion events not yet taken by io_getevents
    efd,       \* efd[c]: 1 when core c's eventfd counter is above 0, else 0
    io,        \* io[t]: where thread t is, with its locals
    result     \* result[t]: the retcode of t's last FilerJobResult, "none" until
               \* reset() fulfils its promise, "nojob" before t's first job

ioVars == <<avail, reqSize, queue, kernel, ring, efd, io, result>>

Threads == Submitters \cup Cores

\* A thread's locals: its executor and eventfd, the iocbs it has prepared
\* (post_iocb), the label ProcessRequestQueue returns to, and
\* prevNumAvailable of submitTask.
Local(at, e, f) == [at |-> at, exec |-> e, fd |-> f, batch |-> <<>>, ret |-> "idle", prev |-> 0]

\* The core a thread's locals name while it is outside the executor.
Home(t) == IF t \in Cores THEN t ELSE CHOOSE c \in Cores : TRUE

\* A thread outside the executor, its locals gone.
Outside(t) == Local("idle", Home(t), Home(t))

JobsIn(s) == {s[i].job : i \in 1 .. Len(s)}

\* FilerCtx::isEmpty: no free io_context slot.
IsEmpty(e) == avail[e] = 0

\* Config::maxRequestQueueSize_, set by setDerivedParam.
MaxRequestQueueSize == QueueDepth

\* EventFD::readfd: the counter is read and cleared; with a counter of 0
\* the non-blocking read fails with EAGAIN and nothing is done.
ReadFd(c) ==
    /\ efd[c] > 0
    /\ efd' = [efd EXCEPT ![c] = 0]
-----------------------------------------------------------------------------
(* handleDiskCompletion: io_getevents takes every event of the io_context  *)
(* (at most queueDepth_, all there are), and ProcessCallbacks sets each    *)
(* job's retcode, resets it (fulfilling its promise) and frees its slot.   *)
Reap(e) ==
    /\ result' = [t \in Submitters |->
                    IF \E ev \in ring[e] : ev.job = t
                    THEN (CHOOSE ev \in ring[e] : ev.job = t).res
                    ELSE result[t]]
    /\ avail' = [avail EXCEPT ![e] = @ + Cardinality(ring[e])]
    /\ ring' = [ring EXCEPT ![e] = {}]

\* Leaving ProcessRequestQueue: back to the caller, batch released.
Return(t) ==
    [io EXCEPT ![t] = IF io[t].ret = "idle" THEN Outside(t) ELSE [io[t] EXCEPT !.at = io[t].ret, !.batch = <<>>]]
-----------------------------------------------------------------------------
\* EventFD::EventFD: eventfd(0, EFD_NONBLOCK), a counter of 0 whose read
\* fails with EAGAIN instead of blocking.
EventFDInit == [c \in Cores |-> 0]

Init ==
    /\ avail = [e \in Cores |-> QueueDepth]     \* FilerCtx::init
    /\ reqSize = [e \in Cores |-> 0]
    /\ queue = [e \in Cores |-> <<>>]
    /\ kernel = [e \in Cores |-> {}]
    /\ ring = [e \in Cores |-> {}]
    /\ efd = EventFDInit
    /\ io = [t \in Threads |-> Outside(t)]
    /\ result = [t \in Submitters |-> "nojob"]

\* The start of submitTask's asynchronous path: prevNumAvailable is read,
\* and while numAvailable_ < minSubmitSize_ the thread first runs
\* ProcessRequestQueue(INLINE).
AsyncStart(e, f) ==
    IF avail[e] < MinSubmitSize
    THEN [Local("prq_wait", e, f) EXCEPT !.ret = "pre_reap", !.prev = avail[e]]
    ELSE Local("full", e, f)

\* DiskIOThreadPool::submitReadTask: getIOExecutor() and getEventFD() each
\* call GetCpuCore(), so a thread that moves to another core between the
\* two calls pairs one core's executor with another core's eventfd.  The
\* caller waits on its last future before it submits again.  The FilerJob
\* is built and prepared and submitTask starts: the executor is RUNNING
\* while the pool exists, and a read is never done synchronously.
SubmitRead(t) ==
    /\ io[t].at = "idle"
    /\ result[t] # "none"
    /\ \E e, f \in Cores : io' = [io EXCEPT ![t] = AsyncStart(e, f)]
    /\ result' = [result EXCEPT ![t] = "none"]
    /\ UNCHANGED <<avail, reqSize, queue, kernel, ring, efd>>

\* DiskIOThreadPool::submitWriteTask and IOExecutor::submitWriteTask: the
\* job is prepared (an offset or size that is not a multiple of 512 gets a
\* dup of the fd) and the caller's buffer copied into it.  submitTask
\* writes an unaligned job synchronously; an aligned one (BitMapStorage::
\* save writes whole 4096-byte blocks) takes the asynchronous path.
SubmitWrite(t) ==
    /\ io[t].at = "idle"
    /\ result[t] # "none"
    /\ \E e, f \in Cores, aligned \in BOOLEAN :
          io' = [io EXCEPT ![t] = IF aligned THEN AsyncStart(e, f) ELSE Local("pwrite", e, f)]
    /\ result' = [result EXCEPT ![t] = "none"]
    /\ UNCHANGED <<avail, reqSize, queue, kernel, ring, efd>>

\* doPostProcessingOfJob after retcode_ is set: reset() fulfils the
\* promise with the result, then the stats count the job.
DoPostProcessingOfJob(t, res) == result' = [result EXCEPT ![t] = res]

\* The unaligned write: pwrite on the job's fd, numSynchronous_++, retcode 0
\* when every byte was written and -errno otherwise, post-processing, and
\* submitTask returns the fulfilled future.  No slot or queue entry is used.
SyncWrite(t) ==
    /\ io[t].at = "pwrite"
    /\ \E res \in {"ok", "err"} : DoPostProcessingOfJob(t, res)
    /\ io' = [io EXCEPT ![t] = Outside(t)]
    /\ UNCHANGED <<avail, reqSize, queue, kernel, ring, efd>>

\* ... then handleDiskCompletion(-2), and the loop ends when numAvailable_
\* did not change or reached minSubmitSize_.
PreReap(t) ==
    LET e == io[t].exec
        n == avail[e] + Cardinality(ring[e])
    IN  /\ io[t].at = "pre_reap"
        /\ Reap(e)
        /\ io' = [io EXCEPT ![t] = IF n = io[t].prev \/ n >= MinSubmitSize
                                   THEN [@ EXCEPT !.at = "full", !.ret = "idle", !.prev = 0]
                                   ELSE [@ EXCEPT !.at = "prq_wait", !.prev = n]]
        /\ UNCHANGED <<reqSize, queue, kernel, efd>>

\* requestQueueSize_ >= maxRequestQueueSize_: the job gets -EAGAIN and
\* reset() fulfils its promise; otherwise it is counted.
Full(t) ==
    LET e == io[t].exec IN
    /\ io[t].at = "full"
    /\ \/ /\ reqSize[e] >= MaxRequestQueueSize
          /\ io' = [io EXCEPT ![t] = Outside(t)]
          /\ result' = [result EXCEPT ![t] = "eagain"]
       \/ /\ reqSize[e] < MaxRequestQueueSize
          /\ io' = [io EXCEPT ![t].at = "inc"]
          /\ UNCHANGED result
    /\ UNCHANGED <<avail, reqSize, queue, kernel, ring, efd>>

\* Mutation: the job is queued without being counted.
IncDropped(t) ==
    /\ io[t].at = "inc"
    /\ io' = [io EXCEPT ![t].at = "push"]
    /\ UNCHANGED <<avail, reqSize, queue, kernel, ring, efd, result>>

\* ++requestQueueSize_, before the push.
Inc(t) ==
    /\ io[t].at = "inc"
    /\ reqSize' = [reqSize EXCEPT ![io[t].exec] = @ + 1]
    /\ io' = [io EXCEPT ![t].at = "push"]
    /\ UNCHANGED <<avail, queue, kernel, ring, efd, result>>

\* requestQueue_.push(job): the fixed-size queue holds queueDepth_ jobs and
\* push returns false when it is full; submitTask ignores that result.
Push(t) ==
    LET e == io[t].exec IN
    /\ io[t].at = "push"
    /\ queue' = [queue EXCEPT ![e] = IF Len(@) < QueueDepth
                                     THEN Append(@, [job |-> t, fd |-> io[t].fd])
                                     ELSE @]
    /\ io' = [io EXCEPT ![t].at = "post"]
    /\ UNCHANGED <<avail, reqSize, kernel, ring, efd, result>>

\* if (requestQueueSize_ >= minSubmitSize_) ProcessRequestQueue(INLINE);
\* then submitTask returns the future.
Post(t) ==
    /\ io[t].at = "post"
    /\ io' = [io EXCEPT ![t] = IF reqSize[io[t].exec] >= MinSubmitSize
                               THEN [@ EXCEPT !.at = "prq_wait", !.ret = "idle"]
                               ELSE Outside(t)]
    /\ UNCHANGED <<avail, reqSize, queue, kernel, ring, efd, result>>
-----------------------------------------------------------------------------
(* ProcessRequestQueue, run by submitters and by handler threads.          *)

\* while (ctx_.isEmpty()) handleDiskCompletion(-1): with no event ready the
\* call times out and the thread spins.
PrqWait(t) ==
    LET e == io[t].exec IN
    /\ io[t].at = "prq_wait"
    /\ \/ /\ ~IsEmpty(e)
          /\ io' = [io EXCEPT ![t].at = "prq_loop"]
          /\ UNCHANGED <<avail, ring, result>>
       \/ /\ IsEmpty(e)
          /\ ring[e] # {}
          /\ Reap(e)
          /\ UNCHANGED io
    /\ UNCHANGED <<reqSize, queue, kernel, efd>>

\* while (not ctx_.isEmpty() && requestQueueSize_)
PrqLoop(t) ==
    LET e == io[t].exec IN
    /\ io[t].at = "prq_loop"
    /\ io' = [io EXCEPT ![t].at = IF ~IsEmpty(e) /\ reqSize[e] # 0 THEN "prq_dec" ELSE "prq_submit"]
    /\ UNCHANGED <<avail, reqSize, queue, kernel, ring, efd, result>>

\* decrementNumAvailable(1) returns the previous value; when it is <= 0
\* another thread took the slot since the test, and incrementNumAvailable
\* gives it back before the loop goes on.  The decrement and the give-back
\* are one step here: the -1 they leave for a moment only lets other
\* threads leave isEmpty() waits early, and two threads alternating them
\* could keep each other's loop tests seeing -1 for ever, a schedule no
\* scheduler keeps up.
PrqDec(t) ==
    LET e == io[t].exec IN
    /\ io[t].at = "prq_dec"
    /\ \/ /\ avail[e] > 0
          /\ avail' = [avail EXCEPT ![e] = @ - 1]
          /\ io' = [io EXCEPT ![t].at = "prq_consume"]
       \/ /\ avail[e] <= 0
          /\ io' = [io EXCEPT ![t].at = "prq_loop"]
          /\ UNCHANGED avail
    /\ UNCHANGED <<reqSize, queue, kernel, ring, efd, result>>

\* consume_one: a job is taken, requestQueueSize_ decremented and its iocb
\* prepared with the job's eventfd; with no job the slot is given back and
\* the loop ends.
PrqConsume(t) ==
    LET e == io[t].exec IN
    /\ io[t].at = "prq_consume"
    /\ \/ /\ queue[e] # <<>>
          /\ queue' = [queue EXCEPT ![e] = Tail(@)]
          /\ reqSize' = [reqSize EXCEPT ![e] = @ - 1]
          /\ io' = [io EXCEPT ![t].batch = Append(@, Head(queue[e])), ![t].at = "prq_loop"]
          /\ UNCHANGED avail
       \/ /\ queue[e] = <<>>
          /\ avail' = [avail EXCEPT ![e] = @ + 1]
          /\ io' = [io EXCEPT ![t].at = "prq_submit"]
          /\ UNCHANGED <<queue, reqSize>>
    /\ UNCHANGED <<kernel, ring, efd, result>>

\* Mutation: the abort starts one iocb early, at the last one io_submit
\* accepted.
PrqSubmitAbortFromK(t) ==
    LET e == io[t].exec
        b == io[t].batch
    IN  /\ io[t].at = "prq_submit"
        /\ \E k \in 0 .. Len(b) :
              /\ kernel' = [kernel EXCEPT ![e] = @ \cup {b[i] : i \in 1 .. k}]
              /\ result' = [u \in Submitters |->
                              IF u \in JobsIn(SubSeq(b, IF k = 0 THEN 1 ELSE k, Len(b))) THEN "err" ELSE result[u]]
              /\ avail' = [avail EXCEPT ![e] = @ + (Len(b) - k)]
        /\ io' = Return(t)
        /\ UNCHANGED <<reqSize, queue, ring, efd>>

\* Mutation: the iocbs io_submit did not take are aborted, but their slots
\* are not given back.
PrqSubmitKeepsSlots(t) ==
    LET e == io[t].exec
        b == io[t].batch
    IN  /\ io[t].at = "prq_submit"
        /\ \E k \in 0 .. Len(b) :
              /\ kernel' = [kernel EXCEPT ![e] = @ \cup {b[i] : i \in 1 .. k}]
              /\ result' = [u \in Submitters |->
                              IF u \in JobsIn(SubSeq(b, k + 1, Len(b))) THEN "err" ELSE result[u]]
        /\ io' = Return(t)
        /\ UNCHANGED <<avail, reqSize, queue, ring, efd>>

\* io_submit of the batch (retried on EINTR and EAGAIN) accepts its first
\* k iocbs; every later one is aborted with retcode = io_submit's return
\* value and post-processed (reset() fulfils its promise), and the unused
\* slots are given back.
PrqSubmit(t) ==
    LET e == io[t].exec
        b == io[t].batch
    IN  /\ io[t].at = "prq_submit"
        /\ \E k \in 0 .. Len(b) :
              /\ kernel' = [kernel EXCEPT ![e] = @ \cup {b[i] : i \in 1 .. k}]
              /\ result' = [u \in Submitters |->
                              IF u \in JobsIn(SubSeq(b, k + 1, Len(b))) THEN "err" ELSE result[u]]
              /\ avail' = [avail EXCEPT ![e] = @ + (Len(b) - k)]
        /\ io' = Return(t)
        /\ UNCHANGED <<reqSize, queue, ring, efd>>
-----------------------------------------------------------------------------
(* The kernel and the event handlers.                                      *)

\* Mutation: the iocb is prepared without io_set_eventfd, so a completion
\* wakes no handler.
CompleteNoSignal(e, s) ==
    /\ \E job \in kernel[e], res \in {"ok", "err"} :
          /\ job.job = s
          /\ kernel' = [kernel EXCEPT ![e] = @ \ {job}]
          /\ ring' = [ring EXCEPT ![e] = @ \cup {[job |-> job.job, res |-> res]}]
    /\ UNCHANGED <<avail, reqSize, queue, io, result, efd>>

\* The kernel completes s's iocb: the event is queued in the io_context and
\* the eventfd set by io_set_eventfd is incremented.  Only whether the
\* counter is above 0 is kept: handlerReady tests readfd's value for > 0,
\* and as io_getevents's min_nr it only bounds a wait of 1us, after which
\* every event there is is returned.
Complete(e, s) ==
    /\ \E job \in kernel[e], res \in {"ok", "err"} :
          /\ job.job = s
          /\ kernel' = [kernel EXCEPT ![e] = @ \ {job}]
          /\ ring' = [ring EXCEPT ![e] = @ \cup {[job |-> job.job, res |-> res]}]
          /\ efd' = [efd EXCEPT ![job.fd] = 1]
    /\ UNCHANGED <<avail, reqSize, queue, io, result>>

\* IOExecEventHandler::handlerReady on core c: EventFD::readfd takes and
\* clears the counter, and handleDiskCompletion(n) reaps core c's executor;
\* when it got events and a slot is free, ProcessRequestQueue(COMPLETION).
HandlerReady(c) ==
    LET n == Cardinality(ring[c]) IN
    /\ io[c].at = "idle"
    /\ ReadFd(c)
    /\ Reap(c)
    /\ io' = [io EXCEPT ![c].at = IF n > 0 /\ avail[c] + n # 0 THEN "prq_wait" ELSE "idle"]
    /\ UNCHANGED <<reqSize, queue, kernel>>

\* Every step of thread t after it has started a submission.
Step(t) ==
    \/ SyncWrite(t)
    \/ PreReap(t) \/ Full(t) \/ Inc(t) \/ Push(t) \/ Post(t)
    \/ PrqWait(t) \/ PrqLoop(t) \/ PrqDec(t) \/ PrqConsume(t) \/ PrqSubmit(t)

Next ==
    \/ \E t \in Submitters : SubmitRead(t) \/ SubmitWrite(t) \/ Step(t)
    \/ \E c \in Cores : HandlerReady(c) \/ Step(c) \/ \E s \in Submitters : Complete(c, s)

\* The successful decrementNumAvailable of a thread at a free slot.
TakeSlot(t) == PrqDec(t) /\ avail[io[t].exec] > 0

\* Threads and the handlers' event loops keep running, and the kernel
\* completes every iocb it accepted.  The
\* loop of ProcessRequestQueue is lock-free, not wait-free: a thread can
\* find a free slot, lose it to another thread's decrement, and so on for
\* ever, while the other thread's io_submit keeps failing.  No thread is
\* assumed to lose every such race: one that finds a free slot again and
\* again eventually takes it.
Fairness ==
    /\ \A t \in Threads : WF_ioVars(Step(t)) /\ SF_ioVars(TakeSlot(t))
    /\ \A c \in Cores : WF_ioVars(HandlerReady(c))
    /\ \A c \in Cores, s \in Submitters : WF_ioVars(Complete(c, s))

Spec == Init /\ [][Next]_ioVars /\ Fairness
-----------------------------------------------------------------------------
\* The io_context slots held by thread t for executor e: one taken by
\* decrementNumAvailable and not yet used or given back, and one per
\* prepared iocb.
Held(t, e) ==
    IF io[t].exec = e
    THEN Len(io[t].batch) + (IF io[t].at = "prq_consume" THEN 1 ELSE 0)
    ELSE 0

\* Every slot of every io_context is free, held by a thread between
\* decrementNumAvailable and io_submit, in the kernel, or a completion not
\* yet reaped: across racing ProcessRequestQueue loops, aborted io_submit
\* batches and reaping by submitters and handlers, no slot leaks and none
\* is counted twice.
PermitsConserved ==
    \A e \in Cores :
        avail[e] + Cardinality(kernel[e]) + Cardinality(ring[e])
            + MapThenSumSet(LAMBDA t : Held(t, e), Threads) = QueueDepth

\* requestQueueSize_ is incremented before the push "to avoid race
\* condition": a consumer never takes a job that is not yet counted, so the
\* count never falls behind the queue.
QueueCountNeverBehind == \A e \in Cores : reqSize[e] >= Len(queue[e])

\* requestQueueSize_ counts exactly the jobs in the queue and those being
\* pushed: every counted job reaches the queue.
QueueCountExact ==
    \A e \in Cores :
        reqSize[e] = Len(queue[e]) + Cardinality({t \in Submitters : io[t].exec = e /\ io[t].at = "push"})

\* A job the executor holds: queued, in a thread's batch, in the kernel, or
\* completed and not yet reaped.
InExecutor(t) ==
    \/ \E e \in Cores : t \in JobsIn(queue[e]) \/ \E ev \in kernel[e] \cup ring[e] : ev.job = t
    \/ \E u \in Threads : t \in JobsIn(io[u].batch)

\* Every job the executor holds is eventually completed: its promise is
\* fulfilled by a handler, by a submitter reaping inline, or by an abort.
JobsComplete == \A t \in Submitters : InExecutor(t) ~> result[t] # "none"

Abs == INSTANCE AsyncRead WITH Callers <- Submitters, future <- result

\* The executor implements AsyncRead: every job's promise is fulfilled at
\* most once (folly's setValue throws on a second), only after the job was
\* submitted, whether by the -EAGAIN path, an aborted io_submit, a handler
\* or a submitter reaping inline.
AsyncReadRefined == Abs!Spec
==============================================================================
