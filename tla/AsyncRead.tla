------------------------------ MODULE AsyncRead ------------------------------
(***************************************************************************)
(* What DiskIOThreadPool::submitReadTask promises its caller: a future     *)
(* that is fulfilled once, with the job's retcode (success, an I/O error,  *)
(* or -EAGAIN when the executor's request queue is full).  A caller waits  *)
(* on its future before it submits again.  Nothing is promised about when  *)
(* a future is fulfilled; several may be fulfilled by one reap.            *)
(***************************************************************************)
CONSTANTS Callers

VARIABLE future   \* future[t]: "nojob", "none" while pending, or the retcode

Retcodes == {"ok", "err", "eagain"}

Pending == {t \in Callers : future[t] = "none"}

Init == future = [t \in Callers |-> "nojob"]

\* A caller whose last future holds a value submits a new job.
Submit(t) ==
    /\ future[t] # "none"
    /\ future' = [future EXCEPT ![t] = "none"]

\* Some pending futures get their values.
Fulfil ==
    \E S \in SUBSET Pending \ {{}}, v \in [Pending -> Retcodes] :
        future' = [t \in Callers |-> IF t \in S THEN v[t] ELSE future[t]]

Next == Fulfil \/ \E t \in Callers : Submit(t)

Spec == Init /\ [][Next]_future
==============================================================================
