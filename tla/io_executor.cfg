\* Two reader threads and one core whose executor has a single io_context
\* slot and a request queue of one job, so that threads wait for a slot,
\* reap each other's completions, race on the queue and get -EAGAIN.
CONSTANTS
    s1 = s1
    s2 = s2
    s3 = s3
    c1 = c1
    c2 = c2
    Submitters <- MCSubmitters
    Cores <- MCCores
    QueueDepth = 1
    MinSubmitSize = 1
SPECIFICATION Spec
INVARIANT PermitsConserved
INVARIANT QueueCountNeverBehind
PROPERTY JobsComplete
PROPERTY AsyncReadRefined
