\* Two reader threads racing to push onto a request queue of one job.
CONSTANTS
    s1 = s1
    s2 = s2
    s3 = s3
    c1 = c1
    c2 = c2
    Submitters <- MCSubmitters
    Cores <- MCCores
    QueueDepth = 1
    MinSubmitSize = 1
SPECIFICATION Spec
INVARIANT QueueCountExact
