\* Safety: two producer transactions, two relay replicas, a scheduled event
\* that fans out to two queues and an interactive one.
CONSTANTS
    e1 = e1
    e2 = e2
    q1 = q1
    q2 = q2
    i1 = i1
    i2 = i2
    p1 = p1
    p2 = p2
    Event = {e1, e2}
    Queue = {q1, q2}
    QueuesFor <- MCQueuesFor
    Interactive = {e2}
    Scheduled = {e1}
    Producer = {p1, p2}
    Relay = {i1, i2}
    BatchLimit = 2
    MaxRetry = 1
    MaxRows = 2
    MaxAborts = 1
    MaxZombies = 1
SPECIFICATION Spec
SYMMETRY RelaySymmetry
INVARIANTS
    TypeOK
    EffectAtMostOnce
    PublishedNeverLost
    NeverEarly
    ConsumersReached
CHECK_DEADLOCK FALSE
