\* The routing of every published type; the pipeline itself is as small as it gets.
CONSTANTS
    e1 = e1
    e2 = e2
    q1 = q1
    q2 = q2
    i1 = i1
    i2 = i2
    p1 = p1
    p2 = p2
    Event = {e1, e2}
    Queue = {q1, q2}
    QueuesFor <- MCQueuesFor
    Interactive = {e2}
    Scheduled = {e1}
    Producer = {p1}
    Relay = {i1}
    BatchLimit = 2
    MaxRetry = 0
    MaxRows = 1
    MaxAborts = 0
    MaxZombies = 0
SPECIFICATION Spec
INVARIANTS
    EveryConsumerReached
CHECK_DEADLOCK FALSE
