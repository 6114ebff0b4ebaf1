SPECIFICATION Spec
CONSTANTS
    q1 = q1
    q2 = q2
    Queues = {q1, q2}
    MaxSignals = 2
INVARIANTS
    NeverPanics
