SPECIFICATION Spec
CONSTANTS
    Senders = {s1, s2}
    Tasks = {t1, t2, t3}
    MaxCapacity = 2
    StreamCapacity = 0
    MaxDiff = 1
    MaxWakers = 1
    Outcomes = {"done", "error", "panic"}
    NoSender = NoSender
    NoTask = NoTask
SYMMETRY Symmetry
CHECK_DEADLOCK FALSE
INVARIANTS
    CapacityExact
PROPERTIES
    WorkSpec
