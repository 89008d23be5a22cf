SPECIFICATION FairSpec
CONSTANTS
    Senders = {s1}
    Tasks = {t1, t2}
    MaxCapacity = 1
    StreamCapacity = 1
    MaxDiff = 0
    MaxWakers = 1
    Outcomes = {"done"}
    NoSender = NoSender
    NoTask = NoTask
PROPERTY BackpressureUnblocks
CHECK_DEADLOCK FALSE
