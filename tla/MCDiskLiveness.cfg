SPECIFICATION FairSpec
CONSTANTS
    Senders = {s1}
    Tasks = {t1, t2}
    MaxCapacity = 2
    StreamCapacity = 0
    MaxDiff = 1
    MaxWakers = 1
    Outcomes = {"done", "error"}
    NoSender = NoSender
    NoTask = NoTask
PROPERTIES
    AcceptedIsAnswered
    
CHECK_DEADLOCK FALSE
