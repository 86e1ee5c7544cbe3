SPECIFICATION FairSpec
CONSTANTS
    Sessions = {s1, s2}
    Tasks = {t1, t2, t3}
    Objects = {o1, o2, o3}
    NoSession = NoSession
    NoObject = NoObject
PROPERTIES
    EveryTaskSettles
    IsSerialExecutor
CHECK_DEADLOCK FALSE
