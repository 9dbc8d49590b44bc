CONSTANTS
    Threads = {t1, t2, t3, t4}
    QThreads = {t1, t2, t3}
    Nobody = Nobody
    Permits = 2
    MaxPhases = 3
    Values = {a, b}
    MaxLen = 3
    MValues = {a, b}
    NoMValue = NoMValue
SPECIFICATION Spec
INVARIANTS
    NoLostFutexWakeup PermitsConserved NobodyPassesEarly
    NoLostNotification SleepersHaveReason
PROPERTIES
    MutexIsLock MutexProgress SpinIsLock
    EveryCallReturns ElementsServed ValuesHandedOver
