CONSTANTS
    t1 = t1
    t2 = t2
    t3 = t3
    w1 = w1
    w2 = w2
    Tasks = {t1, t2, t3}
    Cancellable = {t1, t2}
    Main = t1
    Workers = {w1}
    MaxWorkerCount = 1
    NoJob = NoJob
    NoWorker = NoWorker
    Signal = Signal
SPECIFICATION Spec
INVARIANTS JobOutlivesItsRun WorkConserving NothingLeftBehind
PROPERTIES ContractSpec TasksConclude
CHECK_DEADLOCK FALSE
