SPECIFICATION Spec
CONSTANTS
    Threads = {t1, t2, t3}
    NoThread = NoThread
    Orphan = Orphan
    Faults = {"open", "unlock", "crash"}
    CounterMod = 4
INVARIANTS
    WriterExclusion
    ReadersCounted
    ReadModeHasReader
    NoLostWakeup
PROPERTIES
    ImplementsWriterLock
CHECK_DEADLOCK FALSE
