SPECIFICATION FairSpec
CONSTANTS
    Threads = {t1, t2, t3}
    NoThread = NoThread
    Orphan = Orphan
    Faults = {}
    CounterMod = 4
INVARIANTS
    ReaderWriterExclusion
