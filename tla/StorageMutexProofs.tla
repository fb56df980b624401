------------------------- MODULE StorageMutexProofs -------------------------
(***************************************************************************)
(* The safety of StorageMutex, for any set of threads and any faults.      *)
(***************************************************************************)
EXTENDS StorageMutex, FiniteSetTheorems, TLAPS

\* The counter's modulus is positive: there is a value to count with.
LEMMA CounterModPositive == CounterMod \in Nat /\ CounterMod > 0
  <1>1. Cardinality(Threads) \in Nat
    BY FS_CardinalityType, ThreadsAssumption
  <1> QED  BY <1>1, CounterAssumption

-----------------------------------------------------------------------------
(* Types *)

LEMMA TypeInductive == TypeOK /\ [Next]_vars => TypeOK'
  <1> SUFFICES ASSUME TypeOK, [Next]_vars PROVE TypeOK'
    OBVIOUS
  <1> USE DEF TypeOK, Locations, Goto
  <1>1. ASSUME NEW t \in Threads, NEW access \in {"READ", "WRITE"},
               Lock(t, access)
        PROVE  TypeOK'
    BY <1>1 DEF Lock
  <1>2. ASSUME NEW t \in Threads, LockStep(t) PROVE TypeOK'
    <2>1. CASE Sleep(t)  BY <2>1 DEF Sleep
    <2>2. CASE SpuriousWake(t)  BY <2>2 DEF SpuriousWake
    <2>3. CASE EnterRead(t)  BY <2>3 DEF EnterRead
    <2>4. CASE NotifyEntered(t)  BY <2>4 DEF NotifyEntered, WakeAllAnd
    <2>5. CASE CountReader(t)  BY <2>5, CounterModPositive DEF CountReader
    <2>6. CASE EnterWrite(t)  BY <2>6 DEF EnterWrite
    <2>7. CASE OpenFails(t)  BY <2>7 DEF OpenFails
    <2>8. CASE FlockFails(t)  BY <2>8 DEF FlockFails
    <2> QED  BY <1>2, <2>1, <2>2, <2>3, <2>4, <2>5, <2>6, <2>7, <2>8
             DEF LockStep
  <1>3. ASSUME NEW t \in Threads, Unwind(t) PROVE TypeOK'
    BY <1>3 DEF Unwind
  <1>4. ASSUME NEW t \in Threads, UnlockStep(t) PROVE TypeOK'
    <2>1. CASE UnlockRead(t)  BY <2>1, CounterModPositive DEF UnlockRead
    <2>2. CASE UnlockWrite(t)  BY <2>2 DEF UnlockWrite
    <2>3. CASE UnlockFails(t)  BY <2>3 DEF UnlockFails
    <2>4. CASE NotifyReleased(t)  BY <2>4 DEF NotifyReleased, WakeAllAnd
    <2> QED  BY <1>4, <2>1, <2>2, <2>3, <2>4 DEF UnlockStep
  <1>5. CASE Restart  BY <1>5, CounterModPositive DEF Restart
  <1>6. CASE UNCHANGED vars  BY <1>6 DEF vars
  <1> QED  BY <1>1, <1>2, <1>3, <1>4, <1>5, <1>6 DEF Next

\* Every variable of the lock keeps its type: in particular the reader count
\* stays inside m_activeReaders, whatever fails.
THEOREM TypeCorrect == Spec => []TypeOK
  <1>1. Init => TypeOK
    BY CounterModPositive DEF Init, TypeOK, Locations
  <1> QED  BY <1>1, TypeInductive, PTL DEF Spec

-----------------------------------------------------------------------------
(* Writers *)

\* The thread in its WRITE section is the one that holds the flock.
FlockIsWriters == \A t \in Threads : pc[t] = "writing" <=> flock = t

LEMMA FlockInductive ==
    TypeOK /\ FlockIsWriters /\ [Next]_vars => FlockIsWriters'
  <1> SUFFICES ASSUME TypeOK, FlockIsWriters, [Next]_vars
               PROVE  FlockIsWriters'
    OBVIOUS
  <1> USE ThreadsAssumption DEF TypeOK, FlockIsWriters, Goto
  <1>1. ASSUME NEW t \in Threads, NEW access \in {"READ", "WRITE"},
               Lock(t, access)
        PROVE  FlockIsWriters'
    BY <1>1 DEF Lock
  <1>2. ASSUME NEW t \in Threads, LockStep(t) PROVE FlockIsWriters'
    <2>1. CASE Sleep(t)  BY <2>1 DEF Sleep
    <2>2. CASE SpuriousWake(t)  BY <2>2 DEF SpuriousWake
    <2>3. CASE EnterRead(t)  BY <2>3 DEF EnterRead
    <2>4. CASE NotifyEntered(t)  BY <2>4 DEF NotifyEntered, WakeAllAnd
    <2>5. CASE CountReader(t)  BY <2>5 DEF CountReader
    <2>6. CASE EnterWrite(t)  BY <2>6 DEF EnterWrite
    <2>7. CASE OpenFails(t)  BY <2>7 DEF OpenFails
    <2>8. CASE FlockFails(t)  BY <2>8 DEF FlockFails
    <2> QED  BY <1>2, <2>1, <2>2, <2>3, <2>4, <2>5, <2>6, <2>7, <2>8
             DEF LockStep
  <1>3. ASSUME NEW t \in Threads, Unwind(t) PROVE FlockIsWriters'
    BY <1>3 DEF Unwind
  <1>4. ASSUME NEW t \in Threads, UnlockStep(t) PROVE FlockIsWriters'
    <2>1. CASE UnlockRead(t)  BY <2>1 DEF UnlockRead
    <2>2. CASE UnlockWrite(t)  BY <2>2 DEF UnlockWrite
    <2>3. CASE UnlockFails(t)  BY <2>3 DEF UnlockFails
    <2>4. CASE NotifyReleased(t)  BY <2>4 DEF NotifyReleased, WakeAllAnd
    <2> QED  BY <1>4, <2>1, <2>2, <2>3, <2>4 DEF UnlockStep
  <1>5. CASE Restart  BY <1>5 DEF Restart
  <1>6. CASE UNCHANGED vars  BY <1>6 DEF vars
  <1> QED  BY <1>1, <1>2, <1>3, <1>4, <1>5, <1>6 DEF Next

LEMMA FlockInvariant == Spec => []FlockIsWriters
  <1>1. Init => FlockIsWriters
    BY ThreadsAssumption DEF Init, FlockIsWriters
  <1> QED  BY <1>1, TypeCorrect, FlockInductive, PTL DEF Spec

\* At most one thread is in a WRITE section, although readers may be inside
\* with it and although lock() and unlock() may fail.
THEOREM WritersExclude == Spec => []WriterExclusion
  <1>1. FlockIsWriters => WriterExclusion
    BY DEF FlockIsWriters, WriterExclusion, Writers
  <1> QED  BY <1>1, FlockInvariant, PTL

-----------------------------------------------------------------------------
(* Readers *)

LEMMA ReadersFinite ==
    /\ IsFiniteSet(Readers)
    /\ Cardinality(Readers) \in Nat
    /\ Cardinality(Readers) < CounterMod
  <1>1. Readers \subseteq Threads
    BY DEF Readers
  <1>2. IsFiniteSet(Readers) /\ Cardinality(Readers) =< Cardinality(Threads)
    BY <1>1, FS_Subset, ThreadsAssumption
  <1>3. Cardinality(Readers) \in Nat /\ Cardinality(Threads) \in Nat
    BY <1>2, FS_CardinalityType, ThreadsAssumption
  <1> QED  BY <1>2, <1>3, CounterAssumption

\* A step that leaves the set of readers and the count alone.
LEMMA SameReaders ==
    ASSUME ReadersCounted, UNCHANGED activeReaders, Readers' = Readers
    PROVE  ReadersCounted'
  BY DEF ReadersCounted

LEMMA ReadersInductive ==
    TypeOK /\ ReadersCounted /\ [Next]_vars => ReadersCounted'
  <1> SUFFICES ASSUME TypeOK, ReadersCounted, [Next]_vars
               PROVE  ReadersCounted'
    OBVIOUS
  <1> USE DEF TypeOK, Goto
  <1>1. ASSUME NEW t \in Threads, NEW access \in {"READ", "WRITE"},
               Lock(t, access)
        PROVE  ReadersCounted'
    BY <1>1, SameReaders DEF Lock, Readers
  <1>2. ASSUME NEW t \in Threads, LockStep(t) PROVE ReadersCounted'
    <2>1. CASE Sleep(t)  BY <2>1, SameReaders DEF Sleep, Readers
    <2>2. CASE SpuriousWake(t)
      BY <2>2, SameReaders DEF SpuriousWake, Readers
    <2>3. CASE EnterRead(t)  BY <2>3, SameReaders DEF EnterRead, Readers
    <2>4. CASE NotifyEntered(t)
      BY <2>4, SameReaders DEF NotifyEntered, WakeAllAnd, Readers
    <2>5. CASE CountReader(t)
      <3>1. Readers' = Readers \union {t} /\ t \notin Readers
        BY <2>5 DEF CountReader, Readers
      <3>2. Cardinality(Readers') = Cardinality(Readers) + 1
        BY <3>1, ReadersFinite, FS_AddElement
      <3>3. Cardinality(Readers') < CounterMod
        <4>1. Readers' \subseteq Threads
          BY DEF Readers
        <4>2. Cardinality(Readers') =< Cardinality(Threads)
          BY <4>1, FS_Subset, ThreadsAssumption
        <4>3. Cardinality(Threads) \in Nat
          BY FS_CardinalityType, ThreadsAssumption
        <4> QED  BY <4>2, <4>3, <3>2, ReadersFinite, CounterAssumption
      <3> QED  BY <2>5, <3>2, <3>3, ReadersFinite, CounterModPositive
               DEF CountReader, ReadersCounted
    <2>6. CASE EnterWrite(t)  BY <2>6, SameReaders DEF EnterWrite, Readers
    <2>7. CASE OpenFails(t)  BY <2>7, SameReaders DEF OpenFails, Readers
    <2>8. CASE FlockFails(t)  BY <2>8, SameReaders DEF FlockFails, Readers
    <2> QED  BY <1>2, <2>1, <2>2, <2>3, <2>4, <2>5, <2>6, <2>7, <2>8
             DEF LockStep
  <1>3. ASSUME NEW t \in Threads, Unwind(t) PROVE ReadersCounted'
    BY <1>3, SameReaders DEF Unwind, Readers
  <1>4. ASSUME NEW t \in Threads, UnlockStep(t) PROVE ReadersCounted'
    <2>1. CASE UnlockRead(t)
      <3>1. Readers' = Readers \ {t} /\ t \in Readers
        BY <2>1 DEF UnlockRead, Readers
      <3>2. Cardinality(Readers') = Cardinality(Readers) - 1
        BY <3>1, ReadersFinite, FS_RemoveElement
      <3>3. Cardinality(Readers) # 0
        BY <3>1, ReadersFinite, FS_EmptySet
      <3>4. (activeReaders + CounterMod - 1) % CounterMod = activeReaders - 1
        <4>1. activeReaders \in Nat /\ activeReaders > 0
          BY <3>3, ReadersFinite DEF ReadersCounted
        <4>2. activeReaders - 1 \in 0 .. (CounterMod - 1)
          BY <4>1, ReadersFinite, CounterModPositive DEF ReadersCounted
        <4> QED  BY <4>1, <4>2, CounterModPositive
      <3> QED  BY <2>1, <3>2, <3>4 DEF UnlockRead, ReadersCounted
    <2>2. CASE UnlockWrite(t)  BY <2>2, SameReaders DEF UnlockWrite, Readers
    <2>3. CASE UnlockFails(t)  BY <2>3, SameReaders DEF UnlockFails, Readers
    <2>4. CASE NotifyReleased(t)
      BY <2>4, SameReaders DEF NotifyReleased, WakeAllAnd, Readers
    <2> QED  BY <1>4, <2>1, <2>2, <2>3, <2>4 DEF UnlockStep
  <1>5. CASE Restart
    <2>1. Readers' = {}
      BY <1>5 DEF Restart, Readers
    <2> QED  BY <1>5, <2>1, FS_EmptySet DEF Restart, ReadersCounted
  <1>6. CASE UNCHANGED vars
    BY <1>6, SameReaders DEF vars, Readers
  <1> QED  BY <1>1, <1>2, <1>3, <1>4, <1>5, <1>6 DEF Next

\* The count is exact, so it never wraps and never drifts.
THEOREM ReadersAreCounted == Spec => []ReadersCounted
  <1>1. Init => ReadersCounted
    <2>1. ASSUME Init PROVE Readers = {}
      BY <2>1 DEF Init, Readers
    <2> QED  BY <2>1, FS_EmptySet DEF Init, ReadersCounted
  <1> QED  BY <1>1, TypeCorrect, ReadersInductive, PTL DEF Spec

LEMMA ReadModeInductive ==
    TypeOK /\ ReadersCounted /\ ReadModeHasReader /\ [Next]_vars
        => ReadModeHasReader'
  <1> SUFFICES ASSUME TypeOK, ReadersCounted, ReadModeHasReader, [Next]_vars
               PROVE  ReadModeHasReader'
    OBVIOUS
  <1> USE DEF TypeOK, ReadModeHasReader, Goto
  <1>1. ASSUME NEW t \in Threads, NEW access \in {"READ", "WRITE"},
               Lock(t, access)
        PROVE  ReadModeHasReader'
    BY <1>1 DEF Lock
  <1>2. ASSUME NEW t \in Threads, LockStep(t) PROVE ReadModeHasReader'
    <2>1. CASE Sleep(t)  BY <2>1 DEF Sleep
    <2>2. CASE SpuriousWake(t)  BY <2>2 DEF SpuriousWake
    <2>3. CASE EnterRead(t)  BY <2>3 DEF EnterRead
    <2>4. CASE NotifyEntered(t)
      <3>1. pc'[t] = "counting"
        BY <2>4 DEF NotifyEntered, WakeAllAnd
      <3> QED  BY <3>1
    <2>5. CASE CountReader(t)  BY <2>5 DEF CountReader
    <2>6. CASE EnterWrite(t)  BY <2>6 DEF EnterWrite
    <2>7. CASE OpenFails(t)  BY <2>7 DEF OpenFails
    <2>8. CASE FlockFails(t)  BY <2>8 DEF FlockFails
    <2> QED  BY <1>2, <2>1, <2>2, <2>3, <2>4, <2>5, <2>6, <2>7, <2>8
             DEF LockStep
  <1>3. ASSUME NEW t \in Threads, Unwind(t) PROVE ReadModeHasReader'
    BY <1>3 DEF Unwind
  <1>4. ASSUME NEW t \in Threads, UnlockStep(t) PROVE ReadModeHasReader'
    <2>1. CASE UnlockRead(t)
      <3>1. SUFFICES ASSUME currentAccess' = "READ"
                     PROVE  \E u \in Threads : pc'[u] = "reading"
        OBVIOUS
      <3>2. activeReaders' # 0
        BY <2>1, <3>1 DEF UnlockRead
      <3>3. Readers' # {}
        <4>1. ReadersCounted'
          BY ReadersInductive
        <4> QED  BY <3>2, <4>1, FS_EmptySet DEF ReadersCounted
      <3> QED  BY <3>3 DEF Readers
    <2>2. CASE UnlockWrite(t)  BY <2>2 DEF UnlockWrite
    <2>3. CASE UnlockFails(t)  BY <2>3 DEF UnlockFails
    <2>4. CASE NotifyReleased(t)  BY <2>4 DEF NotifyReleased, WakeAllAnd
    <2> QED  BY <1>4, <2>1, <2>2, <2>3, <2>4 DEF UnlockStep
  <1>5. CASE Restart  BY <1>5 DEF Restart
  <1>6. CASE UNCHANGED vars  BY <1>6 DEF vars
  <1> QED  BY <1>1, <1>2, <1>3, <1>4, <1>5, <1>6 DEF Next

\* The mode READ is never left behind: some reader will come to reset it.
THEOREM ReadModeIsOwned == Spec => []ReadModeHasReader
  <1>1. Init => ReadModeHasReader
    BY DEF Init, ReadModeHasReader
  <1> QED  BY <1>1, TypeCorrect, ReadersAreCounted, ReadModeInductive, PTL
           DEF Spec

-----------------------------------------------------------------------------
(* Wake-ups *)

LEMMA WakeupInductive ==
    TypeOK /\ NoLostWakeup /\ [Next]_vars => NoLostWakeup'
  <1> SUFFICES ASSUME TypeOK, NoLostWakeup, [Next]_vars PROVE NoLostWakeup'
    OBVIOUS
  <1> USE DEF TypeOK, NoLostWakeup, CanEnter, Goto
  <1>1. ASSUME NEW t \in Threads, NEW access \in {"READ", "WRITE"},
               Lock(t, access)
        PROVE  NoLostWakeup'
    BY <1>1 DEF Lock
  <1>2. ASSUME NEW t \in Threads, LockStep(t) PROVE NoLostWakeup'
    <2>1. CASE Sleep(t)  BY <2>1 DEF Sleep
    <2>2. CASE SpuriousWake(t)  BY <2>2 DEF SpuriousWake
    <2>3. CASE EnterRead(t)
      <3>1. pc'[t] = "entered"
        BY <2>3 DEF EnterRead
      <3> QED  BY <3>1
    <2>4. CASE NotifyEntered(t)
      <3>1. \A u \in Threads : pc'[u] \notin {"asleepRead", "asleepWrite"}
        BY <2>4 DEF NotifyEntered, WakeAllAnd
      <3> QED  BY <3>1
    <2>5. CASE CountReader(t)  BY <2>5 DEF CountReader
    <2>6. CASE EnterWrite(t)  BY <2>6 DEF EnterWrite
    <2>7. CASE OpenFails(t)  BY <2>7 DEF OpenFails
    <2>8. CASE FlockFails(t)  BY <2>8 DEF FlockFails
    <2> QED  BY <1>2, <2>1, <2>2, <2>3, <2>4, <2>5, <2>6, <2>7, <2>8
             DEF LockStep
  <1>3. ASSUME NEW t \in Threads, Unwind(t) PROVE NoLostWakeup'
    BY <1>3 DEF Unwind
  <1>4. ASSUME NEW t \in Threads, UnlockStep(t) PROVE NoLostWakeup'
    <2>1. CASE UnlockRead(t) \/ UnlockWrite(t)
      <3>1. pc'[t] = "released"
        BY <2>1 DEF UnlockRead, UnlockWrite
      <3> QED  BY <3>1
    <2>2. CASE UnlockFails(t)  BY <2>2 DEF UnlockFails
    <2>3. CASE NotifyReleased(t)
      <3>1. \A u \in Threads : pc'[u] \notin {"asleepRead", "asleepWrite"}
        BY <2>3 DEF NotifyReleased, WakeAllAnd
      <3> QED  BY <3>1
    <2> QED  BY <1>4, <2>1, <2>2, <2>3 DEF UnlockStep
  <1>5. CASE Restart  BY <1>5 DEF Restart
  <1>6. CASE UNCHANGED vars  BY <1>6 DEF vars
  <1> QED  BY <1>1, <1>2, <1>3, <1>4, <1>5, <1>6 DEF Next

\* A thread sleeps on an open lock only while a notify_all is still to come.
THEOREM WakeupsAreNotLost == Spec => []NoLostWakeup
  <1>1. Init => NoLostWakeup
    BY DEF Init, NoLostWakeup
  <1> QED  BY <1>1, TypeCorrect, WakeupInductive, PTL DEF Spec

-----------------------------------------------------------------------------
(* A lock nobody uses is open, when open() and unlock() do not fail. *)

\* The mode WRITE has a writer who will reset it.
WriteModeHasWriter ==
    /\ flock # Orphan
    /\ currentAccess = "WRITE" => \E t \in Threads : pc[t] = "writing"

LEMMA WriteModeInductive ==
    ASSUME "open" \notin Faults, "unlock" \notin Faults
    PROVE  TypeOK /\ FlockIsWriters /\ WriteModeHasWriter /\ [Next]_vars
               => WriteModeHasWriter'
  <1> SUFFICES ASSUME TypeOK, FlockIsWriters, WriteModeHasWriter, [Next]_vars
               PROVE  WriteModeHasWriter'
    OBVIOUS
  <1> USE ThreadsAssumption DEF TypeOK, WriteModeHasWriter, Goto
  <1>1. ASSUME NEW t \in Threads, NEW access \in {"READ", "WRITE"},
               Lock(t, access)
        PROVE  WriteModeHasWriter'
    BY <1>1 DEF Lock
  <1>2. ASSUME NEW t \in Threads, LockStep(t) PROVE WriteModeHasWriter'
    <2>1. CASE Sleep(t)  BY <2>1 DEF Sleep
    <2>2. CASE SpuriousWake(t)  BY <2>2 DEF SpuriousWake
    <2>3. CASE EnterRead(t)  BY <2>3 DEF EnterRead
    <2>4. CASE NotifyEntered(t)  BY <2>4 DEF NotifyEntered, WakeAllAnd
    <2>5. CASE CountReader(t)  BY <2>5 DEF CountReader
    <2>6. CASE EnterWrite(t)  BY <2>6 DEF EnterWrite
    <2>7. CASE OpenFails(t)  BY <2>7 DEF OpenFails
    <2>8. CASE FlockFails(t)
      <3>1. flock \in Threads /\ pc[flock] = "writing"
        BY <2>8 DEF FlockFails, FlockIsWriters
      <3> QED  BY <2>8, <3>1 DEF FlockFails
    <2> QED  BY <1>2, <2>1, <2>2, <2>3, <2>4, <2>5, <2>6, <2>7, <2>8
             DEF LockStep
  <1>3. ASSUME NEW t \in Threads, Unwind(t) PROVE WriteModeHasWriter'
    BY <1>3 DEF Unwind
  <1>4. ASSUME NEW t \in Threads, UnlockStep(t) PROVE WriteModeHasWriter'
    <2>1. CASE UnlockRead(t)  BY <2>1 DEF UnlockRead
    <2>2. CASE UnlockWrite(t)  BY <2>2 DEF UnlockWrite
    <2>3. CASE UnlockFails(t)  BY <2>3 DEF UnlockFails
    <2>4. CASE NotifyReleased(t)  BY <2>4 DEF NotifyReleased, WakeAllAnd
    <2> QED  BY <1>4, <2>1, <2>2, <2>3, <2>4 DEF UnlockStep
  <1>5. CASE Restart  BY <1>5 DEF Restart
  <1>6. CASE UNCHANGED vars  BY <1>6 DEF vars
  <1> QED  BY <1>1, <1>2, <1>3, <1>4, <1>5, <1>6 DEF Next

\* With open(), flock(LOCK_UN) and close() that succeed, whatever the
\* interleaving of readers and writers, the lock is open when nobody uses it.
\* A crash is harmless; a failing open() is not (README, section 3).
THEOREM QuiescentLockIsOpen ==
    ASSUME "open" \notin Faults, "unlock" \notin Faults
    PROVE  Spec => []QuiescentIsOpen
  <1>1. Init => WriteModeHasWriter
    BY ThreadsAssumption DEF Init, WriteModeHasWriter
  <1>2. Spec => []WriteModeHasWriter
    BY <1>1, TypeCorrect, FlockInvariant, WriteModeInductive, PTL DEF Spec
  <1>3. TypeOK /\ ReadModeHasReader /\ WriteModeHasWriter => QuiescentIsOpen
    BY DEF TypeOK, ReadModeHasReader, WriteModeHasWriter, QuiescentIsOpen
  <1> QED  BY <1>2, <1>3, TypeCorrect, ReadModeIsOwned, PTL

-----------------------------------------------------------------------------
(* Mutex::Write implements WriterLock. *)

\* The writer of the abstract lock.
WriteHolder == IF flock = Orphan THEN NoThread ELSE flock
WriteWaiting == {t \in Threads : pc[t] \in {"wantWrite", "asleepWrite"}}

\* A step that the abstract lock does not see.
LEMMA StutterStep ==
    ASSUME UNCHANGED flock, WriteWaiting' = WriteWaiting
    PROVE  [Writer!Next]_(Writer!vars)
  BY DEF Writer!vars, WriteWaiting

LEMMA StepSimulation ==
    TypeOK /\ FlockIsWriters /\ [Next]_vars => [Writer!Next]_(Writer!vars)
  <1> SUFFICES ASSUME TypeOK, FlockIsWriters, [Next]_vars
               PROVE  [Writer!Next]_(Writer!vars)
    OBVIOUS
  <1> USE ThreadsAssumption DEF TypeOK, Goto
  <1>1. ASSUME NEW t \in Threads, NEW access \in {"READ", "WRITE"},
               Lock(t, access)
        PROVE  [Writer!Next]_(Writer!vars)
    <2>1. CASE access = "READ"
      BY <1>1, <2>1, StutterStep DEF Lock, WriteWaiting
    <2>2. CASE access = "WRITE"
      <3>1. WriteWaiting' = WriteWaiting \union {t}
        BY <1>1, <2>2 DEF Lock, WriteWaiting
      <3>2. t # WriteHolder
        BY <1>1 DEF Lock, WriteHolder, FlockIsWriters
      <3>3. Writer!Request(t)
        BY <1>1, <3>1, <3>2
        DEF Lock, Writer!Request, WriteHolder, WriteWaiting
      <3> QED  BY <3>3 DEF Writer!Next
    <2> QED  BY <2>1, <2>2
  <1>2. ASSUME NEW t \in Threads, LockStep(t)
        PROVE  [Writer!Next]_(Writer!vars)
    <2>1. CASE Sleep(t)  BY <2>1, StutterStep DEF Sleep, WriteWaiting
    <2>2. CASE SpuriousWake(t)
      BY <2>2, StutterStep DEF SpuriousWake, WriteWaiting
    <2>3. CASE EnterRead(t)  BY <2>3, StutterStep DEF EnterRead, WriteWaiting
    <2>4. CASE NotifyEntered(t)
      BY <2>4, StutterStep DEF NotifyEntered, WakeAllAnd, WriteWaiting
    <2>5. CASE CountReader(t)
      BY <2>5, StutterStep DEF CountReader, WriteWaiting
    <2>6. CASE EnterWrite(t)
      <3>1. WriteWaiting' = WriteWaiting \ {t} /\ t \in WriteWaiting
        BY <2>6 DEF EnterWrite, WriteWaiting
      <3>2. WriteHolder = NoThread /\ WriteHolder' = t
        BY <2>6 DEF EnterWrite, WriteHolder
      <3>3. Writer!Acquire(t)
        BY <3>1, <3>2 DEF Writer!Acquire, WriteHolder, WriteWaiting
      <3> QED  BY <3>3 DEF Writer!Next
    <2>7. CASE OpenFails(t) \/ FlockFails(t)
      <3>1. WriteWaiting' = WriteWaiting \ {t} /\ t \in WriteWaiting
        BY <2>7 DEF OpenFails, FlockFails, WriteWaiting
      <3>2. flock' = flock
        BY <2>7 DEF OpenFails, FlockFails
      <3>3. Writer!Refuse(t)
        BY <3>1, <3>2 DEF Writer!Refuse, WriteWaiting
      <3> QED  BY <3>3 DEF Writer!Next
    <2> QED  BY <1>2, <2>1, <2>2, <2>3, <2>4, <2>5, <2>6, <2>7 DEF LockStep
  <1>3. ASSUME NEW t \in Threads, Unwind(t)
        PROVE  [Writer!Next]_(Writer!vars)
    BY <1>3, StutterStep DEF Unwind, WriteWaiting
  <1>4. ASSUME NEW t \in Threads, UnlockStep(t)
        PROVE  [Writer!Next]_(Writer!vars)
    <2>1. CASE UnlockRead(t)
      BY <2>1, StutterStep DEF UnlockRead, WriteWaiting
    <2>2. CASE UnlockWrite(t) \/ UnlockFails(t)
      <3>1. WriteWaiting' = WriteWaiting
        BY <2>2 DEF UnlockWrite, UnlockFails, WriteWaiting
      <3>2. WriteHolder = t /\ WriteHolder' = NoThread
        BY <2>2 DEF UnlockWrite, UnlockFails, WriteHolder, FlockIsWriters
      <3>3. Writer!Release(t)
        BY <3>1, <3>2 DEF Writer!Release, WriteHolder, WriteWaiting
      <3> QED  BY <3>3 DEF Writer!Next
    <2>3. CASE NotifyReleased(t)
      BY <2>3, StutterStep DEF NotifyReleased, WakeAllAnd, WriteWaiting
    <2> QED  BY <1>4, <2>1, <2>2, <2>3 DEF UnlockStep
  <1>5. CASE Restart
    <2>1. WriteWaiting' = {} /\ WriteHolder' = NoThread
      BY <1>5 DEF Restart, WriteWaiting, WriteHolder
    <2> QED  BY <2>1 DEF Writer!Next, Writer!Restart, WriteWaiting, WriteHolder
  <1>6. CASE UNCHANGED vars
    BY <1>6, StutterStep DEF vars, WriteWaiting
  <1> QED  BY <1>1, <1>2, <1>3, <1>4, <1>5, <1>6 DEF Next

\* Every behaviour of the lock is, for its writers, one of the abstract lock.
THEOREM WriteImplementsWriterLock == Spec => ImplementsWriterLock
  <1>1. Init => Writer!Init
    BY ThreadsAssumption DEF Init, Writer!Init
  <1> QED  BY <1>1, TypeCorrect, FlockInvariant, StepSimulation, PTL
           DEF Spec, ImplementsWriterLock, Writer!Spec

=============================================================================
