---------------------------- MODULE StorageMutex ----------------------------
(***************************************************************************)
(* The process-wide readers/writer lock that every job takes around the    *)
(* group storage: fty::storage::Mutex (server/src/lib/mutex.h, mutex.cpp). *)
(*                                                                         *)
(* All Mutex objects share four statics: the access mode currently         *)
(* granted, the number of active readers, a std::mutex and a condition     *)
(* variable.  A writer also takes an exclusive flock() on the database     *)
(* file through a descriptor of its own.                                   *)
(*                                                                         *)
(* What lock() and unlock() do while they hold m_mxCurrentAccess is one    *)
(* step.  What they do after releasing it is a step of its own: the two    *)
(* notify_all() calls and, in a READ lock(), m_activeReaders++.            *)
(*                                                                         *)
(* Jobs use the lock through std::lock_guard, so a lock() that throws is   *)
(* never followed by an unlock().                                          *)
(***************************************************************************)
EXTENDS Naturals, FiniteSets

CONSTANTS
    Threads,    \* the worker threads of the pool
    NoThread,   \* nobody holds the flock
    Orphan,     \* a descriptor nobody will close holds the flock
    Faults,     \* what the environment may do: "open", "unlock", "crash"
    CounterMod  \* m_activeReaders counts modulo this (uint16_t: 65536)

ASSUME ThreadsAssumption ==
    /\ IsFiniteSet(Threads)
    /\ NoThread \notin Threads
    /\ Orphan \notin Threads
    /\ NoThread # Orphan

ASSUME FaultsAssumption == Faults \subseteq {"open", "unlock", "crash"}

ASSUME CounterAssumption ==
    CounterMod \in Nat /\ Cardinality(Threads) < CounterMod

VARIABLES
    currentAccess,  \* m_currentAccess: the mode granted, "NONE" when reset
    activeReaders,  \* m_activeReaders
    flock,          \* who holds the exclusive flock on the database file
    pc              \* where each thread is in lock() or unlock()

vars == <<currentAccess, activeReaders, flock, pc>>

(***************************************************************************)
(* Where a thread can be.                                                  *)
(*   idle        outside the lock                                          *)
(*   want...     in lock(), about to take m_mxCurrentAccess                *)
(*   asleep...   blocked in m_cvAccess.wait                                *)
(*   entered     READ granted, m_mxCurrentAccess released, to notify_all   *)
(*   counting    notified, about to do m_activeReaders++                   *)
(*   reading, writing   lock() has returned                                *)
(*   thrown      lock() has thrown                                         *)
(*   released    in unlock(), m_mxCurrentAccess released, to notify_all    *)
(***************************************************************************)
Locations == {"idle", "wantRead", "wantWrite", "asleepRead", "asleepWrite",
              "entered", "counting", "reading", "writing", "thrown",
              "released"}

Init ==
    /\ currentAccess = "NONE"
    /\ activeReaders = 0
    /\ flock = NoThread
    /\ pc = [t \in Threads |-> "idle"]

-----------------------------------------------------------------------------
(* lock() *)

\* MUTANT: a writer waits for writers only.
CanEnterBeforeReaders(access) ==
    \/ currentAccess = "NONE"
    \/ currentAccess = "READ"

\* The predicate of the condition variable.
CanEnter(access) ==
    \/ currentAccess = "NONE"
    \/ currentAccess = "READ" /\ access = "READ"

Goto(t, loc) == pc' = [pc EXCEPT ![t] = loc]

\* notify_all: every sleeper goes back to evaluating the predicate.
WakeAllAnd(t, loc) ==
    pc' = [u \in Threads |->
              IF u = t THEN loc
              ELSE IF pc[u] = "asleepRead" THEN "wantRead"
              ELSE IF pc[u] = "asleepWrite" THEN "wantWrite"
              ELSE pc[u]]

\* A thread calls Read::lock() or Write::lock().
Lock(t, access) ==
    /\ pc[t] = "idle"
    /\ Goto(t, IF access = "READ" THEN "wantRead" ELSE "wantWrite")
    /\ UNCHANGED <<currentAccess, activeReaders, flock>>

\* The predicate is false: release m_mxCurrentAccess and sleep, atomically.
Sleep(t) ==
    /\ \/ pc[t] = "wantRead" /\ ~CanEnter("READ") /\ Goto(t, "asleepRead")
       \/ pc[t] = "wantWrite" /\ ~CanEnter("WRITE") /\ Goto(t, "asleepWrite")
    /\ UNCHANGED <<currentAccess, activeReaders, flock>>

\* A condition variable may wake a thread that nobody notified.
SpuriousWake(t) ==
    /\ \/ pc[t] = "asleepRead" /\ Goto(t, "wantRead")
       \/ pc[t] = "asleepWrite" /\ Goto(t, "wantWrite")
    /\ UNCHANGED <<currentAccess, activeReaders, flock>>

\* READ is granted and m_mxCurrentAccess released: the thread is not yet
\* counted among the active readers.
EnterRead(t) ==
    /\ pc[t] = "wantRead"
    /\ CanEnter("READ")
    /\ currentAccess' = "READ"
    /\ Goto(t, "entered")
    /\ UNCHANGED <<activeReaders, flock>>

NotifyEntered(t) ==
    /\ pc[t] = "entered"
    /\ WakeAllAnd(t, "counting")
    /\ UNCHANGED <<currentAccess, activeReaders, flock>>

\* MUTANT: the reader is counted by lock() and by Read::lock().
CountReaderTwice(t) ==
    /\ pc[t] = "counting"
    /\ activeReaders' = activeReaders + 2
    /\ Goto(t, "reading")
    /\ UNCHANGED <<currentAccess, flock>>

CountReader(t) ==
    /\ pc[t] = "counting"
    /\ activeReaders' = (activeReaders + 1) % CounterMod
    /\ Goto(t, "reading")
    /\ UNCHANGED <<currentAccess, flock>>

\* MUTANT: the flock is not taken.
EnterWriteWithoutFlock(t) ==
    /\ pc[t] = "wantWrite"
    /\ CanEnter("WRITE")
    /\ currentAccess' = "WRITE"
    /\ flock' = t
    /\ Goto(t, "writing")
    /\ UNCHANGED activeReaders

\* WRITE is granted, the database file opened and the flock taken.
EnterWrite(t) ==
    /\ pc[t] = "wantWrite"
    /\ CanEnter("WRITE")
    /\ flock = NoThread
    /\ currentAccess' = "WRITE"
    /\ flock' = t
    /\ Goto(t, "writing")
    /\ UNCHANGED activeReaders

\* open() fails: lock() throws, and leaves the mode it has already set.
OpenFails(t) ==
    /\ "open" \in Faults
    /\ pc[t] = "wantWrite"
    /\ CanEnter("WRITE")
    /\ currentAccess' = "WRITE"
    /\ Goto(t, "thrown")
    /\ UNCHANGED <<activeReaders, flock>>

\* flock(LOCK_EX | LOCK_NB) fails because another descriptor holds the lock:
\* lock() throws, and leaves the mode it has already set.
FlockFails(t) ==
    /\ pc[t] = "wantWrite"
    /\ CanEnter("WRITE")
    /\ flock # NoThread
    /\ currentAccess' = "WRITE"
    /\ Goto(t, "thrown")
    /\ UNCHANGED <<activeReaders, flock>>

\* The exception leaves the scope of the lock_guard: no unlock() follows.
Unwind(t) ==
    /\ pc[t] = "thrown"
    /\ Goto(t, "idle")
    /\ UNCHANGED <<currentAccess, activeReaders, flock>>

-----------------------------------------------------------------------------
(* unlock() *)

\* MUTANT: the count is tested before it is decremented.
UnlockReadTestsFirst(t) ==
    /\ pc[t] = "reading"
    /\ activeReaders' = (activeReaders + CounterMod - 1) % CounterMod
    /\ currentAccess' = IF activeReaders = 0 THEN "NONE" ELSE currentAccess
    /\ Goto(t, "released")
    /\ UNCHANGED flock

\* MUTANT: a reader is discounted only while the mode is READ.
UnlockReadInReadMode(t) ==
    /\ pc[t] = "reading"
    /\ activeReaders' = IF currentAccess = "READ"
                        THEN (activeReaders + CounterMod - 1) % CounterMod
                        ELSE activeReaders
    /\ currentAccess' = IF activeReaders' = 0 THEN "NONE" ELSE currentAccess
    /\ Goto(t, "released")
    /\ UNCHANGED flock

\* The decrement and the test for 0 are one step: an increment by another
\* thread between the two has the outcome of the increment coming first.
UnlockRead(t) ==
    /\ pc[t] = "reading"
    /\ activeReaders' = (activeReaders + CounterMod - 1) % CounterMod
    /\ currentAccess' = IF activeReaders' = 0 THEN "NONE" ELSE currentAccess
    /\ Goto(t, "released")
    /\ UNCHANGED flock

UnlockWrite(t) ==
    /\ pc[t] = "writing"
    /\ flock' = NoThread
    /\ currentAccess' = "NONE"
    /\ Goto(t, "released")
    /\ UNCHANGED activeReaders

\* flock(LOCK_UN) fails and the descriptor is left behind with the lock, or
\* close() fails after the lock was released.  Both return before the mode is
\* reset, and Write::unlock() ignores the error.
UnlockFails(t) ==
    /\ "unlock" \in Faults
    /\ pc[t] = "writing"
    /\ flock' \in {Orphan, NoThread}
    /\ Goto(t, "idle")
    /\ UNCHANGED <<currentAccess, activeReaders>>

\* MUTANT: unlock() returns without notify_all.
ReleaseSilently(t) ==
    /\ pc[t] = "released"
    /\ Goto(t, "idle")
    /\ UNCHANGED <<currentAccess, activeReaders, flock>>

\* MUTANT: notify_one where notify_all is needed.
NotifyOne(t) ==
    /\ pc[t] = "released"
    /\ \/ \E u \in Threads :
             /\ pc[u] \in {"asleepRead", "asleepWrite"}
             /\ pc' = [pc EXCEPT ![t] = "idle",
                                ![u] = IF @ = "asleepRead" THEN "wantRead"
                                                           ELSE "wantWrite"]
       \/ /\ \A u \in Threads : pc[u] \notin {"asleepRead", "asleepWrite"}
          /\ Goto(t, "idle")
    /\ UNCHANGED <<currentAccess, activeReaders, flock>>

NotifyReleased(t) ==
    /\ pc[t] = "released"
    /\ WakeAllAnd(t, "idle")
    /\ UNCHANGED <<currentAccess, activeReaders, flock>>

-----------------------------------------------------------------------------
\* The process dies and starts again: the statics are fresh and the kernel
\* has closed every descriptor.
Restart ==
    /\ "crash" \in Faults
    /\ currentAccess' = "NONE"
    /\ activeReaders' = 0
    /\ flock' = NoThread
    /\ pc' = [t \in Threads |-> "idle"]

\* The steps a thread takes inside lock().
LockStep(t) ==
    \/ Sleep(t) \/ SpuriousWake(t)
    \/ EnterRead(t) \/ NotifyEntered(t) \/ CountReader(t)
    \/ EnterWrite(t) \/ OpenFails(t) \/ FlockFails(t)

\* The steps that end a critical section.
UnlockStep(t) ==
    UnlockRead(t) \/ UnlockWrite(t) \/ UnlockFails(t) \/ NotifyReleased(t)

Next ==
    \/ \E t \in Threads :
          \/ \E access \in {"READ", "WRITE"} : Lock(t, access)
          \/ LockStep(t) \/ Unwind(t) \/ UnlockStep(t)
    \/ Restart

Spec == Init /\ [][Next]_vars

\* A thread that is inside lock() or unlock() and can run keeps running, and
\* a critical section ends.  Nothing makes a thread ask for the lock, nor a
\* condition variable wake spuriously.
Progress(t) ==
    \/ Sleep(t)
    \/ EnterRead(t) \/ NotifyEntered(t) \/ CountReader(t)
    \/ EnterWrite(t) \/ OpenFails(t) \/ FlockFails(t)
    \/ Unwind(t) \/ UnlockStep(t)

FairSpec == Spec /\ \A t \in Threads : WF_vars(Progress(t))

-----------------------------------------------------------------------------
(* The lock as the writing jobs see it. *)

Writer == INSTANCE WriterLock WITH
    holder <- IF flock = Orphan THEN NoThread ELSE flock,
    waiting <- {t \in Threads : pc[t] \in {"wantWrite", "asleepWrite"}}

\* Whatever calls fail, a writer is admitted only after it asked and only when
\* no writer is inside, and leaves only by its own unlock(): Mutex::Write
\* implements WriterLock.
ImplementsWriterLock == Writer!Spec

-----------------------------------------------------------------------------
(* Properties *)

TypeOK ==
    /\ currentAccess \in {"NONE", "READ", "WRITE"}
    /\ activeReaders \in 0 .. (CounterMod - 1)
    /\ flock \in Threads \union {NoThread, Orphan}
    /\ pc \in [Threads -> Locations]

Readers == {t \in Threads : pc[t] = "reading"}
Writers == {t \in Threads : pc[t] = "writing"}

\* Two threads are never both in a WRITE section, whatever the reader count
\* does to the mode and whatever calls fail: the flock is what excludes them.
WriterExclusion == \A t, u \in Writers : t = u

\* The reader count is exactly the number of threads in a READ section: it
\* never drifts and never wraps below zero, on any path of lock()/unlock().
ReadersCounted == activeReaders = Cardinality(Readers)

\* The mode READ always has a reader on its way in or inside, who will reset
\* it: readers alone cannot leave the lock closed to writers.
ReadModeHasReader ==
    currentAccess = "READ" =>
        \E t \in Threads : pc[t] \in {"entered", "counting", "reading"}

\* No wake-up is lost: a thread sleeps on a lock it could take only while some
\* thread is still to call notify_all.
NoLostWakeup ==
    \A t \in Threads :
        \/ pc[t] = "asleepRead" /\ CanEnter("READ")
        \/ pc[t] = "asleepWrite" /\ CanEnter("WRITE")
        => \E u \in Threads : pc[u] \in {"entered", "released"}

\* Nobody inside, on the way in or on the way out: the lock is open again
\* (server/test/mutex.cpp:64, "Unlock all readers, will make OPEN mode").
QuiescentIsOpen ==
    (\A t \in Threads :
        pc[t] \in {"idle", "wantRead", "wantWrite", "asleepRead", "asleepWrite"})
        => currentAccess = "NONE"

\* A reader and a writer are never inside together (server/test/mutex.cpp:48,
\* "Call Writer, should not work because we are in READ mode").
ReaderWriterExclusion == Readers = {} \/ Writers = {}

\* Whenever threads ask for the lock some thread gets it: no interleaving of
\* lock, unlock and condition variable leaves everyone asleep.
SomebodyEnters ==
    (\E t \in Threads : pc[t] \in {"wantRead", "wantWrite",
                                   "asleepRead", "asleepWrite"})
        ~> (Readers # {} \/ Writers # {})

=============================================================================
