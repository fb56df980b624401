----------------------------- MODULE WriterLock -----------------------------
(***************************************************************************)
(* What the writing jobs rely on when they take the storage lock: a thread *)
(* that asked for it either becomes the only holder or is refused, only    *)
(* the holder gives it back, and a restart of the process forgets all of   *)
(* it.  Readers do not appear: the lock promises a writer nothing about    *)
(* them.                                                                   *)
(***************************************************************************)
CONSTANTS Threads, NoThread

VARIABLES
    holder,   \* the thread in its WRITE section, or NoThread
    waiting   \* the threads that asked and were neither admitted nor refused

vars == <<holder, waiting>>

Init == holder = NoThread /\ waiting = {}

Request(t) ==
    /\ t # holder
    /\ waiting' = waiting \union {t}
    /\ UNCHANGED holder

Acquire(t) ==
    /\ t \in waiting
    /\ holder = NoThread
    /\ holder' = t
    /\ waiting' = waiting \ {t}

\* lock() throws.
Refuse(t) ==
    /\ t \in waiting
    /\ waiting' = waiting \ {t}
    /\ UNCHANGED holder

Release(t) ==
    /\ holder = t
    /\ holder' = NoThread
    /\ UNCHANGED waiting

Restart == holder' = NoThread /\ waiting' = {}

Next ==
    \/ \E t \in Threads : Request(t) \/ Acquire(t) \/ Refuse(t) \/ Release(t)
    \/ Restart

Spec == Init /\ [][Next]_vars

=============================================================================
