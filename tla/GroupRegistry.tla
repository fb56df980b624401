--------------------------- MODULE GroupRegistry ---------------------------
(***************************************************************************)
(* What the agent promises to clients that create and remove groups,       *)
(* without jobs, locks, memory or files: ids are given in order and never  *)
(* again, each to one client; a client that was told of its group finds it *)
(* as long as nobody asks to remove it.  Abstract specification of         *)
(* GroupJobs and of RestClients.                                           *)
(***************************************************************************)
EXTENDS Integers

CONSTANT Creators   \* who asks for a new group

VARIABLES
    last,       \* the last id that was given
    stored,     \* the ids of the groups there are
    asked,      \* the ids some client has asked to remove
    promised,   \* the groups whose creators wait to be told: [client, id]
    confirmed   \* the groups whose creators were told

registry == <<last, stored, asked, promised, confirmed>>

Served == {p.client : p \in promised \union confirmed}

\* The file may have groups of an earlier life.
Init ==
    /\ last \in Nat
    /\ stored \subseteq 1 .. last
    /\ asked = {} /\ promised = {} /\ confirmed = {}

\* A group is made, and its creator is to be told, or never will be.
Create(c) ==
    /\ c \notin Served
    /\ last' = last + 1
    /\ stored' = stored \union {last'}
    /\ promised' \in {promised,
                      promised \union {[client |-> c, id |-> last']}}
    /\ UNCHANGED <<asked, confirmed>>

Confirm(p) ==
    /\ p \in promised
    /\ promised' = promised \ {p}
    /\ confirmed' = confirmed \union {p}
    /\ UNCHANGED <<last, stored, asked>>

\* Some creators will never be told.
Forget ==
    /\ promised' \in SUBSET promised
    /\ UNCHANGED <<last, stored, asked, confirmed>>

AskRemoval ==
    /\ asked \subseteq asked'
    /\ UNCHANGED <<last, stored, promised, confirmed>>

Remove(id) ==
    /\ id \in stored \intersect asked
    /\ stored' = stored \ {id}
    /\ UNCHANGED <<last, asked, promised, confirmed>>

Next ==
    \/ \E c \in Creators : Create(c)
    \/ \E p \in promised : Confirm(p)
    \/ Forget
    \/ AskRemoval
    \/ \E id \in stored : Remove(id)

Spec == Init /\ [][Next]_registry

=============================================================================
