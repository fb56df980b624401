----------------------------- MODULE GroupLists -----------------------------
(***************************************************************************)
(* GroupJobs with a note on the lock: what a job that lists the groups     *)
(* (server/src/lib/jobs/list.cpp) can rely on.  It reads the ids and then  *)
(* each group by a call of its own, and its READ lock is to keep writers   *)
(* out meanwhile.  It does, until a reader that leaves takes the count to  *)
(* zero while another has been let in and is not yet counted               *)
(* (mutex.cpp:71-75, 99-113): the lock is then open with a reader inside.  *)
(***************************************************************************)
EXTENDS GroupJobs

VARIABLE
    overlapped   \* the lock was opened on a reader, and somebody is in it still

listVars == <<vars, overlapped>>

\* The readers that lock() has let in, counted or not.
Admitted == {"entered", "counting", "reading"}

OpenOnReader == currentAccess = "NONE" /\ \E w \in Workers : pc[w] \in Admitted
SomebodyInside == \E w \in Workers : pc[w] \in Admitted \union {"writing"}

ListInit == Init /\ overlapped = FALSE

ListNext ==
    /\ Next
    /\ overlapped' = (OpenOnReader' \/ (overlapped /\ SomebodyInside'))

ListSpec == ListInit /\ [][ListNext]_listVars

\* The fairness of GroupJobs; the note comes with every step.
ListFairSpec == ListSpec /\ \A w \in Workers : WF_vars(Progress(w))

-----------------------------------------------------------------------------
(* Properties *)

\* A job that lists the groups reads one state of them, what it has read and
\* what it has still to read being the groups there are, unless the lock was
\* opened on a reader since it was last empty.  Nothing else lets a writer in
\* under a reader: no failing call, no restart, no order of the jobs.
ListIsCurrent ==
    ~overlapped =>
        \A w \in Workers : stage[w] = "listing" =>
            /\ job[w].out = {[id |-> g.id, name |-> g.name] :
                                g \in {h \in Loaded.groups :
                                         h.id \notin job[w].todo}}
            /\ job[w].todo \subseteq Ids(Loaded)

=============================================================================
