----------------------------- MODULE GroupJobs -----------------------------
(***************************************************************************)
(* The agent at work: requests taken from the bus become jobs of a thread  *)
(* pool (server/src/lib/server.cpp), each job runs the handler of its      *)
(* command (server/src/lib/jobs/create.cpp, update.cpp, remove.cpp,        *)
(* read.cpp, list.cpp) between Storage and StorageMutex, publishes events  *)
(* and sends one reply (server/src/lib/task.h).                            *)
(*                                                                         *)
(* A call of Storage is one step, a step of lock() or unlock() is one      *)
(* step, a publish and a reply are one step each.  Between them the other  *)
(* workers run.                                                            *)
(***************************************************************************)
EXTENDS Storage, Sequences

CONSTANTS
    Workers,     \* the threads of Server::m_pool
    Requests,    \* the messages clients send, each delivered at most once
    BadRules,    \* rules that Group::check() refuses
    NoJob,       \* a worker without a job
    NoThread, Orphan, CounterMod  \* see StorageMutex

VARIABLES
    currentAccess, activeReaders, flock, pc,  \* see StorageMutex
    pending,   \* the requests no worker has taken
    stage,     \* how far each worker is with its job
    job,       \* the job of each worker
    events,    \* what was published on fty::Events, in order
    answers    \* the reply to each request

mutexVars == <<currentAccess, activeReaders, flock, pc>>
jobVars == <<stage, job>>
busVars == <<pending, events, answers>>
vars == <<storageVars, mutexVars, jobVars, busVars>>

M == INSTANCE StorageMutex WITH
        Threads <- Workers, Faults <- Faults \intersect {"open", "unlock", "crash"}

ASSUME WorkersAssumption ==
    /\ IsFiniteSet(Workers)
    /\ NoThread \notin Workers /\ Orphan \notin Workers /\ NoThread # Orphan
    /\ CounterMod \in Nat /\ Cardinality(Workers) < CounterMod

ASSUME JobsAssumption ==
    /\ BadRules \in Rules
    /\ \A r \in Requests :
          /\ r.op \in {"CREATE", "UPDATE", "REMOVE", "READ", "LIST"}
          /\ r.op \in {"CREATE", "UPDATE"} => r.group \in Group
          /\ r.op = "REMOVE" => r.ids \in Seq(Nat)
          /\ r.op = "READ" => r.id \in Nat

Saves(r) == r.op \in {"CREATE", "UPDATE"}
Access(r) == IF r.op \in {"READ", "LIST"} THEN "READ" ELSE "WRITE"

(***************************************************************************)
(* How far a worker is.                                                    *)
(*   idle       waits for a job                                            *)
(*   checking   create and update: the payload is valid, the name not yet  *)
(*              looked up                                                  *)
(*   section    from the call of lock() on; StorageMutex's pc says whether *)
(*              it has returned                                            *)
(*   listing    list: has the ids and reads the groups one by one          *)
(*   notifying  the storage is changed, the event is to be published       *)
(*   done       nothing left to do but unlock() and reply                  *)
(***************************************************************************)
Stages == {"idle", "checking", "section", "listing", "notifying", "done"}

Init ==
    /\ db = EmptyDb
    /\ inited = FALSE
    /\ file = InitialFile
    /\ M!Init
    /\ pending = Requests
    /\ stage = [w \in Workers |-> "idle"]
    /\ job = [w \in Workers |-> NoJob]
    /\ events = <<>>
    /\ answers = [r \in Requests |-> [status |-> "none", out |-> {}]]

-----------------------------------------------------------------------------
(* Helpers *)

\* Inside the section: lock() has returned.
Inside(w) == pc[w] \in {"reading", "writing"}

\* The worker leaves its stage with part of its job changed.
MoveTo(w, st, j) ==
    /\ stage' = [stage EXCEPT ![w] = st]
    /\ job' = [job EXCEPT ![w] = j]

Error(j) == [j EXCEPT !.status = "error"]

\* Group::check: a name, conditions, and operators and fields it knows.
PassesCheck(g) == g.rules # BadRules

\* The group that a job or its answer returns.
Returned(a) == CHOOSE g \in a.out : TRUE

-----------------------------------------------------------------------------
(* Taking a job *)

\* Server::process and Task::operator(): the payload is read and checked.
Take(w, r) ==
    LET j == [req |-> r, todo |-> IF r.op = "REMOVE" THEN r.ids ELSE {},
              out |-> {}, status |-> "ok"]
    IN  /\ stage[w] = "idle"
        /\ r \in pending
        /\ pending' = pending \ {r}
        /\ \/ /\ Saves(r) /\ ~PassesCheck(r.group)
              /\ MoveTo(w, "done", Error(j))
              /\ UNCHANGED mutexVars
           \/ /\ Saves(r) /\ PassesCheck(r.group)
              /\ MoveTo(w, "checking", j)
              /\ UNCHANGED mutexVars
           \/ /\ ~Saves(r)
              /\ MoveTo(w, "section", j)
              /\ M!Lock(w, Access(r))
        /\ UNCHANGED <<storageVars, events, answers>>

\* Another group has the name: for create any group, for update any group
\* but the one that byName finds under the id of the request.
NameTaken(r) ==
    /\ HasName(Loaded, r.group.name)
    /\ r.op = "UPDATE" => ByName(Loaded, r.group.name).id # r.group.id

\* create and update look the name up before they ask for the lock.
CheckName(w) ==
    /\ stage[w] = "checking"
    /\ Query
    /\ \/ /\ NameTaken(job[w].req)
          /\ MoveTo(w, "done", Error(job[w]))
          /\ UNCHANGED mutexVars
       \/ /\ ~NameTaken(job[w].req)
          /\ MoveTo(w, "section", job[w])
          /\ M!Lock(w, "WRITE")
    /\ UNCHANGED busVars

-----------------------------------------------------------------------------
(* The lock *)

LockStep(w) ==
    /\ stage[w] = "section"
    /\ M!LockStep(w)
    /\ UNCHANGED <<storageVars, jobVars, busVars>>

\* The lock_guard is destroyed: at the end of run(), or because run() throws.
UnlockStep(w) ==
    /\ stage[w] = "done"
    /\ M!UnlockStep(w)
    /\ UNCHANGED <<storageVars, jobVars, busVars>>

\* lock() throws std::runtime_error, which Task::operator() does not catch:
\* the job is gone and nobody replies.
Escape(w) ==
    /\ stage[w] = "section"
    /\ M!Unwind(w)
    /\ MoveTo(w, "idle", NoJob)
    /\ UNCHANGED <<storageVars, busVars>>

-----------------------------------------------------------------------------
(* The handlers, inside the lock *)

\* create, update: Storage::save.
SaveGroup(w) ==
    LET g == job[w].req.group
        d == AfterSave(Loaded, g)
    IN  /\ stage[w] = "section" /\ Inside(w)
        /\ Saves(job[w].req)
        /\ \/ /\ Written(d)
              /\ MoveTo(w, "notifying",
                        [job[w] EXCEPT !.out = {Saved(Loaded, g)}])
           \/ /\ NotWritten(d)
              /\ MoveTo(w, "done", Error(job[w]))
        /\ UNCHANGED <<mutexVars, busVars>>

\* remove: Storage::remove for each id in turn; the reply has a line for each.
RemoveGroup(w) ==
    LET id == Head(job[w].todo)
        line(ok) == [job[w] EXCEPT !.out = @ \union {[id |-> id, ok |-> ok]}]
        failed == [line(FALSE) EXCEPT !.todo = Tail(@)]
    IN  /\ stage[w] = "section" /\ Inside(w)
        /\ job[w].req.op = "REMOVE"
        /\ \/ /\ job[w].todo = <<>>
              /\ MoveTo(w, "done", job[w])
              /\ UNCHANGED storageVars
           \/ /\ job[w].todo # <<>> /\ id \in Ids(Loaded)
              /\ \/ /\ Written(AfterRemove(Loaded, id))
                    /\ MoveTo(w, "notifying", line(TRUE))
                 \/ /\ NotWritten(AfterRemove(Loaded, id))
                    /\ MoveTo(w, "section", failed)
           \/ /\ job[w].todo # <<>> /\ id \notin Ids(Loaded)
              /\ Query
              /\ MoveTo(w, "section", failed)
        /\ UNCHANGED <<mutexVars, busVars>>

\* The event names the group the handler has just changed.
EventOf(j) ==
    CASE j.req.op = "CREATE" -> [what |-> "CREATED", id |-> Returned(j).id]
      [] j.req.op = "UPDATE" -> [what |-> "UPDATED", id |-> Returned(j).id]
      [] OTHER -> [what |-> "DELETED", id |-> Head(j.todo)]

\* Task::notify, still inside the lock: an error of the bus is only logged.
\* A removal goes on with its next id.
Notify(w) ==
    /\ stage[w] = "notifying"
    /\ \/ events' = Append(events, EventOf(job[w]))
       \/ "bus" \in Faults /\ UNCHANGED events
    /\ IF Saves(job[w].req)
       THEN MoveTo(w, "done", job[w])
       ELSE MoveTo(w, "section", [job[w] EXCEPT !.todo = Tail(@)])
    /\ UNCHANGED <<storageVars, mutexVars, pending, answers>>

\* read: Storage::byId.
ReadGroup(w) ==
    LET id == job[w].req.id
    IN  /\ stage[w] = "section" /\ Inside(w)
        /\ job[w].req.op = "READ"
        /\ Query
        /\ MoveTo(w, "done",
                  IF id \in Ids(Loaded)
                  THEN [job[w] EXCEPT !.out = {ById(Loaded, id)}]
                  ELSE Error(job[w]))
        /\ UNCHANGED <<mutexVars, busVars>>

\* list: Storage::ids, then Storage::byId for each of them.
ListIds(w) ==
    /\ stage[w] = "section" /\ Inside(w)
    /\ job[w].req.op = "LIST"
    /\ Query
    /\ MoveTo(w, "listing",
              [job[w] EXCEPT !.todo = Ids(Loaded)])
    /\ UNCHANGED <<mutexVars, busVars>>

ListGroup(w) ==
    LET id == CHOOSE i \in job[w].todo : \A k \in job[w].todo : i =< k
    IN  /\ stage[w] = "listing"
        /\ \/ /\ job[w].todo = {}
              /\ MoveTo(w, "done", job[w])
              /\ UNCHANGED storageVars
           \/ /\ job[w].todo # {} /\ id \in Ids(Loaded)
              /\ Query
              /\ MoveTo(w, "listing",
                        [job[w] EXCEPT
                            !.todo = @ \ {id},
                            !.out = @ \union {[id |-> id,
                                         name |-> ById(Loaded, id).name]}])
           \/ /\ job[w].todo # {} /\ id \notin Ids(Loaded)
              /\ Query
              /\ MoveTo(w, "done", Error(job[w]))
        /\ UNCHANGED <<mutexVars, busVars>>

-----------------------------------------------------------------------------
\* MUTANT: the worker keeps the job it has answered.
ReplyKeepsJob(w) ==
    /\ stage[w] = "done"
    /\ pc[w] = "idle"
    /\ answers' = [answers EXCEPT
                    ![job[w].req] = [status |-> job[w].status,
                                     out |-> job[w].out]]
    /\ MoveTo(w, "idle", job[w])
    /\ UNCHANGED <<storageVars, mutexVars, pending, events>>

\* The one reply of Task::operator(): after run() has returned or thrown
\* job::Error, so outside the lock.  An error of the bus is only logged.
Reply(w) ==
    /\ stage[w] = "done"
    /\ pc[w] = "idle"
    /\ \/ answers' = [answers EXCEPT
                        ![job[w].req] = [status |-> job[w].status,
                                         out |-> job[w].out]]
       \/ "bus" \in Faults /\ UNCHANGED answers
    /\ MoveTo(w, "idle", NoJob)
    /\ UNCHANGED <<storageVars, mutexVars, pending, events>>

\* The process dies between two calls of the storage (in the middle of one:
\* StorageFile) and is started again by systemd: the jobs are gone, and their
\* clients get no answer.
ProcessCrash ==
    /\ "crash" \in Faults
    /\ CrashStorage
    /\ M!Restart
    /\ stage' = [w \in Workers |-> "idle"]
    /\ job' = [w \in Workers |-> NoJob]
    /\ UNCHANGED busVars

\* Every request was taken and every worker is back.
Finished ==
    /\ pending = {}
    /\ \A w \in Workers : stage[w] = "idle"
    /\ UNCHANGED vars

Work(w) ==
    \/ CheckName(w)
    \/ LockStep(w) \/ UnlockStep(w) \/ Escape(w)
    \/ SaveGroup(w) \/ RemoveGroup(w) \/ Notify(w)
    \/ ReadGroup(w) \/ ListIds(w) \/ ListGroup(w)
    \/ Reply(w)

Next ==
    \/ \E w \in Workers : (\E r \in Requests : Take(w, r)) \/ Work(w)
    \/ ProcessCrash
    \/ Finished

Spec == Init /\ [][Next]_vars

\* The pool's threads keep running, take the jobs that are queued and finish
\* them; a spurious wake-up of the condition variable is never promised, and
\* takes a thread back to a wait, so it is left out of the steps that are.
Progress(w) ==
    \/ \E r \in Requests : Take(w, r)
    \/ Work(w) /\ ~M!SpuriousWake(w)

FairSpec == Spec /\ \A w \in Workers : WF_vars(Progress(w))

-----------------------------------------------------------------------------
(* Properties *)

\* What a reply is made of: groups, lines of a removal, lines of a list.
Line == Group \union [id : Nat, ok : BOOLEAN] \union [id : Nat, name : Names]

JobOK(j) ==
    /\ j \in [req : Requests, todo : {j.todo}, out : SUBSET Line,
              status : {"ok", "error"}]
    /\ j.todo \in IF j.req.op = "REMOVE" THEN Seq(Nat) ELSE SUBSET Nat

TypeOK ==
    /\ StorageTypeOK
    /\ M!TypeOK
    /\ pending \subseteq Requests
    /\ stage \in [Workers -> Stages]
    /\ DOMAIN job = Workers
    /\ \A w \in Workers :
          IF stage[w] = "idle" THEN job[w] = NoJob ELSE JobOK(job[w])
    /\ events \in Seq([what : {"CREATED", "UPDATED", "DELETED"}, id : Nat])
    /\ answers \in [Requests -> [status : {"none", "ok", "error"},
                                out : SUBSET Line]]

Answered(r) == answers[r].status # "none"
Succeeded(r) == answers[r].status = "ok"

\* The jobs use the lock as lock() and unlock() allow: all StorageMutex
\* promises, it promises to the jobs.
UsesMutex == M!Spec

\* A request that makes a new group, which an update without an id does too.
NewGroup(r) == Saves(r) /\ r.group.id = NoId

\* Two clients whose new groups were accepted never got the same id, although
\* their jobs ran at the same time or on either side of a restart.
CreatedIdsDiffer ==
    \A r, q \in Requests :
        /\ NewGroup(r) /\ NewGroup(q) /\ r # q
        /\ Succeeded(r) /\ Succeeded(q)
        => Returned(answers[r]).id # Returned(answers[q]).id

\* Some client asked for the group to be removed, and a worker took it.
RemovalTaken(id) ==
    \E q \in Requests \ pending :
        q.op = "REMOVE" /\ \E i \in DOMAIN q.ids : q.ids[i] = id

\* A group whose creation was confirmed is there until somebody removes it:
\* no other job loses it, and no restart does.
ConfirmedGroupsStay ==
    \A r \in Requests :
        /\ NewGroup(r) /\ Succeeded(r)
        => \/ Returned(answers[r]).id \in Ids(Loaded)
           \/ RemovalTaken(Returned(answers[r]).id)

\* The new groups that are stored and whose creators are still to be told, and
\* those whose creators were.
PromisedGroups ==
    {[client |-> job[w].req, id |-> Returned(job[w]).id] :
        w \in {v \in Workers : /\ stage[v] \in {"notifying", "done"}
                              /\ NewGroup(job[v].req)
                              /\ job[v].status = "ok"}}
ConfirmedGroups ==
    {[client |-> r, id |-> Returned(answers[r]).id] :
        r \in {q \in Requests : NewGroup(q) /\ Succeeded(q)}}

Registry == INSTANCE GroupRegistry WITH
    Creators <- {r \in Requests : NewGroup(r)},
    last <- Loaded.lastId,
    stored <- Ids(Loaded),
    asked <- UNION {{q.ids[i] : i \in DOMAIN q.ids} :
                       q \in {r \in Requests \ pending : r.op = "REMOVE"}},
    promised <- PromisedGroups,
    confirmed <- ConfirmedGroups

\* To the clients that create and remove groups the agent is a registry that
\* does each change at once and forgets none, although a change takes a job
\* many steps beside others, and the process may die between any two.
ImplementsRegistry == Registry!Spec

\* The groups a subscriber knows that started with the groups of the file and
\* has followed the events since.
Known[n \in 0 .. Len(events)] ==
    IF n = 0 THEN Ids(InitialFile)
    ELSE CASE events[n].what = "CREATED" -> Known[n-1] \union {events[n].id}
           [] events[n].what = "DELETED" -> Known[n-1] \ {events[n].id}
           [] OTHER -> Known[n-1]

\* Events are published in the order of the changes they report: a subscriber
\* knows exactly the groups that are stored, but for the one a job has just
\* changed and is about to report.
SubscribersFollow ==
    (\A w \in Workers : stage[w] # "notifying")
        => Known[Len(events)] = Ids(Loaded)

\* Two groups never have the same name (server/test/create.cpp:229, section
\* "Unique name").
NamesUnique ==
    \A g, h \in Loaded.groups : g.name = h.name => g = h

\* A group that create or update returns is stored when the event about it is
\* published (server/test/read.cpp:39, a created group is read by its id).
ReturnedIsStored ==
    \A w \in Workers :
        stage[w] = "notifying" /\ Saves(job[w].req)
            => job[w].out \subseteq Loaded.groups

\* The lock() of the job of r has thrown.
LockThrew(r) ==
    \E w \in Workers :
        stage[w] = "section" /\ pc[w] = "thrown" /\ job[w].req = r

\* Every request is answered in the end, but for one whose lock() throws.  It
\* may throw although every system call works: two readers and two writers are
\* enough for a writer to be let in while another has the file locked
\* (StorageMutex, ReaderExclusion), and nobody answers the request of the one
\* that finds it locked.  That request is lost, no other is: the lock opens
\* again and the jobs that wait for it go on.
EveryRequestAnswered == \A r \in Requests : <>(Answered(r) \/ LockThrew(r))

=============================================================================
