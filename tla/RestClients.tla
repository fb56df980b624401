---------------------------- MODULE RestClients ----------------------------
(***************************************************************************)
(* The HTTP calls of rest/src, the message bus between them and the agent, *)
(* and the agent as they see it: a storage behind a queue of jobs, in a    *)
(* process that may end at any moment.                                     *)
(*                                                                         *)
(* A call connects to the bus, sends one request at a time and waits for   *)
(* its answer until the time given to MessageBus::send is over.  All calls *)
(* connect under one name, so the answer to one may be handed to another;  *)
(* what tells them apart is the correlation id.                            *)
(*                                                                         *)
(* The jobs are those of GroupJobs, each of which does one thing between   *)
(* lock() and unlock().  What is left of the lock is that it may fail, and *)
(* that its mode may then stay WRITE for as long as the process lives.  A  *)
(* job's last step and its reply are one step, since a reply may be on its *)
(* way for as long as it likes, or never arrive.                           *)
(***************************************************************************)
EXTENDS Storage, Server

CONSTANTS
    Calls,        \* the HTTP calls
    Scenarios,    \* what they may be, all together: functions on Calls
    IdMod,        \* GET narrows an id to 16 bits: 65536
    BadRules      \* the rules that Group::check refuses

VARIABLES
    request,   \* what each call is: [op, group] or [op, id]
    call,      \* how far each call is, and its result
    mailbox,   \* the requests the agent has not received
    jobs,      \* the jobs in the agent's pool
    closed,    \* no lock() returns any more: its mode has stayed WRITE
    replies,   \* the replies for automatic_group_rest not yet handed over
    kept,      \* history: the ids that were there all through a list call
    met        \* history: the groups that were there at some moment of it

clientVars == <<request, call, kept, met>>
busVars == <<mailbox, replies>>
poolVars == <<jobs, closed>>
vars == <<storageVars, lifeVars, clientVars, busVars, poolVars>>

ASSUME CallsAssumption ==
    /\ IdMod \in Nat \ {0}
    /\ BadRules \subseteq Rules
    /\ \A s \in Scenarios : DOMAIN s = Calls
    /\ \A s \in Scenarios, k \in Calls :
          /\ s[k].op \in {"CREATE", "UPDATE", "REMOVE", "READ", "RESOLVE",
                          "LIST"}
          /\ s[k].op \in {"CREATE", "UPDATE"} => s[k].group \in Group
          /\ s[k].op \in {"REMOVE", "READ", "RESOLVE"} => s[k].id \in Nat

(***************************************************************************)
(* A call is new, waits for the answer to its request number n, or is over *)
(* with a status; ok (200 or 204) comes with an answer in out.  A list has *)
(* the ids it has still to ask for in todo.                                *)
(***************************************************************************)
NotMade == [at |-> "new", n |-> 0, todo |-> {}, out |-> {}, status |-> "none"]

Init ==
    /\ StorageInit
    /\ LifeInit
    /\ request \in Scenarios
    /\ call = [k \in Calls |-> NotMade]
    /\ mailbox = {} /\ replies = {} /\ jobs = {} /\ closed = FALSE
    /\ kept = [k \in Calls |-> {}] /\ met = [k \in Calls |-> {}]

-----------------------------------------------------------------------------
(* The calls *)

Lists(k) == request[k].op = "LIST"

\* MUTANT: each connection numbers its requests.
UuidByNumber(k, n) == [by |-> CHOOSE c \in Calls : TRUE, n |-> n]

\* Generated correlation ids are all different.
Uuid(k, n) == [by |-> k, n |-> n]

\* The handler throws rest::errors::Internal.
Fails(k) == call' = [call EXCEPT ![k] = [@ EXCEPT !.at = "over",
                                                  !.status = "error"]]

Succeeds(k, out) ==
    call' = [call EXCEPT ![k] = [@ EXCEPT !.at = "over", !.status = "ok",
                                          !.out = out]]

\* MessageBus::send: the request gets a correlation id of its own.
Send(k, op, arg, c) ==
    /\ call' = [call EXCEPT ![k] = [c EXCEPT !.at = "waiting", !.n = @ + 1]]
    /\ mailbox' = mailbox \union
         {[op |-> op, arg |-> arg, corr |-> Uuid(k, c.n + 1)]}

\* convert<uint16_t> of an id that needs more than 16 bits.
Narrowed(id) == IF id < IdMod THEN {id} ELSE {0, id % IdMod}

Arguments(q) ==
    CASE q.op \in {"CREATE", "UPDATE"} -> {q.group}
      [] q.op = "REMOVE" -> {q.id}
      [] q.op \in {"READ", "RESOLVE"} -> Narrowed(q.id)
      [] OTHER -> {NoId}

\* A handler has checked its arguments, connects and sends its request.
Make(k) ==
    /\ call[k].at = "new"
    /\ \E arg \in Arguments(request[k]) :
          Send(k, request[k].op, arg, call[k])
    /\ kept' = [kept EXCEPT ![k] = IF Lists(k) THEN Ids(Loaded) ELSE {}]
    /\ met' = [met EXCEPT ![k] = IF Lists(k) THEN Loaded.groups ELSE {}]
    /\ UNCHANGED <<storageVars, lifeVars, request, poolVars, replies>>

\* MUTANT: the wait has no limit once the list is there.
GiveUpFirst(k) ==
    /\ call[k].at = "waiting" /\ call[k].n = 1
    /\ Fails(k)
    /\ UNCHANGED <<storageVars, lifeVars, request, kept, met, busVars, poolVars>>

\* The bus throws, or no answer has come in time.
GiveUp(k) ==
    /\ call[k].at = "waiting"
    /\ Fails(k)
    /\ UNCHANGED <<storageVars, lifeVars, request, kept, met, busVars, poolVars>>

\* A list asks for each group in the order of the list.
AskNext(k, c) ==
    LET id == CHOOSE i \in c.todo : \A j \in c.todo : i =< j
    IN  \/ /\ c.todo = {}
           /\ Succeeds(k, c.out) /\ UNCHANGED mailbox
        \/ /\ c.todo # {}
           /\ Send(k, "READ", id, [c EXCEPT !.todo = @ \ {id}])

\* MUTANT: each group takes the place of the one before.
CollectedLast(c, r) ==
    IF c.n = 1 THEN [c EXCEPT !.todo = {a.id : a \in r.out}]
               ELSE [c EXCEPT !.out = r.out]

\* The first answer to a list has the ids, each later one a group.
Collected(c, r) ==
    IF c.n = 1 THEN [c EXCEPT !.todo = {a.id : a \in r.out}]
               ELSE [c EXCEPT !.out = @ \union r.out]

\* The call has its answer.  A removal is 204 whatever its line says; of the
\* assets of a group each is still to be read from the database.
Answer(k, r) ==
    \/ /\ r.status = "error" \/ request[k].op = "RESOLVE"
       /\ Fails(k) /\ UNCHANGED mailbox
    \/ /\ r.status = "ok" /\ ~Lists(k)
       /\ Succeeds(k, r.out) /\ UNCHANGED mailbox
    \/ /\ r.status = "ok" /\ Lists(k)
       /\ AskNext(k, Collected(call[k], r))

\* A reply is handed to a call that is connected under the name; one that
\* waits for another answer drops it.
HandOver(k, r) ==
    /\ call[k].at = "waiting"
    /\ replies' = replies \ {r}
    /\ \/ r.corr = Uuid(k, call[k].n) /\ Answer(k, r)
       \/ r.corr # Uuid(k, call[k].n) /\ UNCHANGED <<call, mailbox>>
    /\ UNCHANGED <<storageVars, lifeVars, request, kept, met, poolVars>>

-----------------------------------------------------------------------------
(* The agent: Server::process and the jobs *)

\* The groups are now those of d, and the histories of the lists take note.
Noted(d) ==
    /\ kept' = [k \in Calls |-> kept[k] \intersect Ids(d)]
    /\ met' = [k \in Calls |->
                  IF Lists(k) /\ call[k].at = "waiting"
                  THEN met[k] \union d.groups ELSE met[k]]
    /\ UNCHANGED <<request, call>>

\* The memory, the jobs and the mode of the lock are gone with the process.
\* The file stays, and a list sees again what it still has.
ProcessGone ==
    /\ CrashStorage
    /\ Noted(file)
    /\ jobs' = {}
    /\ closed' = FALSE

\* The pool is there, and its threads.
Working == phase \in {"serving", "waiting", "stopping"}

Job(m, st) == [msg |-> m, stage |-> st]

\* MUTANT: a message that comes when the pool is gone becomes a job.
ReceiveAnyway(m) ==
    /\ Subscribed
    /\ mailbox' = mailbox \ {m}
    /\ jobs' = jobs \union {Job(m, "queued")}
    /\ UNCHANGED <<storageVars, lifeVars, clientVars, replies, closed>>

\* The bus outlives the pool: a message that comes when the pool is gone is
\* pushed into an object that is no more.  It is lost, or the process dies.
Receive(m) ==
    /\ Subscribed
    /\ mailbox' = mailbox \ {m}
    /\ \/ /\ Working
          /\ jobs' = jobs \union {Job(m, "queued")}
          /\ UNCHANGED <<storageVars, lifeVars, closed>>
          /\ UNCHANGED clientVars
       \/ /\ ~Working
          /\ \/ UNCHANGED <<storageVars, lifeVars, poolVars, clientVars>>
             \/ Exit /\ ProcessGone
    /\ UNCHANGED replies

\* The job ends with its reply, to which MessageBus::reply copies the
\* correlation id of the request; the bus may refuse it.
End(j, status, out) ==
    /\ jobs' = jobs \ {j}
    /\ \/ replies' = replies \union
            {[corr |-> j.msg.corr, status |-> status, out |-> out]}
       \/ UNCHANGED replies
    /\ UNCHANGED <<lifeVars, mailbox>>

NameTaken(m) ==
    /\ HasName(Loaded, m.arg.name)
    /\ m.op = "UPDATE" => ByName(Loaded, m.arg.name).id # m.arg.id

MoveTo(j, st) ==
    /\ jobs' = (jobs \ {j}) \union {Job(j.msg, st)}
    /\ UNCHANGED <<lifeVars, busVars, closed>>

\* create, update: the group is checked and the name is looked up before the
\* lock is taken.
CheckName(j) ==
    /\ j.stage = "queued" /\ j.msg.op \in {"CREATE", "UPDATE"}
    /\ \/ /\ j.msg.arg.rules \in BadRules
          /\ End(j, "error", {}) /\ UNCHANGED storageVars
       \/ /\ j.msg.arg.rules \notin BadRules
          /\ Query
          /\ \/ NameTaken(j.msg) /\ End(j, "error", {})
             \/ ~NameTaken(j.msg) /\ MoveTo(j, "checked")
    /\ UNCHANGED <<clientVars, closed>>

\* The job has come to its lock().
AtWriteLock(j) ==
    \/ j.stage = "checked"
    \/ j.stage = "queued" /\ j.msg.op = "REMOVE"

AtLock(j) ==
    \/ AtWriteLock(j)
    \/ j.stage = "queued" /\ j.msg.op \in {"READ", "LIST"}

\* lock() throws: the job is gone, and nobody replies.  The mode stays WRITE,
\* unless another thread that is just leaving resets it.
LockThrows(j) ==
    /\ "lock" \in Faults
    /\ ~closed /\ AtWriteLock(j)
    /\ jobs' = jobs \ {j}
    /\ closed' \in BOOLEAN
    /\ UNCHANGED <<storageVars, lifeVars, clientVars, busVars>>

\* lock() waits for a mode that nobody resets.
FallAsleep(j) ==
    /\ closed /\ AtLock(j)
    /\ MoveTo(j, "asleep")
    /\ UNCHANGED <<storageVars, clientVars>>

\* unlock() of a writer; one that fails, which its caller does not look at,
\* leaves the mode WRITE.
Unlocks == closed' = FALSE \/ ("lock" \in Faults /\ closed' = TRUE)

SaveGroup(j) ==
    LET d == AfterSave(Loaded, j.msg.arg)
    IN  /\ ~closed /\ j.stage = "checked"
        /\ \/ Written(d) /\ End(j, "ok", {Saved(Loaded, j.msg.arg)})
           \/ NotWritten(d) /\ End(j, "error", {})
        /\ Noted(d) /\ Unlocks

RemoveGroup(j) ==
    LET id == j.msg.arg
        d == AfterRemove(Loaded, id)
        line(ok) == [id |-> id, ok |-> ok]
    IN  /\ ~closed /\ j.stage = "queued" /\ j.msg.op = "REMOVE"
        /\ \/ /\ id \in Ids(Loaded)
              /\ \/ Written(d) /\ End(j, "ok", {line(TRUE)})
                 \/ NotWritten(d) /\ End(j, "ok", {line(FALSE)})
              /\ Noted(d)
           \/ /\ id \notin Ids(Loaded)
              /\ Query /\ UNCHANGED clientVars
              /\ End(j, "ok", {line(FALSE)})
        /\ Unlocks

\* read and resolve begin alike, but resolve takes no lock.  The assets it
\* answers with are modelled in Resolve; here its answer is the group they are
\* in.  An exception of the query is as if its reply were lost.
ReadGroup(j) ==
    /\ j.stage = "queued" /\ j.msg.op \in {"READ", "RESOLVE"}
    /\ j.msg.op = "READ" => ~closed
    /\ Query
    /\ \/ /\ j.msg.arg \in Ids(Loaded)
          /\ End(j, "ok", {ById(Loaded, j.msg.arg)})
       \/ /\ j.msg.arg \notin Ids(Loaded) \/ j.msg.op = "RESOLVE"
          /\ End(j, "error", {})
    /\ UNCHANGED <<clientVars, closed>>

ListGroups(j) ==
    /\ ~closed /\ j.stage = "queued" /\ j.msg.op = "LIST"
    /\ Query
    /\ End(j, "ok", {[id |-> id] : id \in Ids(Loaded)})
    /\ UNCHANGED <<clientVars, closed>>

JobStep(j) ==
    \/ CheckName(j) \/ SaveGroup(j) \/ RemoveGroup(j)
    \/ ReadGroup(j) \/ ListGroups(j)
    \/ LockThrows(j) \/ FallAsleep(j)

-----------------------------------------------------------------------------
(* The agent's process *)

OutsideProcess == UNCHANGED <<clientVars, busVars>>

MainRuns ==
    /\ Start \/ InstallHandlers \/ Subscribe \/ Wait
    /\ OutsideProcess
    /\ UNCHANGED <<storageVars, poolVars>>

Signalled ==
    /\ \/ Reload
       \/ Interrupt /\ phase' # "off"
    /\ OutsideProcess
    /\ UNCHANGED <<storageVars, poolVars>>

\* MUTANT: the stop waits for the requests on the bus, too.
ShutdownLast ==
    /\ StopPool
    /\ jobs = {} /\ mailbox = {}
    /\ OutsideProcess
    /\ UNCHANGED <<storageVars, poolVars>>

\* ThreadPool::stop waits for the jobs that run, those asleep in lock() among
\* them; those in the queue may still be run or not.
Shutdown ==
    /\ StopPool
    /\ \A j \in jobs : j.stage = "queued"
    /\ jobs' = {}
    /\ OutsideProcess
    /\ UNCHANGED <<storageVars, closed>>

Exits == Exit /\ ProcessGone /\ UNCHANGED busVars

Killed ==
    /\ \/ Die
       \/ Interrupt /\ phase' = "off"
    /\ ProcessGone
    /\ UNCHANGED busVars

Asleep == \E j \in jobs : j.stage = "asleep"

\* Every call is over, and the agent waits for others; or it would stop, and
\* the jobs that are asleep keep it.
Finished ==
    /\ \A k \in Calls : call[k].at = "over"
    /\ mailbox = {}
    /\ \A j \in jobs : j.stage = "asleep"
    /\ phase = "waiting" \/ (phase = "stopping" /\ Asleep)
    /\ UNCHANGED vars

Next ==
    \/ \E k \in Calls : Make(k) \/ GiveUp(k)
    \/ \E k \in Calls : \E r \in replies : HandOver(k, r)
    \/ \E m \in mailbox : Receive(m)
    \/ \E j \in jobs : JobStep(j)
    \/ MainRuns \/ Signalled \/ Shutdown \/ Exits \/ Killed
    \/ Finished

Spec == Init /\ [][Next]_vars

\* The process runs and is started again, its jobs go on unless they are asleep
\* in lock(), and the wait for an answer has a limit.  Nothing promises that a
\* message is received or that a reply is handed over, nor that a client calls.
Process == MainRuns \/ Shutdown \/ Exits \/ \E j \in jobs : JobStep(j)

FairSpec ==
    /\ Spec
    /\ WF_vars(Process)
    /\ WF_vars(\E k \in Calls : GiveUp(k))

-----------------------------------------------------------------------------
(* Properties *)

TypeOK ==
    /\ StorageTypeOK
    /\ LifeTypeOK
    /\ \A k \in Calls :
          /\ call[k].at \in {"new", "waiting", "over"}
          /\ call[k].n \in Nat
          /\ call[k].todo \subseteq Nat
          /\ call[k].status \in {"none", "ok", "error"}
    /\ closed \in BOOLEAN
    /\ jobs # {} => Working

Done(k) == call[k].at = "over" /\ call[k].status = "ok"

\* Whether an element of an answer is about what was asked.
Fits(q, a) ==
    CASE q.op = "CREATE" -> /\ a \in Group
                            /\ [a EXCEPT !.id = q.group.id] = q.group
      [] q.op = "UPDATE" -> /\ a \in Group
                            /\ q.group.id # NoId => a = q.group
      [] q.op = "REMOVE" -> a.id = q.id
      [] q.op \in {"READ", "RESOLVE"} -> q.id < IdMod => a.id = q.id
      [] OTHER -> a \in Group

\* A call that succeeds was given the answer to its own request, although all
\* calls share one mailbox and answers to calls that gave up are still on
\* their way.
AnswerIsOwn ==
    \A k \in Calls : Done(k) => \A a \in call[k].out : Fits(request[k], a)

\* A list that succeeds has every group that was there all along and no group
\* that never was, although it is read by many requests while groups come, go
\* and change.
ListIsComplete ==
    \A k \in Calls :
        Lists(k) /\ Done(k)
            => /\ kept[k] \subseteq {g.id : g \in call[k].out}
               /\ call[k].out \subseteq met[k]

\* A group that a client was told is removed never comes back: not by a job
\* that looked before, not by a request of a call that gave up long ago, not
\* by a restart; and its id is not given to another.
RemovedStaysGone ==
    \A k \in Calls :
        request[k].op = "REMOVE" /\ Done(k)
            => \A a \in call[k].out : a.ok => a.id \notin Ids(Loaded)

\* The calls that make a new group, and the group each of them was told of.
Creates(k) == request[k].op \in {"CREATE", "UPDATE"} /\ request[k].group.id = NoId
Told(k, out) == {[client |-> k, id |-> g.id] : g \in out}

Registry == INSTANCE GroupRegistry WITH
    Creators <- Calls,
    last <- Loaded.lastId,
    stored <- Ids(Loaded),
    asked <- {request[k].id :
                k \in {c \in Calls : /\ request[c].op = "REMOVE"
                                     /\ call[c].at # "new"}},
    promised <- UNION {Told(r.corr.by, r.out) :
                         r \in {q \in replies : /\ Creates(q.corr.by)
                                                /\ q.status = "ok"}},
    confirmed <- UNION {Told(k, call[k].out) :
                          k \in {c \in Calls : Creates(c) /\ Done(c)}}

\* The registry that GroupJobs implements is what HTTP clients see, too,
\* although their calls give up, their answers are lost and handed to others,
\* and the agent is stopped and started.
CallsSeeRegistry == Registry!Spec

\* Every call that is made ends, whatever becomes of the agent.
CallsEnd == <>[](\A k \in Calls : call[k].at # "waiting")

\* Whatever ended the agent, and however often, after the last trouble it
\* serves again and goes on serving; only jobs that sleep for ever, in the
\* lock of a writer that failed, can keep it from being started again.
ServesAgain == <>[](phase = "waiting" \/ Asleep)

\* An agent that was asked to stop while it waits does end: no message that
\* still comes and no job keeps it, but one that a failed lock has put to
\* sleep.
StopEnds == phase = "stopping" ~> (phase = "off" \/ Asleep)

=============================================================================
