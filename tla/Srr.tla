-------------------------------- MODULE Srr --------------------------------
(***************************************************************************)
(* Save, restore and reset of all the groups, asked by the SRR service     *)
(* (server/src/lib/jobs/srr.cpp and jobs/srr/), beside the jobs of other   *)
(* clients.                                                                *)
(*                                                                         *)
(* An SRR request is one job of the pool.  It runs the jobs list, read,    *)
(* create and remove on its own thread, one after the other, each taking   *)
(* the storage lock for itself: what is consistent inside one of them may  *)
(* have changed before the next.  A step here is one of these jobs or,     *)
(* where other clients can come in between, one call of Storage.           *)
(*                                                                         *)
(* Of the lock (StorageMutex) there is here what outlasts a job: a lock()  *)
(* that throws in a writer, or an unlock() that fails, may leave its mode  *)
(* WRITE, and then no lock() returns until the process is started again    *)
(* (server/src/lib/mutex.cpp:66-87).  Both are the fault "lock", and such  *)
(* a lock is "closed".                                                     *)
(***************************************************************************)
EXTENDS Storage, Sequences

CONSTANTS
    BadRules,     \* rules that Group::check() refuses
    Foreign,      \* payloads to restore that this agent did not save
    Garbled,      \* payloads of which pack can decode a beginning at most
    ClientGroups, \* the groups other clients save
    MaxMoves,     \* bound: how often other clients save or remove a group
    MaxRequests   \* bound: how many requests the SRR service makes

ASSUME SrrAssumption ==
    /\ BadRules \in Rules
    /\ Foreign \subseteq Seq(Group) /\ Garbled \subseteq Seq(Group)
    /\ ClientGroups \subseteq Group
    /\ MaxMoves \in Nat /\ MaxRequests \in Nat

VARIABLES
    op,        \* what the SRR job does, "idle" if there is none
    todo,      \* the ids of the groups it has still to read or remove
    queue,     \* the groups it has still to restore, in order
    payload,   \* the groups it has read or restored, in order
    backup,    \* what the SRR service holds: the payload of the last save
    result,    \* the last request and its answer: [op, status]
    closed,    \* the storage lock lets nobody in any more
    wanted,    \* history: the groups of the last restore, as decoded
    kept,      \* history: the groups stored all the time since the job began
    met,       \* history: the groups stored at some time since it began
    moves,     \* history: the changes other clients have made
    requests   \* history: the requests made

srrVars == <<op, todo, queue, payload, backup, result, closed>>
history == <<wanted, kept, met, moves, requests>>
vars == <<storageVars, srrVars, history>>

NoResult == [op |-> "none", status |-> "none"]

Init ==
    /\ db = EmptyDb
    /\ inited = FALSE
    /\ file = InitialFile
    /\ op = "idle" /\ todo = {} /\ queue = <<>> /\ payload = <<>>
    /\ backup = <<>> /\ result = NoResult /\ closed = FALSE
    /\ wanted = <<>> /\ kept = {} /\ met = {} /\ moves = 0 /\ requests = 0

-----------------------------------------------------------------------------
\* What the history says after a step that leaves the groups Loaded'.
Watch ==
    /\ kept' = kept \intersect Loaded'.groups
    /\ met' = met \union Loaded'.groups
    /\ UNCHANGED <<wanted, requests>>

\* MUTANT: what the job had left is not forgotten.
EndKeepsWork(o, st) ==
    /\ op' = "idle" /\ UNCHANGED <<todo, queue, payload>>
    /\ result' = [op |-> o, status |-> st]

\* The answer is sent and the job is over.
End(o, st) ==
    /\ op' = "idle" /\ todo' = {} /\ queue' = <<>> /\ payload' = <<>>
    /\ result' = [op |-> o, status |-> st]

\* The request comes in, for a restore with the groups decoded from the
\* payload.
Ask(o, groups) ==
    /\ op = "idle" /\ requests < MaxRequests
    /\ op' = "list" /\ queue' = groups /\ wanted' = groups
    /\ result' = [op |-> o, status |-> "none"]
    /\ requests' = requests + 1
    /\ UNCHANGED <<storageVars, todo, payload, backup, closed, kept, met, moves>>

Asked(o) == op = "list" /\ result.op = o

\* The job of the request o lists the groups, as all three do first.
Listing(o) ==
    /\ Asked(o) /\ ~closed
    /\ Query
    /\ kept' = Loaded.groups
    /\ met' = Loaded.groups
    /\ UNCHANGED <<backup, closed, wanted, moves, requests>>

\* Another client removes a group after ids() and before its byId(), under the
\* reader's lock (StorageMutex, ReaderExclusion), and there is no list.  A
\* reset dereferences it all the same: an exception, which it catches, or the
\* end of the process, which is a Restart.
ListFails(o) ==
    /\ Asked(o) /\ ~closed
    /\ moves < MaxMoves
    /\ \E id \in Ids(Loaded) : Remove(id)
    /\ moves' = moves + 1
    /\ End(o, "FAILED")
    /\ UNCHANGED <<backup, closed>> /\ Watch

Go(o, ids) ==
    /\ op' = o /\ todo' = ids
    /\ UNCHANGED <<queue, payload, result>>

\* The lock() of a job that writes throws, and closes the lock or not: who was
\* inside may have opened it since.
LockThrows == "lock" \in Faults /\ closed' \in BOOLEAN

\* Its unlock() leaves the lock open, unless it fails.
Unlocks == closed' = FALSE \/ ("lock" \in Faults /\ closed' = TRUE)

-----------------------------------------------------------------------------
(* save *)

BeginSave == Listing("save") /\ Go("save", Ids(Loaded))

\* MUTANT: a group that is gone is asked for again.
SaveGroupAgain ==
    LET id == CHOOSE i \in todo : \A k \in todo : i =< k
    IN  /\ op = "save" /\ todo # {} /\ ~closed
        /\ Query
        /\ id \in Ids(Loaded)
        /\ payload' = Append(payload, ById(Loaded, id))
        /\ todo' = todo \ {id}
        /\ UNCHANGED <<op, queue, result, backup, closed, moves>> /\ Watch

\* MUTANT: a group that is gone ends the reading, and no error is reported.
SaveGroupOrStop ==
    LET id == CHOOSE i \in todo : \A k \in todo : i =< k
    IN  /\ op = "save" /\ todo # {} /\ ~closed
        /\ Query
        /\ \/ /\ id \in Ids(Loaded)
              /\ payload' = Append(payload, ById(Loaded, id))
              /\ todo' = todo \ {id}
           \/ /\ id \notin Ids(Loaded)
              /\ todo' = {} /\ UNCHANGED payload
        /\ UNCHANGED <<op, queue, result, backup, closed, moves>> /\ Watch

\* utils::read of the next id: the group as it is now.
SaveGroup ==
    LET id == CHOOSE i \in todo : \A k \in todo : i =< k
    IN  /\ op = "save" /\ todo # {} /\ ~closed
        /\ Query
        /\ \/ /\ id \in Ids(Loaded)
              /\ payload' = Append(payload, ById(Loaded, id))
              /\ todo' = todo \ {id}
              /\ UNCHANGED <<op, queue, result>>
           \/ /\ id \notin Ids(Loaded)
              /\ End("save", "FAILED")
        /\ UNCHANGED <<backup, closed, moves>> /\ Watch

EndSave ==
    /\ op = "save" /\ todo = {}
    /\ backup' = payload
    /\ End("save", "SUCCESS")
    /\ UNCHANGED <<storageVars, closed, moves>> /\ Watch

-----------------------------------------------------------------------------
(* restore *)

\* The groups that pack decodes from a payload.  Whether it could decode the
\* whole of it is not asked: of a garbled one the job restores a beginning, or
\* nothing, and reports success.
Decoded ==
    Foreign \union {backup}
      \union UNION {{SubSeq(p, 1, n) : n \in 0 .. Len(p)} : p \in Garbled}

\* The groups of the payload are created anew, if there are no groups now.
BeginRestore ==
    /\ Listing("restore")
    /\ IF Loaded.groups = {}
       THEN Go("restore", {})
       ELSE End("restore", "FAILED")

\* utils::create checks the next group and looks for its name, without the
\* lock...
RestoreCheck ==
    /\ op = "restore" /\ queue # <<>>
    /\ IF Head(queue).rules = BadRules THEN UNCHANGED storageVars ELSE Query
    /\ \/ /\ \/ Head(queue).rules = BadRules
             \/ HasName(Loaded, Head(queue).name)
          /\ End("restore", "FAILED")
       \/ /\ Head(queue).rules # BadRules
          /\ ~HasName(Loaded, Head(queue).name)
          /\ op' = "create"
          /\ UNCHANGED <<todo, queue, payload, result>>
    /\ UNCHANGED <<backup, closed, moves>> /\ Watch

\* MUTANT: the group keeps the id it had.
RestoreGroupWithId ==
    /\ op = "create" /\ ~closed
    /\ Written(AfterSave(Loaded, Head(queue)))
    /\ op' = "restore" /\ queue' = Tail(queue)
    /\ payload' = Append(payload, Saved(Loaded, Head(queue)))
    /\ UNCHANGED <<todo, result, backup, closed, moves>> /\ Watch

\* ... and saves it under the next id, inside the lock.  What was created before
\* a failure stays.
RestoreGroup ==
    LET g == [Head(queue) EXCEPT !.id = NoId]
    IN  /\ op = "create" /\ ~closed
        /\ \/ /\ Written(AfterSave(Loaded, g)) /\ Unlocks
              /\ op' = "restore" /\ queue' = Tail(queue)
              /\ payload' = Append(payload, Saved(Loaded, g))
              /\ UNCHANGED <<todo, result>>
           \/ /\ NotWritten(AfterSave(Loaded, g)) /\ Unlocks
              /\ End("restore", "FAILED")
           \/ /\ LockThrows
              /\ End("restore", "FAILED")
              /\ UNCHANGED storageVars
        /\ UNCHANGED <<backup, moves>> /\ Watch

EndRestore ==
    /\ op = "restore" /\ queue = <<>>
    /\ End("restore", "SUCCESS")
    /\ UNCHANGED <<storageVars, backup, closed, moves>> /\ Watch

-----------------------------------------------------------------------------
(* reset *)

BeginReset == Listing("reset") /\ Go("lock", Ids(Loaded))

\* The lock is taken once for all the ids, or throws before the first.
LockReset ==
    /\ op = "lock" /\ ~closed
    /\ \/ op' = "reset" /\ UNCHANGED <<todo, queue, payload, result, closed>>
       \/ LockThrows /\ End("reset", "FAILED")
    /\ UNCHANGED <<storageVars, backup, moves>> /\ Watch

\* MUTANT: the first id ends the loop.
ResetFirst ==
    /\ op = "reset" /\ todo # {}
    /\ Remove(CHOOSE i \in todo : \A k \in todo : i =< k)
    /\ todo' = {}
    /\ UNCHANGED <<op, queue, payload, result, backup, closed, moves>> /\ Watch

\* Storage::remove of the next id.  Whether it succeeds is logged only.
ResetGroup ==
    LET id == CHOOSE i \in todo : \A k \in todo : i =< k
    IN  /\ op = "reset" /\ todo # {}
        /\ Remove(id) \/ (id \notin Ids(Loaded) /\ Query)
        /\ todo' = todo \ {id}
        /\ UNCHANGED <<op, queue, payload, result, backup, closed, moves>> /\ Watch

\* The lines of the removals are read by a key that pack may not find in them
\* (utils.cpp:81); then the reset has failed, with the groups gone.
EndReset ==
    /\ op = "reset" /\ todo = {}
    /\ Unlocks
    /\ \E st \in {"SUCCESS", "FAILED"} : End("reset", st)
    /\ UNCHANGED <<storageVars, backup, moves>> /\ Watch

-----------------------------------------------------------------------------
\* Jobs of other clients: a group is created, updated or removed.  While the
\* reset is inside the lock no other writer is.
ClientMove ==
    /\ moves < MaxMoves
    /\ ~closed /\ op # "reset"
    /\ \/ \E g \in ClientGroups :
             /\ g.id = NoId => ~HasName(Loaded, g.name)
             /\ Save(g)
       \/ \E id \in Ids(Loaded) : Remove(id)
    /\ moves' = moves + 1
    /\ UNCHANGED srrVars /\ Watch

\* One of them leaves the lock closed.
ClientCloses ==
    /\ "lock" \in Faults
    /\ ~closed /\ op # "reset"
    /\ closed' = TRUE
    /\ UNCHANGED <<storageVars, op, todo, queue, payload, backup, result, history>>

\* The agent restarts between two calls of Storage; the SRR service still holds
\* the backup and the answers it has, and gets none to a request that was being
\* served.
Restart ==
    /\ "crash" \in Faults
    /\ CrashStorage
    /\ op' = "idle" /\ todo' = {} /\ queue' = <<>> /\ payload' = <<>>
    /\ closed' = FALSE
    /\ UNCHANGED <<result, backup, moves>> /\ Watch

Finished ==
    /\ op = "idle" /\ requests = MaxRequests /\ UNCHANGED vars

Request ==
    \/ \E o \in {"save", "reset"} : Ask(o, <<>>)
    \/ \E groups \in Decoded : Ask("restore", groups)

SrrJob ==
    \/ \E o \in {"save", "restore", "reset"} : ListFails(o)
    \/ BeginSave \/ SaveGroup \/ EndSave
    \/ BeginRestore \/ RestoreCheck \/ RestoreGroup \/ EndRestore
    \/ BeginReset \/ LockReset \/ ResetGroup \/ EndReset

Next ==
    \/ Request \/ SrrJob
    \/ ClientMove \/ ClientCloses \/ Restart
    \/ Finished

Spec == Init /\ [][Next]_vars

\* The pool's thread goes on with the job it has begun.
FairSpec == Spec /\ WF_vars(SrrJob)

-----------------------------------------------------------------------------
(* Properties *)

InOrder(s) == {s[i] : i \in DOMAIN s}

TypeOK ==
    /\ StorageTypeOK
    /\ op \in {"idle", "list", "save", "restore", "create", "lock", "reset"}
    /\ todo \subseteq Nat /\ InOrder(queue) \subseteq Group
    /\ op = "idle" => todo = {} /\ queue = <<>> /\ payload = <<>>
    /\ op = "create" => queue # <<>>
    /\ InOrder(payload) \subseteq Group
    /\ InOrder(backup) \subseteq Group
    /\ result \in [op : {"none", "save", "restore", "reset"},
                   status : {"none", "SUCCESS", "FAILED"}]
    /\ closed \in BOOLEAN
    /\ InOrder(wanted) \subseteq Group
    /\ kept \subseteq Group /\ met \subseteq Group
    /\ moves \in 0 .. MaxMoves /\ requests \in 0 .. MaxRequests

\* A backup that is reported as saved has every group that was stored all the
\* time, unchanged, and no group that never was: other jobs may only decide
\* about the groups they touch meanwhile (srr/save.cpp:34-47).
BackupIsFaithful ==
    op = "save" /\ todo = {} =>
        kept \subseteq InOrder(payload) /\ InOrder(payload) \subseteq met

\* The groups without their ids.
Content(groups) == {<<g.name, g.rules>> : g \in groups}

\* When a restore is about to report success the groups are those decoded from
\* the payload, each once, and no other, and a restart will find them, unless
\* other clients were at work (srr/restore.cpp:43-54).
RestoreIsExact ==
    op = "restore" /\ queue = <<>> /\ moves = 0 =>
        /\ Content(Loaded.groups) = Content(InOrder(wanted))
        /\ Cardinality(Loaded.groups) = Len(wanted)
        /\ wanted # <<>> => file = Loaded

\* When a reset is about to report success no group is left, unless other
\* clients were at work (server/src/lib/jobs/srr/utils.cpp:87, "remove all
\* groups").  Whether the file says so too is not known: failed writes are
\* only logged.
ResetRemovesAll ==
    op = "reset" /\ todo = {} /\ moves = 0 => Loaded.groups = {}

\* Nothing but a lock left closed keeps a request of the SRR service from its
\* end: no group that other clients remove, no failing write, no lock() that
\* throws (srr/save.cpp:49, restore.cpp:55 and reset.cpp:29 catch it).  Under a
\* closed lock the job sleeps until the agent is started again.
SrrEnds == op # "idle" ~> (op = "idle" \/ closed)

=============================================================================
