-------------------------- MODULE GroupJobsProofs --------------------------
(***************************************************************************)
(* The jobs use the lock of StorageMutex and the operations of Storage, so *)
(* they inherit what is proved of both; and every variable of the agent    *)
(* keeps its type.                                                         *)
(*                                                                         *)
(* The jobs implement GroupRegistry, whatever jobs run together and        *)
(* however often the process is started again, as long as the database can *)
(* be read and written.  What the registry promises to its clients, that   *)
(* new groups have distinct ids and stay, the jobs then promise to theirs. *)
(*                                                                         *)
(* The events tell a subscriber what is stored: a change and its event are *)
(* in one WRITE section, and two jobs are never in theirs together.  A     *)
(* list of the groups is what is stored, unless the lock was opened on a   *)
(* reader: as long as it is not, whoever is inside has the mode it asked   *)
(* for, and no writer is inside beside a reader.                           *)
(***************************************************************************)
EXTENDS GroupLists, StorageProofs, TLAPS

MP == INSTANCE StorageMutexProofs WITH
        Threads <- Workers, Faults <- Faults \intersect {"open", "unlock", "crash"}

RP == INSTANCE GroupRegistryProofs WITH
    Creators <- {r \in Requests : NewGroup(r)},
    last <- Loaded.lastId,
    stored <- Ids(Loaded),
    asked <- UNION {{q.ids[i] : i \in DOMAIN q.ids} :
                       q \in {r \in Requests \ pending : r.op = "REMOVE"}},
    promised <- PromisedGroups,
    confirmed <- ConfirmedGroups

-----------------------------------------------------------------------------
(* The lock *)

LEMMA MutexAssumptions ==
    MP!ThreadsAssumption /\ MP!FaultsAssumption /\ MP!CounterAssumption
  <1>1. IsFiniteSet(Workers) <=> MP!IsFiniteSet(Workers)
    BY DEF IsFiniteSet, MP!IsFiniteSet
  <1>2. Cardinality(Workers) = MP!Cardinality(Workers)
    BY DEF Cardinality, MP!Cardinality, IsFiniteSet, MP!IsFiniteSet
  <1> QED  BY <1>1, <1>2, WorkersAssumption
           DEF MP!ThreadsAssumption, MP!FaultsAssumption,
               MP!CounterAssumption

\* The proofs about the lock are proofs about the lock the jobs use.
LEMMA SameMutex == M!Spec <=> MP!Spec
  <1>1. M!Init <=> MP!Init
    BY DEF M!Init, MP!Init
  <1>2. M!Next <=> MP!Next
    <2>1. ASSUME NEW w \in Workers PROVE M!LockStep(w) <=> MP!LockStep(w)
      BY DEF M!LockStep, MP!LockStep, M!Goto, MP!Goto, M!CanEnter,
             MP!CanEnter, M!WakeAllAnd, MP!WakeAllAnd, M!Sleep, MP!Sleep,
             M!SpuriousWake, MP!SpuriousWake, M!EnterRead, MP!EnterRead,
             M!NotifyEntered, MP!NotifyEntered, M!CountReader,
             MP!CountReader, M!EnterWrite, MP!EnterWrite, M!OpenFails,
             MP!OpenFails, M!FlockFails, MP!FlockFails
    <2>2. ASSUME NEW w \in Workers PROVE M!UnlockStep(w) <=> MP!UnlockStep(w)
      BY DEF M!UnlockStep, MP!UnlockStep, M!Goto, MP!Goto, M!WakeAllAnd,
             MP!WakeAllAnd, M!UnlockRead, MP!UnlockRead, M!UnlockWrite,
             MP!UnlockWrite, M!UnlockFails, MP!UnlockFails,
             M!NotifyReleased, MP!NotifyReleased
    <2> QED  BY <2>1, <2>2
             DEF M!Next, MP!Next, M!Lock, MP!Lock, M!Unwind, MP!Unwind,
                 M!Goto, MP!Goto, M!Restart, MP!Restart
  <1>3. [M!Next]_(M!vars) <=> [MP!Next]_(MP!vars)
    BY <1>2 DEF M!vars, MP!vars
  <1> QED  BY <1>1, <1>3, PTL DEF M!Spec, MP!Spec

LEMMA JobStepIsMutexStep == [Next]_vars => [M!Next]_(M!vars)
  <1> SUFFICES ASSUME [Next]_vars PROVE [M!Next]_(M!vars)
    OBVIOUS
  <1>1. UNCHANGED mutexVars => UNCHANGED M!vars
    BY DEF mutexVars, M!vars
  <1>2. ASSUME NEW w \in Workers, NEW r \in Requests, Take(w, r)
        PROVE  [M!Next]_(M!vars)
    <2>1. Access(r) \in {"READ", "WRITE"}
      BY DEF Access
    <2> QED  BY <1>1, <1>2, <2>1 DEF Take, M!Next
  <1>3. ASSUME NEW w \in Workers, Work(w) PROVE [M!Next]_(M!vars)
    <2>1. CASE CheckName(w)
      BY <1>1, <2>1 DEF CheckName, M!Next
    <2>2. CASE LockStep(w) \/ UnlockStep(w) \/ Escape(w)
      BY <2>2 DEF LockStep, UnlockStep, Escape, M!Next
    <2>3. CASE \/ SaveGroup(w) \/ RemoveGroup(w) \/ Notify(w)
               \/ ReadGroup(w) \/ ListIds(w) \/ ListGroup(w) \/ Reply(w)
      BY <1>1, <2>3
      DEF SaveGroup, RemoveGroup, Notify, ReadGroup, ListIds, ListGroup, Reply
    <2> QED  BY <1>3, <2>1, <2>2, <2>3 DEF Work
  <1>4. CASE ProcessCrash
    BY <1>4 DEF ProcessCrash, M!Next
  <1>5. CASE Finished \/ UNCHANGED vars
    BY <1>1, <1>5 DEF Finished, vars
  <1> QED  BY <1>2, <1>3, <1>4, <1>5 DEF Next

\* The jobs never touch the lock but through lock() and unlock().
THEOREM JobsUseMutex == Spec => UsesMutex
  <1>1. Init => M!Init
    BY DEF Init
  <1> QED  BY <1>1, JobStepIsMutexStep, PTL DEF Spec, UsesMutex, M!Spec

\* Two jobs are never both in their WRITE section, whatever fails: all that a
\* create, an update or a removal does to the storage, and the event about it,
\* comes before or after all that another does.
THEOREM JobsWritersExclude == Spec => []M!WriterExclusion
  <1>1. M!Spec => []MP!WriterExclusion
    BY SameMutex, MutexAssumptions, MP!WritersExclude, PTL
  <1>2. MP!WriterExclusion => M!WriterExclusion
    BY DEF M!WriterExclusion, MP!WriterExclusion, M!Writers, MP!Writers
  <1> QED  BY <1>1, <1>2, JobsUseMutex, PTL DEF UsesMutex

LEMMA JobsMutexTypeOK == Spec => []M!TypeOK
  <1>1. M!Spec => []MP!TypeOK
    BY SameMutex, MutexAssumptions, MP!TypeCorrect, PTL
  <1>2. MP!TypeOK => M!TypeOK
    BY DEF M!TypeOK, MP!TypeOK, M!Locations, MP!Locations
  <1> QED  BY <1>1, <1>2, JobsUseMutex, PTL DEF UsesMutex

-----------------------------------------------------------------------------
(* Types *)

\* A worker's stage and its job fit: one that is about to publish has what
\* the event is about.
StageOK(st, j) ==
    /\ IF st = "idle" THEN j = NoJob ELSE JobOK(j)
    /\ st = "notifying" =>
          IF Saves(j.req) THEN \E g \in Group : j.out = {g}
                          ELSE j.req.op = "REMOVE" /\ j.todo # <<>>
    /\ st = "listing" => j.req.op = "LIST"

JobsInv ==
    /\ StorageInv
    /\ pending \subseteq Requests
    /\ stage \in [Workers -> Stages]
    /\ DOMAIN job = Workers
    /\ \A w \in Workers : StageOK(stage[w], job[w])
    /\ events \in Seq([what : {"CREATED", "UPDATED", "DELETED"}, id : Nat])
    /\ answers \in [Requests -> [status : {"none", "ok", "error"},
                                out : SUBSET Line]]

\* The part of the invariant about the workers, when one of them moves.
WorkersOK ==
    /\ stage \in [Workers -> Stages]
    /\ DOMAIN job = Workers
    /\ \A w \in Workers : StageOK(stage[w], job[w])

LEMMA MoveKeepsWorkers ==
    ASSUME WorkersOK, NEW w \in Workers, NEW st \in Stages, NEW j,
           StageOK(st, j), MoveTo(w, st, j)
    PROVE  WorkersOK'
  BY DEF WorkersOK, MoveTo

LEMMA SameWorkers == WorkersOK /\ UNCHANGED jobVars => WorkersOK'
  BY DEF WorkersOK, jobVars

LEMMA BusUnchanged ==
    ASSUME JobsInv, StorageInv', WorkersOK', UNCHANGED busVars
    PROVE  JobsInv'
  BY DEF JobsInv, WorkersOK, busVars

LEMMA RequestTypes ==
    ASSUME NEW r \in Requests
    PROVE  /\ Saves(r) => r.group \in Group
           /\ r.op = "REMOVE" => ~Saves(r) /\ r.ids \in Seq(Nat)
           /\ r.op \in {"READ", "LIST"} => ~Saves(r)
  BY JobsAssumption DEF Saves

LEMMA JobShape ==
    ASSUME NEW j, JobOK(j)
    PROVE  /\ j.req \in Requests
           /\ j.out \subseteq Line
           /\ j.status \in {"ok", "error"}
           /\ JobOK(Error(j))
           /\ \A out \in SUBSET Line : JobOK([j EXCEPT !.out = out])
           /\ \A todo : /\ todo \in IF j.req.op = "REMOVE" THEN Seq(Nat)
                                                       ELSE SUBSET Nat
                        => JobOK([j EXCEPT !.todo = todo])
  BY DEF JobOK, Error

LEMMA TakeKeepsInv ==
    ASSUME JobsInv, NEW w \in Workers, NEW r \in Requests, Take(w, r)
    PROVE  JobsInv'
  <1> DEFINE j == [req |-> r, todo |-> IF r.op = "REMOVE" THEN r.ids ELSE {},
                   out |-> {}, status |-> "ok"]
  <1>1. JobOK(j) /\ JobOK(Error(j))
    BY RequestTypes DEF JobOK, Error
  <1>2. WorkersOK
    BY DEF JobsInv, WorkersOK
  <1>3. \/ MoveTo(w, "done", Error(j))
        \/ MoveTo(w, "checking", j)
        \/ MoveTo(w, "section", j)
    BY DEF Take
  <1>4. {"done", "checking", "section"} \subseteq Stages
    BY DEF Stages
  <1>5. \A st \in {"done", "checking", "section"} :
           StageOK(st, j) /\ StageOK(st, Error(j))
    BY <1>1 DEF StageOK
  <1> HIDE DEF j
  <1>6. WorkersOK'
    BY <1>2, <1>3, <1>4, <1>5, MoveKeepsWorkers
  <1>7. /\ pending' \subseteq Requests
        /\ UNCHANGED <<storageVars, events, answers>>
    BY DEF Take, JobsInv
  <1>8. StorageInv'
    BY <1>7 DEF JobsInv, StorageInv, storageVars, WellFormed
  <1> QED  BY <1>6, <1>7, <1>8 DEF JobsInv, WorkersOK

LEMMA CheckNameKeepsInv ==
    ASSUME JobsInv, NEW w \in Workers, CheckName(w)
    PROVE  JobsInv'
  <1>1. JobOK(job[w]) /\ WorkersOK
    BY DEF JobsInv, WorkersOK, StageOK, CheckName
  <1>2. {"done", "section"} \subseteq Stages
    BY DEF Stages
  <1>3. StageOK("done", Error(job[w])) /\ StageOK("section", job[w])
    BY <1>1, JobShape DEF StageOK
  <1>4. WorkersOK'
    BY <1>1, <1>2, <1>3, MoveKeepsWorkers DEF CheckName
  <1>5. StorageInv'
    BY QueryKeepsInv DEF CheckName, JobsInv
  <1> QED  BY <1>4, <1>5, BusUnchanged DEF CheckName

LEMMA SaveGroupKeepsInv ==
    ASSUME JobsInv, NEW w \in Workers, SaveGroup(w)
    PROVE  JobsInv'
  <1> DEFINE g == job[w].req.group
             s == Saved(Loaded, g)
  <1>1. JobOK(job[w]) /\ WorkersOK
    BY DEF JobsInv, WorkersOK, StageOK, SaveGroup
  <1>2. g \in Group
    BY <1>1, JobShape, RequestTypes DEF SaveGroup
  <1>3. WellFormed(Loaded)
    BY LoadedWellFormed DEF JobsInv
  <1>4. s \in Group
    BY <1>2, <1>3 DEF Saved, Group, WellFormed, DbObj
  <1>5. StorageInv'
    BY <1>2, <1>3, SaveWellFormed, WriteKeepsInv DEF SaveGroup, JobsInv
  <1>6. StageOK("done", Error(job[w]))
    BY <1>1, JobShape DEF StageOK
  <1>7. StageOK("notifying", [job[w] EXCEPT !.out = {s}])
    <2> HIDE DEF s
    <2>1. JobOK([job[w] EXCEPT !.out = {s}])
      BY <1>1, <1>4, JobShape DEF Line
    <2>2. [job[w] EXCEPT !.out = {s}].out = {s}
      BY <1>1 DEF JobOK
    <2>3. [job[w] EXCEPT !.out = {s}].req = job[w].req
      BY <1>1 DEF JobOK
    <2> QED  BY <1>4, <2>1, <2>2, <2>3 DEF StageOK, SaveGroup
  <1> HIDE DEF s
  <1>8. \/ MoveTo(w, "notifying", [job[w] EXCEPT !.out = {s}])
        \/ MoveTo(w, "done", Error(job[w]))
    BY DEF SaveGroup, s
  <1>9. WorkersOK'
    BY <1>1, <1>6, <1>7, <1>8, MoveKeepsWorkers DEF Stages
  <1> QED  BY <1>5, <1>9, BusUnchanged DEF SaveGroup

LEMMA RemoveGroupKeepsInv ==
    ASSUME JobsInv, NEW w \in Workers, RemoveGroup(w)
    PROVE  JobsInv'
  <1> DEFINE id == Head(job[w].todo)
             line(ok) ==
                 [job[w] EXCEPT !.out = @ \union {[id |-> id, ok |-> ok]}]
             failed == [line(FALSE) EXCEPT !.todo = Tail(@)]
  <1>1. JobOK(job[w]) /\ WorkersOK /\ job[w].req.op = "REMOVE"
    BY DEF JobsInv, WorkersOK, StageOK, RemoveGroup
  <1>2. job[w].todo \in Seq(Nat) /\ ~Saves(job[w].req)
    BY <1>1 DEF JobOK, Saves
  <1>3. WellFormed(Loaded)
    BY LoadedWellFormed DEF JobsInv
  <1>4. StorageInv'
    <2>1. CASE UNCHANGED storageVars
      BY <2>1 DEF JobsInv, StorageInv, storageVars, WellFormed
    <2>2. CASE Query
      BY <2>2, QueryKeepsInv DEF JobsInv
    <2>3. CASE Written(AfterRemove(Loaded, id)) \/ NotWritten(AfterRemove(Loaded, id))
      BY <1>3, <2>3, RemoveWellFormed, WriteKeepsInv DEF JobsInv
    <2> QED  BY <2>1, <2>2, <2>3 DEF RemoveGroup
  <1>5. ASSUME job[w].todo # <<>>, NEW ok \in BOOLEAN
        PROVE  /\ JobOK(line(ok))
               /\ line(ok).req = job[w].req
               /\ line(ok).todo = job[w].todo
    <2>1. id \in Nat
      BY <1>2, <1>5
    <2>2. job[w].out \union {[id |-> id, ok |-> ok]} \in SUBSET Line
      BY <1>1, <2>1, JobShape DEF Line
    <2> QED  BY <1>1, <2>2, JobShape DEF JobOK
  <1>6. ASSUME job[w].todo # <<>> PROVE JobOK(failed)
    <2>1. Tail(job[w].todo) \in Seq(Nat)
      BY <1>2, <1>6
    <2> HIDE DEF line
    <2> QED  BY <1>1, <1>5, <1>6, <2>1, JobShape
  <1>7. \/ MoveTo(w, "done", job[w])
        \/ job[w].todo # <<>> /\ MoveTo(w, "notifying", line(TRUE))
        \/ job[w].todo # <<>> /\ MoveTo(w, "section", failed)
    BY DEF RemoveGroup
  <1> HIDE DEF line, failed
  <1>8. StageOK("done", job[w])
    BY <1>1 DEF StageOK
  <1>9. job[w].todo # <<>> => StageOK("notifying", line(TRUE))
    BY <1>1, <1>2, <1>5 DEF StageOK
  <1>10. job[w].todo # <<>> => StageOK("section", failed)
    BY <1>6 DEF StageOK
  <1>11. WorkersOK'
    BY <1>1, <1>7, <1>8, <1>9, <1>10, MoveKeepsWorkers DEF Stages
  <1> QED  BY <1>4, <1>11, BusUnchanged DEF RemoveGroup

LEMMA EventTyped ==
    ASSUME JobsInv, NEW w \in Workers, stage[w] = "notifying"
    PROVE  EventOf(job[w]) \in [what : {"CREATED", "UPDATED", "DELETED"}, id : Nat]
  <1>1. JobOK(job[w]) /\ StageOK("notifying", job[w])
    BY DEF JobsInv, StageOK
  <1>2. CASE Saves(job[w].req)
    <2>1. PICK g \in Group : job[w].out = {g}
      BY <1>1, <1>2 DEF StageOK
    <2>2. Returned(job[w]) = g
      BY <2>1 DEF Returned
    <2>3. g.id \in Nat
      BY DEF Group
    <2> QED  BY <1>2, <2>2, <2>3 DEF EventOf, Saves
  <1>3. CASE ~Saves(job[w].req)
    <2>1. job[w].todo \in Seq(Nat) /\ job[w].todo # <<>>
      BY <1>1, <1>3 DEF StageOK, JobOK
    <2>2. Head(job[w].todo) \in Nat
      BY <2>1
    <2> QED  BY <1>3, <2>2 DEF EventOf, Saves
  <1> QED  BY <1>2, <1>3

LEMMA NotifyKeepsInv ==
    ASSUME JobsInv, NEW w \in Workers, Notify(w)
    PROVE  JobsInv'
  <1> DEFINE Event == [what : {"CREATED", "UPDATED", "DELETED"}, id : Nat]
  <1>1. /\ JobOK(job[w]) /\ WorkersOK
        /\ StageOK("notifying", job[w])
    BY DEF JobsInv, WorkersOK, StageOK, Notify
  <1>2. EventOf(job[w]) \in Event
    BY EventTyped DEF Notify
  <1>3. events' \in Seq(Event)
    <2>1. events \in Seq(Event)
      BY DEF JobsInv
    <2>2. events' = Append(events, EventOf(job[w])) \/ events' = events
      BY DEF Notify
    <2> HIDE DEF Event
    <2> QED  BY <1>2, <2>1, <2>2
  <1>4. WorkersOK'
    <2>1. CASE Saves(job[w].req)
      BY <1>1, <2>1, MoveKeepsWorkers DEF Notify, StageOK, Stages
    <2>2. CASE ~Saves(job[w].req)
      <3>1. Tail(job[w].todo) \in Seq(Nat) /\ job[w].req.op = "REMOVE"
        BY <1>1, <2>2 DEF StageOK, JobOK
      <3>2. StageOK("section", [job[w] EXCEPT !.todo = Tail(@)])
        BY <1>1, <3>1, JobShape DEF StageOK
      <3> QED  BY <1>1, <2>2, <3>2, MoveKeepsWorkers DEF Notify, Stages
    <2> QED  BY <2>1, <2>2
  <1> QED  BY <1>3, <1>4
           DEF Notify, JobsInv, WorkersOK, storageVars, StorageInv, WellFormed

LEMMA ReadersKeepInv ==
    ASSUME JobsInv, NEW w \in Workers,
           ReadGroup(w) \/ ListIds(w) \/ ListGroup(w)
    PROVE  JobsInv'
  <1>1. JobOK(job[w]) /\ WorkersOK
    BY DEF JobsInv, WorkersOK, StageOK, ReadGroup, ListIds, ListGroup
  <1>2. WellFormed(Loaded)
    BY LoadedWellFormed DEF JobsInv
  <1>3. \A id \in Ids(Loaded) :
           ById(Loaded, id) \in Loaded.groups /\ ById(Loaded, id) \in Group
    <2>1. Loaded.groups \subseteq Group
      BY <1>2 DEF WellFormed, DbObj
    <2>2. \A id \in Ids(Loaded) : ById(Loaded, id) \in Loaded.groups
      BY DEF ById, Ids
    <2> QED  BY <2>1, <2>2
  <1>4. Ids(Loaded) \subseteq Nat
    BY <1>2 DEF WellFormed, DbObj, Ids, Group
  <1>5. StorageInv'
    <2>1. Query => StorageInv'
      BY QueryKeepsInv DEF JobsInv
    <2>2. UNCHANGED storageVars => StorageInv'
      BY DEF JobsInv, StorageInv, storageVars, WellFormed
    <2> QED  BY <2>1, <2>2 DEF ReadGroup, ListIds, ListGroup
  <1>6. StageOK("done", job[w]) /\ StageOK("done", Error(job[w]))
    BY <1>1, JobShape DEF StageOK
  <1>7. CASE ReadGroup(w)
    <2> DEFINE id == job[w].req.id
               found == [job[w] EXCEPT !.out = {ById(Loaded, id)}]
    <2>1. id \in Ids(Loaded) => JobOK(found)
      BY <1>1, <1>3, JobShape DEF Line
    <2> HIDE DEF found
    <2>2. \/ id \in Ids(Loaded) /\ MoveTo(w, "done", found)
          \/ MoveTo(w, "done", Error(job[w]))
      BY <1>7 DEF ReadGroup, found
    <2>3. id \in Ids(Loaded) => StageOK("done", found)
      BY <2>1 DEF StageOK
    <2>4. WorkersOK'
      BY <1>1, <1>6, <2>2, <2>3, MoveKeepsWorkers DEF Stages
    <2> QED  BY <1>5, <1>7, <2>4, BusUnchanged DEF ReadGroup
  <1>8. CASE ListIds(w)
    <2> DEFINE listed == [job[w] EXCEPT !.todo = Ids(Loaded)]
    <2>1. StageOK("listing", listed)
      <3>1. JobOK(listed)
        BY <1>1, <1>4, <1>8, JobShape DEF ListIds
      <3>2. listed.req = job[w].req
        BY <1>1 DEF JobOK
      <3> QED  BY <1>8, <3>1, <3>2 DEF StageOK, ListIds
    <2>2. WorkersOK'
      BY <1>1, <1>8, <2>1, MoveKeepsWorkers DEF ListIds, Stages
    <2> QED  BY <1>5, <1>8, <2>2, BusUnchanged DEF ListIds
  <1>9. CASE ListGroup(w)
    <2> DEFINE id == CHOOSE i \in job[w].todo : \A k \in job[w].todo : i =< k
               read == [job[w] EXCEPT
                           !.todo = @ \ {id},
                           !.out = @ \union {[id |-> id,
                                         name |-> ById(Loaded, id).name]}]
    <2>1. job[w].req.op = "LIST"
      BY <1>9 DEF ListGroup, JobsInv, StageOK
    <2>2. ASSUME id \in Ids(Loaded) PROVE StageOK("listing", read)
      <3>1. id \in Nat /\ ById(Loaded, id).name \in Names
        BY <1>3, <1>4, <2>2 DEF Group
      <3> DEFINE line == [id |-> id, name |-> ById(Loaded, id).name]
      <3>2. line \in Line
        BY <3>1 DEF Line
      <3> HIDE DEF id, line
      <3>3. job[w].out \union {line} \in SUBSET Line
        BY <1>1, <3>2, JobShape
      <3>4. job[w].todo \ {id} \in SUBSET Nat
        BY <1>1, <2>1 DEF JobOK
      <3>5. JobOK([job[w] EXCEPT !.todo = @ \ {id},
                                 !.out = @ \union {line}])
        BY <1>1, <2>1, <3>3, <3>4 DEF JobOK
      <3>6. [job[w] EXCEPT !.todo = @ \ {id},
                           !.out = @ \union {line}].req = job[w].req
        BY <1>1 DEF JobOK
      <3> QED  BY <2>1, <3>5, <3>6 DEF StageOK, line
    <2> HIDE DEF read
    <2>3. \/ MoveTo(w, "done", job[w])
          \/ id \in Ids(Loaded) /\ MoveTo(w, "listing", read)
          \/ MoveTo(w, "done", Error(job[w]))
      BY <1>9 DEF ListGroup, read
    <2>4. WorkersOK'
      BY <1>1, <1>6, <2>2, <2>3, MoveKeepsWorkers DEF Stages
    <2> QED  BY <1>5, <1>9, <2>4, BusUnchanged DEF ListGroup
  <1> QED  BY <1>7, <1>8, <1>9

LEMMA ReplyKeepsInv ==
    ASSUME JobsInv, NEW w \in Workers, Reply(w)
    PROVE  JobsInv'
  <1>1. JobOK(job[w]) /\ WorkersOK
    BY DEF JobsInv, WorkersOK, StageOK, Reply
  <1>2. WorkersOK'
    BY <1>1, MoveKeepsWorkers DEF Reply, Stages, StageOK
  <1>3. answers' \in [Requests -> [status : {"none", "ok", "error"},
                                  out : SUBSET Line]]
    <2>1. [status |-> job[w].status, out |-> job[w].out]
             \in [status : {"none", "ok", "error"}, out : SUBSET Line]
      BY <1>1, JobShape
    <2> QED  BY <2>1 DEF Reply, JobsInv
  <1> QED  BY <1>2, <1>3
           DEF Reply, JobsInv, WorkersOK, storageVars, StorageInv, WellFormed

LEMMA LockKeepsInv ==
    ASSUME JobsInv, NEW w \in Workers,
           LockStep(w) \/ UnlockStep(w) \/ Escape(w)
    PROVE  JobsInv'
  <1>1. WorkersOK /\ UNCHANGED storageVars /\ UNCHANGED busVars
    BY DEF JobsInv, WorkersOK, LockStep, UnlockStep, Escape
  <1>2. WorkersOK'
    <2>1. CASE UNCHANGED jobVars
      BY <1>1, <2>1, SameWorkers
    <2>2. CASE Escape(w)
      BY <1>1, <2>2, MoveKeepsWorkers DEF Escape, Stages, StageOK
    <2> QED  BY <2>1, <2>2 DEF LockStep, UnlockStep
  <1>3. StorageInv'
    BY <1>1 DEF JobsInv, StorageInv, storageVars, WellFormed
  <1> QED  BY <1>1, <1>2, <1>3, BusUnchanged

\* What a crash leaves half written was well formed.
LEMMA CrashKeepsJobs ==
    ASSUME JobsInv, ProcessCrash
    PROVE  JobsInv'
  <1>1. StorageInv'
    BY CrashKeepsInv DEF ProcessCrash, JobsInv
  <1>2. WorkersOK'
    BY DEF ProcessCrash, WorkersOK, Stages, StageOK
  <1> QED  BY <1>1, <1>2, BusUnchanged DEF ProcessCrash

LEMMA JobsInductive == JobsInv /\ [Next]_vars => JobsInv'
  <1> SUFFICES ASSUME JobsInv, [Next]_vars PROVE JobsInv'
    OBVIOUS
  <1>1. ASSUME NEW w \in Workers, NEW r \in Requests, Take(w, r)
        PROVE  JobsInv'
    BY <1>1, TakeKeepsInv
  <1>2. ASSUME NEW w \in Workers, Work(w) PROVE JobsInv'
    BY <1>2, CheckNameKeepsInv, LockKeepsInv, SaveGroupKeepsInv,
       RemoveGroupKeepsInv, NotifyKeepsInv, ReadersKeepInv, ReplyKeepsInv
    DEF Work
  <1>3. CASE ProcessCrash
    BY <1>3, CrashKeepsJobs
  <1>4. CASE Finished \/ UNCHANGED vars
    <2>1. UNCHANGED <<storageVars, jobVars, busVars>>
      BY <1>4 DEF Finished, vars
    <2>2. WorkersOK'
      BY <2>1, SameWorkers DEF JobsInv, WorkersOK
    <2>3. StorageInv'
      BY <2>1 DEF JobsInv, StorageInv, storageVars, WellFormed
    <2> QED  BY <2>1, <2>2, <2>3, BusUnchanged
  <1> QED  BY <1>1, <1>2, <1>3, <1>4 DEF Next

LEMMA JobsInvariant == Spec => []JobsInv
  <1>1. Init => JobsInv
    <2> SUFFICES ASSUME Init PROVE JobsInv
      OBVIOUS
    <2>1. StorageInv
      BY EmptyWellFormed, InitialFileAssumption DEF Init, StorageInv, WellFormed
    <2>2. WorkersOK
      BY DEF Init, WorkersOK, Stages, StageOK
    <2>3. answers \in [Requests -> [status : {"none", "ok", "error"},
                                   out : SUBSET Line]]
      BY DEF Init
    <2> QED  BY <2>1, <2>2, <2>3 DEF Init, JobsInv, WorkersOK
  <1> QED  BY <1>1, JobsInductive, PTL DEF Spec

\* Every variable of the agent keeps its type, for any requests, any number of
\* workers and any faults.
THEOREM JobsTypeCorrect == Spec => []TypeOK
  <1>1. JobsInv /\ M!TypeOK => TypeOK
    BY DEF JobsInv, TypeOK, StageOK, StorageInv, StorageTypeOK, WellFormed
  <1> QED  BY <1>1, JobsInvariant, JobsMutexTypeOK, PTL

\* Ids identify groups whatever jobs run together and whatever fails: the lock
\* is not needed for that, each call of Storage keeps it.
THEOREM JobsIdsUnique == Spec => []IdsUnique
  <1>1. JobsInv => IdsUnique
    BY DEF JobsInv, StorageInv, IdsUnique, WellFormed
  <1> QED  BY <1>1, JobsInvariant, PTL

-----------------------------------------------------------------------------
(* Each request is with one worker at most, and nobody has answered it.    *)

Busy(w) == stage[w] # "idle"

RequestsApart ==
    /\ \A w \in Workers : Busy(w) =>
          /\ job[w].req \notin pending
          /\ answers[job[w].req].status = "none"
    /\ \A w, v \in Workers : w # v /\ Busy(w) /\ Busy(v)
                                => job[w].req # job[v].req
    /\ \A r \in pending : answers[r].status = "none"

\* A removal has nothing to do but what it was asked.
RemovalsAsked ==
    \A w \in Workers : Busy(w) /\ job[w].req.op = "REMOVE" =>
        \A i \in DOMAIN job[w].todo :
            \E k \in DOMAIN job[w].req.ids : job[w].req.ids[k] = job[w].todo[i]

PromisesInv == JobsInv /\ RequestsApart /\ RemovalsAsked /\ FileCurrent

\* What a step does to the jobs, but for what the registry sees of it.
Advances(w, st, j) ==
    /\ Busy(w) /\ st # "idle"
    /\ MoveTo(w, st, j)
    /\ j.req = job[w].req
    /\ \/ j.todo = job[w].todo
       \/ j.req.op = "REMOVE" /\ job[w].todo # <<>> /\ j.todo = Tail(job[w].todo)
       \/ j.req.op # "REMOVE"
    /\ UNCHANGED <<pending, answers>>

LEMMA AdvanceKeepsRequests ==
    ASSUME PromisesInv, NEW w \in Workers, NEW st, NEW j, Advances(w, st, j)
    PROVE  RequestsApart' /\ RemovalsAsked'
  <1>1. /\ stage' = [stage EXCEPT ![w] = st] /\ job' = [job EXCEPT ![w] = j]
        /\ DOMAIN stage = Workers /\ DOMAIN job = Workers
    BY DEF Advances, MoveTo, PromisesInv, JobsInv
  <1>2. \A v \in Workers : Busy(v)' = Busy(v) /\ job'[v].req = job[v].req
    BY <1>1 DEF Advances, Busy
  <1>3. RequestsApart'
    BY <1>2 DEF Advances, PromisesInv, RequestsApart
  <1>4. RemovalsAsked'
    <2>1. ASSUME NEW v \in Workers, v # w PROVE job'[v] = job[v]
      BY <1>1, <2>1
    <2>2. ASSUME job[w].req.op = "REMOVE", NEW i \in DOMAIN j.todo
          PROVE  \E k \in DOMAIN job[w].req.ids : job[w].req.ids[k] = j.todo[i]
      <3>1. job[w].todo \in Seq(Nat)
        BY <2>2 DEF Advances, Busy, PromisesInv, JobsInv, StageOK, JobOK
      <3>2. \E m \in DOMAIN job[w].todo : job[w].todo[m] = j.todo[i]
        <4>1. CASE j.todo = job[w].todo
          BY <2>2, <4>1
        <4>2. CASE job[w].todo # <<>> /\ j.todo = Tail(job[w].todo)
          <5>1. i \in 1 .. Len(job[w].todo) - 1 /\ i + 1 \in DOMAIN job[w].todo
            BY <2>2, <3>1, <4>2
          <5>2. j.todo[i] = job[w].todo[i + 1]
            BY <3>1, <4>2, <5>1
          <5> QED  BY <5>1, <5>2
        <4> QED  BY <2>2, <4>1, <4>2 DEF Advances
      <3> QED  BY <2>2, <3>2 DEF Advances, PromisesInv, RemovalsAsked
    <2>3. job'[w] = j
      BY <1>1
    <2> QED  BY <1>2, <2>1, <2>2, <2>3
             DEF PromisesInv, RemovalsAsked, Advances
  <1> QED  BY <1>3, <1>4

LEMMA IdleKeepsRequests ==
    ASSUME PromisesInv, NEW w \in Workers, MoveTo(w, "idle", NoJob),
           Busy(w), pending' = pending,
           \A r \in Requests : r # job[w].req => answers'[r] = answers[r]
    PROVE  RequestsApart' /\ RemovalsAsked'
  <1>1. /\ stage' = [stage EXCEPT ![w] = "idle"]
        /\ job' = [job EXCEPT ![w] = NoJob]
        /\ DOMAIN stage = Workers /\ DOMAIN job = Workers
        /\ pending \subseteq Requests
    BY DEF MoveTo, PromisesInv, JobsInv
  <1>2. \A v \in Workers :
           Busy(v)' => v # w /\ Busy(v) /\ job'[v] = job[v]
    BY <1>1 DEF Busy
  <1>3. \A v \in Workers : Busy(v) => job[v].req \in Requests
    BY JobShape DEF Busy, PromisesInv, JobsInv, StageOK
  <1>4. \A v \in Workers : Busy(v)' => answers'[job[v].req] = answers[job[v].req]
    BY <1>2, <1>3 DEF PromisesInv, RequestsApart
  <1>5. \A r \in pending : answers'[r] = answers[r]
    BY <1>1 DEF PromisesInv, RequestsApart
  <1> QED  BY <1>2, <1>4, <1>5 DEF PromisesInv, RequestsApart, RemovalsAsked

LEMMA TakeKeepsRequests ==
    ASSUME PromisesInv, NEW w \in Workers, NEW r \in Requests, Take(w, r)
    PROVE  RequestsApart' /\ RemovalsAsked'
  <1> DEFINE j == [req |-> r, todo |-> IF r.op = "REMOVE" THEN r.ids ELSE {},
                   out |-> {}, status |-> "ok"]
  <1>1. PICK st, k : MoveTo(w, st, k) /\ k.req = r /\ k.todo = j.todo
    BY DEF Take, Error
  <1>2. /\ stage' = [stage EXCEPT ![w] = st] /\ job' = [job EXCEPT ![w] = k]
        /\ DOMAIN stage = Workers /\ DOMAIN job = Workers
    BY <1>1 DEF MoveTo, PromisesInv, JobsInv
  <1>3. /\ ~Busy(w) /\ r \in pending /\ pending' = pending \ {r}
        /\ answers' = answers
    BY DEF Take, Busy
  <1>4. \A v \in Workers : v # w => Busy(v)' = Busy(v) /\ job'[v] = job[v]
    BY <1>2 DEF Busy
  <1>5. job'[w] = k
    BY <1>2
  <1>6. RequestsApart'
    BY <1>1, <1>3, <1>4, <1>5 DEF PromisesInv, RequestsApart
  <1>7. RemovalsAsked'
    BY <1>1, <1>4, <1>5 DEF PromisesInv, RemovalsAsked
  <1> QED  BY <1>6, <1>7

-----------------------------------------------------------------------------
(* What a step changes that the registry sees. *)

Promising(st, j) ==
    st \in {"notifying", "done"} /\ NewGroup(j.req) /\ j.status = "ok"
Entry(j) == [client |-> j.req, id |-> Returned(j).id]
EntryIf(st, j) == IF Promising(st, j) THEN {Entry(j)} ELSE {}

\* What the others have promised.
Others(w) == {Entry(job[v]) : v \in {u \in Workers \ {w} :
                                      Promising(stage[u], job[u])}}

LEMMA PromisedBy ==
    ASSUME NEW w \in Workers
    PROVE  PromisedGroups = Others(w) \union EntryIf(stage[w], job[w])
  BY DEF PromisedGroups, Others, EntryIf, Promising, Entry

LEMMA PromisedByMove ==
    ASSUME JobsInv, NEW w \in Workers, NEW st, NEW j, MoveTo(w, st, j)
    PROVE  PromisedGroups' = Others(w) \union EntryIf(st, j)
  <1>1. /\ stage' = [stage EXCEPT ![w] = st] /\ job' = [job EXCEPT ![w] = j]
        /\ DOMAIN stage = Workers /\ DOMAIN job = Workers
    BY DEF MoveTo, JobsInv
  <1>2. \A v \in Workers : v # w => stage'[v] = stage[v] /\ job'[v] = job[v]
    BY <1>1
  <1>3. stage'[w] = st /\ job'[w] = j
    BY <1>1
  <1> QED  BY <1>2, <1>3 DEF PromisedGroups, Others, EntryIf, Promising, Entry

LEMMA SamePromises ==
    ASSUME JobsInv, NEW w \in Workers, NEW st, NEW j, MoveTo(w, st, j),
           EntryIf(st, j) = EntryIf(stage[w], job[w])
    PROVE  PromisedGroups' = PromisedGroups
  BY PromisedBy, PromisedByMove

LEMMA SameConfirmed == answers' = answers => ConfirmedGroups' = ConfirmedGroups
  BY DEF ConfirmedGroups, Succeeded

\* The requests that were asked only grow.
LEMMA AskedGrows ==
    ASSUME pending' \subseteq pending
    PROVE  UNION {{q.ids[i] : i \in DOMAIN q.ids} :
                     q \in {r \in Requests \ pending : r.op = "REMOVE"}}
           \subseteq
           UNION {{q.ids[i] : i \in DOMAIN q.ids} :
                     q \in {r \in Requests \ pending' : r.op = "REMOVE"}}
  OBVIOUS

\* A step of which the registry sees nothing, or that more was asked.
LEMMA UnseenStep ==
    ASSUME pending' \subseteq pending, Loaded' = Loaded,
           PromisedGroups' = PromisedGroups, ConfirmedGroups' = ConfirmedGroups
    PROVE  Registry!Next
  BY AskedGrows DEF Registry!Next, Registry!AskRemoval

-----------------------------------------------------------------------------
(* Each step of a job keeps the invariant and is a step of the registry.   *)

StepOK ==
    /\ RequestsApart' /\ RemovalsAsked' /\ FileCurrent'
    /\ Registry!Next

LEMMA TakeOK ==
    ASSUME PromisesInv, NEW w \in Workers, NEW r \in Requests, Take(w, r)
    PROVE  StepOK
  <1>1. PICK st, j : /\ MoveTo(w, st, j)
                     /\ \/ st \in {"checking", "section"}
                        \/ j.status = "error"
    BY DEF Take, Error
  <1>2. stage[w] = "idle"
    BY DEF Take
  <1>3. EntryIf(st, j) = EntryIf(stage[w], job[w])
    BY <1>1, <1>2 DEF EntryIf, Promising
  <1>4. PromisedGroups' = PromisedGroups
    BY <1>1, <1>3, SamePromises DEF PromisesInv
  <1>5. Loaded' = Loaded /\ FileCurrent'
    BY SameLoaded DEF Take, PromisesInv
  <1>6. pending' \subseteq pending /\ answers' = answers
    BY DEF Take
  <1> QED  BY <1>4, <1>5, <1>6, TakeKeepsRequests, SameConfirmed, UnseenStep
           DEF StepOK

\* A worker moves on and changes neither the storage nor what it promises.
LEMMA QuietOK ==
    ASSUME PromisesInv, NEW w \in Workers, NEW st, NEW j,
           Advances(w, st, j), EntryIf(st, j) = EntryIf(stage[w], job[w]),
           Query \/ UNCHANGED storageVars
    PROVE  StepOK
  <1>1. RequestsApart' /\ RemovalsAsked'
    BY AdvanceKeepsRequests
  <1>2. PromisedGroups' = PromisedGroups
    BY SamePromises DEF Advances, PromisesInv
  <1>3. Loaded' = Loaded /\ FileCurrent'
    BY SameLoaded DEF PromisesInv
  <1> QED  BY <1>1, <1>2, <1>3, SameConfirmed, UnseenStep DEF Advances, StepOK

LEMMA CheckNameOK ==
    ASSUME PromisesInv, NEW w \in Workers, CheckName(w)
    PROVE  StepOK
  <1>1. JobOK(job[w]) /\ stage[w] = "checking"
    BY DEF CheckName, PromisesInv, JobsInv, StageOK
  <1>2. PICK st, j : /\ MoveTo(w, st, j)
                     /\ \/ st = "done" /\ j = Error(job[w])
                        \/ st = "section" /\ j = job[w]
    BY DEF CheckName
  <1>3. j.req = job[w].req /\ j.todo = job[w].todo
    BY <1>1, <1>2 DEF Error, JobOK
  <1>4. st = "done" => j.status = "error"
    BY <1>1, <1>2 DEF Error, JobOK
  <1>5. EntryIf(st, j) = EntryIf(stage[w], job[w])
    BY <1>1, <1>2, <1>4 DEF EntryIf, Promising
  <1>6. Advances(w, st, j)
    BY <1>1, <1>2, <1>3 DEF Advances, Busy, CheckName, busVars
  <1> QED  BY <1>5, <1>6, QuietOK DEF CheckName

LEMMA ReadersOK ==
    ASSUME PromisesInv, NEW w \in Workers,
           ReadGroup(w) \/ ListIds(w) \/ ListGroup(w)
    PROVE  StepOK
  <1>1. JobOK(job[w]) /\ job[w].req.op \in {"READ", "LIST"} /\ Busy(w)
    BY DEF ReadGroup, ListIds, ListGroup, PromisesInv, JobsInv, StageOK, Busy
  <1>2. PICK st, j : MoveTo(w, st, j) /\ st # "idle" /\ j.req = job[w].req
    <2>1. CASE ReadGroup(w)
      BY <1>1, <2>1 DEF ReadGroup, Error, JobOK
    <2>2. CASE ListIds(w)
      BY <1>1, <2>2 DEF ListIds, JobOK
    <2>3. CASE ListGroup(w)
      <3> DEFINE id == CHOOSE i \in job[w].todo : \A k \in job[w].todo : i =< k
                 line == [id |-> id, name |-> ById(Loaded, id).name]
                 read == [job[w] EXCEPT !.todo = @ \ {id},
                                        !.out = @ \union {line}]
      <3>1. \/ MoveTo(w, "done", job[w])
            \/ MoveTo(w, "listing", read)
            \/ MoveTo(w, "done", Error(job[w]))
        BY <2>3 DEF ListGroup
      <3> HIDE DEF id, line
      <3>2. read.req = job[w].req /\ Error(job[w]).req = job[w].req
        BY <1>1 DEF JobOK, Error
      <3> QED  BY <3>1, <3>2
    <2> QED  BY <2>1, <2>2, <2>3
  <1>3. ~NewGroup(job[w].req)
    BY <1>1 DEF NewGroup, Saves
  <1>4. EntryIf(st, j) = EntryIf(stage[w], job[w])
    BY <1>2, <1>3 DEF EntryIf, Promising
  <1>5. Advances(w, st, j)
    BY <1>1, <1>2 DEF Advances, ReadGroup, ListIds, ListGroup, busVars
  <1> QED  BY <1>4, <1>5, QuietOK DEF ReadGroup, ListIds, ListGroup

LEMMA NotifyOK ==
    ASSUME PromisesInv, NEW w \in Workers, Notify(w)
    PROVE  StepOK
  <1>1. JobOK(job[w]) /\ stage[w] = "notifying"
    BY DEF Notify, PromisesInv, JobsInv, StageOK
  <1>2. CASE Saves(job[w].req)
    <2>1. Advances(w, "done", job[w])
      BY <1>1, <1>2 DEF Notify, Advances, Busy
    <2>2. EntryIf("done", job[w]) = EntryIf(stage[w], job[w])
      BY <1>1 DEF EntryIf, Promising
    <2> QED  BY <2>1, <2>2, QuietOK DEF Notify
  <1>3. CASE ~Saves(job[w].req)
    <2> DEFINE j == [job[w] EXCEPT !.todo = Tail(@)]
    <2>1. job[w].req.op = "REMOVE" /\ job[w].todo # <<>>
      BY <1>1, <1>3 DEF PromisesInv, JobsInv, StageOK
    <2>2. j.req = job[w].req /\ j.todo = Tail(job[w].todo)
      BY <1>1 DEF JobOK
    <2>3. MoveTo(w, "section", j) /\ UNCHANGED <<storageVars, pending, answers>>
      BY <1>3 DEF Notify
    <2> HIDE DEF j
    <2>4. Advances(w, "section", j)
      BY <1>1, <2>1, <2>2, <2>3 DEF Advances, Busy
    <2>5. EntryIf("section", j) = EntryIf(stage[w], job[w])
      BY <1>3 DEF EntryIf, Promising, NewGroup
    <2> QED  BY <2>3, <2>4, <2>5, QuietOK
  <1> QED  BY <1>2, <1>3

\* The group of a creation is made, and its creator is to be told.
LEMMA SaveGroupOK ==
    ASSUME "write" \notin Faults, PromisesInv, NEW w \in Workers, SaveGroup(w)
    PROVE  StepOK
  <1> DEFINE g == job[w].req.group
             j == [job[w] EXCEPT !.out = {Saved(Loaded, g)}]
  <1>1. JobOK(job[w]) /\ stage[w] = "section" /\ Saves(job[w].req)
    BY DEF SaveGroup, PromisesInv, JobsInv, StageOK
  <1>2. job[w].req \in Requests /\ g \in Group
    BY <1>1, JobShape, RequestTypes
  <1>3. WellFormed(Loaded)
    BY LoadedWellFormed DEF PromisesInv, JobsInv
  <1>4. Written(AfterSave(Loaded, g)) /\ MoveTo(w, "notifying", j)
    BY DEF SaveGroup, NotWritten
  <1>5. Loaded' = AfterSave(Loaded, g) /\ FileCurrent'
    BY <1>4, WrittenLoaded
  <1>6. /\ j.req = job[w].req /\ j.todo = job[w].todo
        /\ j.status = job[w].status /\ j.out = {Saved(Loaded, g)}
    BY <1>1 DEF JobOK
  <1>7. Returned(j) = Saved(Loaded, g)
    BY <1>6 DEF Returned
  <1> HIDE DEF j
  <1>8. Advances(w, "notifying", j)
    BY <1>1, <1>4, <1>6 DEF Advances, Busy, SaveGroup, busVars
  <1>9. RequestsApart' /\ RemovalsAsked'
    BY <1>8, AdvanceKeepsRequests
  <1>10. PromisedGroups' = PromisedGroups \union EntryIf("notifying", j)
    <2>1. EntryIf(stage[w], job[w]) = {}
      BY <1>1 DEF EntryIf, Promising
    <2> QED  BY <2>1, <1>4, PromisedBy, PromisedByMove DEF PromisesInv
  <1>11. ConfirmedGroups' = ConfirmedGroups /\ pending' = pending
    BY <1>8, SameConfirmed DEF Advances
  <1>12. Registry!Next
    <2>1. CASE ~NewGroup(job[w].req)
      <3>1. /\ Loaded'.lastId = Loaded.lastId
            /\ Ids(Loaded') = Ids(Loaded)
        BY <1>1, <1>2, <1>3, <1>5, <2>1, SaveIds DEF NewGroup
      <3>2. PromisedGroups' = PromisedGroups
        BY <1>6, <1>10, <2>1 DEF EntryIf, Promising
      <3> QED  BY <3>1, <3>2, <1>11 DEF Registry!Next, Registry!AskRemoval
    <2>2. CASE NewGroup(job[w].req)
      <3>1. /\ Loaded'.lastId = Loaded.lastId + 1
            /\ Ids(Loaded') = Ids(Loaded) \union {Loaded'.lastId}
            /\ Saved(Loaded, g).id = Loaded'.lastId
        BY <1>2, <1>3, <1>5, <2>2, SaveIds DEF NewGroup
      <3>2. PromisedGroups' \in
               {PromisedGroups,
                PromisedGroups \union
                    {[client |-> job[w].req, id |-> Loaded'.lastId]}}
        BY <1>6, <1>7, <1>10, <3>1 DEF EntryIf, Entry
      <3>3. \A p \in PromisedGroups : p.client # job[w].req
        <4>1. ASSUME NEW v \in Workers, Promising(stage[v], job[v])
              PROVE  Entry(job[v]).client # job[w].req
          <5>1. v # w /\ Busy(v) /\ Busy(w)
            BY <1>1, <4>1 DEF Promising, Busy
          <5> QED  BY <5>1 DEF Entry, PromisesInv, RequestsApart
        <4> QED  BY <4>1 DEF PromisedGroups, Promising, Entry
      <3>4. \A p \in ConfirmedGroups : p.client # job[w].req
        BY <1>1 DEF ConfirmedGroups, Succeeded, PromisesInv, RequestsApart, Busy
      <3>5. Registry!Create(job[w].req)
        BY <1>11, <3>1, <3>2, <3>3, <3>4
        DEF Registry!Create, Registry!Served
      <3> QED  BY <1>2, <2>2, <3>5 DEF Registry!Next
    <2> QED  BY <2>1, <2>2
  <1> QED  BY <1>5, <1>9, <1>12 DEF StepOK

\* A group goes only because this removal was asked for it.
LEMMA RemoveGroupOK ==
    ASSUME "write" \notin Faults, PromisesInv, NEW w \in Workers, RemoveGroup(w)
    PROVE  StepOK
  <1> DEFINE id == Head(job[w].todo)
             line(ok) ==
                 [job[w] EXCEPT !.out = @ \union {[id |-> id, ok |-> ok]}]
             failed == [line(FALSE) EXCEPT !.todo = Tail(@)]
  <1>1. JobOK(job[w]) /\ stage[w] = "section" /\ job[w].req.op = "REMOVE"
    BY DEF RemoveGroup, PromisesInv, JobsInv, StageOK
  <1>2. ~NewGroup(job[w].req)
    BY <1>1 DEF NewGroup, Saves
  <1>3. \A ok : line(ok).req = job[w].req /\ line(ok).todo = job[w].todo
    BY <1>1 DEF JobOK
  <1>4. failed.req = job[w].req /\ failed.todo = Tail(job[w].todo)
    BY <1>1 DEF JobOK
  <1>5. \A st, j : j.req = job[w].req => EntryIf(st, j) = {}
    BY <1>2 DEF EntryIf, Promising
  <1>6. UNCHANGED <<pending, answers>> /\ Busy(w)
    BY <1>1 DEF RemoveGroup, busVars, Busy
  <1>7. \/ job[w].todo = <<>> /\ MoveTo(w, "done", job[w]) /\ UNCHANGED storageVars
        \/ /\ job[w].todo # <<>> /\ id \in Ids(Loaded)
           /\ Written(AfterRemove(Loaded, id)) /\ MoveTo(w, "notifying", line(TRUE))
        \/ job[w].todo # <<>> /\ Query /\ MoveTo(w, "section", failed)
    BY DEF RemoveGroup, NotWritten
  <1>8. CASE job[w].todo = <<>> /\ MoveTo(w, "done", job[w]) /\ UNCHANGED storageVars
    <2>1. Advances(w, "done", job[w])
      BY <1>6, <1>8 DEF Advances
    <2> QED  BY <1>5, <1>8, <2>1, QuietOK
  <1>9. CASE job[w].todo # <<>> /\ Query /\ MoveTo(w, "section", failed)
    <2> HIDE DEF failed
    <2>1. Advances(w, "section", failed)
      BY <1>1, <1>4, <1>6, <1>9 DEF Advances
    <2> QED  BY <1>4, <1>5, <1>9, <2>1, QuietOK
  <1>10. CASE /\ job[w].todo # <<>> /\ id \in Ids(Loaded)
              /\ Written(AfterRemove(Loaded, id))
              /\ MoveTo(w, "notifying", line(TRUE))
    <2> HIDE DEF line
    <2>1. Advances(w, "notifying", line(TRUE))
      BY <1>3, <1>6, <1>10 DEF Advances
    <2>2. RequestsApart' /\ RemovalsAsked'
      BY <2>1, AdvanceKeepsRequests
    <2>3. Loaded' = AfterRemove(Loaded, id) /\ FileCurrent'
      BY <1>10, WrittenLoaded
    <2>4. Loaded'.lastId = Loaded.lastId /\ Ids(Loaded') = Ids(Loaded) \ {id}
      BY <2>3, LoadedWellFormed, RemoveIds DEF PromisesInv, JobsInv
    <2>5. PromisedGroups' = PromisedGroups
      BY <1>3, <1>5, <1>10, SamePromises DEF PromisesInv
    <2>6. ConfirmedGroups' = ConfirmedGroups
      BY <1>6, SameConfirmed
    <2>7. \E q \in {r \in Requests \ pending : r.op = "REMOVE"} :
             id \in {q.ids[i] : i \in DOMAIN q.ids}
      <3>1. job[w].todo \in Seq(Nat)
        BY <1>1 DEF JobOK
      <3>2. 1 \in DOMAIN job[w].todo /\ job[w].todo[1] = id
        BY <1>10, <3>1
      <3>3. job[w].req \in Requests \ pending
        BY <1>1, <1>6, JobShape DEF PromisesInv, RequestsApart
      <3> QED  BY <1>1, <1>6, <3>2, <3>3 DEF PromisesInv, RemovalsAsked
    <2>8. Registry!Remove(id)
      BY <1>6, <1>10, <2>4, <2>5, <2>6, <2>7 DEF Registry!Remove
    <2> QED  BY <1>10, <2>2, <2>3, <2>8 DEF StepOK, Registry!Next
  <1> QED  BY <1>7, <1>8, <1>9, <1>10

LEMMA SameRequests ==
    ASSUME PromisesInv, UNCHANGED <<jobVars, pending, answers>>
    PROVE  /\ RequestsApart' /\ RemovalsAsked'
           /\ PromisedGroups' = PromisedGroups
           /\ ConfirmedGroups' = ConfirmedGroups
  <1>1. RequestsApart' /\ RemovalsAsked'
    BY DEF PromisesInv, RequestsApart, RemovalsAsked, Busy, jobVars
  <1>2. PromisedGroups' = PromisedGroups
    BY DEF PromisedGroups, jobVars
  <1> QED  BY <1>1, <1>2, SameConfirmed

LEMMA LockOK ==
    ASSUME PromisesInv, NEW w \in Workers,
           LockStep(w) \/ UnlockStep(w) \/ Escape(w)
    PROVE  StepOK
  <1>1. UNCHANGED storageVars /\ UNCHANGED busVars
    BY DEF LockStep, UnlockStep, Escape
  <1>2. Loaded' = Loaded /\ FileCurrent'
    BY <1>1, SameLoaded DEF PromisesInv
  <1>3. CASE UNCHANGED jobVars
    BY <1>1, <1>2, <1>3, SameRequests, UnseenStep DEF StepOK, busVars
  <1>4. CASE Escape(w)
    <2>1. MoveTo(w, "idle", NoJob) /\ stage[w] = "section"
      BY <1>4 DEF Escape
    <2>2. RequestsApart' /\ RemovalsAsked'
      BY <1>1, <2>1, IdleKeepsRequests DEF busVars, Busy
    <2>3. EntryIf("idle", NoJob) = EntryIf(stage[w], job[w])
      BY <2>1 DEF EntryIf, Promising
    <2>4. PromisedGroups' = PromisedGroups
      BY <2>1, <2>3, SamePromises DEF PromisesInv
    <2>5. ConfirmedGroups' = ConfirmedGroups
      BY <1>1, SameConfirmed DEF busVars
    <2> QED  BY <1>1, <1>2, <2>2, <2>4, <2>5, UnseenStep DEF StepOK, busVars
  <1> QED  BY <1>3, <1>4 DEF LockStep, UnlockStep

\* The reply tells the creator of its group, or is lost with it.
LEMMA ReplyOK ==
    ASSUME PromisesInv, NEW w \in Workers, Reply(w)
    PROVE  StepOK
  <1> DEFINE r == job[w].req
             reply == [status |-> job[w].status, out |-> job[w].out]
  <1>1. /\ JobOK(job[w]) /\ stage[w] = "done" /\ r \in Requests
        /\ answers[r].status = "none"
    BY JobShape
    DEF Reply, PromisesInv, JobsInv, StageOK, RequestsApart, Busy
  <1>2. /\ MoveTo(w, "idle", NoJob) /\ pending' = pending
        /\ UNCHANGED storageVars
    BY DEF Reply
  <1>3. Loaded' = Loaded /\ FileCurrent'
    BY <1>2, SameLoaded DEF PromisesInv
  <1>4. /\ DOMAIN answers = Requests
        /\ \/ answers' = [answers EXCEPT ![r] = reply]
           \/ answers' = answers
    BY DEF Reply, PromisesInv, JobsInv
  <1>5. RequestsApart' /\ RemovalsAsked'
    <2>1. \A q \in Requests : q # r => answers'[q] = answers[q]
      BY <1>4
    <2> QED  BY <1>1, <1>2, <2>1, IdleKeepsRequests DEF Busy
  <1>6. /\ PromisedGroups = Others(w) \union EntryIf("done", job[w])
        /\ PromisedGroups' = Others(w)
    <2>1. EntryIf("idle", NoJob) = {}
      BY DEF EntryIf, Promising
    <2> QED  BY <1>1, <1>2, <2>1, PromisedBy, PromisedByMove DEF PromisesInv
  <1>7. CASE answers' = answers
    BY <1>2, <1>3, <1>5, <1>6, <1>7, SameConfirmed
    DEF StepOK, Registry!Next, Registry!Forget
  <1>8. CASE answers' = [answers EXCEPT ![r] = reply]
    <2>1. answers'[r] = reply /\ \A q \in Requests : q # r => answers'[q] = answers[q]
      BY <1>1, <1>4, <1>8
    <2>2. Returned(reply) = Returned(job[w])
      BY DEF Returned
    <2>3. ConfirmedGroups' = ConfirmedGroups \union EntryIf("done", job[w])
      <3> DEFINE of(q, a) == [client |-> q, id |-> Returned(a).id]
                 told(q, a) == NewGroup(q) /\ a.status = "ok"
      <3>1. PICK c \in Requests : c = job[w].req
        BY <1>1
      <3>2. \A q \in Requests : q # c => answers'[q] = answers[q]
        BY <2>1, <3>1
      <3>3. ~told(c, answers[c]) /\ answers'[c] = reply
        BY <1>1, <2>1, <3>1
      <3>4. of(c, reply) = Entry(job[w])
        BY <2>2, <3>1 DEF Entry
      <3>5. EntryIf("done", job[w]) =
               IF told(c, reply) THEN {of(c, reply)} ELSE {}
        BY <3>1, <3>4 DEF EntryIf, Promising
      <3>6. /\ ConfirmedGroups =
                  {of(q, answers[q]) : q \in {x \in Requests : told(x, answers[x])}}
            /\ ConfirmedGroups' =
                  {of(q, answers'[q]) : q \in {x \in Requests : told(x, answers'[x])}}
        BY DEF ConfirmedGroups, Succeeded
      <3>7. {x \in Requests : told(x, answers'[x])} =
               {x \in Requests : told(x, answers[x])}
                  \union (IF told(c, reply) THEN {c} ELSE {})
        <4> HIDE DEF told, reply
        <4> QED  BY <3>2, <3>3
      <3> HIDE DEF of, told, reply
      <3> QED  BY <3>2, <3>3, <3>5, <3>6, <3>7
    <2>4. CASE ~Promising("done", job[w])
      BY <1>2, <1>3, <1>5, <1>6, <2>3, <2>4, UnseenStep DEF StepOK, EntryIf
    <2>5. CASE Promising("done", job[w])
      <3>1. Entry(job[w]) \notin Others(w)
        <4>1. ASSUME NEW v \in Workers \ {w}, Promising(stage[v], job[v])
              PROVE  Entry(job[v]) # Entry(job[w])
          <5>1. Busy(v) /\ Busy(w)
            BY <1>1, <4>1 DEF Promising, Busy
          <5>2. job[v].req # job[w].req
            BY <5>1 DEF PromisesInv, RequestsApart
          <5> QED  BY <5>2 DEF Entry
        <4> QED  BY <4>1 DEF Others
      <3>2. /\ Entry(job[w]) \in PromisedGroups
            /\ PromisedGroups' = PromisedGroups \ {Entry(job[w])}
            /\ ConfirmedGroups' = ConfirmedGroups \union {Entry(job[w])}
        BY <1>6, <2>3, <2>5, <3>1 DEF EntryIf
      <3>3. Registry!Confirm(Entry(job[w]))
        BY <1>2, <1>3, <3>2 DEF Registry!Confirm
      <3> QED  BY <1>3, <1>5, <3>2, <3>3 DEF StepOK, Registry!Next
    <2> QED  BY <2>4, <2>5
  <1> QED  BY <1>4, <1>7, <1>8

\* A crash loses promises and no group.
LEMMA CrashOK ==
    ASSUME PromisesInv, ProcessCrash
    PROVE  StepOK
  <1>1. CrashStorage /\ UNCHANGED busVars
    BY DEF ProcessCrash
  <1>2. Loaded' = Loaded /\ FileCurrent'
    BY <1>1, SameLoaded DEF PromisesInv
  <1>3. \A w \in Workers : stage'[w] = "idle"
    BY DEF ProcessCrash
  <1>4. RequestsApart' /\ RemovalsAsked'
    BY <1>1, <1>3 DEF PromisesInv, RequestsApart, RemovalsAsked, Busy, busVars
  <1>5. PromisedGroups' = {}
    BY <1>3 DEF PromisedGroups
  <1>6. ConfirmedGroups' = ConfirmedGroups
    BY <1>1, SameConfirmed DEF busVars
  <1> QED  BY <1>1, <1>2, <1>4, <1>5, <1>6
           DEF StepOK, Registry!Next, Registry!Forget, busVars

-----------------------------------------------------------------------------
(* The theorems *)

LEMMA PromisesStep ==
    ASSUME "write" \notin Faults
    PROVE  PromisesInv /\ [Next]_vars
             => PromisesInv' /\ [Registry!Next]_(Registry!registry)
  <1> SUFFICES ASSUME PromisesInv, [Next]_vars PROVE StepOK
    BY JobsInductive DEF PromisesInv, StepOK
  <1>1. ASSUME NEW w \in Workers, NEW r \in Requests, Take(w, r) PROVE StepOK
    BY <1>1, TakeOK
  <1>2. ASSUME NEW w \in Workers, Work(w) PROVE StepOK
    BY <1>2, CheckNameOK, LockOK, SaveGroupOK, RemoveGroupOK, NotifyOK,
       ReadersOK, ReplyOK
    DEF Work
  <1>3. CASE ProcessCrash
    BY <1>3, CrashOK
  <1>4. CASE Finished \/ UNCHANGED vars
    <2>1. UNCHANGED <<storageVars, jobVars, busVars>>
      BY <1>4 DEF Finished, vars
    <2> QED  BY <2>1, SameRequests, SameLoaded, UnseenStep
             DEF PromisesInv, StepOK, busVars
  <1> QED  BY <1>1, <1>2, <1>3, <1>4 DEF Next

LEMMA PromisesInit == Init => PromisesInv /\ Registry!Init
  <1> SUFFICES ASSUME Init PROVE PromisesInv /\ Registry!Init
    OBVIOUS
  <1>1. StorageInv
    BY EmptyWellFormed, InitialFileAssumption DEF Init, StorageInv, WellFormed
  <1>2. JobsInv
    BY <1>1 DEF Init, JobsInv, Stages, StageOK
  <1>3. RequestsApart /\ RemovalsAsked /\ FileCurrent
    BY DEF Init, RequestsApart, RemovalsAsked, FileCurrent, Busy
  <1>4. PromisedGroups = {} /\ ConfirmedGroups = {}
    BY DEF Init, PromisedGroups, ConfirmedGroups, Succeeded
  <1>5. Loaded.lastId \in Nat /\ Ids(Loaded) \subseteq 1 .. Loaded.lastId
    <2>1. WellFormed(Loaded)
      BY <1>1, LoadedWellFormed
    <2> QED  BY <2>1 DEF WellFormed, DbObj, UniqueIds, Ids
  <1>6. Requests \ pending = {}
    BY DEF Init
  <1> QED  BY <1>2, <1>3, <1>4, <1>5, <1>6 DEF PromisesInv, Registry!Init

\* To its clients the agent is a registry that does each change at once and
\* forgets none: for any requests and workers, however the jobs interleave,
\* whatever the lock and the bus fail to do and whenever the process dies.
THEOREM JobsImplementRegistry ==
    ASSUME "write" \notin Faults
    PROVE  Spec => ImplementsRegistry
  BY PromisesInit, PromisesStep, PTL
  DEF Spec, ImplementsRegistry, Registry!Spec

\* What is proved of the registry is proved of the one the jobs implement.
LEMMA SameRegistry == Registry!Spec <=> RP!Spec
  <1>1. Registry!Init <=> RP!Init
    BY DEF Registry!Init, RP!Init
  <1>2. Registry!Next <=> RP!Next
    BY DEF Registry!Next, RP!Next, Registry!Create, RP!Create,
           Registry!Served, RP!Served, Registry!Confirm, RP!Confirm,
           Registry!Forget, RP!Forget, Registry!AskRemoval, RP!AskRemoval,
           Registry!Remove, RP!Remove
  <1>3. [Registry!Next]_(Registry!registry) <=> [RP!Next]_(RP!registry)
    BY <1>2 DEF Registry!registry, RP!registry
  <1> QED  BY <1>1, <1>3, PTL DEF Registry!Spec, RP!Spec

\* Two accepted creations never got one id, at the same time or on either side
\* of any number of restarts.
THEOREM JobsCreatedIdsDiffer ==
    ASSUME "write" \notin Faults
    PROVE  Spec => []CreatedIdsDiffer
  <1>1. RP!IdsGivenOnce => CreatedIdsDiffer
    <2> SUFFICES ASSUME RP!IdsGivenOnce,
                        NEW r \in Requests, NEW q \in Requests,
                        NewGroup(r), NewGroup(q), Succeeded(r), Succeeded(q),
                        Returned(answers[r]).id = Returned(answers[q]).id
                 PROVE  r = q
      BY DEF CreatedIdsDiffer
    <2> DEFINE of(x) == [client |-> x, id |-> Returned(answers[x]).id]
    <2>1. of(r) \in ConfirmedGroups /\ of(q) \in ConfirmedGroups
      BY DEF ConfirmedGroups
    <2>2. of(r).id = of(q).id
      OBVIOUS
    <2>3. of(r) = of(q)
      BY <2>1, <2>2 DEF RP!IdsGivenOnce
    <2>4. of(r).client = r /\ of(q).client = q
      OBVIOUS
    <2> QED  BY <2>3, <2>4
  <1>2. RP!Spec => []RP!IdsGivenOnce
    BY RP!RegistryIdsGivenOnce
  <1> QED  BY <1>1, <1>2, SameRegistry, JobsImplementRegistry, PTL
           DEF ImplementsRegistry

\* A group whose creation was accepted is there as long as no job has taken a
\* request to remove it: no other job and no restart loses it.
THEOREM JobsConfirmedGroupsStay ==
    ASSUME "write" \notin Faults
    PROVE  Spec => []ConfirmedGroupsStay
  <1>1. RP!GroupsStay => ConfirmedGroupsStay
    <2> SUFFICES ASSUME RP!GroupsStay, NEW r \in Requests,
                        NewGroup(r), Succeeded(r)
                 PROVE  \/ Returned(answers[r]).id \in Ids(Loaded)
                        \/ RemovalTaken(Returned(answers[r]).id)
      BY DEF ConfirmedGroupsStay
    <2> DEFINE p == [client |-> r, id |-> Returned(answers[r]).id]
    <2>1. p \in ConfirmedGroups
      BY DEF ConfirmedGroups
    <2>2. p.id \in Ids(Loaded) \union
             UNION {{q.ids[i] : i \in DOMAIN q.ids} :
                       q \in {x \in Requests \ pending : x.op = "REMOVE"}}
      BY <2>1 DEF RP!GroupsStay
    <2> QED  BY <2>2 DEF RemovalTaken
  <1>2. RP!Spec => []RP!GroupsStay
    BY RP!RegistryGroupsStay
  <1> QED  BY <1>1, <1>2, SameRegistry, JobsImplementRegistry, PTL
           DEF ImplementsRegistry

\* A step of the registry gives an id above the last one, or none.
LEMMA RegistryNextIds ==
    ASSUME PromisesInv, [Registry!Next]_(Registry!registry)
    PROVE  NextIds(Loaded, Loaded')
  <1>1. Loaded.lastId \in Nat
    BY LoadedWellFormed DEF PromisesInv, JobsInv, WellFormed, DbObj
  <1>2. \/ Loaded'.lastId = Loaded.lastId /\ Ids(Loaded)' \subseteq Ids(Loaded)
        \/ /\ Loaded'.lastId = Loaded.lastId + 1
           /\ Ids(Loaded)' = Ids(Loaded) \union {Loaded.lastId + 1}
    BY DEF Registry!Next, Registry!Create, Registry!Confirm, Registry!Forget,
           Registry!AskRemoval, Registry!Remove, Registry!registry
  <1> QED  BY <1>1, <1>2 DEF NextIds

\* No job gives an id that was given before, whatever jobs ran meanwhile and
\* however often the process was started again: a client that kept the id of a
\* removed group never gets another group by it.
THEOREM JobsIdsNeverReused ==
    ASSUME "write" \notin Faults
    PROVE  Spec => IdsNeverReused
  <1>1. PromisesInv /\ [Next]_vars
          => [~Clear => /\ Loaded'.lastId >= Loaded.lastId
                        /\ \A id \in Ids(Loaded') \ Ids(Loaded) :
                               id > Loaded.lastId]_storageVars
    BY PromisesStep, RegistryNextIds DEF NextIds
  <1> QED  BY <1>1, PromisesInit, PromisesStep, PTL DEF Spec, IdsNeverReused

\* When the process dies between two calls of the storage, the jobs that come
\* after the restart find what the jobs before it stored.
THEOREM JobsSurviveCrash ==
    ASSUME "write" \notin Faults
    PROVE  Spec => CrashLosesNothing
  <1>1. PromisesInv => [Crash => Loaded' = Loaded]_storageVars
    BY SameLoaded DEF PromisesInv, Crash
  <1> QED  BY <1>1, PromisesInit, PromisesStep, PTL DEF Spec, CrashLosesNothing

-----------------------------------------------------------------------------
\* What a subscriber who knows the ids s knows after the event e.
Told(s, e) ==
    CASE e.what = "CREATED" -> s \union {e.id}
      [] e.what = "DELETED" -> s \ {e.id}
      [] OTHER -> s

-----------------------------------------------------------------------------
(* What a subscriber knows, as a function of the events.  The functions    *)
(* that solve its recursion are one for the empty sequence, and one more   *)
(* event keeps it so: the invariant carries the induction that the         *)
(* provers cannot do over the sequence.                                    *)

Solves(f, ev) ==
    f = [n \in 0 .. Len(ev) |->
            IF n = 0 THEN Ids(InitialFile)
            ELSE CASE ev[n].what = "CREATED" -> f[n-1] \union {ev[n].id}
                   [] ev[n].what = "DELETED" -> f[n-1] \ {ev[n].id}
                   [] OTHER -> f[n-1]]

OneSolution(ev) ==
    \E f : Solves(f, ev) /\ \A g : Solves(g, ev) => g = f

KnownOf(ev) == CHOOSE f : Solves(f, ev)

LEMMA KnownIsSolution == Known = KnownOf(events)
  BY DEF Known, KnownOf, Solves

LEMMA KnownSolves ==
    ASSUME NEW ev, OneSolution(ev)
    PROVE  /\ Solves(KnownOf(ev), ev)
           /\ \A g : Solves(g, ev) => g = KnownOf(ev)
  BY DEF OneSolution, KnownOf

LEMMA NoEventYet ==
    /\ OneSolution(<<>>)
    /\ KnownOf(<<>>)[0] = Ids(InitialFile)
  <1> DEFINE f == [n \in 0 .. 0 |-> Ids(InitialFile)]
  <1>1. \A g : Solves(g, <<>>) <=> g = f
    <2>1. 0 .. Len(<<>>) = {0} /\ 0 .. 0 = {0}
      OBVIOUS
    <2>2. ASSUME NEW g
          PROVE  [n \in {0} |->
                    IF n = 0 THEN Ids(InitialFile)
                    ELSE CASE <<>>[n].what = "CREATED" -> g[n-1] \union {<<>>[n].id}
                           [] <<>>[n].what = "DELETED" -> g[n-1] \ {<<>>[n].id}
                           [] OTHER -> g[n-1]]
                 = [n \in {0} |-> Ids(InitialFile)]
      OBVIOUS
    <2> QED  BY <2>1, <2>2 DEF Solves
  <1>2. f[0] = Ids(InitialFile)
    OBVIOUS
  <1> HIDE DEF f
  <1>3. OneSolution(<<>>)
    BY <1>1 DEF OneSolution
  <1> QED  BY <1>1, <1>2, <1>3, KnownSolves

FunctionOn(f, S) == f = [n \in S |-> f[n]]

\* A solution says at 0 what the file had, and at n what event n made of it.
LEMMA SolvedAt ==
    ASSUME NEW ev, NEW N \in Nat, Len(ev) = N, NEW f
    PROVE  Solves(f, ev) <=>
              /\ FunctionOn(f, 0 .. N)
              /\ f[0] = Ids(InitialFile)
              /\ \A n \in 1 .. N : f[n] = Told(f[n-1], ev[n])
  <1> DEFINE val(n) == IF n = 0 THEN Ids(InitialFile) ELSE Told(f[n-1], ev[n])
  <1>1. Solves(f, ev) <=> f = [n \in 0 .. N |-> val(n)]
    BY DEF Solves, Told
  <1>2. f = [n \in 0 .. N |-> val(n)] <=>
          /\ FunctionOn(f, 0 .. N)
          /\ \A n \in 0 .. N : f[n] = val(n)
    <2> HIDE DEF val
    <2> QED  BY DEF FunctionOn
  <1>3. (\A n \in 0 .. N : f[n] = val(n)) <=>
          /\ f[0] = Ids(InitialFile)
          /\ \A n \in 1 .. N : f[n] = Told(f[n-1], ev[n])
    <2>1. 0 .. N = {0} \union 1 .. N /\ 0 \notin 1 .. N
      OBVIOUS
    <2>2. val(0) = Ids(InitialFile)
      OBVIOUS
    <2>3. \A n \in 1 .. N : val(n) = Told(f[n-1], ev[n])
      BY <2>1
    <2> HIDE DEF val
    <2> QED  BY <2>1, <2>2, <2>3
  <1> QED  BY <1>1, <1>2, <1>3

LEMMA OneMoreEvent ==
    ASSUME NEW E, NEW ev \in Seq(E), NEW e \in E, OneSolution(ev)
    PROVE  /\ OneSolution(Append(ev, e))
           /\ KnownOf(Append(ev, e))[Len(Append(ev, e))]
                 = Told(KnownOf(ev)[Len(ev)], e)
  <1> DEFINE more == Append(ev, e)
             N == Len(ev)
             k == KnownOf(ev)
             f == [n \in 0 .. N + 1 |-> IF n = N + 1 THEN Told(k[N], e) ELSE k[n]]
  <1>1. /\ N \in Nat /\ Len(more) = N + 1 /\ more[N + 1] = e
        /\ \A n \in 1 .. N : more[n] = ev[n]
    OBVIOUS
  <1>2. /\ Solves(k, ev)
        /\ \A g : Solves(g, ev) => g = k
    BY KnownSolves
  <1> HIDE DEF more, N, k
  <1>3. /\ k[0] = Ids(InitialFile)
        /\ \A n \in 1 .. N : k[n] = Told(k[n-1], ev[n])
    BY <1>1, <1>2, SolvedAt DEF N
  <1>4. /\ FunctionOn(f, 0 .. N + 1)
        /\ f[N + 1] = Told(k[N], e)
        /\ \A n \in 0 .. N : f[n] = k[n]
    BY <1>1 DEF FunctionOn
  <1> HIDE DEF f
  <1> DEFINE L == N + 1
  <1>5. ASSUME NEW g
        PROVE  Solves(g, more) <=>
                  /\ FunctionOn(g, 0 .. L)
                  /\ g[0] = Ids(InitialFile)
                  /\ \A n \in 1 .. L : g[n] = Told(g[n-1], more[n])
    <2>1. L \in Nat /\ Len(more) = L
      BY <1>1
    <2> HIDE DEF L
    <2> QED  BY <2>1, SolvedAt
  <1>6. Solves(f, more)
    <2>1. f[0] = Ids(InitialFile)
      BY <1>1, <1>3, <1>4
    <2>2. ASSUME NEW n \in 1 .. N + 1 PROVE f[n] = Told(f[n-1], more[n])
      <3>1. CASE n = N + 1
        BY <1>1, <1>4, <3>1
      <3>2. CASE n # N + 1
        <4>1. n \in 1 .. N /\ n \in 0 .. N /\ n - 1 \in 0 .. N
          BY <1>1, <3>2
        <4> QED  BY <1>1, <1>3, <1>4, <4>1
      <3> QED  BY <3>1, <3>2
    <2> QED  BY <1>4, <2>1, <2>2, <1>5
  <1>7. ASSUME NEW g, Solves(g, more) PROVE g = f
    <2>1. /\ FunctionOn(g, 0 .. N + 1)
          /\ g[0] = Ids(InitialFile)
          /\ \A n \in 1 .. N + 1 : g[n] = Told(g[n-1], more[n])
      BY <1>7, <1>5
    <2> DEFINE h == [n \in 0 .. N |-> g[n]]
    <2>2. FunctionOn(h, 0 .. N) /\ \A n \in 0 .. N : h[n] = g[n]
      BY DEF FunctionOn
    <2> HIDE DEF h
    <2>3. h[0] = Ids(InitialFile)
      BY <1>1, <2>1, <2>2
    <2>4. ASSUME NEW n \in 1 .. N PROVE h[n] = Told(h[n-1], ev[n])
      <3>1. n \in 1 .. N + 1 /\ n \in 0 .. N /\ n - 1 \in 0 .. N
        BY <1>1
      <3> QED  BY <1>1, <2>1, <2>2, <3>1
    <2>5. h = k
      <3>1. Solves(h, ev)
        BY <1>1, <2>2, <2>3, <2>4, SolvedAt DEF N
      <3> QED  BY <1>2, <3>1
    <2>6. \A n \in 0 .. N : g[n] = f[n]
      BY <1>4, <2>2, <2>5
    <2>7. g[N + 1] = f[N + 1]
      <3>1. N + 1 \in 1 .. N + 1 /\ (N + 1) - 1 = N /\ N \in 0 .. N
        BY <1>1
      <3>2. g[N + 1] = Told(g[(N + 1) - 1], more[N + 1])
        BY <2>1, <3>1
      <3>3. g[N] = k[N]
        BY <2>2, <2>5, <3>1
      <3> QED  BY <1>1, <1>4, <3>1, <3>2, <3>3
    <2>8. \A n \in 0 .. N + 1 : n \in 0 .. N \/ n = N + 1
      BY <1>1
    <2> QED  BY <1>4, <2>1, <2>6, <2>7, <2>8 DEF FunctionOn
  <1>8. OneSolution(more)
    BY <1>6, <1>7 DEF OneSolution
  <1>9. KnownOf(more) = f
    BY <1>6, <1>8, KnownSolves
  <1> QED  BY <1>1, <1>4, <1>8, <1>9 DEF more, N, k

-----------------------------------------------------------------------------
(* Where the workers are with the lock                                     *)

Writes(j) == j.req.op \notin {"READ", "LIST"}

\* A reader on its way in or inside.
AtRead == {"wantRead", "asleepRead", "entered", "counting", "reading"}

\* Where the lock can have a worker: between the call of lock() and the end of
\* its section a writer is on the writers' way in, or inside; when it publishes
\* it is still inside, and so is a reader while it lists.
Locates(st, j, loc) ==
    /\ st \in {"idle", "checking"} => loc = "idle"
    /\ st \in {"checking", "notifying"} => Writes(j)
    /\ st = "section" =>
          loc \in IF Writes(j)
                  THEN {"wantWrite", "asleepWrite", "writing", "thrown"}
                  ELSE AtRead
    /\ st = "notifying" => loc = "writing"
    /\ st = "listing" => loc = "reading" /\ ~Writes(j)
    /\ st = "done" => loc \in {"idle", "released",
                               IF Writes(j) THEN "writing" ELSE "reading"}

LocationsOK == \A w \in Workers : Locates(stage[w], job[w], pc[w])

\* What holds of the agent without a word on events and lists.
Sound == JobsInv /\ M!TypeOK /\ M!WriterExclusion /\ LocationsOK

LEMMA MoveEffect ==
    ASSUME Sound, NEW w \in Workers, NEW st, NEW j, MoveTo(w, st, j)
    PROVE  /\ stage'[w] = st /\ job'[w] = j
           /\ \A v \in Workers : v # w => stage'[v] = stage[v] /\ job'[v] = job[v]
  BY DEF Sound, JobsInv, MoveTo

\* The lock moves the others only from the queue to a new look.
LEMMA MovedLocations ==
    ASSUME Sound, NEW w \in Workers, NEW loc,
           \/ UNCHANGED mutexVars /\ loc = pc[w]
           \/ M!Goto(w, loc) \/ M!WakeAllAnd(w, loc),
           \A v \in Workers : v # w => stage'[v] = stage[v] /\ job'[v] = job[v],
           Locates(stage'[w], job'[w], loc)
    PROVE  LocationsOK'
  <1>1. DOMAIN pc = Workers /\ stage \in [Workers -> Stages]
    BY DEF Sound, M!TypeOK, JobsInv
  <1>2. pc'[w] = loc
    BY <1>1 DEF M!Goto, M!WakeAllAnd, mutexVars
  <1>3. ASSUME NEW v \in Workers, v # w
        PROVE  \/ pc'[v] = pc[v]
               \/ pc[v] = "asleepRead" /\ pc'[v] = "wantRead"
               \/ pc[v] = "asleepWrite" /\ pc'[v] = "wantWrite"
    BY <1>1, <1>3 DEF M!Goto, M!WakeAllAnd, mutexVars
  <1>4. ASSUME NEW v \in Workers, v # w
        PROVE  Locates(stage'[v], job'[v], pc'[v])
    <2>1. Locates(stage[v], job[v], pc[v]) /\ stage[v] \in Stages
      BY <1>1 DEF Sound, LocationsOK
    <2>2. Locates(stage[v], job[v], pc'[v])
      BY <1>3, <1>4, <2>1 DEF Locates, AtRead, Stages
    <2> QED  BY <1>4, <2>2
  <1> QED  BY <1>2, <1>4 DEF LocationsOK

\* A worker moves on under the lock as it is, or by a call of it.
LEMMA MoveLocated ==
    ASSUME Sound, NEW w \in Workers, NEW st, NEW j, MoveTo(w, st, j),
           NEW loc, \/ UNCHANGED mutexVars /\ loc = pc[w]
                    \/ M!Goto(w, loc),
           Locates(st, j, loc)
    PROVE  LocationsOK'
  BY MoveEffect, MovedLocations

\* What a step does to its worker, but for what it reads and writes.
LEMMA TakeMoves ==
    ASSUME Sound, NEW w \in Workers, NEW r \in Requests, Take(w, r)
    PROVE  \E st \in {"checking", "section", "done"} : \E j :
              MoveTo(w, st, j) /\ j.req = r /\ j.out = {} /\ LocationsOK'
  <1> DEFINE j == [req |-> r, todo |-> IF r.op = "REMOVE" THEN r.ids ELSE {},
                   out |-> {}, status |-> "ok"]
             in == IF Access(r) = "READ" THEN "wantRead" ELSE "wantWrite"
  <1>1. stage[w] = "idle" /\ pc[w] = "idle"
    BY DEF Take, Sound, LocationsOK, Locates
  <1>2. \/ UNCHANGED mutexVars /\ MoveTo(w, "done", Error(j))
        \/ UNCHANGED mutexVars /\ MoveTo(w, "checking", j) /\ Saves(r)
        \/ MoveTo(w, "section", j) /\ M!Goto(w, in)
    BY DEF Take, M!Lock
  <1>3. j.req = r /\ j.out = {} /\ Error(j).req = r /\ Error(j).out = {}
    BY DEF Error
  <1>4. /\ Locates("done", Error(j), pc[w])
        /\ Saves(r) => Locates("checking", j, pc[w])
        /\ Locates("section", j, in)
    BY <1>1, <1>3 DEF Locates, Writes, Saves, Access, AtRead
  <1> HIDE DEF j, in
  <1>5. CASE UNCHANGED mutexVars /\ MoveTo(w, "done", Error(j))
    BY <1>3, <1>4, <1>5, MoveLocated
  <1>6. CASE UNCHANGED mutexVars /\ MoveTo(w, "checking", j) /\ Saves(r)
    BY <1>3, <1>4, <1>6, MoveLocated
  <1>7. CASE MoveTo(w, "section", j) /\ M!Goto(w, in)
    BY <1>3, <1>4, <1>7, MoveLocated
  <1> QED  BY <1>2, <1>5, <1>6, <1>7

LEMMA CheckNameMoves ==
    ASSUME Sound, NEW w \in Workers, CheckName(w)
    PROVE  /\ stage[w] = "checking" /\ job[w].req.op # "LIST"
           /\ \E st \in {"section", "done"} : \E j :
                 MoveTo(w, st, j) /\ j.req = job[w].req /\ LocationsOK'
  <1>1. stage[w] = "checking" /\ pc[w] = "idle" /\ Writes(job[w])
    BY DEF CheckName, Sound, LocationsOK, Locates
  <1>2. Error(job[w]).req = job[w].req
    BY <1>1 DEF Sound, JobsInv, StageOK, JobOK, Error
  <1>3. \/ UNCHANGED mutexVars /\ MoveTo(w, "done", Error(job[w]))
        \/ MoveTo(w, "section", job[w]) /\ M!Goto(w, "wantWrite")
    BY DEF CheckName, M!Lock
  <1>4. /\ Locates("done", Error(job[w]), pc[w])
        /\ Locates("section", job[w], "wantWrite")
    BY <1>1 DEF Locates
  <1>5. CASE UNCHANGED mutexVars /\ MoveTo(w, "done", Error(job[w]))
    BY <1>1, <1>2, <1>4, <1>5, MoveLocated DEF Writes
  <1>6. CASE MoveTo(w, "section", job[w]) /\ M!Goto(w, "wantWrite")
    BY <1>1, <1>4, <1>6, MoveLocated DEF Writes
  <1> QED  BY <1>3, <1>5, <1>6

\* A writer that is about to change the groups, or has just done so.
AtChange(w) ==
    /\ pc[w] = "writing" /\ Writes(job[w]) /\ UNCHANGED mutexVars
    /\ UNCHANGED pending

LEMMA WriterMoves ==
    ASSUME Sound, NEW w \in Workers, SaveGroup(w) \/ RemoveGroup(w) \/ Notify(w)
    PROVE  /\ AtChange(w) /\ JobOK(job[w])
           /\ \E st \in {"notifying", "done", "section"} : \E j :
                 MoveTo(w, st, j) /\ j.req = job[w].req /\ LocationsOK'
  <1>1. /\ JobOK(job[w]) /\ UNCHANGED mutexVars /\ UNCHANGED pending
        /\ Locates(stage[w], job[w], pc[w])
    BY DEF SaveGroup, RemoveGroup, Notify, Sound, JobsInv, StageOK, busVars,
           LocationsOK
  <1>2. pc[w] = "writing" /\ Writes(job[w])
    BY <1>1 DEF SaveGroup, RemoveGroup, Notify, Inside, Saves, Writes, Locates
  <1>3. PICK st \in {"notifying", "done", "section"} : \E j :
           MoveTo(w, st, j) /\ j.req = job[w].req
    <2> DEFINE saved == [job[w] EXCEPT !.out = {Saved(Loaded, job[w].req.group)}]
               id == Head(job[w].todo)
               line(ok) ==
                   [job[w] EXCEPT !.out = @ \union {[id |-> id, ok |-> ok]}]
               failed == [line(FALSE) EXCEPT !.todo = Tail(@)]
               next == [job[w] EXCEPT !.todo = Tail(@)]
    <2>1. \A j \in {saved, line(TRUE), failed, next, Error(job[w])} :
             j.req = job[w].req
      BY <1>1 DEF JobOK, Error
    <2>2. \E st \in {"notifying", "done", "section"} :
          \E j \in {job[w], saved, line(TRUE), failed, next, Error(job[w])} :
             MoveTo(w, st, j)
      BY DEF SaveGroup, RemoveGroup, Notify
    <2> HIDE DEF saved, line, failed, next
    <2> QED  BY <2>1, <2>2
  <1>4. PICK j : MoveTo(w, st, j) /\ j.req = job[w].req
    BY <1>3
  <1>5. Locates(st, j, pc[w])
    BY <1>2, <1>4 DEF Locates, Writes
  <1> QED  BY <1>1, <1>2, <1>4, <1>5, MoveLocated DEF AtChange

LEMMA ReaderMoves ==
    ASSUME Sound, NEW w \in Workers,
           ReadGroup(w) \/ ListIds(w) \/ ListGroup(w)
    PROVE  /\ JobOK(job[w]) /\ stage[w] \in {"section", "listing"}
           /\ (Query \/ UNCHANGED storageVars) /\ UNCHANGED pending
           /\ \E st \in {"done", "listing"} : \E j :
                 MoveTo(w, st, j) /\ j.req = job[w].req /\ LocationsOK'
  <1>1. /\ JobOK(job[w]) /\ UNCHANGED mutexVars /\ UNCHANGED pending
        /\ stage[w] \in {"section", "listing"}
        /\ Query \/ UNCHANGED storageVars
        /\ Locates(stage[w], job[w], pc[w])
    BY DEF ReadGroup, ListIds, ListGroup, Sound, JobsInv, StageOK, busVars,
           LocationsOK
  <1>2. pc[w] = "reading" /\ ~Writes(job[w])
    BY <1>1 DEF ReadGroup, ListIds, ListGroup, Inside, Writes, Locates, AtRead
  <1>3. PICK st \in {"done", "listing"} : \E j :
           MoveTo(w, st, j) /\ j.req = job[w].req
    <2> DEFINE found == [job[w] EXCEPT !.out = {ById(Loaded, job[w].req.id)}]
               listed == [job[w] EXCEPT !.todo = Ids(Loaded)]
               id == CHOOSE i \in job[w].todo : \A k \in job[w].todo : i =< k
               read == [job[w] EXCEPT
                           !.todo = @ \ {id},
                           !.out = @ \union {[id |-> id,
                                              name |-> ById(Loaded, id).name]}]
    <2>1. \A j \in {found, listed, read, Error(job[w])} : j.req = job[w].req
      BY <1>1 DEF JobOK, Error
    <2>2. \E st \in {"done", "listing"} :
          \E j \in {job[w], found, listed, read, Error(job[w])} : MoveTo(w, st, j)
      BY DEF ReadGroup, ListIds, ListGroup
    <2> HIDE DEF found, listed, read
    <2> QED  BY <2>1, <2>2
  <1>4. PICK j : MoveTo(w, st, j) /\ j.req = job[w].req
    BY <1>3
  <1>5. Locates(st, j, pc[w])
    BY <1>2, <1>4 DEF Locates, Writes
  <1> QED  BY <1>1, <1>4, <1>5, MoveLocated

\* A step of the lock takes a worker from one place of its stage to another.
LEMMA LockLocated ==
    ASSUME Sound, NEW w \in Workers, LockStep(w) \/ UnlockStep(w)
    PROVE  LocationsOK'
  <1>1. Locates(stage[w], job[w], pc[w])
    BY DEF Sound, LocationsOK
  <1>2. UNCHANGED jobVars
    BY DEF LockStep, UnlockStep
  <1>3. \E loc : /\ M!Goto(w, loc) \/ M!WakeAllAnd(w, loc)
                 /\ Locates(stage[w], job[w], loc)
    <2>1. CASE LockStep(w)
      <3>1. stage[w] = "section" /\ M!LockStep(w)
        BY <2>1 DEF LockStep
      <3>2. \E loc : /\ M!Goto(w, loc) \/ M!WakeAllAnd(w, loc)
                     /\ \/ /\ pc[w] \in {"wantWrite", "asleepWrite"}
                           /\ loc \in {"wantWrite", "asleepWrite", "writing",
                                       "thrown"}
                        \/ pc[w] \in AtRead /\ loc \in AtRead
        BY <3>1 DEF M!LockStep, M!Sleep, M!SpuriousWake, M!EnterRead,
           M!NotifyEntered, M!CountReader, M!EnterWrite, M!OpenFails,
           M!FlockFails, AtRead
      <3> QED  BY <1>1, <3>1, <3>2 DEF Locates, AtRead
    <2>2. CASE UnlockStep(w)
      <3>1. stage[w] = "done" /\ M!UnlockStep(w)
        BY <2>2 DEF UnlockStep
      <3>2. \E loc \in {"released", "idle"} :
               M!Goto(w, loc) \/ M!WakeAllAnd(w, loc)
        BY <3>1 DEF M!UnlockStep, M!UnlockRead, M!UnlockWrite,
           M!UnlockFails, M!NotifyReleased
      <3> QED  BY <3>1, <3>2 DEF Locates
    <2> QED  BY <2>1, <2>2
  <1> QED  BY <1>2, <1>3, MovedLocations DEF jobVars

\* The worker is back, without its job.
LEMMA EndMoves ==
    ASSUME Sound, NEW w \in Workers, Escape(w) \/ Reply(w)
    PROVE  /\ MoveTo(w, "idle", NoJob) /\ stage[w] \in {"section", "done"}
           /\ UNCHANGED storageVars /\ UNCHANGED pending /\ UNCHANGED events
           /\ LocationsOK'
  <1>1. /\ MoveTo(w, "idle", NoJob) /\ stage[w] \in {"section", "done"}
        /\ UNCHANGED storageVars /\ UNCHANGED pending /\ UNCHANGED events
        /\ M!Goto(w, "idle") \/ (UNCHANGED mutexVars /\ pc[w] = "idle")
    BY DEF Escape, Reply, M!Unwind, busVars
  <1>2. Locates("idle", NoJob, "idle")
    BY DEF Locates
  <1> QED  BY <1>1, <1>2, MoveLocated

LEMMA LocationsStep == Sound /\ [Next]_vars => LocationsOK'
  <1> SUFFICES ASSUME Sound, [Next]_vars PROVE LocationsOK'
    OBVIOUS
  <1>1. ASSUME NEW w \in Workers, NEW r \in Requests, Take(w, r)
        PROVE  LocationsOK'
    BY <1>1, TakeMoves
  <1>2. ASSUME NEW w \in Workers, Work(w) PROVE LocationsOK'
    BY <1>2, CheckNameMoves, LockLocated, WriterMoves, ReaderMoves, EndMoves
    DEF Work
  <1>3. CASE ProcessCrash
    BY <1>3 DEF ProcessCrash, M!Restart, LocationsOK, Locates
  <1>4. CASE Finished \/ UNCHANGED vars
    BY <1>4
    DEF Finished, vars, jobVars, mutexVars, Sound, LocationsOK
  <1> QED  BY <1>1, <1>2, <1>3, <1>4 DEF Next

LEMMA JobsSound == Spec => []Sound
  <1>1. Init => LocationsOK
    BY DEF Init, M!Init, LocationsOK, Locates
  <1>2. JobsInv /\ M!TypeOK /\ M!WriterExclusion /\ LocationsOK /\ [Next]_vars
          => LocationsOK'
    BY LocationsStep DEF Sound
  <1> QED  BY <1>1, <1>2, JobsInvariant, JobsMutexTypeOK, JobsWritersExclude, PTL
           DEF Spec, Sound

-----------------------------------------------------------------------------
(* The events: what the subscribers have been told, and what the job that  *)
(* is about to publish adds to it, is what is stored.                      *)

Heard == KnownOf(events)[Len(events)]

Following ==
    /\ OneSolution(events)
    /\ (\A w \in Workers : stage[w] # "notifying") => Heard = Ids(Loaded)
    /\ \A w \in Workers : stage[w] = "notifying" =>
          Ids(Loaded) = Told(Heard, EventOf(job[w]))

LEMMA OneNotifies ==
    ASSUME Sound, NEW w \in Workers, NEW v \in Workers,
           pc[w] = "writing", stage[v] = "notifying"
    PROVE  w = v
  BY DEF Sound, LocationsOK, Locates, M!WriterExclusion, M!Writers

\* A step that publishes nothing and changes no group: only whether somebody
\* is about to publish must stay.
LEMMA SilentStep ==
    ASSUME Following, events' = events, Loaded' = Loaded,
           \A w \in Workers :
              \/ stage'[w] = stage[w] /\ job'[w] = job[w]
              \/ stage'[w] # "notifying" /\ stage[w] # "notifying"
    PROVE  Following'
  <1>1. Heard' = Heard
    BY DEF Heard
  <1> QED  BY <1>1 DEF Following, EventOf, Returned

LEMMA GroupsKept ==
    ASSUME Query \/ UNCHANGED storageVars
    PROVE  Loaded' = Loaded
  BY QueryLoaded DEF Loaded, storageVars

\* A worker moves on in quiet: it neither was about to publish nor is.
LEMMA QuietMove ==
    ASSUME Sound, Following, NEW w \in Workers, NEW st, NEW j, MoveTo(w, st, j),
           st # "notifying", stage[w] # "notifying",
           events' = events, Query \/ UNCHANGED storageVars
    PROVE  Following'
  BY GroupsKept, MoveEffect, SilentStep

LEMMA QuietFollows ==
    ASSUME Sound, Following, NEW w \in Workers,
           \/ \E r \in Requests : Take(w, r)
           \/ CheckName(w) \/ ReadGroup(w) \/ ListIds(w) \/ ListGroup(w)
           \/ Escape(w) \/ Reply(w)
    PROVE  Following'
  <1>1. CASE \E r \in Requests : Take(w, r)
    <2>1. PICK r \in Requests : Take(w, r)
      BY <1>1
    <2>2. stage[w] = "idle" /\ events' = events /\ UNCHANGED storageVars
      BY <2>1 DEF Take
    <2> QED  BY <2>1, <2>2, TakeMoves, QuietMove
  <1>2. CASE CheckName(w)
    <2>1. events' = events /\ Query
      BY <1>2 DEF CheckName, busVars
    <2> QED  BY <1>2, <2>1, CheckNameMoves, QuietMove
  <1>3. CASE ReadGroup(w) \/ ListIds(w) \/ ListGroup(w)
    <2>1. events' = events
      BY <1>3 DEF ReadGroup, ListIds, ListGroup, busVars
    <2>2. PICK st, j : MoveTo(w, st, j) /\ st \in {"done", "listing"}
      BY <1>3, ReaderMoves
    <2> QED  BY <1>3, <2>1, <2>2, ReaderMoves, QuietMove
  <1>4. CASE Escape(w) \/ Reply(w)
    BY <1>4, EndMoves, QuietMove
  <1> QED  BY <1>1, <1>2, <1>3, <1>4

LEMMA LockFollows ==
    ASSUME Following, NEW w \in Workers, LockStep(w) \/ UnlockStep(w)
    PROVE  Following'
  <1>1. UNCHANGED storageVars /\ events' = events /\ UNCHANGED jobVars
    BY DEF LockStep, UnlockStep, busVars
  <1> QED  BY <1>1, GroupsKept, SilentStep DEF jobVars

\* A change inside the lock: nobody else is about to publish, and the event
\* that is due says what the change did.
LEMMA ChangeFollows ==
    ASSUME Sound, Following, NEW w \in Workers, NEW j, MoveTo(w, "notifying", j),
           stage[w] = "section", pc[w] = "writing", events' = events,
           Ids(Loaded)' = Told(Ids(Loaded), EventOf(j))
    PROVE  Following'
  <1>1. \A v \in Workers : stage[v] # "notifying"
    BY OneNotifies
  <1>2. Heard = Ids(Loaded)
    BY <1>1 DEF Following
  <1>3. /\ stage'[w] = "notifying" /\ job'[w] = j
        /\ \A v \in Workers : v # w => stage'[v] = stage[v] /\ job'[v] = job[v]
    BY MoveEffect
  <1>4. Heard' = Heard
    BY DEF Heard
  <1>5. EventOf(job[w])' = EventOf(j)
    BY <1>3 DEF EventOf, Returned
  <1> QED  BY <1>1, <1>2, <1>3, <1>4, <1>5 DEF Following

\* The ids that creations and updates come with: a creation has none yet, and
\* an update has one.
ProperIds ==
    \A r \in Requests :
        /\ r.op = "CREATE" => r.group.id = NoId
        /\ r.op = "UPDATE" => r.group.id # NoId

LEMMA SaveGroupFollows ==
    ASSUME "write" \notin Faults, ProperIds, Sound, Following,
           NEW w \in Workers, SaveGroup(w)
    PROVE  Following'
  <1> DEFINE g == job[w].req.group
             j == [job[w] EXCEPT !.out = {Saved(Loaded, g)}]
  <1>1. /\ JobOK(job[w]) /\ stage[w] = "section" /\ Saves(job[w].req)
        /\ pc[w] = "writing"
    BY WriterMoves DEF SaveGroup, AtChange
  <1>2. job[w].req \in Requests /\ g \in Group
    BY <1>1, JobShape, RequestTypes
  <1>3. WellFormed(Loaded)
    BY LoadedWellFormed DEF Sound, JobsInv
  <1>4. /\ Written(AfterSave(Loaded, g)) /\ MoveTo(w, "notifying", j)
        /\ events' = events
    BY DEF SaveGroup, NotWritten, busVars
  <1>5. Loaded' = AfterSave(Loaded, g)
    BY <1>4, WrittenLoaded
  <1>6. j.req = job[w].req /\ Returned(j) = Saved(Loaded, g)
    BY <1>1 DEF JobOK, Returned
  <1> HIDE DEF j
  <1>7. Ids(Loaded)' = Told(Ids(Loaded), EventOf(j))
    <2>1. CASE job[w].req.op = "CREATE"
      <3>1. g.id = NoId
        BY <1>2, <2>1 DEF ProperIds
      <3>2. EventOf(j) = [what |-> "CREATED", id |-> Loaded.lastId + 1]
        BY <1>2, <1>3, <1>6, <2>1, <3>1, SaveIds DEF EventOf
      <3>3. Ids(Loaded') = Ids(Loaded) \union {Loaded.lastId + 1}
        BY <1>2, <1>3, <1>5, <3>1, SaveIds
      <3> QED  BY <3>2, <3>3 DEF Told
    <2>2. CASE job[w].req.op = "UPDATE"
      <3>1. g.id # NoId
        BY <1>2, <2>2 DEF ProperIds
      <3>2. EventOf(j).what = "UPDATED"
        BY <1>6, <2>2 DEF EventOf
      <3>3. Ids(Loaded') = Ids(Loaded)
        BY <1>2, <1>3, <1>5, <3>1, SaveIds
      <3> QED  BY <3>2, <3>3 DEF Told
    <2> QED  BY <1>1, <2>1, <2>2 DEF Saves
  <1> QED  BY <1>1, <1>4, <1>7, ChangeFollows

LEMMA RemoveGroupFollows ==
    ASSUME "write" \notin Faults, Sound, Following,
           NEW w \in Workers, RemoveGroup(w)
    PROVE  Following'
  <1> DEFINE id == Head(job[w].todo)
             line(ok) ==
                 [job[w] EXCEPT !.out = @ \union {[id |-> id, ok |-> ok]}]
             failed == [line(FALSE) EXCEPT !.todo = Tail(@)]
  <1>1. /\ JobOK(job[w]) /\ stage[w] = "section" /\ job[w].req.op = "REMOVE"
        /\ pc[w] = "writing" /\ events' = events
    BY WriterMoves DEF RemoveGroup, AtChange, busVars
  <1>2. line(TRUE).req = job[w].req /\ line(TRUE).todo = job[w].todo
    BY <1>1 DEF JobOK
  <1>3. \/ MoveTo(w, "done", job[w]) /\ UNCHANGED storageVars
        \/ Written(AfterRemove(Loaded, id)) /\ MoveTo(w, "notifying", line(TRUE))
        \/ Query /\ MoveTo(w, "section", failed)
    BY DEF RemoveGroup, NotWritten
  <1>4. CASE Written(AfterRemove(Loaded, id)) /\ MoveTo(w, "notifying", line(TRUE))
    <2>1. PICK j : j = line(TRUE)
      OBVIOUS
    <2>2. EventOf(j) = [what |-> "DELETED", id |-> id]
      BY <1>1, <1>2, <2>1 DEF EventOf
    <2> HIDE DEF id
    <2>3. Ids(Loaded') = Ids(Loaded) \ {id}
      BY <1>4, WrittenLoaded, LoadedWellFormed, RemoveIds DEF Sound, JobsInv
    <2>4. Ids(Loaded)' = Told(Ids(Loaded), EventOf(j))
      BY <2>2, <2>3 DEF Told
    <2> QED  BY <1>1, <1>4, <2>1, <2>4, ChangeFollows
  <1>5. CASE MoveTo(w, "done", job[w]) /\ UNCHANGED storageVars
    BY <1>1, <1>5, QuietMove
  <1>6. CASE Query /\ MoveTo(w, "section", failed)
    <2> HIDE DEF failed
    <2> QED  BY <1>1, <1>6, QuietMove
  <1> QED  BY <1>3, <1>4, <1>5, <1>6

\* The event that was due is published: the subscribers know what is stored.
LEMMA NotifyFollows ==
    ASSUME "bus" \notin Faults, Sound, Following,
           NEW w \in Workers, Notify(w)
    PROVE  Following'
  <1> DEFINE e == EventOf(job[w])
             E == [what : {"CREATED", "UPDATED", "DELETED"}, id : Nat]
  <1>1. /\ stage[w] = "notifying" /\ events' = Append(events, e)
        /\ UNCHANGED storageVars
    BY DEF Notify
  <1>2. PICK st, j : MoveTo(w, st, j) /\ st \in {"done", "section"}
    BY DEF Notify
  <1>3. \A v \in Workers : stage'[v] # "notifying"
    <2>1. \A v \in Workers : stage[v] = "notifying" => v = w
      BY OneNotifies, WriterMoves DEF AtChange
    <2> QED  BY <1>2, <2>1, MoveEffect
  <1>4. Loaded' = Loaded
    BY <1>1, GroupsKept
  <1>5. OneSolution(events') /\ Heard' = Told(Heard, e)
    <2>1. events \in Seq(E) /\ e \in E
      BY <1>1, EventTyped DEF Sound, JobsInv
    <2> HIDE DEF e, E
    <2>2. OneSolution(events)
      BY DEF Following
    <2> QED  BY <1>1, <2>1, <2>2, OneMoreEvent DEF Heard
  <1>6. Ids(Loaded) = Told(Heard, e)
    BY <1>1 DEF Following
  <1> QED  BY <1>3, <1>4, <1>5, <1>6 DEF Following

LEMMA FollowingStep ==
    ASSUME Faults \intersect {"write", "bus", "crash"} = {}, ProperIds
    PROVE  Sound /\ Following /\ [Next]_vars => Following'
  <1> SUFFICES ASSUME Sound, Following, [Next]_vars PROVE Following'
    OBVIOUS
  <1>1. ASSUME NEW w \in Workers, (\E r \in Requests : Take(w, r)) \/ Work(w)
        PROVE  Following'
    BY <1>1, QuietFollows, LockFollows, SaveGroupFollows, RemoveGroupFollows,
       NotifyFollows
    DEF Work
  <1>2. CASE Finished \/ UNCHANGED vars
    <2>1. UNCHANGED <<storageVars, jobVars, busVars>>
      BY <1>2 DEF Finished, vars
    <2> QED  BY <2>1, GroupsKept, SilentStep DEF jobVars, busVars
  <1> QED  BY <1>1, <1>2 DEF Next, ProcessCrash

\* Whoever follows the events knows the groups, however many jobs run at once:
\* events are published in the order of the changes.  It takes that writes do
\* not fail, that the bus takes every event and that the process lives on, and
\* that creations come without an id and updates with one.
THEOREM JobsSubscribersFollow ==
    ASSUME Faults \intersect {"write", "bus", "crash"} = {}, ProperIds
    PROVE  Spec => []SubscribersFollow
  <1>1. Init => Following
    <2> SUFFICES ASSUME Init PROVE Following
      OBVIOUS
    <2>1. events = <<>> /\ Len(events) = 0 /\ Ids(Loaded) = Ids(InitialFile)
      BY DEF Init, Loaded
    <2> QED  BY <2>1, NoEventYet DEF Following, Heard, Init
  <1>2. Following => SubscribersFollow
    BY KnownIsSolution DEF Following, SubscribersFollow, Heard
  <1> QED  BY <1>1, <1>2, JobsSound, FollowingStep, PTL DEF Spec

-----------------------------------------------------------------------------
(* The list that one job reads                                             *)

\* Whoever is inside has the mode it asked for.
ModesOK ==
    \A w \in Workers :
        /\ pc[w] \in Admitted => currentAccess = "READ"
        /\ pc[w] = "writing" => currentAccess = "WRITE"

\* Nothing is listed before the ids are read.
UnlistedOK ==
    \A w \in Workers :
        stage[w] = "section" /\ job[w].req.op = "LIST" => job[w].out = {}

\* What a job has listed of the database d, and what it has still to list.
Lists(st, j, d) ==
    st = "listing" =>
        /\ j.out = {[id |-> g.id, name |-> g.name] :
                       g \in {h \in d.groups : h.id \notin j.todo}}
        /\ j.todo \subseteq Ids(d)

ListsOK == \A w \in Workers : Lists(stage[w], job[w], Loaded)

\* The mode is that of whoever is inside until a reader that leaves opens the
\* lock on another.
LEMMA ModesStep ==
    ASSUME M!TypeOK, M!WriterExclusion, ModesOK, [M!Next]_(M!vars),
           ~OpenOnReader'
    PROVE  ModesOK'
  <1> USE DEF ModesOK, M!TypeOK, Admitted
  <1>1. ASSUME NEW t \in Workers, NEW access \in {"READ", "WRITE"}, M!Lock(t, access)
        PROVE  ModesOK'
    BY <1>1 DEF M!Lock, M!Goto
  <1>2. ASSUME NEW t \in Workers, M!Sleep(t) \/ M!SpuriousWake(t) \/ M!Unwind(t)
        PROVE  ModesOK'
    BY <1>2 DEF M!Sleep, M!SpuriousWake, M!Unwind, M!Goto
  <1>3. ASSUME NEW t \in Workers, M!EnterRead(t)
        PROVE  ModesOK'
    BY <1>3 DEF M!EnterRead, M!Goto, M!CanEnter
  <1>4. ASSUME NEW t \in Workers, M!CountReader(t)
        PROVE  ModesOK'
    BY <1>4 DEF M!CountReader, M!Goto
  <1>5. ASSUME NEW t \in Workers, M!NotifyEntered(t) \/ M!NotifyReleased(t)
        PROVE  ModesOK'
    BY <1>5 DEF M!NotifyEntered, M!NotifyReleased, M!WakeAllAnd
  <1>6. ASSUME NEW t \in Workers, M!EnterWrite(t)
        PROVE  ModesOK'
    BY <1>6 DEF M!EnterWrite, M!Goto, M!CanEnter
  <1>7. ASSUME NEW t \in Workers, M!OpenFails(t) \/ M!FlockFails(t)
        PROVE  ModesOK'
    BY <1>7 DEF M!OpenFails, M!FlockFails, M!Goto, M!CanEnter
  <1>8. ASSUME NEW t \in Workers, M!UnlockRead(t)
        PROVE  ModesOK'
    <2>1. /\ pc[t] = "reading" /\ pc' = [pc EXCEPT ![t] = "released"]
          /\ currentAccess' = currentAccess \/ currentAccess' = "NONE"
      BY <1>8 DEF M!UnlockRead, M!Goto
    <2>2. ASSUME NEW w \in Workers
          PROVE  /\ pc'[w] # "writing"
                 /\ pc'[w] \in Admitted => currentAccess = "READ"
      BY <2>1
    <2>3. ASSUME NEW w \in Workers, pc'[w] \in Admitted
          PROVE  currentAccess' = "READ"
      BY <2>1, <2>2, <2>3 DEF OpenOnReader
    <2> QED  BY <2>2, <2>3
  <1>9. ASSUME NEW t \in Workers, M!UnlockWrite(t)
        PROVE  ModesOK'
    <2>1. pc[t] = "writing" /\ pc' = [pc EXCEPT ![t] = "released"]
      BY <1>9 DEF M!UnlockWrite, M!Goto
    <2>2. ASSUME NEW w \in Workers
          PROVE  pc'[w] \notin Admitted /\ pc'[w] # "writing"
      BY <2>1 DEF M!WriterExclusion, M!Writers
    <2> QED  BY <2>2
  <1>10. ASSUME NEW t \in Workers, M!UnlockFails(t)
         PROVE  ModesOK'
    BY <1>10 DEF M!UnlockFails, M!Goto
  <1>11. CASE M!Restart
    BY <1>11 DEF M!Restart
  <1>12. CASE UNCHANGED M!vars
    BY <1>12 DEF M!vars
  <1> QED
    BY <1>1, <1>2, <1>3, <1>4, <1>5, <1>6, <1>7, <1>8, <1>9, <1>10, <1>11, <1>12
    DEF M!Next, M!LockStep, M!UnlockStep

-----------------------------------------------------------------------------
(* The steps of a job, for the lists *)

\* A worker moves while the groups stay what they are.
LEMMA ListMove ==
    ASSUME Sound, ListsOK, NEW w \in Workers, NEW st, NEW j, MoveTo(w, st, j),
           Query \/ UNCHANGED storageVars, Lists(st, j, Loaded)
    PROVE  ListsOK'
  <1>1. Loaded' = Loaded
    BY GroupsKept
  <1>2. ASSUME NEW v \in Workers
        PROVE  Lists(stage'[v], job'[v], Loaded)
    BY MoveEffect DEF ListsOK
  <1> QED  BY <1>1, <1>2 DEF ListsOK, Lists, Ids

\* A writer changes the groups: nobody is listing them.
LEMMA WriterLists ==
    ASSUME Sound, ModesOK, ListsOK, NEW w \in Workers,
           SaveGroup(w) \/ RemoveGroup(w) \/ Notify(w)
    PROVE  ListsOK'
  <1>1. AtChange(w)
    BY WriterMoves
  <1>2. PICK st, j : /\ MoveTo(w, st, j) /\ st # "listing"
                     /\ j.req = job[w].req
    BY WriterMoves
  <1>3. ASSUME NEW v \in Workers, stage[v] = "listing" PROVE FALSE
    <2>1. pc[v] = "reading"
      BY <1>3 DEF Sound, LocationsOK, Locates
    <2>2. currentAccess = "READ" /\ currentAccess = "WRITE"
      BY <1>1, <2>1 DEF AtChange, ModesOK, Admitted
    <2> QED  BY <2>2
  <1>4. ASSUME NEW v \in Workers PROVE stage'[v] # "listing"
    BY <1>2, <1>3, MoveEffect
  <1> QED  BY <1>4 DEF ListsOK, Lists

\* Of no group is the id still to be read that is not among the ids.
LEMMA ListIdsLists ==
    ASSUME Sound, UnlistedOK, ListsOK, NEW w \in Workers, ListIds(w)
    PROVE  ListsOK'
  <1> DEFINE j == [job[w] EXCEPT !.todo = Ids(Loaded)]
  <1>1. /\ stage[w] = "section" /\ JobOK(job[w]) /\ job[w].req.op = "LIST"
        /\ Query /\ MoveTo(w, "listing", j)
    BY ReaderMoves DEF ListIds
  <1>2. j.todo = Ids(Loaded) /\ j.out = job[w].out
    BY <1>1 DEF JobOK
  <1>3. job[w].out = {}
    BY <1>1 DEF UnlistedOK
  <1> HIDE DEF j
  <1>4. {h \in Loaded.groups : h.id \notin j.todo} = {}
    BY <1>2 DEF Ids
  <1>5. Lists("listing", j, Loaded)
    BY <1>2, <1>3, <1>4 DEF Lists
  <1> QED  BY <1>1, <1>5, ListMove

\* The line of one more group: of the ids there is one group each.
LEMMA ListGroupLists ==
    ASSUME Sound, ListsOK, NEW w \in Workers, ListGroup(w)
    PROVE  ListsOK'
  <1> DEFINE least == CHOOSE i \in job[w].todo : \A k \in job[w].todo : i =< k
             new(id) == [id |-> id, name |-> ById(Loaded, id).name]
             read(id) == [job[w] EXCEPT !.todo = @ \ {id},
                                        !.out = @ \union {new(id)}]
             line(g) == [id |-> g.id, name |-> g.name]
             left(todo) == {h \in Loaded.groups : h.id \notin todo}
  <1>1. /\ stage[w] = "listing" /\ JobOK(job[w])
        /\ Query \/ UNCHANGED storageVars
    BY ReaderMoves DEF ListGroup
  <1>2. \/ \E j : MoveTo(w, "done", j)
        \/ least \in Ids(Loaded) /\ MoveTo(w, "listing", read(least))
    BY DEF ListGroup
  <1>3. ASSUME NEW j, MoveTo(w, "done", j) PROVE ListsOK'
    <2>1. Lists("done", j, Loaded)
      BY DEF Lists
    <2> QED  BY <1>1, <1>3, <2>1, ListMove
  <1>4. ASSUME NEW id \in Ids(Loaded), MoveTo(w, "listing", read(id))
        PROVE  ListsOK'
    <2> DEFINE j == read(id)
               todo == job[w].todo
    <2>1. j.todo = todo \ {id} /\ j.out = job[w].out \union {new(id)}
      BY <1>1 DEF JobOK
    <2>2. /\ job[w].out = {line(g) : g \in left(todo)}
          /\ todo \subseteq Ids(Loaded)
      BY <1>1 DEF ListsOK, Lists
    <2>3. PICK b : b = ById(Loaded, id)
      OBVIOUS
    <2>4. b \in Loaded.groups /\ b.id = id
      BY <2>3 DEF ById, Ids
    <2>5. \A g \in Loaded.groups : g.id = id => g = b
      <3>1. UniqueIds(Loaded)
        BY LoadedWellFormed DEF Sound, JobsInv, WellFormed
      <3> QED  BY <2>4, <3>1 DEF UniqueIds
    <2>6. new(id) = line(b)
      BY <2>3, <2>4
    <2> HIDE DEF j, new, line, todo
    <2>7. left(todo \ {id}) = left(todo) \union {b}
      BY <2>4, <2>5
    <2>8. j.out = {line(g) : g \in left(j.todo)}
      <3> HIDE DEF left
      <3> QED  BY <2>1, <2>2, <2>6, <2>7
    <2>9. Lists("listing", j, Loaded)
      BY <2>1, <2>2, <2>8 DEF Lists, line
    <2>10. MoveTo(w, "listing", j)
      BY <1>4 DEF j
    <2> QED  BY <1>1, <2>9, <2>10, ListMove
  <1> HIDE DEF least, read
  <1> QED  BY <1>2, <1>3, <1>4

LEMMA ListsStep ==
    Sound /\ ModesOK /\ UnlistedOK /\ ListsOK /\ [Next]_vars => ListsOK'
  <1> SUFFICES ASSUME Sound, ModesOK, UnlistedOK, ListsOK, [Next]_vars
               PROVE  ListsOK'
    OBVIOUS
  <1>1. ASSUME NEW w \in Workers, NEW r \in Requests, Take(w, r) PROVE ListsOK'
    <2>1. PICK st, j : MoveTo(w, st, j) /\ st # "listing" /\ j.out = {}
      BY <1>1, TakeMoves
    <2>2. Lists(st, j, Loaded) /\ UNCHANGED storageVars
      BY <1>1, <2>1 DEF Lists, Take
    <2> QED  BY <2>1, <2>2, ListMove
  <1>2. ASSUME NEW w \in Workers, CheckName(w) PROVE ListsOK'
    <2>1. PICK st, j : /\ MoveTo(w, st, j) /\ st # "listing"
                       /\ j.req.op # "LIST"
      BY <1>2, CheckNameMoves
    <2>2. Lists(st, j, Loaded) /\ Query
      BY <1>2, <2>1 DEF Lists, CheckName
    <2> QED  BY <2>1, <2>2, ListMove
  <1>3. ASSUME NEW w \in Workers, ReadGroup(w) PROVE ListsOK'
    <2>1. PICK j : MoveTo(w, "done", j)
      BY <1>3 DEF ReadGroup
    <2>2. Lists("done", j, Loaded) /\ Query
      BY <1>3 DEF Lists, ReadGroup
    <2> QED  BY <2>1, <2>2, ListMove
  <1>4. ASSUME NEW w \in Workers, Escape(w) \/ Reply(w) PROVE ListsOK'
    <2>1. Lists("idle", NoJob, Loaded)
      BY DEF Lists
    <2> QED  BY <1>4, <2>1, EndMoves, ListMove
  <1>5. CASE \/ \E w \in Workers : LockStep(w) \/ UnlockStep(w)
             \/ Finished \/ UNCHANGED vars
    <2>1. UNCHANGED jobVars /\ UNCHANGED storageVars
      BY <1>5 DEF LockStep, UnlockStep, Finished, vars
    <2> QED  BY <2>1, GroupsKept DEF ListsOK, Lists, Ids, jobVars
  <1>6. CASE ProcessCrash
    BY <1>6 DEF ProcessCrash, ListsOK, Lists
  <1> QED
    BY <1>1, <1>2, <1>3, <1>4, <1>5, <1>6, WriterLists, ListIdsLists,
       ListGroupLists
    DEF Next, Work

-----------------------------------------------------------------------------
(* The theorem about lists *)

\* A worker that is not listing yet has listed nothing.
LEMMA UnlistedStep == Sound /\ UnlistedOK /\ [Next]_vars => UnlistedOK'
  <1> SUFFICES ASSUME Sound, UnlistedOK, [Next]_vars PROVE UnlistedOK'
    OBVIOUS
  <1>1. ASSUME NEW w \in Workers, NEW st, NEW j, MoveTo(w, st, j),
               st = "section" /\ j.req.op = "LIST" => j.out = {}
        PROVE  UnlistedOK'
    BY <1>1, MoveEffect DEF UnlistedOK
  <1>2. ASSUME NEW w \in Workers, NEW r \in Requests, Take(w, r)
        PROVE  UnlistedOK'
    BY <1>1, <1>2, TakeMoves
  <1>3. ASSUME NEW w \in Workers, CheckName(w) PROVE UnlistedOK'
    BY <1>1, <1>3, CheckNameMoves
  <1>4. ASSUME NEW w \in Workers, SaveGroup(w) \/ RemoveGroup(w) \/ Notify(w)
        PROVE  UnlistedOK'
    <2>1. PICK st, j : MoveTo(w, st, j) /\ j.req = job[w].req
      BY <1>4, WriterMoves
    <2>2. job[w].req.op # "LIST"
      BY <1>4, WriterMoves DEF AtChange, Writes
    <2> QED  BY <1>1, <2>1, <2>2
  <1>5. ASSUME NEW w \in Workers, ReadGroup(w) \/ ListIds(w) \/ ListGroup(w)
        PROVE  UnlistedOK'
    BY <1>1, <1>5, ReaderMoves
  <1>6. ASSUME NEW w \in Workers, Escape(w) \/ Reply(w) PROVE UnlistedOK'
    BY <1>1, <1>6, EndMoves
  <1>7. CASE \/ \E w \in Workers : LockStep(w) \/ UnlockStep(w)
             \/ Finished \/ UNCHANGED vars
    <2>1. UNCHANGED jobVars
      BY <1>7 DEF LockStep, UnlockStep, Finished, vars
    <2> QED  BY <2>1 DEF UnlistedOK, jobVars
  <1>8. CASE ProcessCrash
    BY <1>8 DEF ProcessCrash, UnlistedOK
  <1> QED  BY <1>2, <1>3, <1>4, <1>5, <1>6, <1>7, <1>8 DEF Next, Work

ListInv == Sound /\ UnlistedOK /\ (~overlapped => ModesOK /\ ListsOK)

LEMMA ListInvStep ==
    ASSUME ListInv, Sound', [ListNext]_listVars
    PROVE  ListInv'
  <1>1. [Next]_vars
    BY DEF ListNext, listVars
  <1>2. UnlistedOK'
    BY <1>1, UnlistedStep DEF ListInv
  <1>3. ASSUME ~overlapped, ~OpenOnReader' PROVE ModesOK' /\ ListsOK'
    <2>1. [M!Next]_(M!vars)
      BY <1>1, JobStepIsMutexStep
    <2>2. ModesOK'
      BY <1>3, <2>1, ModesStep DEF ListInv, Sound
    <2>3. ListsOK'
      BY <1>1, <1>3, ListsStep DEF ListInv
    <2> QED  BY <2>2, <2>3
  <1>4. ASSUME ~SomebodyInside' PROVE ModesOK' /\ ListsOK'
    <2>1. \A w \in Workers : pc'[w] \notin Admitted /\ pc'[w] # "writing"
      BY <1>4 DEF SomebodyInside
    <2>2. ModesOK'
      BY <2>1 DEF ModesOK, Admitted
    <2>3. \A w \in Workers : stage'[w] # "listing"
      BY <2>1 DEF Sound, LocationsOK, Locates, Admitted
    <2> QED  BY <2>2, <2>3 DEF ListsOK, Lists
  <1>5. CASE ListNext
    <2>1. ~overlapped' => ~OpenOnReader' /\ (~overlapped \/ ~SomebodyInside')
      BY <1>5 DEF ListNext
    <2> QED  BY <1>2, <1>3, <1>4, <2>1 DEF ListInv
  <1>6. CASE UNCHANGED listVars
    BY <1>2, <1>6 DEF ListInv, ListsOK, Lists, Loaded, Ids, ModesOK, listVars,
                      vars, storageVars, mutexVars, jobVars
  <1> QED  BY <1>5, <1>6

\* What a job lists is what is stored, whatever the other jobs do meanwhile and
\* whatever fails, until the lock is opened on a reader; and again as soon as
\* those that were inside then are out.
THEOREM JobsListIsCurrent == ListSpec => []ListIsCurrent
  <1>1. Init => UnlistedOK /\ ModesOK /\ ListsOK
    BY DEF Init, M!Init, UnlistedOK, ModesOK, Admitted, ListsOK, Lists
  <1>2. ListInv => ListIsCurrent
    BY DEF ListInv, ListsOK, Lists, ListIsCurrent
  <1>3. Sound /\ ListInit => ListInv
    BY <1>1 DEF ListInv, ListInit
  <1>4. ListSpec => Spec
    <2>1. ListInit => Init
      BY DEF ListInit
    <2>2. [ListNext]_listVars => [Next]_vars
      BY DEF ListNext, listVars
    <2> QED  BY <2>1, <2>2, PTL DEF ListSpec, Spec
  <1>5. Sound /\ ListInv /\ Sound' /\ [ListNext]_listVars => ListInv'
    BY ListInvStep
  <1> QED  BY <1>2, <1>3, <1>4, <1>5, JobsSound, PTL DEF ListSpec

=============================================================================
