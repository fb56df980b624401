----------------------------- MODULE SrrProofs -----------------------------
(***************************************************************************)
(* What a save, a restore and a reset leave behind, for any groups,        *)
(* payloads and faults, and however often other clients come in between.   *)
(***************************************************************************)
EXTENDS Srr, StorageProofs, FiniteSetTheorems

SrrInv ==
    /\ StorageInv
    /\ op \in {"idle", "list", "save", "restore", "create", "lock", "reset"}
    /\ todo \in SUBSET Nat /\ queue \in Seq(Group)
    /\ payload \in Seq(Group)
    /\ op = "idle" => todo = {} /\ queue = <<>>
    /\ op \in {"idle", "list"} => payload = <<>>
    /\ op = "create" => queue # <<>>
    /\ backup \in Seq(Group)
    /\ result \in [op : {"none", "save", "restore", "reset"},
                   status : {"none", "SUCCESS", "FAILED"}]
    /\ closed \in BOOLEAN
    /\ wanted \in Seq(Group)
    /\ kept \subseteq Group /\ met \subseteq Group
    /\ moves \in 0 .. MaxMoves /\ requests \in 0 .. MaxRequests

-----------------------------------------------------------------------------
(* Lemmas on the payload and the storage *)

LEMMA AppendInOrder ==
    ASSUME NEW E, NEW s \in Seq(E), NEW e \in E
    PROVE  InOrder(Append(s, e)) = InOrder(s) \union {e}
  <1>1. /\ DOMAIN Append(s, e) = DOMAIN s \union {Len(s) + 1}
        /\ \A i \in DOMAIN s : Append(s, e)[i] = s[i]
        /\ Append(s, e)[Len(s) + 1] = e
    OBVIOUS
  <1> DEFINE t == Append(s, e)
  <1> HIDE DEF t
  <1>2. InOrder(t) = InOrder(s) \union {e}
    BY <1>1 DEF InOrder, t
  <1> QED  BY <1>2 DEF t

LEMMA TailInOrder ==
    ASSUME NEW E, NEW s \in Seq(E), s # <<>>
    PROVE  InOrder(s) = {Head(s)} \union InOrder(Tail(s))
  <1> DEFINE t == Tail(s)
  <1>1. /\ Len(s) \in Nat \ {0} /\ DOMAIN s = 1 .. Len(s)
        /\ DOMAIN t = 1 .. Len(s) - 1
        /\ \A i \in 1 .. Len(s) - 1 : t[i] = s[i + 1]
        /\ Head(s) = s[1]
    OBVIOUS
  <1> HIDE DEF t
  <1>2. ASSUME NEW i \in DOMAIN s PROVE s[i] \in {Head(s)} \union InOrder(t)
    <2>1. CASE i = 1
      BY <1>1, <2>1
    <2>2. CASE i # 1
      <3>1. i - 1 \in DOMAIN t /\ t[i - 1] = s[i]
        BY <1>1, <1>2, <2>2
      <3> QED  BY <3>1 DEF InOrder
    <2> QED  BY <2>1, <2>2
  <1>3. ASSUME NEW i \in DOMAIN t PROVE t[i] \in InOrder(s)
    <2>1. i + 1 \in DOMAIN s /\ t[i] = s[i + 1]
      BY <1>1, <1>3
    <2> QED  BY <2>1 DEF InOrder
  <1>4. Head(s) \in InOrder(s)
    BY <1>1 DEF InOrder
  <1>5. InOrder(s) \subseteq {Head(s)} \union InOrder(t)
    BY <1>2 DEF InOrder
  <1>6. InOrder(t) \subseteq InOrder(s)
    BY <1>3 DEF InOrder
  <1> QED  BY <1>4, <1>5, <1>6 DEF t

LEMMA InOrderType ==
    ASSUME NEW E, NEW s \in Seq(E)
    PROVE  InOrder(s) \subseteq E
  BY DEF InOrder

LEMMA ChangedLoaded ==
    ASSUME NEW d, Written(d) \/ NotWritten(d)
    PROVE  Loaded' = d
  BY DEF Written, NotWritten, Loaded

LEMMA RestoredGroup ==
    ASSUME SrrInv, op = "create", NEW g, g = [Head(queue) EXCEPT !.id = NoId]
    PROVE  /\ g \in Group /\ g.id = NoId
           /\ g.name = Head(queue).name /\ g.rules = Head(queue).rules
           /\ queue \in Seq(Group) /\ queue # <<>> /\ Tail(queue) \in Seq(Group)
  <1>1. queue \in Seq(Group) /\ queue # <<>>
    BY DEF SrrInv
  <1>2. Head(queue) \in Group /\ Tail(queue) \in Seq(Group)
    BY <1>1
  <1> QED  BY <1>1, <1>2 DEF Group, NoId

LEMMA SavedNew ==
    ASSUME NEW d, WellFormed(d), NEW g \in Group, g.id = NoId
    PROVE  /\ Saved(d, g) \in Group
           /\ Saved(d, g).id = d.lastId + 1
           /\ Saved(d, g).name = g.name /\ Saved(d, g).rules = g.rules
           /\ Saved(d, g) \notin d.groups
           /\ AfterSave(d, g).groups = d.groups \union {Saved(d, g)}
  <1> USE DEF WellFormed, DbObj, Group
  <1>1. Saved(d, g) = [g EXCEPT !.id = d.lastId + 1]
    BY DEF Saved
  <1>2. /\ Saved(d, g) \in Group /\ Saved(d, g).id = d.lastId + 1
        /\ Saved(d, g).name = g.name /\ Saved(d, g).rules = g.rules
    BY <1>1
  <1>3. \A h \in d.groups : h.id \in 1 .. d.lastId
    BY DEF UniqueIds
  <1>4. AfterSave(d, g) = [lastId |-> Saved(d, g).id,
                           groups |-> d.groups \union {Saved(d, g)}]
    BY DEF AfterSave
  <1> QED  BY <1>2, <1>3, <1>4

-----------------------------------------------------------------------------
(* Types *)

LEMMA LoadedType ==
    ASSUME StorageInv
    PROVE  /\ Loaded.groups \subseteq Group /\ Loaded.lastId \in Nat
           /\ Ids(Loaded) \subseteq Nat
  BY LoadedWellFormed DEF WellFormed, DbObj, Ids, Group

LEMMA WatchTypes ==
    ASSUME SrrInv, StorageInv', Watch
    PROVE  /\ kept' \subseteq Group /\ met' \subseteq Group
           /\ requests' \in 0 .. MaxRequests /\ wanted' \in Seq(Group)
  <1>1. Loaded'.groups \subseteq Group
    BY DEF StorageInv, Loaded, WellFormed, DbObj
  <1> QED  BY <1>1 DEF SrrInv, Watch

\* The end of a job, whatever it was and however it ended.
LEMMA EndTypes ==
    ASSUME SrrInv, StorageInv', NEW o \in {"save", "restore", "reset"},
           NEW st \in {"SUCCESS", "FAILED"}, End(o, st),
           backup' \in Seq(Group), closed' \in BOOLEAN,
           moves' \in 0 .. MaxMoves, Watch
    PROVE  SrrInv'
  <1>1. <<>> \in Seq(Group)
    OBVIOUS
  <1> QED  BY <1>1, WatchTypes DEF SrrInv, End

\* A step of a job that goes on.
LEMMA GoesOnTypes ==
    ASSUME SrrInv, StorageInv', UNCHANGED <<result, backup, moves>>,
           closed' \in BOOLEAN,
           todo' \in SUBSET Nat, queue' \in Seq(Group), payload' \in Seq(Group),
           op' \in {"save", "restore", "create", "lock", "reset"},
           op' = "create" => queue' # <<>>,
           kept' \subseteq Group, met' \subseteq Group,
           requests' \in 0 .. MaxRequests, wanted' \in Seq(Group)
    PROVE  SrrInv'
  BY DEF SrrInv

LEMMA StorageStays ==
    ASSUME SrrInv, UNCHANGED storageVars
    PROVE  StorageInv'
  BY DEF storageVars, SrrInv, StorageInv, WellFormed

LEMMA LockTypes == SrrInv /\ (LockThrows \/ Unlocks) => closed' \in BOOLEAN
  BY DEF LockThrows, Unlocks

LEMMA DecodedType == SrrInv => Decoded \subseteq Seq(Group)
  <1>1. ASSUME NEW p \in Seq(Group), NEW n \in 0 .. Len(p)
        PROVE  SubSeq(p, 1, n) \in Seq(Group)
    OBVIOUS
  <1> QED  BY <1>1, SrrAssumption DEF Decoded, SrrInv

LEMMA RequestTypes == SrrInv /\ Request => SrrInv'
  <1> SUFFICES ASSUME SrrInv, NEW o \in {"save", "restore", "reset"},
                      NEW groups \in Seq(Group), Ask(o, groups)
               PROVE  SrrInv'
    <2>1. <<>> \in Seq(Group)
      OBVIOUS
    <2> QED  BY <2>1, DecodedType DEF Request
  <1>1. StorageInv'
    BY StorageStays DEF Ask
  <1> QED  BY <1>1, SrrAssumption DEF Ask, SrrInv

LEMMA ListingTypes ==
    ASSUME SrrInv, NEW o, Listing(o)
    PROVE  /\ StorageInv' /\ Loaded' = Loaded
           /\ Ids(Loaded) \in SUBSET Nat /\ {} \in SUBSET Nat
           /\ UNCHANGED <<backup, closed, wanted, moves, requests>>
           /\ kept' \subseteq Group /\ met' \subseteq Group
  <1>1. StorageInv' /\ Loaded' = Loaded
    BY QueryKeepsInv, QueryLoaded DEF Listing, SrrInv
  <1> QED  BY <1>1, LoadedType DEF Listing, SrrInv

LEMMA BeginTypes ==
    ASSUME SrrInv,
           \/ \E o \in {"save", "restore", "reset"} : ListFails(o)
           \/ BeginSave \/ BeginReset \/ BeginRestore
    PROVE  SrrInv'
  <1>1. ASSUME NEW o \in {"save", "restore", "reset"}, ListFails(o)
        PROVE  SrrInv'
    <2>1. StorageInv'
      BY <1>1, RemoveKeepsInv DEF ListFails, SrrInv
    <2>2. moves' \in 0 .. MaxMoves
      BY <1>1, SrrAssumption DEF ListFails, SrrInv
    <2> QED  BY <1>1, <2>1, <2>2, EndTypes DEF ListFails, SrrInv
  <1>2. ASSUME NEW o \in {"save", "restore", "lock"}, NEW ids \in SUBSET Nat,
               Go(o, ids), NEW a, Listing(a)
        PROVE  SrrInv'
    <2>1. /\ op' = o /\ todo' = ids /\ UNCHANGED <<queue, payload, result>>
      BY <1>2 DEF Go
    <2>2. /\ queue \in Seq(Group) /\ payload \in Seq(Group)
          /\ closed \in BOOLEAN /\ wanted \in Seq(Group)
          /\ requests \in 0 .. MaxRequests
      BY DEF SrrInv
    <2> QED  BY <1>2, <2>1, <2>2, ListingTypes, GoesOnTypes
  <1>3. CASE BeginSave \/ BeginReset
    BY <1>2, <1>3, ListingTypes DEF BeginSave, BeginReset
  <1>4. CASE BeginRestore /\ Go("restore", {})
    BY <1>2, <1>4, ListingTypes DEF BeginRestore
  <1>5. CASE BeginRestore /\ End("restore", "FAILED")
    <2>1. Listing("restore")
      BY <1>5 DEF BeginRestore
    <2>2. <<>> \in Seq(Group)
      OBVIOUS
    <2> QED  BY <1>5, <2>1, <2>2, ListingTypes DEF SrrInv, End
  <1> QED  BY <1>1, <1>3, <1>4, <1>5 DEF BeginRestore

LEMMA SaveTypes ==
    ASSUME SrrInv, SaveGroup \/ EndSave
    PROVE  SrrInv'
  <1>1. CASE EndSave
    BY <1>1, StorageStays, EndTypes DEF EndSave, SrrInv
  <1>2. CASE SaveGroup
    <2> DEFINE id == CHOOSE i \in todo : \A k \in todo : i =< k
    <2>1. /\ StorageInv' /\ todo \in SUBSET Nat /\ backup \in Seq(Group)
          /\ queue \in Seq(Group) /\ payload \in Seq(Group)
          /\ op = "save" /\ Watch /\ UNCHANGED <<backup, closed, moves>>
          /\ closed \in BOOLEAN /\ moves \in 0 .. MaxMoves
      BY <1>2, QueryKeepsInv DEF SaveGroup, SrrInv
    <2>2. CASE id \in Ids(Loaded) /\ payload' = Append(payload, ById(Loaded, id))
               /\ todo' = todo \ {id} /\ UNCHANGED <<op, queue, result>>
      <3>1. ById(Loaded, id) \in Group
        BY <2>2, ByIdIsStored, LoadedType DEF SrrInv
      <3> HIDE DEF id
      <3>2. payload' \in Seq(Group)
        BY <2>1, <2>2, <3>1
      <3>3. todo' \in SUBSET Nat
        BY <2>1, <2>2
      <3> QED  BY <2>1, <2>2, <3>2, <3>3, WatchTypes, GoesOnTypes
    <2>3. CASE End("save", "FAILED")
      BY <2>1, <2>3, EndTypes
    <2> QED  BY <1>2, <2>2, <2>3 DEF SaveGroup
  <1> QED  BY <1>1, <1>2

LEMMA RestoreTypes ==
    ASSUME SrrInv, RestoreCheck \/ RestoreGroup \/ EndRestore
    PROVE  SrrInv'
  <1>1. /\ UNCHANGED <<backup, moves>> /\ backup \in Seq(Group) /\ Watch
        /\ moves \in 0 .. MaxMoves /\ closed \in BOOLEAN
        /\ todo \in SUBSET Nat /\ payload \in Seq(Group)
    BY DEF RestoreCheck, RestoreGroup, EndRestore, SrrInv
  <1>2. CASE EndRestore
    BY <1>1, <1>2, StorageStays, EndTypes DEF EndRestore
  <1>3. CASE RestoreCheck
    <2>1. StorageInv' /\ closed' = closed
      BY <1>3, StorageStays, QueryKeepsInv DEF RestoreCheck, SrrInv
    <2>2. CASE End("restore", "FAILED")
      BY <1>1, <2>1, <2>2, EndTypes
    <2>3. CASE op' = "create" /\ UNCHANGED <<todo, queue, payload, result>>
      <3>1. queue \in Seq(Group) /\ queue # <<>>
        BY <1>3 DEF RestoreCheck, SrrInv
      <3> QED  BY <1>1, <2>1, <2>3, <3>1, WatchTypes, GoesOnTypes
    <2> QED  BY <1>3, <2>2, <2>3 DEF RestoreCheck
  <1>4. CASE RestoreGroup
    <2> DEFINE g == [Head(queue) EXCEPT !.id = NoId]
    <2>1. g \in Group /\ g.id = NoId /\ Tail(queue) \in Seq(Group)
      BY <1>4, RestoredGroup DEF RestoreGroup
    <2>2. \/ /\ Written(AfterSave(Loaded, g)) /\ Unlocks
             /\ op' = "restore" /\ queue' = Tail(queue)
             /\ payload' = Append(payload, Saved(Loaded, g))
             /\ UNCHANGED <<todo, result>>
          \/ /\ NotWritten(AfterSave(Loaded, g)) /\ Unlocks
             /\ End("restore", "FAILED")
          \/ /\ LockThrows
             /\ End("restore", "FAILED")
             /\ UNCHANGED storageVars
      BY <1>4 DEF RestoreGroup
    <2> HIDE DEF g
    <2>3. StorageInv' /\ closed' \in BOOLEAN
      BY <2>1, <2>2, SaveKeepsInv, StorageStays, LockTypes DEF Save, SrrInv
    <2>4. Append(payload, Saved(Loaded, g)) \in Seq(Group)
      <3>1. Saved(Loaded, g) \in Group
        BY <2>1, SavedNew, LoadedWellFormed DEF SrrInv
      <3> QED  BY <1>1, <3>1
    <2>5. CASE End("restore", "FAILED")
      BY <1>1, <2>3, <2>5, EndTypes
    <2> QED  BY <1>1, <2>1, <2>2, <2>3, <2>4, <2>5, WatchTypes, GoesOnTypes
  <1> QED  BY <1>2, <1>3, <1>4

LEMMA ResetTypes ==
    ASSUME SrrInv, LockReset \/ ResetGroup \/ EndReset
    PROVE  SrrInv'
  <1>1. /\ UNCHANGED <<backup, moves>> /\ backup \in Seq(Group) /\ Watch
        /\ payload \in Seq(Group) /\ queue \in Seq(Group)
        /\ todo \in SUBSET Nat /\ closed \in BOOLEAN
        /\ moves \in 0 .. MaxMoves
    BY DEF LockReset, ResetGroup, EndReset, SrrInv
  <1>2. CASE LockReset
    <2>1. StorageInv' /\ closed' \in BOOLEAN
      BY <1>1, <1>2, StorageStays, LockTypes DEF LockReset
    <2>2. CASE End("reset", "FAILED")
      BY <1>1, <2>1, <2>2, EndTypes
    <2>3. CASE op' = "reset" /\ UNCHANGED <<todo, queue, payload, result>>
      BY <1>1, <2>1, <2>3, WatchTypes, GoesOnTypes
    <2> QED  BY <1>2, <2>2, <2>3 DEF LockReset
  <1>3. CASE EndReset
    <2>1. StorageInv' /\ closed' \in BOOLEAN
      BY <1>3, StorageStays, LockTypes DEF EndReset
    <2> QED  BY <1>1, <1>3, <2>1, EndTypes DEF EndReset
  <1>4. CASE ResetGroup
    <2> DEFINE id == CHOOSE i \in todo : \A k \in todo : i =< k
    <2>1. /\ Remove(id) \/ (id \notin Ids(Loaded) /\ Query)
          /\ todo' = todo \ {id}
          /\ UNCHANGED <<op, queue, payload, result, backup, closed>>
          /\ op = "reset"
      BY <1>4 DEF ResetGroup
    <2> HIDE DEF id
    <2>2. StorageInv'
      BY <2>1, RemoveKeepsInv, QueryKeepsInv DEF SrrInv
    <2>3. todo' \in SUBSET Nat
      BY <1>1, <2>1
    <2> QED  BY <1>1, <2>1, <2>2, <2>3, WatchTypes, GoesOnTypes
  <1> QED  BY <1>2, <1>3, <1>4

LEMMA OthersTypes ==
    ASSUME SrrInv, ClientMove \/ ClientCloses \/ Restart
    PROVE  SrrInv'
  <1>1. CASE ClientMove
    <2>1. StorageInv'
      BY <1>1, SrrAssumption, SaveKeepsInv, RemoveKeepsInv DEF ClientMove, SrrInv
    <2>2. Watch /\ UNCHANGED srrVars /\ moves' \in 0 .. MaxMoves
      BY <1>1, SrrAssumption DEF ClientMove, SrrInv
    <2> QED  BY <2>1, <2>2, WatchTypes DEF SrrInv, srrVars
  <1>2. CASE ClientCloses
    BY <1>2, StorageStays DEF ClientCloses, SrrInv, history
  <1>3. CASE Restart
    <2>1. StorageInv'
      BY <1>3, CrashKeepsInv DEF Restart, SrrInv
    <2>2. <<>> \in Seq(Group)
      OBVIOUS
    <2> QED  BY <1>3, <2>1, <2>2, WatchTypes DEF Restart, SrrInv
  <1> QED  BY <1>1, <1>2, <1>3

LEMMA SrrInductive == SrrInv /\ [Next]_vars => SrrInv'
  <1> SUFFICES ASSUME SrrInv, [Next]_vars PROVE SrrInv'
    OBVIOUS
  <1>1. CASE Request \/ SrrJob
    BY <1>1, RequestTypes, BeginTypes, SaveTypes, RestoreTypes, ResetTypes
    DEF SrrJob
  <1>2. CASE ClientMove \/ ClientCloses \/ Restart
    BY <1>2, OthersTypes
  <1>3. CASE Finished \/ UNCHANGED vars
    BY <1>3 DEF Finished, vars, storageVars, srrVars, history, SrrInv,
                StorageInv, WellFormed
  <1> QED  BY <1>1, <1>2, <1>3 DEF Next

LEMMA SrrInvariant == Spec => []SrrInv
  <1>1. Init => SrrInv
    <2> SUFFICES ASSUME Init PROVE SrrInv
      OBVIOUS
    <2>1. StorageInv
      BY EmptyWellFormed, InitialFileAssumption DEF Init, StorageInv, WellFormed
    <2>2. <<>> \in Seq(Group) /\ {} \in SUBSET Nat
      OBVIOUS
    <2>3. result \in [op : {"none", "save", "restore", "reset"},
                     status : {"none", "SUCCESS", "FAILED"}]
      BY DEF Init, NoResult
    <2>4. 0 \in 0 .. MaxMoves /\ 0 \in 0 .. MaxRequests
      BY SrrAssumption
    <2>5. closed \in BOOLEAN
      BY DEF Init
    <2> QED  BY <2>1, <2>2, <2>3, <2>4, <2>5 DEF Init, SrrInv
  <1> QED  BY <1>1, SrrInductive, PTL DEF Spec

\* The state of a save, a restore or a reset stays in its types: whatever comes
\* in between, no job is left with the work of another.
THEOREM SrrTypeCorrect == Spec => []TypeOK
  <1>1. SrrInv => TypeOK
    <2> SUFFICES ASSUME SrrInv PROVE TypeOK
      OBVIOUS
    <2>1. /\ InOrder(payload) \subseteq Group /\ InOrder(backup) \subseteq Group
          /\ InOrder(queue) \subseteq Group /\ InOrder(wanted) \subseteq Group
      BY InOrderType DEF SrrInv
    <2>2. StorageTypeOK
      BY DEF SrrInv, StorageInv, StorageTypeOK, WellFormed
    <2> QED  BY <2>1, <2>2 DEF SrrInv, TypeOK
  <1> QED  BY <1>1, SrrInvariant, PTL

-----------------------------------------------------------------------------
(* Save: a group that stays is still to be read or was read as it is.      *)

SaveInv ==
    op = "save" =>
        /\ kept \subseteq Loaded.groups
        /\ \A g \in kept : g.id \in todo \/ g \in InOrder(payload)
        /\ InOrder(payload) \subseteq met

\* Whatever changes, what is kept is stored and nothing met is forgotten.
LEMMA WatchKeeps ==
    ASSUME Watch
    PROVE  kept' \subseteq kept \intersect Loaded'.groups /\ met \subseteq met'
  BY DEF Watch

LEMMA SaveStep == SrrInv /\ SaveInv /\ [Next]_vars => SaveInv'
  <1> SUFFICES ASSUME SrrInv, SaveInv, [Next]_vars, op' = "save" PROVE SaveInv'
    BY DEF SaveInv
  <1>1. CASE BeginSave
    <2>1. /\ Loaded' = Loaded /\ kept' = Loaded.groups
          /\ todo' = Ids(Loaded) /\ payload' = <<>>
      BY <1>1, QueryLoaded DEF BeginSave, Listing, Asked, Go, SrrInv
    <2>2. InOrder(<<>>) = {}
      BY DEF InOrder
    <2> QED  BY <2>1, <2>2 DEF SaveInv, Ids
  <1>2. CASE SaveGroup
    <2> DEFINE id == CHOOSE i \in todo : \A k \in todo : i =< k
    <2>1. /\ op = "save" /\ Loaded' = Loaded
          /\ id \in Ids(Loaded)
          /\ payload' = Append(payload, ById(Loaded, id))
          /\ todo' = todo \ {id}
          /\ kept' \subseteq kept /\ kept' \subseteq Loaded.groups
          /\ met' = met \union Loaded.groups
      BY <1>2, QueryLoaded DEF SaveGroup, End, Watch
    <2> HIDE DEF id
    <2>2. WellFormed(Loaded)
      BY LoadedWellFormed DEF SrrInv
    <2>3. ById(Loaded, id) \in Loaded.groups
      BY <2>1, ByIdIsStored
    <2>4. InOrder(payload') = InOrder(payload) \union {ById(Loaded, id)}
      <3>1. payload \in Seq(Group) /\ ById(Loaded, id) \in Group
        BY <2>3, LoadedType DEF SrrInv
      <3> QED  BY <2>1, <3>1, AppendInOrder
    <2>5. \A g \in kept' : g.id = id => g = ById(Loaded, id)
      BY <2>1, <2>2, ByIdFinds
    <2> QED  BY <2>1, <2>3, <2>4, <2>5 DEF SaveInv
  <1>3. CASE ClientMove
    <2>1. UNCHANGED srrVars /\ Watch
      BY <1>3 DEF ClientMove
    <2> QED  BY <2>1, WatchKeeps DEF SaveInv, srrVars
  <1>4. CASE ClientCloses \/ Finished \/ UNCHANGED vars
    <2>1. UNCHANGED <<storageVars, op, todo, payload, kept, met>>
      BY <1>4 DEF ClientCloses, Finished, vars, srrVars, history
    <2> QED  BY <2>1, SameStorage DEF SaveInv
  <1> QED
    BY <1>1, <1>2, <1>3, <1>4
    DEF Next, Request, Ask, SrrJob, ListFails, EndSave, BeginRestore,
        RestoreCheck, RestoreGroup, EndRestore, BeginReset, LockReset, ResetGroup, EndReset,
        Restart, End, Go

\* A backup has every group that was there from the list to the end, as it was
\* all the time, and none that never was, whoever changes the groups meanwhile.
THEOREM SrrBackupIsFaithful == Spec => []BackupIsFaithful
  <1>1. Init => SaveInv
    BY DEF Init, SaveInv
  <1>2. SaveInv => BackupIsFaithful
    BY DEF SaveInv, BackupIsFaithful
  <1> QED  BY <1>1, <1>2, SaveStep, SrrInvariant, PTL DEF Spec

-----------------------------------------------------------------------------
(* Reset: while nobody else is at work, what is left is still to do.       *)

ResetInv == op \in {"lock", "reset"} /\ moves = 0 => Ids(Loaded) \subseteq todo

LEMMA ResetStep == SrrInv /\ ResetInv /\ [Next]_vars => ResetInv'
  <1> SUFFICES ASSUME SrrInv, ResetInv, [Next]_vars,
                      op' \in {"lock", "reset"}, moves' = 0
               PROVE  Ids(Loaded') \subseteq todo'
    BY DEF ResetInv, Ids
  <1>1. CASE BeginReset
    BY <1>1, QueryLoaded DEF BeginReset, Listing, Go
  <1>2. CASE LockReset
    BY <1>2, SameStorage DEF LockReset, ResetInv, End
  <1>3. CASE ResetGroup
    <2> DEFINE id == CHOOSE i \in todo : \A k \in todo : i =< k
    <2>1. /\ op = "reset" /\ moves = 0 /\ todo' = todo \ {id}
          /\ Remove(id) \/ (id \notin Ids(Loaded) /\ Query)
      BY <1>3 DEF ResetGroup
    <2> HIDE DEF id
    <2>2. Ids(Loaded') \subseteq Ids(Loaded) \ {id}
      <3>1. CASE Remove(id)
        <4>1. Loaded' = AfterRemove(Loaded, id)
          BY <3>1, ChangedLoaded DEF Remove
        <4>2. AfterRemove(Loaded, id).groups = {g \in Loaded.groups : g.id # id}
          BY LoadedWellFormed DEF SrrInv, WellFormed, DbObj, AfterRemove
        <4> QED  BY <4>1, <4>2 DEF Ids
      <3>2. CASE id \notin Ids(Loaded) /\ Query
        BY <3>2, QueryLoaded
      <3> QED  BY <2>1, <3>1, <3>2
    <2> QED  BY <2>1, <2>2 DEF ResetInv
  <1>4. CASE ClientMove
    BY <1>4 DEF ClientMove, SrrInv
  <1>5. CASE ClientCloses \/ Finished \/ UNCHANGED vars
    <2>1. UNCHANGED <<storageVars, op, todo, moves>>
      BY <1>5 DEF ClientCloses, Finished, vars, srrVars, history
    <2> QED  BY <2>1, SameStorage DEF ResetInv
  <1> QED
    BY <1>1, <1>2, <1>3, <1>4, <1>5
    DEF Next, Request, Ask, SrrJob, ListFails, BeginSave, SaveGroup, EndSave,
        BeginRestore, RestoreCheck, RestoreGroup, EndRestore, EndReset,
        Restart, End, Go

\* A reset that reports success has left no group, if only it was at work; it
\* does not matter which of its writes reached the file.
THEOREM SrrResetRemovesAll == Spec => []ResetRemovesAll
  <1>1. Init => ResetInv
    BY DEF Init, ResetInv
  <1>2. ResetInv => ResetRemovesAll
    BY DEF ResetInv, ResetRemovesAll, Ids
  <1> QED  BY <1>1, <1>2, ResetStep, SrrInvariant, PTL DEF Spec

-----------------------------------------------------------------------------
(* Restore: while nobody else is at work the groups are those restored so  *)
(* far, and with those to come they make up the payload.                   *)

RestoreInv ==
    /\ Asked("restore") => wanted = queue
    /\ op \in {"restore", "create"} /\ moves = 0 =>
          /\ Loaded.groups = InOrder(payload)
          /\ IsFiniteSet(Loaded.groups)
          /\ Cardinality(Loaded.groups) = Len(payload)
          /\ payload # <<>> => file = Loaded
          /\ Len(wanted) = Len(payload) + Len(queue)
          /\ Content(InOrder(wanted)) =
                Content(InOrder(payload)) \union Content(InOrder(queue))

LEMMA BeginRestoreExact ==
    ASSUME SrrInv, RestoreInv, BeginRestore, op' = "restore"
    PROVE  RestoreInv'
  <1>1. /\ Loaded' = Loaded /\ Loaded.groups = {} /\ queue' = queue
        /\ payload' = <<>> /\ wanted' = queue
    BY QueryLoaded
    DEF BeginRestore, Listing, Asked, Go, End, SrrInv, RestoreInv
  <1>2. queue \in Seq(Group)
    BY DEF SrrInv
  <1>3. InOrder(<<>>) = {} /\ Len(<<>>) = 0 /\ Content({}) = {}
    BY DEF InOrder, Content
  <1>4. IsFiniteSet({}) /\ Cardinality({}) = 0
    BY FS_EmptySet
  <1>5. Len(queue) = 0 + Len(queue)
    BY <1>2
  <1>6. ~Asked("restore")'
    BY DEF Asked
  <1> QED  BY <1>1, <1>3, <1>4, <1>5, <1>6 DEF RestoreInv

LEMMA RestoreGroupExact ==
    ASSUME SrrInv, RestoreInv, RestoreGroup, op' = "restore", moves = 0
    PROVE  RestoreInv'
  <1> DEFINE g == [Head(queue) EXCEPT !.id = NoId]
             h == Saved(Loaded, g)
  <1>1. /\ g \in Group /\ g.id = NoId
        /\ g.name = Head(queue).name /\ g.rules = Head(queue).rules
        /\ queue \in Seq(Group) /\ queue # <<>> /\ Tail(queue) \in Seq(Group)
    BY RestoredGroup DEF RestoreGroup
  <1>2. /\ op = "create" /\ Written(AfterSave(Loaded, g)) /\ queue' = Tail(queue)
        /\ payload' = Append(payload, h) /\ wanted' = wanted
    BY DEF RestoreGroup, End, Watch
  <1> HIDE DEF g
  <1>3. WellFormed(Loaded) /\ payload \in Seq(Group)
    BY LoadedWellFormed DEF SrrInv
  <1>4. /\ h \in Group /\ h \notin Loaded.groups
        /\ h.name = Head(queue).name /\ h.rules = Head(queue).rules
        /\ AfterSave(Loaded, g).groups = Loaded.groups \union {h}
    BY <1>1, <1>3, SavedNew
  <1> HIDE DEF h
  <1>5. Loaded' = AfterSave(Loaded, g) /\ file' = Loaded'
    BY <1>2 DEF Written, Loaded
  <1>6. /\ InOrder(payload') = InOrder(payload) \union {h}
        /\ Len(payload') = Len(payload) + 1 /\ payload' # <<>>
    BY <1>2, <1>3, <1>4, AppendInOrder
  <1>7. /\ InOrder(queue) = {Head(queue)} \union InOrder(queue')
        /\ Len(queue) = 1 + Len(queue')
        /\ Len(payload) \in Nat /\ Len(queue') \in Nat
    BY <1>1, <1>2, <1>3, TailInOrder
  <1>8. /\ Loaded.groups = InOrder(payload) /\ IsFiniteSet(Loaded.groups)
        /\ Cardinality(Loaded.groups) = Len(payload)
        /\ Len(wanted) = Len(payload) + Len(queue)
        /\ Content(InOrder(wanted)) =
              Content(InOrder(payload)) \union Content(InOrder(queue))
    BY <1>2 DEF RestoreInv
  <1>9. Loaded'.groups = InOrder(payload')
    BY <1>4, <1>5, <1>6, <1>8
  <1>10. /\ IsFiniteSet(Loaded'.groups)
         /\ Cardinality(Loaded'.groups) = Len(payload')
    <2>1. PICK D : D = Loaded.groups
      OBVIOUS
    <2>2. IsFiniteSet(D) /\ Cardinality(D) = Len(payload) /\ h \notin D
      BY <1>4, <1>8, <2>1
    <2>3. /\ IsFiniteSet(D \union {h})
          /\ Cardinality(D \union {h}) = Cardinality(D) + 1
      BY <2>2, FS_AddElement
    <2>4. Loaded'.groups = D \union {h}
      BY <1>4, <1>5, <2>1
    <2> QED  BY <1>6, <2>2, <2>3, <2>4
  <1>11. Content(InOrder(payload')) \union Content(InOrder(queue'))
            = Content(InOrder(payload)) \union Content(InOrder(queue))
    BY <1>4, <1>6, <1>7 DEF Content
  <1>12. Len(wanted) = Len(payload') + Len(queue')
    BY <1>6, <1>7, <1>8
  <1>13. ~Asked("restore")'
    BY DEF Asked
  <1> QED  BY <1>2, <1>5, <1>8, <1>9, <1>10, <1>11, <1>12, <1>13 DEF RestoreInv

LEMMA RestoreStep == SrrInv /\ RestoreInv /\ [Next]_vars => RestoreInv'
  <1> SUFFICES ASSUME SrrInv, RestoreInv, [Next]_vars PROVE RestoreInv'
    OBVIOUS
  <1>1. CASE Request
    BY <1>1 DEF Request, Ask, Asked, RestoreInv
  <1>2. CASE BeginRestore
    <2>1. op' \in {"restore", "idle"}
      BY <1>2 DEF BeginRestore, End, Go
    <2> QED  BY <1>2, <2>1, BeginRestoreExact DEF RestoreInv, Asked
  <1>3. CASE RestoreCheck
    <2>1. /\ op = "restore" /\ op' \in {"create", "idle"}
          /\ op' = "create" => UNCHANGED <<queue, payload>>
          /\ UNCHANGED <<wanted, moves>>
          /\ Query \/ UNCHANGED storageVars
      BY <1>3 DEF RestoreCheck, End, Watch
    <2>2. Loaded' = Loaded /\ file' = file
      BY <2>1, QueryLoaded, SameStorage
    <2> QED  BY <2>1, <2>2 DEF RestoreInv, Asked
  <1>4. CASE RestoreGroup
    <2>1. op' \in {"restore", "idle"} /\ moves' = moves
      BY <1>4 DEF RestoreGroup, End
    <2>2. CASE op' = "restore" /\ moves = 0
      BY <1>4, <2>2, RestoreGroupExact
    <2> QED  BY <2>1, <2>2 DEF RestoreInv, Asked
  <1>5. CASE ClientMove
    <2>1. moves' # 0 /\ UNCHANGED <<op, result, queue, wanted>>
      BY <1>5 DEF ClientMove, SrrInv, srrVars, Watch
    <2> QED  BY <2>1 DEF RestoreInv, Asked
  <1>6. CASE ClientCloses \/ Finished \/ UNCHANGED vars
    <2>1. UNCHANGED <<storageVars, op, result, queue, payload, wanted, moves>>
      BY <1>6 DEF ClientCloses, Finished, vars, srrVars, history
    <2> QED  BY <2>1, SameStorage DEF RestoreInv, Asked, storageVars
  <1>7. CASE op' \notin {"list", "restore", "create"}
    BY <1>7 DEF RestoreInv, Asked
  <1> QED
    BY <1>1, <1>2, <1>3, <1>4, <1>5, <1>6, <1>7
    DEF Next, SrrJob, ListFails, BeginSave, SaveGroup, EndSave, EndRestore,
        BeginReset, LockReset, ResetGroup, EndReset, Restart, End, Go

\* A restore that reports success has made the groups decoded from the payload,
\* each once and under new ids, and written them, if only it was at work.
THEOREM SrrRestoreIsExact == Spec => []RestoreIsExact
  <1>1. Init => RestoreInv
    BY DEF Init, RestoreInv, Asked
  <1>2. SrrInv /\ RestoreInv => RestoreIsExact
    <2> SUFFICES ASSUME SrrInv, RestoreInv, op = "restore", queue = <<>>,
                        moves = 0
                 PROVE  /\ Content(Loaded.groups) = Content(InOrder(wanted))
                        /\ Cardinality(Loaded.groups) = Len(wanted)
                        /\ wanted # <<>> => file = Loaded
      BY DEF RestoreIsExact
    <2>1. Len(<<>>) = 0 /\ Content(InOrder(<<>>)) = {}
      BY DEF InOrder, Content
    <2>2. wanted \in Seq(Group) /\ payload \in Seq(Group)
      BY DEF SrrInv
    <2>3. /\ Len(wanted) = Len(payload) + Len(<<>>)
          /\ Content(InOrder(wanted)) =
                Content(InOrder(payload)) \union Content(InOrder(<<>>))
      BY DEF RestoreInv
    <2>4. Len(wanted) = Len(payload)
      BY <2>1, <2>2, <2>3
    <2>5. Content(InOrder(wanted)) = Content(InOrder(payload))
      BY <2>1, <2>3
    <2>6. wanted # <<>> => payload # <<>>
      BY <2>2, <2>4
    <2> QED  BY <2>4, <2>5, <2>6 DEF RestoreInv
  <1> QED  BY <1>1, <1>2, RestoreStep, SrrInvariant, PTL DEF Spec

=============================================================================
