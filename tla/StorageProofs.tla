--------------------------- MODULE StorageProofs ---------------------------
(***************************************************************************)
(* The operations of Storage keep ids unique, for any names, rules and     *)
(* faults and any number of groups.                                        *)
(***************************************************************************)
EXTENDS Storage, TLAPS

\* A database with its type and with unique ids.
WellFormed(d) == d \in DbObj /\ UniqueIds(d)

LEMMA EmptyWellFormed == WellFormed(EmptyDb)
  BY DEF WellFormed, EmptyDb, DbObj, UniqueIds

\* save() stores the group under an id nobody else has.
LEMMA SaveWellFormed ==
    ASSUME NEW d, WellFormed(d), NEW g \in Group
    PROVE  WellFormed(AfterSave(d, g)) /\ AfterSave(d, g).lastId >= d.lastId
  <1> USE DEF WellFormed, DbObj, Group
  <1>1. CASE g.id = NoId
    <2> DEFINE s == [g EXCEPT !.id = d.lastId + 1]
    <2>1. s \in Group /\ s.id = d.lastId + 1
      OBVIOUS
    <2>2. AfterSave(d, g) =
            [lastId |-> d.lastId + 1, groups |-> d.groups \union {s}]
      BY <1>1 DEF AfterSave, Saved
    <2>3. \A h \in d.groups : h.id \in 1 .. d.lastId
      BY DEF UniqueIds
    <2> HIDE DEF s
    <2>4. UniqueIds(AfterSave(d, g))
      BY <2>1, <2>2, <2>3 DEF UniqueIds
    <2> QED  BY <2>1, <2>2, <2>4
  <1>2. CASE g.id # NoId
    <2> DEFINE new(h) == IF h.id = g.id THEN g ELSE h
    <2>1. AfterSave(d, g) = [d EXCEPT !.groups = {new(h) : h \in d.groups}]
      BY <1>2 DEF AfterSave, Saved
    <2>2. \A h \in d.groups : new(h) \in Group /\ new(h).id = h.id
      OBVIOUS
    <2>3. AfterSave(d, g) \in DbObj /\ AfterSave(d, g).lastId = d.lastId
      BY <2>1, <2>2
    <2>4. UniqueIds(AfterSave(d, g))
      <3>1. AfterSave(d, g).groups = {new(h) : h \in d.groups}
        BY <2>1
      <3>2. \A h \in d.groups : h.id \in 1 .. d.lastId
        BY DEF UniqueIds
      <3>3. ASSUME NEW h \in d.groups, NEW k \in d.groups,
                   new(h).id = new(k).id
            PROVE  new(h) = new(k)
        BY <2>2, <3>3 DEF UniqueIds
      <3> QED  BY <2>2, <2>3, <3>1, <3>2, <3>3 DEF UniqueIds
    <2> QED  BY <2>3, <2>4
  <1> QED  BY <1>1, <1>2

LEMMA RemoveWellFormed ==
    ASSUME NEW d, WellFormed(d)
    PROVE  /\ \A id : /\ WellFormed(AfterRemove(d, id))
                      /\ AfterRemove(d, id).lastId = d.lastId
           /\ \A name : WellFormed(AfterRemoveByName(d, name))
  BY DEF WellFormed, DbObj, UniqueIds, AfterRemove, AfterRemoveByName

-----------------------------------------------------------------------------
\* The inductive invariant: memory and file are well formed.
StorageInv ==
    /\ inited \in BOOLEAN
    /\ WellFormed(db)
    /\ WellFormed(file)

LEMMA LoadedWellFormed == StorageInv => WellFormed(Loaded)
  BY DEF StorageInv, Loaded

\* A change that leads to a well-formed database, written or not.
LEMMA WriteKeepsInv ==
    ASSUME StorageInv, NEW d, WellFormed(d), Written(d) \/ NotWritten(d)
    PROVE  StorageInv'
  BY DEF StorageInv, Written, NotWritten, WellFormed

LEMMA QueryKeepsInv == StorageInv /\ Query => StorageInv'
  BY LoadedWellFormed DEF StorageInv, Query, WellFormed

LEMMA SaveKeepsInv ==
    ASSUME StorageInv, NEW g \in Group, Save(g)
    PROVE  StorageInv'
  BY LoadedWellFormed, SaveWellFormed, WriteKeepsInv DEF Save

LEMMA RemoveKeepsInv ==
    ASSUME StorageInv, NEW id, Remove(id)
    PROVE  StorageInv'
  BY LoadedWellFormed, RemoveWellFormed, WriteKeepsInv DEF Remove

LEMMA CrashKeepsInv == StorageInv /\ CrashStorage => StorageInv'
  BY EmptyWellFormed DEF StorageInv, CrashStorage, WellFormed

LEMMA LoadFailsKeepsInv == StorageInv /\ LoadFails => StorageInv'
  BY EmptyWellFormed DEF StorageInv, LoadFails, WellFormed

LEMMA GivenGroupType == StorageInv => GivenGroup \subseteq Group
  <1> SUFFICES ASSUME StorageInv PROVE GivenGroup \subseteq Group
    OBVIOUS
  <1>1. Loaded.lastId \in Nat
    BY LoadedWellFormed DEF WellFormed, DbObj
  <1>2. 0 .. Loaded.lastId + 1 \subseteq Nat
    BY <1>1
  <1> QED  BY <1>2 DEF GivenGroup, Group

LEMMA StorageInductive ==
    StorageInv /\ [StorageNext]_storageVars => StorageInv'
  <1> SUFFICES ASSUME StorageInv, [StorageNext]_storageVars
               PROVE  StorageInv'
    OBVIOUS
  <1>1. CASE Query
    BY <1>1, QueryKeepsInv
  <1>2. ASSUME NEW g \in GivenGroup, Save(g) PROVE StorageInv'
    BY <1>2, GivenGroupType, SaveKeepsInv
  <1>3. ASSUME NEW id \in Ids(Loaded), Remove(id) PROVE StorageInv'
    BY <1>3, RemoveKeepsInv
  <1>4. ASSUME NEW name \in Names, RemoveByName(name) PROVE StorageInv'
    BY <1>4, LoadedWellFormed, RemoveWellFormed, WriteKeepsInv
    DEF RemoveByName
  <1>5. CASE Clear
    BY <1>5, EmptyWellFormed DEF Clear, StorageInv, WellFormed
  <1>6. CASE Crash
    BY <1>6, CrashKeepsInv DEF Crash
  <1>8. CASE LoadFails
    BY <1>8, LoadFailsKeepsInv
  <1>7. CASE UNCHANGED storageVars
    BY <1>7 DEF storageVars, StorageInv, WellFormed
  <1> QED  BY <1>1, <1>2, <1>3, <1>4, <1>5, <1>6, <1>7, <1>8 DEF StorageNext

LEMMA StorageInvariant == StorageSpec => []StorageInv
  <1>1. StorageInit => StorageInv
    BY EmptyWellFormed, InitialFileAssumption
    DEF StorageInit, StorageInv, WellFormed
  <1> QED  BY <1>1, StorageInductive, PTL DEF StorageSpec

\* The database keeps its type.
THEOREM StorageTypeCorrect == StorageSpec => []StorageTypeOK
  <1>1. StorageInv => StorageTypeOK
    BY DEF StorageInv, StorageTypeOK, WellFormed
  <1> QED  BY <1>1, StorageInvariant, PTL

\* Ids identify groups, whichever calls cannot load or write the file and
\* whenever the process dies between two of them.
THEOREM StorageIdsUnique == StorageSpec => []IdsUnique
  <1>1. StorageInv => IdsUnique
    BY DEF StorageInv, IdsUnique, WellFormed
  <1> QED  BY <1>1, StorageInvariant, PTL

-----------------------------------------------------------------------------
(* A file system that does not fail. *)

\* Once loaded, memory and file agree.
FileCurrent == inited => file = db

\* The ids of the next database are those there were, and later ones.
NextIds(d, e) ==
    /\ e.lastId >= d.lastId
    /\ \A id \in Ids(e) \ Ids(d) : id > d.lastId

LEMMA SaveNextIds ==
    ASSUME NEW d, WellFormed(d), NEW g \in Group
    PROVE  NextIds(d, AfterSave(d, g))
  <1> USE DEF WellFormed, DbObj, Group
  <1>1. CASE g.id = NoId
    <2> DEFINE s == [g EXCEPT !.id = d.lastId + 1]
    <2>1. s.id = d.lastId + 1
      OBVIOUS
    <2>2. AfterSave(d, g) =
            [lastId |-> d.lastId + 1, groups |-> d.groups \union {s}]
      BY <1>1 DEF AfterSave, Saved
    <2> HIDE DEF s
    <2>3. Ids(AfterSave(d, g)) = Ids(d) \union {d.lastId + 1}
      BY <2>1, <2>2 DEF Ids
    <2>4. AfterSave(d, g).lastId = d.lastId + 1
      BY <2>2
    <2>5. d.lastId \in Nat
      OBVIOUS
    <2> QED  BY <2>3, <2>4, <2>5 DEF NextIds
  <1>2. CASE g.id # NoId
    <2>1. AfterSave(d, g) =
            [d EXCEPT !.groups = {IF h.id = g.id THEN g ELSE h : h \in @}]
      BY <1>2 DEF AfterSave, Saved
    <2>2. Ids(AfterSave(d, g)) \subseteq Ids(d)
      BY <2>1 DEF Ids
    <2> QED  BY <2>2, SaveWellFormed DEF NextIds
  <1> QED  BY <1>1, <1>2

LEMMA RemoveNextIds ==
    ASSUME NEW d, WellFormed(d)
    PROVE  /\ \A id : NextIds(d, AfterRemove(d, id))
           /\ \A name : NextIds(d, AfterRemoveByName(d, name))
  BY DEF WellFormed, DbObj, NextIds, Ids, AfterRemove, AfterRemoveByName

LEMMA SoundStep ==
    ASSUME "write" \notin Faults, "read" \notin Faults,
           StorageInv, FileCurrent, [StorageNext]_storageVars
    PROVE  /\ FileCurrent'
           /\ \/ Clear
              \/ NextIds(Loaded, Loaded')
           /\ Crash => Loaded' = Loaded
  <1>1. WellFormed(Loaded)
    BY LoadedWellFormed
  <1>2. NextIds(Loaded, Loaded)
    BY <1>1 DEF NextIds, WellFormed, DbObj
  <1>3. Crash => FileCurrent' /\ Loaded' = Loaded
    BY DEF Crash, CrashStorage, FileCurrent, Loaded
  <1>4. ASSUME NEW d, Written(d) \/ NotWritten(d), NextIds(Loaded, d)
        PROVE  FileCurrent' /\ NextIds(Loaded, Loaded')
    <2>1. inited' = TRUE /\ db' = d /\ file' = d
      BY <1>4 DEF Written, NotWritten
    <2>2. Loaded' = d
      BY <2>1 DEF Loaded
    <2> QED  BY <1>4, <2>1, <2>2 DEF FileCurrent
  <1>5. CASE Query
    BY <1>2, <1>3, <1>5 DEF Query, FileCurrent, Loaded
  <1>6. ASSUME NEW g \in GivenGroup, Save(g)
        PROVE  FileCurrent' /\ NextIds(Loaded, Loaded')
    BY <1>1, <1>4, <1>6, GivenGroupType, SaveNextIds DEF Save
  <1>7. ASSUME NEW id \in Ids(Loaded), Remove(id)
        PROVE  FileCurrent' /\ NextIds(Loaded, Loaded')
    BY <1>1, <1>4, <1>7, RemoveNextIds DEF Remove
  <1>8. ASSUME NEW name \in Names, RemoveByName(name)
        PROVE  FileCurrent' /\ NextIds(Loaded, Loaded')
    BY <1>1, <1>4, <1>8, RemoveNextIds DEF RemoveByName
  <1>9. Clear => FileCurrent'
    BY DEF Clear, FileCurrent
  <1>10. UNCHANGED storageVars => FileCurrent' /\ Loaded' = Loaded
    BY DEF storageVars, FileCurrent, Loaded
  <1> QED  BY <1>2, <1>3, <1>5, <1>6, <1>7, <1>8, <1>9, <1>10
         DEF StorageNext, LoadFails

LEMMA FileCurrentInvariant ==
    ASSUME "write" \notin Faults, "read" \notin Faults
    PROVE  StorageSpec => []FileCurrent
  <1>1. StorageInit => FileCurrent
    BY DEF StorageInit, FileCurrent
  <1> QED  BY <1>1, StorageInvariant, SoundStep, PTL DEF StorageSpec

\* While the file can be read and written no id is ever given twice, across restarts.
THEOREM StorageIdsNeverReused ==
    ASSUME "write" \notin Faults, "read" \notin Faults
    PROVE  StorageSpec => IdsNeverReused
  <1>1. StorageInv /\ FileCurrent /\ [StorageNext]_storageVars
          => [~Clear => /\ Loaded'.lastId >= Loaded.lastId
                        /\ \A id \in Ids(Loaded') \ Ids(Loaded) :
                               id > Loaded.lastId]_storageVars
    BY SoundStep DEF NextIds
  <1> QED  BY <1>1, StorageInvariant, FileCurrentInvariant, PTL
           DEF StorageSpec, IdsNeverReused

\* While the file can be read and written a crash between two calls is not seen by the next.
THEOREM StorageSurvivesCrash ==
    ASSUME "write" \notin Faults, "read" \notin Faults
    PROVE  StorageSpec => CrashLosesNothing
  <1>1. StorageInv /\ FileCurrent /\ [StorageNext]_storageVars
          => [Crash => Loaded' = Loaded]_storageVars
    BY SoundStep
  <1> QED  BY <1>1, StorageInvariant, FileCurrentInvariant, PTL
           DEF StorageSpec, CrashLosesNothing

-----------------------------------------------------------------------------
(* What the calls find after a step *)

LEMMA QueryLoaded == Query => Loaded' = Loaded /\ file' = file
  BY DEF Query, Loaded

LEMMA SameStorage ==
    UNCHANGED storageVars => Loaded' = Loaded /\ file' = file
  BY DEF storageVars, Loaded

LEMMA SameLoaded ==
    ASSUME FileCurrent, Query \/ UNCHANGED storageVars \/ CrashStorage
    PROVE  Loaded' = Loaded /\ FileCurrent'
  BY DEF Query, storageVars, CrashStorage, FileCurrent, Loaded

LEMMA WrittenLoaded ==
    ASSUME NEW d, Written(d)
    PROVE  Loaded' = d /\ FileCurrent'
  BY DEF Written, FileCurrent, Loaded

LEMMA SaveIds ==
    ASSUME NEW d, WellFormed(d), NEW g \in Group
    PROVE  /\ g.id = NoId =>
                 /\ AfterSave(d, g).lastId = d.lastId + 1
                 /\ Ids(AfterSave(d, g)) = Ids(d) \union {d.lastId + 1}
                 /\ Saved(d, g).id = d.lastId + 1
           /\ g.id # NoId =>
                 /\ AfterSave(d, g).lastId = d.lastId
                 /\ Ids(AfterSave(d, g)) = Ids(d)
  <1> USE DEF WellFormed, DbObj, Group
  <1>1. CASE g.id = NoId
    <2>1. Saved(d, g).id = d.lastId + 1
      BY <1>1 DEF Saved
    <2>2. AfterSave(d, g) = [lastId |-> d.lastId + 1,
                             groups |-> d.groups \union {Saved(d, g)}]
      BY <1>1, <2>1 DEF AfterSave
    <2> QED  BY <1>1, <2>1, <2>2 DEF Ids
  <1>2. CASE g.id # NoId
    <2> DEFINE new(h) == IF h.id = g.id THEN g ELSE h
    <2>1. AfterSave(d, g) = [d EXCEPT !.groups = {new(h) : h \in d.groups}]
      BY <1>2 DEF AfterSave, Saved
    <2>2. \A h : new(h).id = h.id
      OBVIOUS
    <2>3. AfterSave(d, g).groups = {new(h) : h \in d.groups}
      BY <2>1
    <2> HIDE DEF new
    <2>4. Ids(AfterSave(d, g)) = Ids(d)
      BY <2>2, <2>3 DEF Ids
    <2> QED  BY <1>2, <2>1, <2>4
  <1> QED  BY <1>1, <1>2

LEMMA RemoveIds ==
    ASSUME NEW d, WellFormed(d), NEW id
    PROVE  /\ AfterRemove(d, id).lastId = d.lastId
           /\ Ids(AfterRemove(d, id)) = Ids(d) \ {id}
  BY DEF WellFormed, DbObj, AfterRemove, Ids

LEMMA ByIdFinds ==
    ASSUME NEW d, WellFormed(d), NEW g \in d.groups
    PROVE  ById(d, g.id) = g
  BY DEF WellFormed, UniqueIds, ById

LEMMA ByIdIsStored ==
    ASSUME NEW d, NEW id \in Ids(d)
    PROVE  ById(d, id) \in d.groups /\ ById(d, id).id = id
  BY DEF Ids, ById

=============================================================================
