-------------------------- MODULE StorageFileProofs --------------------------
(***************************************************************************)
(* What StorageFile keeps of the ids however often the file is torn, and   *)
(* that it is Storage while none is, for any lists, names and rules and    *)
(* any base of the numbers.                                                *)
(***************************************************************************)
EXTENDS StorageFile, WellFoundedInduction, TLAPS

\* A list with its type, and no place and no id above the last id.
Bounded(d) ==
    /\ IsDb(d)
    /\ \A p \in Places(d) : p \in 1 .. d.lastId /\ d.groups[p].id =< d.lastId

LEMMA GroupIs == Group = [id : Nat, name : Names, rules : Rules]
  BY DEF Group, S!Group

LEMMA EmptyBounded == Bounded(EmptyDb) /\ UniqueIds(EmptyDb)
  BY DEF Bounded, IsDb, EmptyDb, Places, UniqueIds

\* A part of the list.
LEMMA AtBounded ==
    ASSUME NEW d, Bounded(d), NEW P \in SUBSET Places(d)
    PROVE  /\ Bounded(At(d, P))
           /\ At(d, P).lastId = d.lastId
           /\ Places(At(d, P)) = P
           /\ \A p \in P : At(d, P).groups[p] = d.groups[p]
           /\ UniqueIds(d) => UniqueIds(At(d, P))
  <1>1. At(d, P) = [lastId |-> d.lastId, groups |-> [p \in P |-> d.groups[p]]]
    BY DEF Bounded, IsDb, At
  <1> QED  BY <1>1 DEF Bounded, IsDb, Places, UniqueIds

LEMMA AppendedBounded ==
    ASSUME NEW d, Bounded(d), NEW g \in Group
    PROVE  /\ Bounded(Appended(d, g))
           /\ UniqueIds(d) => UniqueIds(Appended(d, g))
  <1> DEFINE n == d.lastId + 1
             s == [g EXCEPT !.id = n]
  <1>1. d.lastId \in Nat /\ n \in Nat /\ Places(d) \subseteq 1 .. d.lastId
    BY DEF Bounded, IsDb, Places
  <1>2. s \in Group /\ s.id = n
    BY <1>1, GroupIs
  <1>3. Appended(d, g) =
          [lastId |-> n,
           groups |-> [p \in Places(d) \union {n} |->
                          IF p = n THEN s ELSE d.groups[p]]]
    BY DEF Appended
  <1>4. \A p \in Places(d) : /\ d.groups[p] \in Group
                             /\ d.groups[p].id \in Nat
                             /\ d.groups[p].id =< d.lastId
                             /\ p # n
    BY <1>1, GroupIs DEF Bounded, IsDb, Places
  <1> DEFINE e == Appended(d, g)
  <1> HIDE DEF s
  <1>5. /\ e.lastId = n /\ Places(e) = Places(d) \union {n}
        /\ \A p \in Places(e) :
              e.groups[p] = IF p = n THEN s ELSE d.groups[p]
        /\ e = [lastId |-> e.lastId,
                groups |-> [p \in DOMAIN e.groups |-> e.groups[p]]]
    BY <1>3 DEF Places
  <1> HIDE DEF e
  <1>6. IsDb(e)
    BY <1>1, <1>2, <1>4, <1>5 DEF IsDb, Places
  <1>7. \A p \in Places(e) : p \in 1 .. e.lastId /\ e.groups[p].id =< e.lastId
    BY <1>1, <1>2, <1>4, <1>5
  <1>8. UniqueIds(d) => UniqueIds(e)
    BY <1>1, <1>2, <1>4, <1>5 DEF UniqueIds
  <1> QED  BY <1>6, <1>7, <1>8 DEF Bounded, e

\* First finds a place where there is one.
Below == {p \in Nat \X Nat : p[1] < p[2]}

LEMMA FirstFinds ==
    ASSUME NEW P, P \subseteq Nat, P # {}
    PROVE  First(P) \in P /\ \A q \in P : First(P) =< q
  <1>1. IsWellFoundedOn(Below, Nat)
    BY NatLessThanWellFounded DEF OpToRel, Below
  <1>2. PICK p \in P : \A q \in P : <<q, p>> \notin Below
    BY <1>1, WFMin
  <1>3. ASSUME NEW q \in P PROVE p =< q
    <2>1. p \in Nat /\ q \in Nat /\ <<q, p>> \notin Below
      BY <1>2
    <2>2. <<q, p>> \in Nat \X Nat /\ <<q, p>>[1] = q /\ <<q, p>>[2] = p
      BY <2>1
    <2> QED  BY <2>1, <2>2 DEF Below
  <1> QED  BY <1>3 DEF First

\* A group of the list replaced by one with the same id, or with less.
LEMMA ReplacedBounded ==
    ASSUME NEW d, Bounded(d), NEW p \in Places(d), NEW g \in Group,
           g.id =< d.groups[p].id, NEW P \in SUBSET Places(d),
           NEW e, e = [d EXCEPT !.groups =
                          [q \in P |-> IF q = p THEN g ELSE d.groups[q]]]
    PROVE  /\ Bounded(e)
           /\ e.lastId = d.lastId
           /\ Places(e) = P
           /\ \A q \in P : e.groups[q] = IF q = p THEN g ELSE d.groups[q]
  <1>1. e = [lastId |-> d.lastId,
             groups |-> [q \in P |-> IF q = p THEN g ELSE d.groups[q]]]
    BY DEF Bounded, IsDb
  <1>2. \A q \in Places(d) : d.groups[q] \in Group /\ d.groups[q].id \in Nat
    BY GroupIs DEF Bounded, IsDb, Places
  <1>3. g.id \in Nat /\ d.lastId \in Nat
    BY GroupIs DEF Bounded, IsDb
  <1>4. g.id =< d.lastId
    BY <1>2, <1>3 DEF Bounded
  <1> QED  BY <1>1, <1>2, <1>3, <1>4 DEF Bounded, IsDb, Places

LEMMA SaveBounded ==
    ASSUME NEW d, Bounded(d), NEW g \in Group
    PROVE  /\ Bounded(AfterSave(d, g))
           /\ UniqueIds(d) => UniqueIds(AfterSave(d, g))
  <1>1. CASE g.id = NoId
    BY <1>1, AppendedBounded DEF AfterSave
  <1>2. CASE g.id # NoId /\ Having(d, g.id) = {}
    BY <1>2 DEF AfterSave
  <1>3. CASE g.id # NoId /\ Having(d, g.id) # {}
    <2> DEFINE p == First(Having(d, g.id))
               e == [d EXCEPT !.groups =
                        [q \in Places(d) |->
                            IF q = p THEN g ELSE d.groups[q]]]
    <2>1. p \in Places(d) /\ d.groups[p].id = g.id
      <3>1. Having(d, g.id) \subseteq Nat
        BY DEF Having, Bounded, IsDb, Places
      <3> QED  BY <1>3, <3>1, FirstFinds DEF Having
    <2>2. AfterSave(d, g) = e
      BY <1>3, <2>1 DEF AfterSave, Bounded, IsDb, Places
    <2>3. g.id =< d.groups[p].id
      BY <2>1, GroupIs
    <2> HIDE DEF p
    <2>4. /\ Bounded(e) /\ Places(e) = Places(d)
          /\ \A q \in Places(d) :
                e.groups[q] = IF q = p THEN g ELSE d.groups[q]
      BY <2>1, <2>3, ReplacedBounded
    <2> HIDE DEF e
    <2> QED  BY <2>1, <2>2, <2>4 DEF UniqueIds
  <1> QED  BY <1>1, <1>2, <1>3

\* A torn file has no id above its last id.
LEMMA TornBounded ==
    ASSUME NEW d, Bounded(d), NEW e \in Torn(d)
    PROVE  Bounded(e)
  <1>0. d.lastId \in Nat
    BY DEF Bounded, IsDb
  <1>1. CASE e = EmptyDb
    BY <1>1, EmptyBounded
  <1>2. ASSUME NEW n \in CutNumbers(d.lastId),
               e = [EmptyDb EXCEPT !.lastId = n]
        PROVE  Bounded(e)
    <2>1. n \in Nat
      BY <1>0 DEF CutNumbers
    <2>2. e = [lastId |-> n, groups |-> [p \in {} |-> {}]]
      BY <1>2 DEF EmptyDb
    <2> QED  BY <2>1, <2>2 DEF Bounded, IsDb, Places
  <1>3. ASSUME NEW k \in 1 .. d.lastId + 1,
               e = At(d, {p \in Places(d) : p < k})
        PROVE  Bounded(e)
    BY <1>3, AtBounded
  <1>4. ASSUME NEW k \in Places(d), NEW g \in CutGroups(d.groups[k]),
               e = CutAt(d, k, g)
        PROVE  Bounded(e)
    <2>1. d.groups[k] \in Group /\ d.groups[k].id \in Nat
      BY GroupIs DEF Bounded, IsDb, Places
    <2>2. \A m \in CutNumbers(d.groups[k].id) :
             m \in Nat /\ m =< d.groups[k].id
      BY <2>1 DEF CutNumbers
    <2>3. g \in Group /\ g.id =< d.groups[k].id
      BY <2>1, <2>2, GroupIs, StorageFileAssumption DEF CutGroups
    <2> DEFINE P == {q \in Places(d) : q =< k}
    <2>4. P \in SUBSET Places(d)
      OBVIOUS
    <2>5. e = [d EXCEPT !.groups =
                  [q \in P |-> IF q = k THEN g ELSE d.groups[q]]]
      BY <1>4 DEF CutAt
    <2> HIDE DEF P
    <2> QED  BY <2>3, <2>4, <2>5, ReplacedBounded
  <1> QED  BY <1>1, <1>2, <1>3, <1>4 DEF Torn

-----------------------------------------------------------------------------
\* The inductive invariant.
FileInv ==
    /\ inited \in BOOLEAN
    /\ Bounded(db)
    /\ Bounded(file)

LEMMA LoadedBounded == FileInv => Bounded(Loaded)
  BY DEF FileInv, Loaded

\* Whatever a call makes of the list.
LEMMA ChangesBounded ==
    ASSUME Bounded(Loaded), NEW d \in Changes
    PROVE  Bounded(d) /\ (UniqueIds(Loaded) => UniqueIds(d))
  <1>1. GivenGroup \subseteq Group
    <2>1. 0 .. Loaded.lastId + 1 \subseteq Nat
      BY DEF Bounded, IsDb
    <2> QED  BY <2>1, GroupIs DEF GivenGroup, GivenIds
  <1>2. ASSUME NEW g \in GivenGroup, d = AfterSave(Loaded, g)
        PROVE  Bounded(d) /\ (UniqueIds(Loaded) => UniqueIds(d))
    BY <1>1, <1>2, SaveBounded
  <1>3. ASSUME NEW P \in SUBSET Places(Loaded), d = At(Loaded, P)
        PROVE  Bounded(d) /\ (UniqueIds(Loaded) => UniqueIds(d))
    BY <1>3, AtBounded
  <1>4. ASSUME NEW id, d = AfterRemove(Loaded, id)
        PROVE  Bounded(d) /\ (UniqueIds(Loaded) => UniqueIds(d))
    BY <1>3, <1>4 DEF AfterRemove
  <1>5. ASSUME NEW name, d = AfterRemoveByName(Loaded, name)
        PROVE  Bounded(d) /\ (UniqueIds(Loaded) => UniqueIds(d))
    BY <1>3, <1>5 DEF AfterRemoveByName
  <1> QED  BY <1>2, <1>4, <1>5 DEF Changes

LEMMA FileInductive == FileInv /\ [Next]_fileVars => FileInv'
  <1> SUFFICES ASSUME FileInv, [Next]_fileVars PROVE FileInv'
    OBVIOUS
  <1>0. Bounded(Loaded)
    BY LoadedBounded
  <1>1. CASE Query
    BY <1>0, <1>1 DEF FileInv, Query, Bounded
  <1>2. CASE LoadFails \/ Clear \/ Crash
    BY <1>2, EmptyBounded DEF FileInv, LoadFails, Clear, Crash, Bounded
  <1>3. ASSUME NEW d \in Changes, Change(d) PROVE FileInv'
    BY <1>0, <1>3, ChangesBounded, TornBounded DEF FileInv, Change, Bounded
  <1>4. ASSUME NEW d \in Changes, DiesWriting(d) PROVE FileInv'
    BY <1>0, <1>4, ChangesBounded, TornBounded, EmptyBounded
    DEF FileInv, DiesWriting, Bounded
  <1>5. CASE UNCHANGED fileVars
    BY <1>5 DEF FileInv, fileVars, Bounded
  <1> QED  BY <1>1, <1>2, <1>3, <1>4, <1>5 DEF Next

LEMMA InitialBounded == Bounded(InitialList) /\ UniqueIds(InitialList)
  <1>1. \A p \in Places(InitialList) :
            /\ InitialList.groups[p].id = p
            /\ p \in 1 .. InitialList.lastId
    BY StorageFileAssumption DEF IsDb, Places
  <1> QED  BY <1>1, StorageFileAssumption DEF Bounded, IsDb, UniqueIds

LEMMA FileInvariant == Spec => []FileInv
  <1>1. Init => FileInv
    BY EmptyBounded, InitialBounded DEF Init, FileInv
  <1> QED  BY <1>1, FileInductive, PTL DEF Spec

\* Memory and file stay lists of groups, however often the file is torn.
THEOREM FileTypeCorrect == Spec => []TypeOK
  <1>1. FileInv => TypeOK
    BY DEF FileInv, TypeOK, Bounded
  <1> QED  BY <1>1, FileInvariant, PTL

\* However often the file is torn, and whatever fails, the id that save()
\* gives next is nobody's.
THEOREM FileIdsBelowLast == Spec => []IdsBelowLast
  <1>1. FileInv => IdsBelowLast
    BY DEF FileInv, IdsBelowLast, Bounded
  <1> QED  BY <1>1, FileInvariant, PTL

\* However often the file is torn, no call makes two groups with one id.
THEOREM FileNoCallDuplicates == Spec => NoCallDuplicates
  <1>1. ASSUME FileInv, [Next]_fileVars, UniqueIds(Loaded), inited'
        PROVE  UniqueIds(Loaded')
    <2>0. Bounded(Loaded)
      BY <1>1, LoadedBounded
    <2>1. CASE Query
      BY <1>1, <2>1 DEF Query, Loaded, UniqueIds, Places
    <2>2. CASE LoadFails
      BY <2>2, EmptyBounded DEF LoadFails, Loaded, UniqueIds, Places
    <2>3. ASSUME NEW d \in Changes, Change(d) PROVE UniqueIds(Loaded')
      <3>1. Loaded' = d
        BY <2>3 DEF Change, Loaded
      <3> QED  BY <1>1, <2>0, <2>3, <3>1, ChangesBounded
               DEF UniqueIds, Places
    <2>4. ~Clear /\ ~Crash /\ \A d \in Changes : ~DiesWriting(d)
      BY <1>1 DEF Clear, Crash, DiesWriting
    <2>5. CASE UNCHANGED fileVars
      BY <1>1, <2>5 DEF fileVars, Loaded, UniqueIds, Places
    <2> QED  BY <1>1, <2>1, <2>2, <2>3, <2>4, <2>5 DEF Next
  <1>2. FileInv /\ [Next]_fileVars
           => [UniqueIds(Loaded) /\ inited' => UniqueIds(Loaded')]_fileVars
    BY <1>1
  <1> QED  BY <1>2, FileInvariant, PTL DEF Spec, NoCallDuplicates

-----------------------------------------------------------------------------
(* A file that is written whole or not at all *)

LEMMA AsSetIs ==
    ASSUME NEW d
    PROVE  /\ AsSet(d).lastId = d.lastId
           /\ AsSet(d).groups = {d.groups[p] : p \in Places(d)}
  BY DEF AsSet, Places

LEMMA EmptyAsSet == AsSet(EmptyDb) = S!EmptyDb
  BY DEF AsSet, EmptyDb, S!EmptyDb

\* To append to the list is to add to the set.
LEMMA AppendedAsSet ==
    ASSUME NEW d, Bounded(d), NEW g \in Group, g.id = NoId
    PROVE  AsSet(Appended(d, g)) = S!AfterSave(AsSet(d), g)
  <1> DEFINE n == d.lastId + 1
             s == [g EXCEPT !.id = n]
  <1>1. n \notin Places(d) /\ n \in Nat
    BY DEF Bounded, IsDb, Places
  <1>2. Appended(d, g) =
          [lastId |-> n,
           groups |-> [p \in Places(d) \union {n} |->
                          IF p = n THEN s ELSE d.groups[p]]]
    BY DEF Appended
  <1>3. s.id = n
    BY <1>1, GroupIs
  <1>4. S!AfterSave(AsSet(d), g) =
          [lastId |-> n, groups |-> AsSet(d).groups \union {s}]
    BY <1>3, AsSetIs DEF S!AfterSave, S!Saved, NoId
  <1> HIDE DEF s, n
  <1>5. AsSet(Appended(d, g)).groups = AsSet(d).groups \union {s}
    BY <1>1, <1>2 DEF AsSet, Places
  <1>6. AsSet(Appended(d, g)) =
          [lastId |-> n, groups |-> AsSet(Appended(d, g)).groups]
    BY <1>2 DEF AsSet
  <1> QED  BY <1>4, <1>5, <1>6

\* The first match is the only one.
LEMMA SaveAsSet ==
    ASSUME NEW d, Bounded(d), UniqueIds(d), NEW g \in Group
    PROVE  AsSet(AfterSave(d, g)) = S!AfterSave(AsSet(d), g)
  <1>1. CASE g.id = NoId
    BY <1>1, AppendedAsSet DEF AfterSave
  <1>2. CASE g.id # NoId
    <2> DEFINE new(h) == IF h.id = g.id THEN g ELSE h
    <2>1. S!AfterSave(AsSet(d), g) =
            [lastId |-> d.lastId,
             groups |-> {new(h) : h \in AsSet(d).groups}]
      BY <1>2 DEF S!AfterSave, S!Saved, NoId, AsSet
    <2>2. \A p \in Places(d) :
             AfterSave(d, g).groups[p] = new(d.groups[p])
      <3>1. CASE Having(d, g.id) = {}
        BY <1>2, <3>1 DEF AfterSave, Having
      <3>2. CASE Having(d, g.id) # {}
        <4> DEFINE f == First(Having(d, g.id))
        <4>1. f \in Having(d, g.id)
          <5>1. Having(d, g.id) \subseteq Nat
            BY DEF Having, Bounded, IsDb, Places
          <5> QED  BY <3>2, <5>1, FirstFinds
        <4>2. AfterSave(d, g).groups = [d.groups EXCEPT ![f] = g]
          BY <1>2, <3>2 DEF AfterSave, Bounded, IsDb
        <4> HIDE DEF f
        <4>3. \A p \in Places(d) : d.groups[p].id = g.id => p = f
          BY <4>1 DEF Having, UniqueIds
        <4> QED  BY <4>1, <4>2, <4>3 DEF Having, Places
      <3> QED  BY <3>1, <3>2
    <2>3. Places(AfterSave(d, g)) = Places(d)
          /\ AfterSave(d, g).lastId = d.lastId
      BY <1>2 DEF AfterSave, Places, Bounded, IsDb
    <2>4. {AfterSave(d, g).groups[p] : p \in Places(d)}
            = {new(h) : h \in AsSet(d).groups}
      BY <2>2 DEF AsSet, Places
    <2> HIDE DEF new
    <2> QED  BY <2>1, <2>3, <2>4 DEF AsSet, Places
  <1> QED  BY <1>1, <1>2

LEMMA OtherGroups ==
    ASSUME NEW n, NEW G, NEW H, NEW e, e = [lastId |-> n, groups |-> G]
    PROVE  [e EXCEPT !.groups = H] = [lastId |-> n, groups |-> H]
  OBVIOUS

LEMMA RemoveAsSet ==
    ASSUME NEW d, Bounded(d)
    PROVE  /\ \A id : AsSet(AfterRemove(d, id))
                        = S!AfterRemove(AsSet(d), id)
           /\ \A name : AsSet(AfterRemoveByName(d, name))
                          = S!AfterRemoveByName(AsSet(d), name)
  <1>1. ASSUME NEW id
        PROVE  AsSet(AfterRemove(d, id)) = S!AfterRemove(AsSet(d), id)
    <2> DEFINE P == Places(d) \ Having(d, id)
    <2>1. AfterRemove(d, id) = At(d, P)
      BY DEF AfterRemove
    <2>2. /\ AsSet(At(d, P)).lastId = d.lastId
          /\ AsSet(At(d, P)).groups = {d.groups[p] : p \in P}
      BY AtBounded, AsSetIs
    <2>3. {d.groups[p] : p \in P} = {h \in AsSet(d).groups : h.id # id}
      BY AsSetIs DEF Having
    <2>4. S!AfterRemove(AsSet(d), id) =
            [lastId |-> d.lastId,
             groups |-> {h \in AsSet(d).groups : h.id # id}]
      <3> DEFINE e == AsSet(d)
      <3>1. e = [lastId |-> d.lastId, groups |-> e.groups]
        BY DEF AsSet
      <3> HIDE DEF e
      <3>2. [e EXCEPT !.groups = {g \in @ : g.id # id}]
              = [lastId |-> d.lastId, groups |-> {g \in e.groups : g.id # id}]
        <4> DEFINE H == {g \in e.groups : g.id # id}
        <4> HIDE DEF H
        <4>1. [e EXCEPT !.groups = H] = [lastId |-> d.lastId, groups |-> H]
          BY <3>1, OtherGroups
        <4> QED  BY <4>1 DEF H
      <3> QED  BY <3>2 DEF e, S!AfterRemove
    <2>5. \A e : AsSet(e) = [lastId |-> AsSet(e).lastId,
                            groups |-> AsSet(e).groups]
      BY DEF AsSet
    <2> QED  BY <2>1, <2>2, <2>3, <2>4, <2>5
  <1>2. ASSUME NEW name
        PROVE  AsSet(AfterRemoveByName(d, name))
                 = S!AfterRemoveByName(AsSet(d), name)
    <2> DEFINE P == Places(d) \ Named(d, name)
    <2>1. AfterRemoveByName(d, name) = At(d, P)
      BY DEF AfterRemoveByName
    <2>2. /\ AsSet(At(d, P)).lastId = d.lastId
          /\ AsSet(At(d, P)).groups = {d.groups[p] : p \in P}
      BY AtBounded, AsSetIs
    <2>3. {d.groups[p] : p \in P}
            = {h \in AsSet(d).groups : h.name # name}
      BY AsSetIs DEF Named
    <2>4. S!AfterRemoveByName(AsSet(d), name) =
            [lastId |-> d.lastId,
             groups |-> {h \in AsSet(d).groups : h.name # name}]
      <3> DEFINE e == AsSet(d)
      <3>1. e = [lastId |-> d.lastId, groups |-> e.groups]
        BY DEF AsSet
      <3> HIDE DEF e
      <3>2. [e EXCEPT !.groups = {g \in @ : g.name # name}]
              = [lastId |-> d.lastId, groups |-> {g \in e.groups : g.name # name}]
        <4> DEFINE H == {g \in e.groups : g.name # name}
        <4> HIDE DEF H
        <4>1. [e EXCEPT !.groups = H] = [lastId |-> d.lastId, groups |-> H]
          BY <3>1, OtherGroups
        <4> QED  BY <4>1 DEF H
      <3> QED  BY <3>2 DEF e, S!AfterRemoveByName
    <2>5. \A e : AsSet(e) = [lastId |-> AsSet(e).lastId,
                            groups |-> AsSet(e).groups]
      BY DEF AsSet
    <2> QED  BY <2>1, <2>2, <2>3, <2>4, <2>5
  <1> QED  BY <1>1, <1>2

\* Memory and file have unique ids.
WholeInv == FileInv /\ UniqueIds(db) /\ UniqueIds(file)

LEMMA WholeInductive ==
    ASSUME "torn" \notin Faults, WholeInv, [Next]_fileVars
    PROVE  WholeInv'
  <1>1. FileInv'
    BY FileInductive DEF WholeInv
  <1>2. Bounded(Loaded) /\ UniqueIds(Loaded) /\ UniqueIds(EmptyDb)
    BY LoadedBounded, EmptyBounded DEF WholeInv, Loaded
  <1>3. ASSUME NEW d \in Changes, Change(d)
        PROVE  UniqueIds(db)' /\ UniqueIds(file)'
    <2>1. UniqueIds(d) /\ db' = d /\ (file' = d \/ file' = file)
      BY <1>2, <1>3, ChangesBounded DEF Change
    <2> QED  BY <2>1 DEF WholeInv, UniqueIds, Places
  <1>4. \A d \in Changes : ~DiesWriting(d)
    BY DEF DiesWriting
  <1>5. ASSUME Query \/ LoadFails \/ Clear \/ Crash \/ UNCHANGED fileVars
        PROVE  UniqueIds(db)' /\ UniqueIds(file)'
    <2>1. /\ db' \in {db, Loaded, EmptyDb}
          /\ file' \in {file, EmptyDb}
      BY <1>5 DEF Query, LoadFails, Clear, Crash, fileVars
    <2>2. UniqueIds(db') /\ UniqueIds(file')
      BY <1>2, <2>1 DEF WholeInv
    <2> QED  BY <2>2 DEF UniqueIds, Places
  <1>6. UniqueIds(db)' /\ UniqueIds(file)'
    <2>1. \/ \E d \in Changes : Change(d)
          \/ Query \/ LoadFails \/ Clear \/ Crash \/ UNCHANGED fileVars
      BY <1>4 DEF Next
    <2> QED  BY <1>3, <1>5, <2>1
  <1> QED  BY <1>1, <1>6 DEF WholeInv

LEMMA WholeMaps ==
    ASSUME "torn" \notin Faults, WholeInv, [Next]_fileVars
    PROVE  [S!StorageNext]_(S!storageVars)
  <1>0. S!Loaded = AsSet(Loaded)
    BY DEF S!Loaded, Loaded
  <1>1. Bounded(Loaded) /\ UniqueIds(Loaded)
    BY LoadedBounded DEF WholeInv, Loaded
  <1>2. GivenGroup \subseteq Group /\ GivenGroup = S!GivenGroup
    <2>1. 0 .. Loaded.lastId + 1 \subseteq Nat
      BY <1>1 DEF Bounded, IsDb
    <2>2. S!Loaded.lastId = Loaded.lastId
      BY <1>0, AsSetIs
    <2> QED  BY <2>1, <2>2, GroupIs DEF GivenGroup, GivenIds, S!GivenGroup
  <1>3. ASSUME NEW d, Change(d)
        PROVE  S!Written(AsSet(d)) \/ S!NotWritten(AsSet(d))
    <2>1. inited' = TRUE /\ AsSet(db)' = AsSet(d)
      BY <1>3 DEF Change, AsSet
    <2>2. CASE file' = d
      BY <2>1, <2>2 DEF S!Written, AsSet
    <2>3. CASE "write" \in Faults /\ UNCHANGED file
      BY <2>1, <2>3 DEF S!NotWritten, AsSet
    <2> QED  BY <1>3, <2>2, <2>3 DEF Change
  <1>4. ASSUME NEW d \in Changes, Change(d) PROVE S!StorageNext
    <2>1. ASSUME NEW g \in GivenGroup, d = AfterSave(Loaded, g)
          PROVE  S!StorageNext
      <3>1. AsSet(d) = S!AfterSave(S!Loaded, g)
        BY <1>0, <1>1, <1>2, <2>1, SaveAsSet
      <3> QED  BY <1>2, <1>3, <1>4, <3>1 DEF S!StorageNext, S!Save
    <2>2. ASSUME NEW id \in S!Ids(AsSet(Loaded)), d = AfterRemove(Loaded, id)
          PROVE  S!StorageNext
      <3>1. AsSet(d) = S!AfterRemove(S!Loaded, id) /\ id \in S!Ids(S!Loaded)
        BY <1>0, <1>1, <2>2, RemoveAsSet
      <3> QED  BY <1>3, <1>4, <3>1 DEF S!StorageNext, S!Remove
    <2>3. ASSUME NEW name \in Names, d = AfterRemoveByName(Loaded, name)
          PROVE  S!StorageNext
      <3>1. AsSet(d) = S!AfterRemoveByName(S!Loaded, name)
        BY <1>0, <1>1, <2>3, RemoveAsSet
      <3> QED  BY <1>3, <1>4, <3>1 DEF S!StorageNext, S!RemoveByName
    <2> QED  BY <1>4, <2>1, <2>2, <2>3 DEF Changes
  <1>5. Query => S!Query
    BY <1>0 DEF Query, S!Query, AsSet
  <1>6. LoadFails => S!LoadFails
    BY EmptyAsSet DEF LoadFails, S!LoadFails, AsSet
  <1>7. Clear => S!Clear
    BY EmptyAsSet DEF Clear, S!Clear, AsSet
  <1>8. Crash => S!Crash
    BY EmptyAsSet DEF Crash, S!Crash, S!CrashStorage, AsSet
  <1>9. UNCHANGED fileVars => UNCHANGED S!storageVars
    BY DEF fileVars, S!storageVars, AsSet
  <1>10. \A d \in Changes : ~DiesWriting(d)
    BY DEF DiesWriting
  <1> QED  BY <1>4, <1>5, <1>6, <1>7, <1>8, <1>9, <1>10
           DEF Next, S!StorageNext

\* While no file is torn the storage with its list is Storage.
THEOREM FileImplementsStorage ==
    ASSUME "torn" \notin Faults
    PROVE  Spec => ImplementsStorage
  <1>1. Init => WholeInv
    BY EmptyBounded, InitialBounded DEF Init, WholeInv, FileInv
  <1>2. Init => S!StorageInit
    BY EmptyAsSet DEF Init, S!StorageInit
  <1>3. WholeInv /\ [Next]_fileVars => WholeInv'
    BY WholeInductive
  <1>4. WholeInv /\ [Next]_fileVars => [S!StorageNext]_(S!storageVars)
    BY WholeMaps
  <1> QED  BY <1>1, <1>2, <1>3, <1>4, PTL
           DEF Spec, ImplementsStorage, S!StorageSpec

=============================================================================
