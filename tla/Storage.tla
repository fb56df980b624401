------------------------------ MODULE Storage ------------------------------
(***************************************************************************)
(* The group storage: fty::Storage (server/src/lib/storage.h, storage.cpp) *)
(*                                                                         *)
(* One process-wide list of groups, loaded from a YAML file by the first   *)
(* call and written back whole by every call that changes it.  Each call   *)
(* holds the storage's std::mutex from its first line to its last, so each *)
(* is one step.                                                            *)
(*                                                                         *)
(* The list only grows at its end, with the next id, and an update stays   *)
(* in place: it is always in the order of the ids, and a set of groups     *)
(* says as much.  That is so while the file is written whole or not at     *)
(* all, which this module and those that use it take for granted;          *)
(* StorageFile has the list itself and what a write that stops halfway     *)
(* makes of it, and shows that without one it is this module.              *)
(***************************************************************************)
EXTENDS Naturals, FiniteSets

CONSTANTS
    Names,   \* the names of groups
    Rules,   \* the rules of groups
    InitialFile,  \* the database of an earlier run of the agent
    Faults   \* what may go wrong: "write", "read", "crash"

\* A group that has no id yet.
NoId == 0

VARIABLES
    db,       \* Impl::db: the last id given and the groups
    inited,   \* Impl::m_inited
    file      \* what deserializeFile makes of the database file

storageVars == <<db, inited, file>>

Group == [id : Nat, name : Names, rules : Rules]
DbObj == [lastId : Nat, groups : SUBSET Group]

\* A database that is absent, empty or cannot be read.
EmptyDb == [lastId |-> 0, groups |-> {}]

\* What every call finds: init() loads the file on first use, and its caller
\* ignores that it failed.
Loaded == IF inited THEN db ELSE file

Ids(d) == {g.id : g \in d.groups}

\* The groups of a database have distinct ids, none above the last id given:
\* byId, findIndex and remove may stop at the first match.
UniqueIds(d) ==
    /\ \A g, h \in d.groups : g.id = h.id => g = h
    /\ \A g \in d.groups : g.id \in 1 .. d.lastId

ASSUME InitialFileAssumption == InitialFile \in DbObj /\ UniqueIds(InitialFile)

-----------------------------------------------------------------------------
(* Queries *)

\* Storage::byName, for a name that is there: the first in the list.
ByName(d, name) ==
    CHOOSE g \in d.groups :
        /\ g.name = name
        /\ \A h \in d.groups : h.name = name => g.id =< h.id

HasName(d, name) == \E g \in d.groups : g.name = name

\* Storage::byId, for an id that is there.
ById(d, id) == CHOOSE g \in d.groups : g.id = id

\* A query changes nothing, but it may be the call that loads the file.
Query ==
    /\ inited' = TRUE
    /\ db' = Loaded
    /\ UNCHANGED file

\* The call that should load the file cannot create its directory or open it,
\* although it is there.  No later call tries again: the call and those after
\* it work on no groups, and the next change is written over the file.
LoadFails ==
    /\ "read" \in Faults
    /\ ~inited
    /\ inited' = TRUE
    /\ db' = EmptyDb
    /\ UNCHANGED file

-----------------------------------------------------------------------------
(* Changes *)

\* MUTANT: lastId is decremented instead.
SavedBelow(d, g) ==
    IF g.id = NoId THEN [g EXCEPT !.id = d.lastId - 1] ELSE g

\* The group save() stores and returns: a group without an id gets the next.
Saved(d, g) ==
    IF g.id = NoId THEN [g EXCEPT !.id = d.lastId + 1] ELSE g

\* MUTANT: an id that is not in the list is appended.
AfterSaveUpsert(d, g) ==
    LET s == Saved(d, g)
    IN  [lastId |-> IF g.id = NoId THEN s.id ELSE d.lastId,
         groups |-> {h \in d.groups : h.id # s.id} \union {s}]

\* A group with an id replaces the one that has it; if none has, nothing is
\* stored and save() reports success all the same.
AfterSave(d, g) ==
    LET s == Saved(d, g)
    IN  IF g.id = NoId
        THEN [lastId |-> s.id, groups |-> d.groups \union {s}]
        ELSE [d EXCEPT !.groups = {IF h.id = s.id THEN s ELSE h : h \in @}]

\* MUTANT: the last id is recomputed from the groups that are left.
AfterRemoveRenumber(d, id) ==
    LET left == {g \in d.groups : g.id # id}
    IN  [lastId |-> CHOOSE n \in 0 .. d.lastId :
                        /\ \A g \in left : g.id =< n
                        /\ n = 0 \/ \E g \in left : g.id = n,
         groups |-> left]

AfterRemove(d, id) ==
    [d EXCEPT !.groups = {g \in @ : g.id # id}]

AfterRemoveByName(d, name) ==
    [d EXCEPT !.groups = {g \in @ : g.name # name}]

\* MUTANT: the file is left for later.
WrittenLater(d) ==
    /\ inited' = TRUE
    /\ db' = d
    /\ UNCHANGED file

\* The change is made in memory and the whole database is written.
Written(d) ==
    /\ inited' = TRUE
    /\ db' = d
    /\ file' = d

\* The change is made in memory, the file cannot be opened and keeps its
\* content, and the caller is told of an error.  The memory is not rolled
\* back.
NotWritten(d) ==
    /\ "write" \in Faults
    /\ inited' = TRUE
    /\ db' = d
    /\ UNCHANGED file

Save(g) == Written(AfterSave(Loaded, g)) \/ NotWritten(AfterSave(Loaded, g))

\* Storage::remove of an id that is there; of another it is a Query and an
\* error.
Remove(id) ==
    /\ id \in Ids(Loaded)
    /\ \/ Written(AfterRemove(Loaded, id))
       \/ NotWritten(AfterRemove(Loaded, id))

RemoveByName(name) ==
    \/ Written(AfterRemoveByName(Loaded, name))
    \/ NotWritten(AfterRemoveByName(Loaded, name))

\* Storage::clear also forgets the last id, and that the file was loaded; the
\* file is removed, or it is not and an error is returned.
Clear ==
    /\ inited' = FALSE
    /\ db' = EmptyDb
    /\ \/ file' = EmptyDb
       \/ "write" \in Faults /\ UNCHANGED file

\* The process dies and starts again with the file as it is.
CrashStorage ==
    /\ inited' = FALSE
    /\ db' = EmptyDb
    /\ UNCHANGED file

-----------------------------------------------------------------------------
StorageInit ==
    /\ db = EmptyDb
    /\ inited = FALSE
    /\ file = InitialFile

\* The groups a caller can pass: new, or with an id somebody was given or
\* made up.
GivenGroup == [id : 0 .. Loaded.lastId + 1, name : Names, rules : Rules]

Crash == "crash" \in Faults /\ CrashStorage

StorageNext ==
    \/ Query
    \/ LoadFails
    \/ \E g \in GivenGroup : Save(g)
    \/ \E id \in Ids(Loaded) : Remove(id)
    \/ \E name \in Names : RemoveByName(name)
    \/ Clear
    \/ Crash

StorageSpec == StorageInit /\ [][StorageNext]_storageVars

-----------------------------------------------------------------------------
(* Properties *)

StorageTypeOK ==
    /\ db \in DbObj
    /\ inited \in BOOLEAN
    /\ file \in DbObj

\* Ids identify groups in memory and in the file, whichever calls cannot load
\* or write the file and whenever the process dies between two of them.
IdsUnique == UniqueIds(db) /\ UniqueIds(file)

\* An id that was given once is not given again, neither after its group was
\* removed nor after a restart: a client that kept it never gets another
\* group.  Clear is the exception.
IdsNeverReused ==
    [][~Clear => /\ Loaded'.lastId >= Loaded.lastId
                 /\ \A id \in Ids(Loaded') \ Ids(Loaded) : id > Loaded.lastId
      ]_storageVars

\* A crash between two calls loses nothing of what they did.
CrashLosesNothing == [][Crash => Loaded' = Loaded]_storageVars

=============================================================================
