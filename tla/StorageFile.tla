---------------------------- MODULE StorageFile ----------------------------
(***************************************************************************)
(* The group storage (server/src/lib/storage.cpp) with its list of groups  *)
(* and with what Storage leaves out: the file is written in place, from    *)
(* its first byte to its last, and a process that dies or a disk that is   *)
(* full leaves the beginning of it.  The last id comes first, then the     *)
(* groups in the order of the list, each with its id, its name and its     *)
(* rules.  A file that ends inside a number is a file with a shorter       *)
(* number: of `id: 12' there may be left `id: 1', which is another group's.*)
(*                                                                         *)
(* A group is appended with the id lastId + 1 and stays where it is, so    *)
(* the id it was given is its place in the list for good.  The list is a   *)
(* function from places to the groups as they read now, and the first      *)
(* group that matches is the one of the lowest place.                      *)
(***************************************************************************)
EXTENDS Naturals, FiniteSets

CONSTANTS
    Names, Rules,       \* see Storage
    NoName, NoRules,    \* what a group has whose name or rules were cut off
    InitialList,        \* the list an earlier run of the agent left
    Faults,             \* what may go wrong: "write", "read", "crash", "torn"
    Radix,              \* the base of the numbers in the file: ten in the code
    Digits              \* bound: the most digits an id has

VARIABLES
    db,       \* Impl::db
    inited,   \* Impl::m_inited
    file      \* what deserializeFile makes of the database file

fileVars == <<db, inited, file>>

\* The same storage with its groups in a set.
AsSet(d) ==
    [lastId |-> d.lastId, groups |-> {d.groups[p] : p \in DOMAIN d.groups}]

S == INSTANCE Storage WITH
        InitialFile <- AsSet(InitialList), db <- AsSet(db), file <- AsSet(file)

NoId == S!NoId
Group == S!Group

IsDb(d) ==
    /\ d = [lastId |-> d.lastId,
            groups |-> [p \in DOMAIN d.groups |-> d.groups[p]]]
    /\ d.lastId \in Nat
    /\ DOMAIN d.groups \subseteq Nat
    /\ \A p \in DOMAIN d.groups : d.groups[p] \in Group

EmptyDb == [lastId |-> 0, groups |-> [p \in {} |-> {}]]

\* The groups whose places are in P.
At(d, P) == [d EXCEPT !.groups = [p \in P |-> d.groups[p]]]

Places(d) == DOMAIN d.groups
Having(d, id) == {p \in Places(d) : d.groups[p].id = id}
Named(d, name) == {p \in Places(d) : d.groups[p].name = name}
First(P) == CHOOSE p \in P : \A q \in P : p =< q

Loaded == IF inited THEN db ELSE file

\* No two groups of the list have one id.
UniqueIds(d) ==
    \A p, q \in Places(d) : d.groups[p].id = d.groups[q].id => p = q

ASSUME StorageFileAssumption ==
    /\ NoName \in Names /\ NoRules \in Rules
    /\ IsDb(InitialList)
    /\ \A p \in Places(InitialList) :
          p \in 1 .. InitialList.lastId /\ InitialList.groups[p].id = p
    /\ Radix \in Nat \ {0} /\ Digits \in Nat

-----------------------------------------------------------------------------
(* Changes of the list *)

\* MUTANT: the new group is numbered by the length of the list.
AppendedByLength(d, g) ==
    LET n == d.lastId + 1
    IN  [lastId |-> n,
         groups |-> [p \in Places(d) \union {n} |->
                        IF p = n
                        THEN [g EXCEPT !.id = Cardinality(Places(d)) + 1]
                        ELSE d.groups[p]]]

\* MUTANT: the last id is counted downwards.
AppendedBelow(d, g) ==
    LET n == d.lastId - 1
    IN  [lastId |-> n,
         groups |-> [p \in Places(d) \union {n} |->
                        IF p = n THEN [g EXCEPT !.id = n] ELSE d.groups[p]]]

Appended(d, g) ==
    LET n == d.lastId + 1
    IN  [lastId |-> n,
         groups |-> [p \in Places(d) \union {n} |->
                        IF p = n THEN [g EXCEPT !.id = n] ELSE d.groups[p]]]

\* The first group that has the id is replaced, the others stay.
AfterSave(d, g) ==
    IF g.id = NoId THEN Appended(d, g)
    ELSE IF Having(d, g.id) = {} THEN d
    ELSE [d EXCEPT !.groups[First(Having(d, g.id))] = g]

AfterRemove(d, id) == At(d, Places(d) \ Having(d, id))
AfterRemoveByName(d, name) == At(d, Places(d) \ Named(d, name))

-----------------------------------------------------------------------------
(* A file of which only the beginning was written *)

\* A number that lost one digit or more at its end, down to none.
CutNumbers(n) == {m \in 0 .. n : \E k \in 1 .. Digits : m = n \div (Radix ^ k)}

\* A group that ends inside its id, before its name, inside its name or inside
\* its rules; what is left of a name or of rules may be any name or rules.
CutGroups(g) ==
    [id : CutNumbers(g.id) \union {g.id}, name : {NoName}, rules : {NoRules}]
        \union [id : {g.id}, name : Names, rules : {NoRules}]
        \union [id : {g.id}, name : {g.name}, rules : Rules]

\* The list up to the group of the place k, which is cut.
CutAt(d, k, g) ==
    [d EXCEPT !.groups = [p \in {q \in Places(d) : q =< k} |->
                             IF p = k THEN g ELSE d.groups[p]]]

\* MUTANT: the last id is written after the groups.
TornLastIdLast(d) ==
    {[At(d, {p \in Places(d) : p < k}) EXCEPT !.lastId = 0] :
        k \in 1 .. d.lastId + 1}

\* What a torn file of d reads as: nothing, or a last id that was cut, or the
\* last id and the first groups, or these and one group that was cut.
Torn(d) ==
    {EmptyDb}
    \union {[EmptyDb EXCEPT !.lastId = n] : n \in CutNumbers(d.lastId)}
    \union {At(d, {p \in Places(d) : p < k}) : k \in 1 .. d.lastId + 1}
    \union UNION {{CutAt(d, k, g) : g \in CutGroups(d.groups[k])} :
                     k \in Places(d)}

-----------------------------------------------------------------------------
(* The calls *)

Query ==
    /\ inited' = TRUE
    /\ db' = Loaded
    /\ UNCHANGED file

\* See Storage.
LoadFails ==
    /\ "read" \in Faults
    /\ ~inited
    /\ inited' = TRUE
    /\ db' = EmptyDb
    /\ UNCHANGED file

\* The change is made in memory; the file is written whole, or it cannot be
\* opened, or the disk is full before its end.
Change(d) ==
    /\ inited' = TRUE
    /\ db' = d
    /\ \/ file' = d
       \/ "write" \in Faults /\ UNCHANGED file
       \/ "torn" \in Faults /\ file' \in Torn(d)

\* The process dies while it writes d.
DiesWriting(d) ==
    /\ {"torn", "crash"} \subseteq Faults
    /\ inited' = FALSE
    /\ db' = EmptyDb
    /\ file' \in Torn(d)

GivenIds == 0 .. Loaded.lastId + 1
GivenGroup == [id : GivenIds, name : Names, rules : Rules]

\* What save, remove and removeByName can make of the list.
Changes ==
    {AfterSave(Loaded, g) : g \in GivenGroup}
    \union {AfterRemove(Loaded, id) : id \in S!Ids(AsSet(Loaded))}
    \union {AfterRemoveByName(Loaded, name) : name \in Names}

Clear ==
    /\ inited' = FALSE
    /\ db' = EmptyDb
    /\ \/ file' = EmptyDb
       \/ "write" \in Faults /\ UNCHANGED file

\* The process dies between two calls.
Crash ==
    /\ "crash" \in Faults
    /\ inited' = FALSE
    /\ db' = EmptyDb
    /\ UNCHANGED file

Init ==
    /\ db = EmptyDb
    /\ inited = FALSE
    /\ file = InitialList

Next ==
    \/ Query
    \/ LoadFails
    \/ \E d \in Changes : Change(d)
    \/ \E d \in Changes : DiesWriting(d)
    \/ Clear
    \/ Crash

Spec == Init /\ [][Next]_fileVars

-----------------------------------------------------------------------------
(* Properties *)

TypeOK ==
    /\ IsDb(db)
    /\ inited \in BOOLEAN
    /\ IsDb(file)

\* Whatever is left of the file, no group in it or in memory has an id above
\* the last id, so the id that save() gives next is nobody's.  The last id is
\* written before the groups.
IdsBelowLast ==
    \A d \in {db, file} : \A p \in Places(d) : d.groups[p].id =< d.lastId

\* No call makes two groups with one id: only a process that starts with a
\* torn file may find them.
NoCallDuplicates ==
    [][UniqueIds(Loaded) /\ inited' => UniqueIds(Loaded')]_fileVars

\* While no file is torn the list is in the order of its ids, each match is
\* the only one, and this storage is Storage, whose groups are in a set.
ImplementsStorage == S!StorageSpec

=============================================================================
