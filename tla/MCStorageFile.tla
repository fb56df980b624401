--------------------------- MODULE MCStorageFile ---------------------------
(* Instances of StorageFile for TLC. *)
EXTENDS StorageFile

CONSTANTS
    n1,
    MaxId   \* bound: no id above this is given

\* The list of an earlier run.  In base two the id of the second group, 10,
\* loses its last digit and is that of the first.
TwoGroups ==
    [lastId |-> 2,
     groups |-> [p \in 1 .. 2 |-> [id |-> p, name |-> n1, rules |-> NoRules]]]

IdBound == Loaded.lastId =< MaxId

=============================================================================
