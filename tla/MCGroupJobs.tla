---------------------------- MODULE MCGroupJobs ----------------------------
(* Instances of GroupJobs for TLC: what the clients ask for. *)
EXTENDS GroupJobs

CONSTANTS n1, n2, r1, r2

Create(c, n) ==
    [op |-> "CREATE", client |-> c,
     group |-> [id |-> NoId, name |-> n, rules |-> r1]]
CreateBad(c, n) ==
    [op |-> "CREATE", client |-> c,
     group |-> [id |-> NoId, name |-> n, rules |-> BadRules]]
Update(c, i, n) ==
    [op |-> "UPDATE", client |-> c,
     group |-> [id |-> i, name |-> n, rules |-> r2]]
RemoveIds(c, s) == [op |-> "REMOVE", client |-> c, ids |-> s]
Read(c, i) == [op |-> "READ", client |-> c, id |-> i]
List(c) == [op |-> "LIST", client |-> c]

\* The file of an earlier run: one group.
OneGroup == [lastId |-> 1, groups |-> {[id |-> 1, name |-> n1, rules |-> r1]}]

\* The requests of each run.  Two readers and two writers are enough for the
\* lock to open on a reader, and for a writer to find the file locked by
\* another; one removal names a group that never was, too.
EveryKindOfRequest ==
    {Create(1, n2), Update(2, 1, n2), RemoveIds(3, <<1, 7>>),
     Read(4, 1), List(5), CreateBad(6, n2)}

MixedRequests ==
    {Create(1, n2), Create(2, n2), RemoveIds(3, <<2>>), Read(4, 2), List(5)}

SameNameRequests == {Create(1, n2), Create(2, n2)}

UpdateRemovedRequests == {Update(1, 1, n2), RemoveIds(2, <<1>>)}

=============================================================================
