--------------------------- MODULE MCRestClients ---------------------------
(* Instances of RestClients for TLC: the HTTP calls. *)
EXTENDS RestClients, TLC

CONSTANTS c1, c2, c3, n1, n2, r1, r2, r3

Create(n) == [op |-> "CREATE", group |-> [id |-> NoId, name |-> n, rules |-> r1]]
Malformed(n) == [op |-> "CREATE", group |-> [id |-> NoId, name |-> n, rules |-> r3]]
Edit(i, n) == [op |-> "UPDATE", group |-> [id |-> i, name |-> n, rules |-> r2]]
Delete(i) == [op |-> "REMOVE", id |-> i]
Get(i) == [op |-> "READ", id |-> i]
AssetsOf(i) == [op |-> "RESOLVE", id |-> i]
List == [op |-> "LIST"]

\* The file of an earlier run: one group.
OneGroup == [lastId |-> 1, groups |-> {[id |-> 1, name |-> n1, rules |-> r1]}]

Plan(q1, q2, q3) == (c1 :> q1) @@ (c2 :> q2) @@ (c3 :> q3)

\* A list beside a new group and a removal; a change beside the removal of its
\* group, and a group that the agent refuses; an id of more than 16 bits, and
\* the assets of a group beside a new one.
SomeScenarios ==
    {Plan(Create(n2), Delete(1), List),
     Plan(Edit(1, n2), Delete(1), Malformed(n2)),
     Plan(Get(5), AssetsOf(1), Create(n2))}

=============================================================================
