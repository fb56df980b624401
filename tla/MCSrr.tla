------------------------------- MODULE MCSrr -------------------------------
(* Instances of Srr for TLC. *)
EXTENDS Srr

CONSTANTS n1, n2, r1

G(i, n, r) == [id |-> i, name |-> n, rules |-> r]

\* Two groups were stored before; their ids leave a gap.
TwoGroups == [lastId |-> 3, groups |-> {G(1, n1, r1), G(3, n2, r1)}]

\* Two groups with one name, and a group that the agent does not accept.
ForeignPayloads == {<<G(1, n1, r1), G(2, n1, r1)>>,
                    <<G(4, n2, r1), G(2, n1, BadRules)>>}

\* One of which the second group may be lost, or both.
GarbledPayloads == {<<G(1, n1, r1), G(2, n2, r1)>>}

OtherGroups == {G(NoId, n1, r1), G(1, n1, BadRules)}

=============================================================================
