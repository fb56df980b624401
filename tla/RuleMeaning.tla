---------------------------- MODULE RuleMeaning ----------------------------
(***************************************************************************)
(* What the rules of a group say of one element: the reference that the    *)
(* answers of Resolve are compared with.  It looks at the element, not at  *)
(* the tables: no query, no order of the conditions.                       *)
(***************************************************************************)
EXTENDS Resolve

\* What the other agents keep in the asset database: containers are locations,
\* virtual machines are linked to the one hypervisor that runs them, and an
\* asset has one name and one subtype at most.
ASSUME DatabaseAssumption ==
    /\ \A e \in Elements :
          /\ Asset[e].parents \subseteq {d \in Elements : Q!IsContainer(d)}
          /\ \A a, b \in Asset[e].ext : a.key = "name" /\ b.key = "name" => a = b
          /\ \A s, t \in Asset[e].subtype : s = t
    /\ \A k, l \in {j \in Links : j.type = Q!VmLink} :
          /\ Asset[k.src].type = {"hypervisor"}
          /\ k.dest = l.dest => k.src = l.src

Linked(kind, e) == {l.src : l \in {k \in Links : k.type = kind /\ k.dest = e}}

\* What places an element: itself, the server that runs it if it is a hypervisor,
\* and for a virtual machine the server under its hypervisor; a container of the
\* hypervisor's own does not place the machines on it.
Placed(e) ==
    {e} \union Linked(Q!OsLink, e)
        \union UNION {Linked(Q!OsLink, h) : h \in Linked(Q!VmLink, e)}

\* What an element has for a field; a virtual machine shows no address.
Values(e, field) ==
    LET under(keys) == {a.value : a \in {b \in Asset[e].ext : b.key \in keys}}
    IN  CASE field = "Name" -> under({"name"})
          [] field = "Contact" -> under({"device.contact", "contact_email"})
          [] field = "HostName" -> under({"hostname", "hostname.1"})
          [] field = "IPAddress" ->
                {v \in under({"ip", "ip.1"}) :
                    Asset[e].type # {"virtual-machine"}}
          [] field = "Tag" -> Asset[e].tags
          [] field = "Type" -> {Asset[e].type}
          [] field = "SubType" -> Asset[e].subtype
          [] field = "InternalName" -> {Asset[e].name}
          [] field = "HostedBy" -> {Asset[h].name : h \in Linked(Q!VmLink, e)}
          [] field = "Location" ->
                {Asset[d].name : d \in UNION {Asset[x].parents : x \in Placed(e)}}

\* The operator of a condition, or the one it negates.
Positive(c) == IF Q!Negative(c.op) THEN Q!Negated(c.op) ELSE c.op

\* A positive operator wants some value to match, a negative one none; of the
\* fields that every asset of a kind has, one that lacks it satisfies neither,
\* and a container is in no location.
Holds(e, c) ==
    LET matches == \E v \in Values(e, c.field) : Q!Op(Positive(c), v, c.value)
    IN  /\ matches # Q!Negative(c.op)
        /\ c.field \in {"Name", "SubType", "HostedBy"} => Values(e, c.field) # {}
        /\ c.field = "Location" => ~Q!IsContainer(e)

\* Some asset is in a place that a condition on the location names.
Located(c) ==
    \E e \in Elements : \E d \in Asset[e].parents :
        Q!Op(Positive(c), Asset[d].name, c.value)

\* Rules whose SQL means what they say.  The others: a link that excludes comes
\* first, and includes (the run resolve_first_isnot); DOESNOTCONTAIN is asked of
\* a location; a location is excluded that nothing is in.
PlainlyAsked(r) ==
    \A k \in DOMAIN r : \A i \in DOMAIN r[k].conditions :
        LET c == r[k].conditions[i]
        IN  IsCondition(c) =>
                /\ c.field = "Group" /\ c.op = "IsNot" => i # 1
                /\ c.field = "Location" =>
                       /\ c.op # "DoesNotContain"
                       /\ c.op = "IsNot" => Located(c)

\* What is asked of a place in a table of rules: the elements they may select,
\* or those they must.
Questions ==
    {q \in [rules : AllRules, at : Nat, may : BOOLEAN] : q.at \in DOMAIN q.rules}

\* The rules the group with an id had in one of the databases.
Versions(dbs, id) == {ById(d, id).rules : d \in {b \in dbs : id \in Ids(b)}}

InAll(sets) == {e \in Elements : \A s \in sets : e \in s}

\* The elements that rules may (or, if ~may, must) select when each link shows
\* its group as it is in one of the databases seen.
Selected[q \in Questions] ==
    LET ask(r, k, may) == Selected[[rules |-> r, at |-> k, may |-> may]]
        says(c, r) == IF c.op = "IsNot" THEN Elements \ ask(r, 1, ~q.may)
                                        ELSE ask(r, 1, q.may)
        via(c) == LET told == {says(c, r) : r \in Versions(seen, c.group)}
                  IN  IF q.may THEN UNION told ELSE InAll(told)
        meant(c) == IF ~IsCondition(c) THEN ask(q.rules, c.inner, q.may)
                    ELSE IF c.field = "Group" THEN via(c)
                    ELSE {e \in Elements : Holds(e, c)}
        here == q.rules[q.at]
        parts == {meant(here.conditions[i]) : i \in DOMAIN here.conditions}
    IN  IF here.groupOp = "Or" THEN UNION parts ELSE InAll(parts)

\* The answer is what the rules say: it has every element they select whatever
\* state each linked group was read in while the job ran, and none they select
\* in no such state.  If no group changed meanwhile it is their exact meaning
\* (server/test/resolve.cpp, sections "IsNot group", "IsNot with two linked
\* groups", "Resolve by name and location").  A value with a quote asks for
\* something else, and links in a circle have no meaning.
AnswerIsMeaning ==
    LET asked(may) == Selected[[rules |-> root, at |-> 1, may |-> may]]
    IN  phase = "done" /\ ~Circle /\ (\A r \in Met : PlainValues(r)) =>
            /\ answer \subseteq asked(TRUE)
            /\ {e \in asked(FALSE) : Asset[e].name # RackController} \subseteq answer

=============================================================================
