----------------------------- MODULE MCResolve -----------------------------
(* Instances of Resolve for TLC: a small asset database, and what clients    *)
(* ask of it.                                                               *)
EXTENDS RuleMeaning, TLC

Row(name, type, sub, ext, tags, parents) ==
    [name |-> name, type |-> {type}, subtype |-> sub, ext |-> ext,
     tags |-> tags, parents |-> parents]
At(k, v) == [key |-> k, value |-> v]

\* Two datacenters: in the first a room, and in it a server that runs a
\* hypervisor with a virtual machine; in the second a server, and the hypervisor
\* on paper; the rack controller.
MCElements == {"dc1", "room", "srv1", "hyp1", "vm1", "dc2", "srv2", "rc0"}

MCAsset ==
    "dc1" :> Row({"dc"}, "datacenter", {}, {}, {}, {}) @@
    "room" :> Row({"room"}, "room", {}, {At("name", {"R"})}, {}, {"dc1"}) @@
    "srv1" :> Row({"srv"}, "device", {{"server"}},
                  {At("name", {"S"}), At("hostname", {"h"}),
                   At("ip.1", {"10", "1"}), At("device.contact", {"bob"})},
                  {{"x"}, {"x", "y"}}, {"dc1", "room"}) @@
    "hyp1" :> Row({"hyp"}, "hypervisor", {{"esxi"}},
                  {At("ip", {"10", "2"}), At("hostname.1", {"h", "2"})},
                  {{"y"}}, {"dc2"}) @@
    "vm1" :> Row({"vm"}, "virtual-machine", {{"vm"}},
                 {At("name", {"S", "2"}), At("ip", {"10", "1"})}, {}, {}) @@
    "dc2" :> Row({"dc", "2"}, "datacenter", {}, {}, {}, {}) @@
    "srv2" :> Row({"srv", "2"}, "device", {{"server"}},
                  {At("name", {"S", "2"}), At("contact_email", {"bob", "2"})},
                  {{"y"}}, {"dc2"}) @@
    "rc0" :> Row({"rc"}, "device", {{"server"}}, {At("name", {"S"})}, {},
                 {"dc1"})

MCLinks ==
    {[src |-> "srv1", dest |-> "hyp1", type |-> "ipminfra.server.hosts.os"],
     [src |-> "hyp1", dest |-> "vm1", type |-> "hosts.vm"]}

MCRackController == {"rc"}

-----------------------------------------------------------------------------
Is(f, v) == [field |-> f, op |-> "Is", value |-> v]
With(c, o) == [c EXCEPT !.op = o]
To(o, id) == [field |-> "Group", op |-> o, group |-> id]
In(k) == [field |-> "Rules", inner |-> k]
And(cs) == [groupOp |-> "And", conditions |-> cs]
Or(cs) == [groupOp |-> "Or", conditions |-> cs]

\* Every field with a value that some element has, and one that none has.
OneCondition ==
    {Is("Name", {"S"}), Is("Name", {"2"}), Is("Contact", {"bob"}),
     Is("HostName", {"h"}), Is("IPAddress", {"10", "1"}),
     Is("IPAddress", {"10"}), Is("Type", {"device"}), Is("Type", {"rack"}),
     Is("SubType", {"server"}), Is("InternalName", {"srv"}),
     Is("HostedBy", {"hyp"}), Is("HostedBy", {"none"}),
     Is("Tag", {"x"}), Is("Tag", {"y"})}

Locations == {Is("Location", {"dc"}), Is("Location", {"room"}),
              Is("Location", {"dc", "2"})}

\* DOESNOTCONTAIN is not asked of the locations (the README says what it
\* selects), and a link that excludes comes first in FirstIsNot only.
AllLeaves == {With(c, o) : c \in OneCondition, o \in Ops} \union
             {With(c, o) : c \in Locations, o \in Ops \ {"DoesNotContain"}}

Samples == {Is("Name", {"S"}), With(Is("Tag", {"y"}), "IsNot"),
            With(Is("Location", {"dc"}), "Contains"),
            With(Is("Location", {"room"}), "IsNot"),
            With(Is("HostName", {"h"}), "DoesNotContain")}
Joined == Samples \union {To("Is", 1), To("Is", 2)}

PairsOf(firsts, seconds) ==
    {[groupOp |-> o, conditions |-> <<c, d>>] :
        o \in {"And", "Or"}, c \in firsts, d \in seconds}

Pairs == PairsOf(Joined, Joined \union {To("IsNot", 1), To("IsNot", 9)})

\* Rules inside rules, on either side of a condition.
Inner == PairsOf({To("Is", 1), Is("Name", {"S"})},
                 {To("IsNot", 1), To("Is", 2), With(Is("Tag", {"y"}), "IsNot")})
Outer == LET o == {With(Is("Location", {"dc"}), "Contains"), To("Is", 2)}
         IN  PairsOf(o, {In(2)}) \union PairsOf({In(2)}, o)

Asked(rules) == {[rules |-> r] : r \in rules}

\* What the agent refuses, or resolves to an error.
Refused ==
    {NoRules, <<And(<<In(2)>>), And(<<>>)>>,
     <<[groupOp |-> "Unknown", conditions |-> <<To("Is", 1), To("Is", 2)>>]>>,
     <<And(<<[field |-> "Unknown", op |-> "Is", value |-> {}]>>)>>,
     <<And(<<With(Is("Name", {"S"}), "Unknown")>>)>>,
     <<And(<<With(Is("Location", {"dc"}), "Unknown")>>)>>,
     <<And(<<With(Is("Name", {"S"}), "Unknown"), To("Is", 2)>>)>>,
     <<And(<<To("Is", 9)>>)>>}

\* What Group::check accepts although it may not resolve: a name with a quote in
\* it, a link that is no number.
Odd == {<<And(<<Is("Name", {"S", Quote})>>)>>,
        <<Or(<<Is("Location", {"dc", Quote}), To("Is", 1)>>)>>,
        <<Or(<<To("Is", 1), To("Is", NoNumber)>>)>>}

RuleInputs ==
    Asked({<<And(<<c>>)>> : c \in AllLeaves}) \union
    Asked({<<p>> : p \in Pairs}) \union
    Asked({<<o, i>> : o \in Outer, i \in Inner}) \union
    Asked(Refused) \union Asked(Odd) \union
    Asked({<<And(<<To("Is", 3), To("IsNot", 2)>>)>>,
           <<Or(<<In(2), To("Is", 1)>>), And(<<To("Is", 1), To("IsNot", 2)>>)>>,
           <<Or(<<In(2), In(3)>>), And(<<In(4), Is("Tag", {"y"})>>),
             And(<<To("Is", 2)>>), Or(<<Is("Tag", {"x"}), To("Is", 1)>>)>>}) \union
    {[id |-> i] : i \in {1, 2, 3, 9}}

FirstIsNot == Asked({<<And(<<To("IsNot", 1)>>)>>,
                     <<And(<<To("IsNot", 1), Is("Type", {"device"})>>)>>})

-----------------------------------------------------------------------------
\* The groups: 1 has no link, 2 links to 1, and 3 to both.
Grp(i, r) == [id |-> i, name |-> "n", rules |-> r]
Plain == <<Or(<<Is("InternalName", {"srv"}), Is("Type", {"hypervisor"})>>)>>
Minus == <<And(<<Is("SubType", {"server"}), To("IsNot", 1)>>)>>
Both == <<Or(<<In(2), To("Is", 2)>>), And(<<To("Is", 1), Is("Tag", {"y"})>>)>>

ThreeGroups == [lastId |-> 3,
                groups |-> {Grp(1, Plain), Grp(2, Minus), Grp(3, Both)}]

\* Saves that keep the links from a group to those with a lower id; one that
\* is refused; links in a circle, of one group and of two; odd values.
Saves ==
    {Grp(1, <<And(<<To("Is", 1)>>)>>),
     Grp(1, <<Or(<<In(2), Is("Tag", {"x"})>>),
              And(<<Is("Tag", {"y"}), To("IsNot", 2)>>)>>),
     Grp(1, <<And(<<Is("Name", {"S", Quote})>>)>>),
     Grp(1, <<And(<<To("Is", NoNumber)>>)>>),
     Grp(1, <<And(<<Is("Type", {"device"})>>)>>),
     Grp(2, <<Or(<<Is("Tag", {"x"}), To("Is", 1)>>)>>),
     Grp(3, <<And(<<To("Is", 2), To("IsNot", 1)>>)>>), Grp(NoId, Plain),
     Grp(1, <<And(<<In(2), Is("Tag", {"x"})>>), Or(<<>>)>>)}

MCRules == {r.rules : r \in ThreeGroups.groups \union Saves}

\* These rules, and the groups they meet, are what the theorem about answers
\* is about; those of FirstIsNot are not.
ASSUME PlainInputs ==
    /\ \A in \in RuleInputs : "rules" \in DOMAIN in => PlainlyAsked(in.rules)
    /\ \A r \in MCRules : PlainlyAsked(r)

=============================================================================
