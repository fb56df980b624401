---------------------------- MODULE AssetQueries ----------------------------
(***************************************************************************)
(* The SQL query that a condition of a group becomes                       *)
(* (server/src/lib/jobs/resolve.cpp): the set of the asset elements it     *)
(* selects.                                                                *)
(*                                                                         *)
(* The asset database belongs to other agents.  Its tables and views are   *)
(* constants here: an element's row, its extended attributes, its tags and *)
(* its containers at every level (v_bios_asset_element_super_parent), and  *)
(* the links between elements.  A text is the set of its words: LIKE       *)
(* '%x%', with its escapes and wildcards, asks whether the words of x are  *)
(* among them.                                                             *)
(***************************************************************************)
CONSTANTS
    Elements,   \* the ids in t_bios_asset_element
    Asset,      \* the row of each element
    Links       \* t_bios_asset_link

\* The columns of a row: name, type, subtype (none, or the set of one), ext
\* (keytag and value), tags and parents.

\* t_bios_asset_link_type, as far as the queries ask.
VmLink == "hosts.vm"
OsLink == "ipminfra.server.hosts.os"

\* The types a location can have.
IsContainer(e) ==
    \E t \in {"datacenter", "row", "rack", "room"} : Asset[e].type = {t}

Negative(o) == o \in {"IsNot", "DoesNotContain"}

\* The operator a negative one negates.
Negated(o) == IF o = "IsNot" THEN "Is" ELSE "Contains"

\* The SQL operator and operand: value o 'val'.
Op(o, stored, val) ==
    CASE o = "Contains" -> val \subseteq stored
      [] o = "DoesNotContain" -> ~(val \subseteq stored)
      [] o = "Is" -> stored = val
      [] o = "IsNot" -> stored # val

\* The elements one of whose extended attributes under these keys matches.
WithAttribute(keys, o, val) ==
    {e \in Elements : \E a \in Asset[e].ext :
                          a.key \in keys /\ Op(o, a.value, val)}

ByName(c) == WithAttribute({"name"}, c.op, c.value)

ByInternalName(c) == {e \in Elements : Op(c.op, Asset[e].name, c.value)}

ByType(c) == {e \in Elements : Op(c.op, Asset[e].type, c.value)}

\* An element without a subtype joins NULL, which no operator matches.
BySubType(c) ==
    {e \in Elements : \E s \in Asset[e].subtype : Op(c.op, s, c.value)}

\* NOT IN the elements that match, where the operator is negative.
Excluding(c, Matching(_)) ==
    IF Negative(c.op) THEN Elements \ Matching(Negated(c.op))
                      ELSE Matching(c.op)

ByContact(c) ==
    LET M(o) == WithAttribute({"device.contact", "contact_email"}, o, c.value)
    IN  Excluding(c, M)

ByHostName(c) ==
    LET M(o) == WithAttribute({"hostname", "hostname.1"}, o, c.value)
    IN  Excluding(c, M)

ByIpAddress(c) ==
    LET M(o) == {e \in WithAttribute({"ip", "ip.1"}, o, c.value) :
                    Asset[e].type # {"virtual-machine"}}
    IN  Excluding(c, M)

\* MUTANT: a negative operator is asked of each tag.
ByTagEach(c) ==
    {e \in Elements : \E tag \in Asset[e].tags : Op(c.op, tag, c.value)}

ByTag(c) ==
    LET M(o) == {e \in Elements :
                    \E tag \in Asset[e].tags : Op(o, tag, c.value)}
    IN  Excluding(c, M)

\* The virtual machines of the hypervisors whose name matches.
ByHostedBy(c) ==
    {l.dest : l \in {k \in Links :
                        /\ k.type = VmLink
                        /\ Asset[k.src].type = {"hypervisor"}
                        /\ Op(c.op, Asset[k.src].name, c.value)}}

\* What is in the containers whose name matches, at any depth, with the
\* hypervisors its servers run and the virtual machines of those, but no
\* container.  IS NOT selects what is not in the containers with the name;
\* no operator selects anything if nothing is in a container that matches.
ByLocation(c) ==
    LET o == IF c.op = "IsNot" THEN "Is" ELSE c.op
        found == {d \in Elements : IsContainer(d) /\ Op(o, Asset[d].name, c.value)}
        inside == {e \in Elements : Asset[e].parents \intersect found # {}}
        hypervisors == {l.dest : l \in {k \in Links :
                            k.type = OsLink /\ k.src \in inside}}
        vms == {l.dest : l \in {k \in Links :
                    /\ k.type = VmLink
                    /\ k.src \in hypervisors
                    /\ Asset[k.src].type = {"hypervisor"}}}
        all == inside \union hypervisors \union vms
        chosen == IF c.op = "IsNot" THEN Elements \ all ELSE all
    IN  {e \in chosen : inside # {} /\ ~IsContainer(e)}

\* The switch of groupSql, but for the field group.
Select(c) ==
    CASE c.field = "Contact" -> ByContact(c)
      [] c.field = "HostName" -> ByHostName(c)
      [] c.field = "IPAddress" -> ByIpAddress(c)
      [] c.field = "Location" -> ByLocation(c)
      [] c.field = "Name" -> ByName(c)
      [] c.field = "Type" -> ByType(c)
      [] c.field = "SubType" -> BySubType(c)
      [] c.field = "InternalName" -> ByInternalName(c)
      [] c.field = "HostedBy" -> ByHostedBy(c)
      [] c.field = "Tag" -> ByTag(c)

=============================================================================
