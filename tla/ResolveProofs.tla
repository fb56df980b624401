--------------------------- MODULE ResolveProofs ---------------------------
(***************************************************************************)
(* What the job that resolves a group promises, for any asset database,    *)
(* groups and questions, and however often other jobs change the groups    *)
(* meanwhile.                                                              *)
(***************************************************************************)
EXTENDS RuleMeaning, StorageProofs

-----------------------------------------------------------------------------
(* The queries select what their conditions say *)

\* The elements' values for a field match under an operator.
Matches(e, c, o) == \E v \in Values(e, c.field) : Q!Op(o, v, c.value)
Lacking == {"Name", "SubType", "HostedBy"}
Having(e, keys) == {a.value : a \in {b \in Asset[e].ext : b.key \in keys}}

LEMMA OpIs ==
    ASSUME NEW s, NEW v
    PROVE  /\ Q!Op("Contains", s, v) = (v \subseteq s)
           /\ Q!Op("DoesNotContain", s, v) = ~(v \subseteq s)
           /\ Q!Op("Is", s, v) = (s = v)
           /\ Q!Op("IsNot", s, v) = (s # v)
  BY DEF Q!Op

LEMMA OpNegates ==
    ASSUME NEW o, Q!Negative(o), NEW s, NEW v
    PROVE  Q!Op(o, s, v) <=> ~Q!Op(Q!Negated(o), s, v)
  <1>1. Q!Negated("IsNot") = "Is" /\ Q!Negated("DoesNotContain") = "Contains"
    BY DEF Q!Negated
  <1>2. CASE o = "IsNot"
    <2>1. Q!Op("IsNot", s, v) <=> ~Q!Op("Is", s, v)
      BY OpIs
    <2> QED  BY <1>1, <1>2, <2>1
  <1>3. CASE o = "DoesNotContain"
    <2>1. Q!Op("DoesNotContain", s, v) <=> ~Q!Op("Contains", s, v)
      BY OpIs
    <2> QED  BY <1>1, <1>3, <2>1
  <1> QED  BY <1>2, <1>3 DEF Q!Negative

LEMMA ValuesOf ==
    ASSUME NEW e
    PROVE  /\ Values(e, "Name") = Having(e, {"name"})
           /\ Values(e, "Contact") = Having(e, {"device.contact", "contact_email"})
           /\ Values(e, "HostName") = Having(e, {"hostname", "hostname.1"})
           /\ Values(e, "IPAddress") = {v \in Having(e, {"ip", "ip.1"}) :
                                           Asset[e].type # {"virtual-machine"}}
           /\ Values(e, "Tag") = Asset[e].tags
           /\ Values(e, "Type") = {Asset[e].type}
           /\ Values(e, "SubType") = Asset[e].subtype
           /\ Values(e, "InternalName") = {Asset[e].name}
           /\ Values(e, "HostedBy") = {Asset[h].name : h \in Linked(Q!VmLink, e)}
           /\ Values(e, "Location") =
                {Asset[d].name : d \in UNION {Asset[x].parents : x \in Placed(e)}}
  BY DEF Values, Having

LEMMA SelectIs ==
    ASSUME NEW c
    PROVE  /\ c.field = "Name" => Q!Select(c) = Q!ByName(c)
           /\ c.field = "Contact" => Q!Select(c) = Q!ByContact(c)
           /\ c.field = "HostName" => Q!Select(c) = Q!ByHostName(c)
           /\ c.field = "IPAddress" => Q!Select(c) = Q!ByIpAddress(c)
           /\ c.field = "Location" => Q!Select(c) = Q!ByLocation(c)
           /\ c.field = "Type" => Q!Select(c) = Q!ByType(c)
           /\ c.field = "SubType" => Q!Select(c) = Q!BySubType(c)
           /\ c.field = "InternalName" => Q!Select(c) = Q!ByInternalName(c)
           /\ c.field = "HostedBy" => Q!Select(c) = Q!ByHostedBy(c)
           /\ c.field = "Tag" => Q!Select(c) = Q!ByTag(c)
  BY DEF Q!Select

LEMMA HoldsIs ==
    ASSUME NEW e, NEW c
    PROVE  Holds(e, c) <=>
             /\ Matches(e, c, Positive(c)) <=> ~Q!Negative(c.op)
             /\ c.field \in Lacking => Values(e, c.field) # {}
             /\ c.field = "Location" => ~Q!IsContainer(e)
  <1>1. Q!Negative(c.op) \in BOOLEAN /\ Matches(e, c, Positive(c)) \in BOOLEAN
    BY DEF Q!Negative, Matches
  <1>2. Holds(e, c) <=>
             /\ Matches(e, c, Positive(c)) # Q!Negative(c.op)
             /\ c.field \in Lacking => Values(e, c.field) # {}
             /\ c.field = "Location" => ~Q!IsContainer(e)
    BY Zenon DEF Holds, Matches, Positive, Lacking
  <1> QED  BY <1>1, <1>2, Zenon

\* What a query selects are elements.
LEMMA SelectType ==
    ASSUME NEW c, c.field \in Fields
    PROVE  Q!Select(c) \subseteq Elements
  <1>1. \A keys, o, v : Q!WithAttribute(keys, o, v) \subseteq Elements
    BY DEF Q!WithAttribute
  <1>2. /\ Q!ByName(c) \subseteq Elements /\ Q!ByInternalName(c) \subseteq Elements
        /\ Q!ByType(c) \subseteq Elements /\ Q!BySubType(c) \subseteq Elements
    BY <1>1 DEF Q!ByName, Q!ByInternalName, Q!ByType, Q!BySubType
  <1>3. Q!ByContact(c) \subseteq Elements /\ Q!ByHostName(c) \subseteq Elements
    BY <1>1 DEF Q!ByContact, Q!ByHostName, Q!Excluding
  <1>4. Q!ByIpAddress(c) \subseteq Elements /\ Q!ByTag(c) \subseteq Elements
    BY <1>1 DEF Q!ByIpAddress, Q!ByTag, Q!Excluding
  <1>5. Q!ByHostedBy(c) \subseteq Elements /\ Q!ByLocation(c) \subseteq Elements
    BY AssetAssumption DEF Q!ByHostedBy, Q!ByLocation
  <1> QED
    BY <1>2, <1>3, <1>4, <1>5, SelectIs DEF Fields

\* Of a single value it is the same whether one matches the negative operator
\* or none the positive one.
LEMMA SingleMatches ==
    ASSUME NEW e, NEW c, \A u, v \in Values(e, c.field) : u = v
    PROVE  Matches(e, c, c.op) <=>
             /\ Matches(e, c, Positive(c)) <=> ~Q!Negative(c.op)
             /\ Values(e, c.field) # {}
  <1>1. CASE Q!Negative(c.op)
    <2>1. \A v : Q!Op(c.op, v, c.value) <=> ~Q!Op(Positive(c), v, c.value)
      BY <1>1, OpNegates DEF Positive
    <2> QED  BY <1>1, <2>1 DEF Matches
  <1>2. CASE ~Q!Negative(c.op)
    BY <1>2 DEF Matches, Positive
  <1> QED  BY <1>1, <1>2

\* A field whose values are looked up by the positive operator.
LEMMA ExcludingMeant ==
    ASSUME NEW c, c.field \notin Lacking, c.field # "Location"
    PROVE  (IF Q!Negative(c.op)
            THEN Elements \ {e \in Elements : Matches(e, c, Q!Negated(c.op))}
            ELSE {e \in Elements : Matches(e, c, c.op)})
             = {e \in Elements : Holds(e, c)}
  BY HoldsIs DEF Positive

LEMMA ManyValuesMeant ==
    ASSUME NEW c, c.field \in {"Contact", "HostName", "IPAddress", "Tag"}
    PROVE  Q!Select(c) = {e \in Elements : Holds(e, c)}
  <1> DEFINE found(o) == {e \in Elements : Matches(e, c, o)}
  <1>1. c.field \notin Lacking /\ c.field # "Location"
    BY DEF Lacking
  <1>2. CASE c.field = "Contact"
    <2>1. \A o : Q!WithAttribute({"device.contact", "contact_email"}, o, c.value)
                   = found(o)
      BY <1>2, ValuesOf DEF Q!WithAttribute, Matches, Having
    <2> QED  BY <1>1, <1>2, <2>1, ExcludingMeant, SelectIs
             DEF Q!ByContact, Q!Excluding
  <1>3. CASE c.field = "HostName"
    <2>1. \A o : Q!WithAttribute({"hostname", "hostname.1"}, o, c.value) = found(o)
      BY <1>3, ValuesOf DEF Q!WithAttribute, Matches, Having
    <2> QED  BY <1>1, <1>3, <2>1, ExcludingMeant, SelectIs
             DEF Q!ByHostName, Q!Excluding
  <1>4. CASE c.field = "IPAddress"
    <2>1. \A o : {e \in Q!WithAttribute({"ip", "ip.1"}, o, c.value) :
                     Asset[e].type # {"virtual-machine"}} = found(o)
      BY <1>4, ValuesOf DEF Q!WithAttribute, Matches, Having
    <2> QED  BY <1>1, <1>4, <2>1, ExcludingMeant, SelectIs
             DEF Q!ByIpAddress, Q!Excluding
  <1>5. CASE c.field = "Tag"
    <2>1. \A o : {e \in Elements : \E tag \in Asset[e].tags : Q!Op(o, tag, c.value)}
                   = found(o)
      BY <1>5, ValuesOf DEF Matches
    <2> QED  BY <1>1, <1>5, <2>1, ExcludingMeant, SelectIs
             DEF Q!ByTag, Q!Excluding
  <1> QED  BY <1>2, <1>3, <1>4, <1>5

LEMMA OneValueMeant ==
    ASSUME NEW c, c.field \in {"Name", "Type", "SubType", "InternalName", "HostedBy"}
    PROVE  Q!Select(c) = {e \in Elements : Holds(e, c)}
  <1>1. \A e \in Elements : \A u, v \in Values(e, c.field) : u = v
    <2>1. CASE c.field = "Name"
      BY <2>1, ValuesOf, DatabaseAssumption DEF Having
    <2>2. CASE c.field \in {"Type", "SubType", "InternalName"}
      BY <2>2, ValuesOf, DatabaseAssumption
    <2>3. CASE c.field = "HostedBy"
      BY <2>3, ValuesOf, DatabaseAssumption DEF Linked
    <2> QED  BY <2>1, <2>2, <2>3
  <1>2. Q!Select(c) = {e \in Elements : Matches(e, c, c.op)}
    <2>1. CASE c.field = "Name"
      BY <2>1, ValuesOf, SelectIs DEF Q!ByName, Q!WithAttribute, Matches, Having
    <2>2. CASE c.field = "Type"
      BY <2>2, ValuesOf, SelectIs DEF Q!ByType, Matches
    <2>3. CASE c.field = "SubType"
      BY <2>3, ValuesOf, SelectIs DEF Q!BySubType, Matches
    <2>4. CASE c.field = "InternalName"
      BY <2>4, ValuesOf, SelectIs DEF Q!ByInternalName, Matches
    <2>5. CASE c.field = "HostedBy"
      <3>1. \A e \in Elements :
              Matches(e, c, c.op) <=>
                \E l \in Links : /\ l.type = Q!VmLink /\ l.dest = e
                                 /\ Q!Op(c.op, Asset[l.src].name, c.value)
        BY <2>5, ValuesOf DEF Matches, Linked
      <3> QED  BY <2>5, <3>1, SelectIs, AssetAssumption, DatabaseAssumption
               DEF Q!ByHostedBy
    <2> QED  BY <2>1, <2>2, <2>3, <2>4, <2>5
  <1>3. \A e \in Elements :
          c.field \in Lacking \/ Values(e, c.field) # {}
    BY ValuesOf DEF Lacking
  <1> QED  BY <1>1, <1>2, <1>3, SingleMatches, HoldsIs

\* Whether something is in a container with the name asked for.
LEMMA LocationMeant ==
    ASSUME NEW c, c.field = "Location", c.op \in {"Is", "Contains", "IsNot"},
           c.op = "IsNot" => Located(c)
    PROVE  Q!Select(c) = {e \in Elements : Holds(e, c)}
  <1> DEFINE o == IF c.op = "IsNot" THEN "Is" ELSE c.op
             found == {d \in Elements : Q!IsContainer(d) /\ Q!Op(o, Asset[d].name, c.value)}
             inside == {e \in Elements : Asset[e].parents \intersect found # {}}
             hypervisors == {l.dest : l \in {k \in Links :
                                k.type = Q!OsLink /\ k.src \in inside}}
             vms == {l.dest : l \in {k \in Links :
                        /\ k.type = Q!VmLink
                        /\ k.src \in hypervisors
                        /\ Asset[k.src].type = {"hypervisor"}}}
             all == inside \union hypervisors \union vms
             there(e) == Matches(e, c, Positive(c))
  <1>1. Positive(c) = o
    BY DEF Positive, Q!Negative, Q!Negated
  <1>2. Q!Negative(c.op) <=> c.op = "IsNot"
    BY DEF Q!Negative
  <1>3. Q!Select(c) = {e \in (IF c.op = "IsNot" THEN Elements \ all ELSE all) :
                          inside # {} /\ ~Q!IsContainer(e)}
    <2>1. Q!ByLocation(c) = {e \in (IF c.op = "IsNot" THEN Elements \ all ELSE all) :
                                inside # {} /\ ~Q!IsContainer(e)}
      BY Zenon DEF Q!ByLocation
    <2> QED  BY <2>1, SelectIs
  <1>4. \A x \in Elements :
          x \in inside <=> \E d \in Asset[x].parents :
                              Q!Op(Positive(c), Asset[d].name, c.value)
    BY <1>1, DatabaseAssumption
  <1>5. \A e \in Elements : Placed(e) \subseteq Elements
    BY AssetAssumption DEF Placed, Linked
  <1>6. \A e \in Elements : there(e) <=> \E x \in Placed(e) : x \in inside
    BY <1>4, <1>5, ValuesOf DEF Matches
  <1>7. \A e \in Elements :
          e \in hypervisors <=> \E x \in Linked(Q!OsLink, e) : x \in inside
    BY DEF Linked
  <1>8. \A e \in Elements :
          e \in vms <=> \E h \in Linked(Q!VmLink, e) : h \in hypervisors
    BY DatabaseAssumption DEF Linked
  <1> HIDE DEF found, inside, hypervisors, vms
  <1>9. \A e \in Elements : there(e) <=> e \in all
    <2> SUFFICES ASSUME NEW e \in Elements PROVE there(e) <=> e \in all
      OBVIOUS
    <2>1. Linked(Q!VmLink, e) \subseteq Elements
      BY AssetAssumption DEF Linked
    <2>2. (\E x \in Placed(e) : x \in inside)
            <=> \/ e \in inside
                \/ \E x \in Linked(Q!OsLink, e) : x \in inside
                \/ \E h \in Linked(Q!VmLink, e) :
                      \E x \in Linked(Q!OsLink, h) : x \in inside
      BY DEF Placed
    <2>3. (\E h \in Linked(Q!VmLink, e) : h \in hypervisors)
            <=> \E h \in Linked(Q!VmLink, e) :
                  \E x \in Linked(Q!OsLink, h) : x \in inside
      BY <1>7, <2>1
    <2> QED  BY <1>6, <1>7, <1>8, <2>2, <2>3
  <1>10. all \subseteq Elements
    BY AssetAssumption DEF inside, hypervisors, vms
  <1>11. c.op = "IsNot" => inside # {}
    BY <1>4 DEF Located
  <1>12. \A e \in all : inside # {}
    BY DEF hypervisors, vms
  <1>13. \A e \in Elements :
          Holds(e, c) <=> (there(e) <=> c.op # "IsNot") /\ ~Q!IsContainer(e)
    BY <1>2, HoldsIs DEF Lacking
  <1> HIDE DEF all, there
  <1> QED  BY <1>3, <1>9, <1>10, <1>11, <1>12, <1>13

-----------------------------------------------------------------------------
(* Rules, databases and calls *)

LEMMA RulesType ==
    ASSUME NEW r \in AllRules
    PROVE  /\ 1 \in DOMAIN r /\ DOMAIN r \subseteq Nat
           /\ \A k \in DOMAIN r :
                 /\ r[k].groupOp \in {"And", "Or", "Unknown"}
                 /\ Len(r[k].conditions) \in Nat
                 /\ DOMAIN r[k].conditions = 1 .. Len(r[k].conditions)
                 /\ r[k].conditions = <<>> <=> Len(r[k].conditions) = 0
                 /\ \A i \in DOMAIN r[k].conditions :
                       LET c == r[k].conditions[i]
                       IN  IF IsCondition(c)
                           THEN /\ c.field \in Fields \union {"Group", "Unknown"}
                                /\ c.op \in Ops \union {"Unknown"}
                           ELSE c.inner \in DOMAIN r
  <1>1. IsRules(r)
    BY RulesAssumption
  <1>2. r # <<>> /\ r \in Seq({r[i] : i \in DOMAIN r})
    BY <1>1 DEF IsRules, IsTuple
  <1>3. 1 \in DOMAIN r /\ DOMAIN r \subseteq Nat
    BY <1>2
  <1>4. ASSUME NEW k \in DOMAIN r
        PROVE  /\ Len(r[k].conditions) \in Nat
               /\ DOMAIN r[k].conditions = 1 .. Len(r[k].conditions)
               /\ r[k].conditions = <<>> <=> Len(r[k].conditions) = 0
    <2> DEFINE cs == r[k].conditions
    <2>1. cs \in Seq({cs[i] : i \in DOMAIN cs})
      BY <1>1 DEF IsRules, IsTuple
    <2> HIDE DEF cs
    <2>2. /\ Len(cs) \in Nat /\ DOMAIN cs = 1 .. Len(cs)
          /\ cs = <<>> <=> Len(cs) = 0
      BY <2>1
    <2> QED  BY <2>2 DEF cs
  <1> QED  BY <1>1, <1>3, <1>4 DEF IsRules

\* A database whose groups have passed the check.
Checked(d) == d \in DbObj /\ \A g \in d.groups : PassesCheck(g.rules)

LEMMA EmptyChecked == Checked(EmptyDb)
  BY DEF Checked, EmptyDb, DbObj

LEMMA SaveChecked ==
    ASSUME NEW d, Checked(d), NEW g \in Group, PassesCheck(g.rules)
    PROVE  Checked(AfterSave(d, g))
  <1> USE DEF Checked, DbObj, Group
  <1> DEFINE s == Saved(d, g)
  <1>1. s \in Group /\ s.rules = g.rules
    BY DEF Saved
  <1> HIDE DEF s
  <1>2. CASE g.id = NoId
    <2>1. AfterSave(d, g) = [lastId |-> s.id, groups |-> d.groups \union {s}]
      BY <1>2 DEF AfterSave, s
    <2> QED  BY <1>1, <2>1
  <1>3. CASE g.id # NoId
    <2>1. AfterSave(d, g) = [d EXCEPT !.groups = {IF h.id = s.id THEN s ELSE h : h \in @}]
      BY <1>3 DEF AfterSave, s
    <2> QED  BY <1>1, <2>1
  <1> QED  BY <1>2, <1>3

LEMMA RemoveChecked ==
    ASSUME NEW d, Checked(d), NEW id
    PROVE  Checked(AfterRemove(d, id))
  BY DEF Checked, DbObj, AfterRemove

StorageChecked == inited \in BOOLEAN /\ Checked(db) /\ Checked(file)

LEMMA LoadedChecked == StorageChecked => Checked(Loaded)
  BY DEF StorageChecked, Loaded

LEMMA QueryChecked ==
    StorageChecked /\ (Query \/ UNCHANGED storageVars)
        => StorageChecked' /\ Loaded' = Loaded
  <1> SUFFICES ASSUME StorageChecked, Query \/ UNCHANGED storageVars
               PROVE  StorageChecked' /\ Loaded' = Loaded
    OBVIOUS
  <1>1. CASE Query
    <2>1. inited' = TRUE /\ db' = Loaded /\ file' = file
      BY <1>1 DEF Query
    <2> QED  BY <2>1, LoadedChecked DEF StorageChecked, Checked, Loaded
  <1>2. CASE UNCHANGED storageVars
    BY <1>2 DEF storageVars, StorageChecked, Checked, Loaded
  <1> QED  BY <1>1, <1>2

LEMMA ChangeChecked ==
    ASSUME StorageChecked, NEW d, Checked(d), Written(d) \/ NotWritten(d)
    PROVE  StorageChecked' /\ Checked(Loaded')
  <1>1. inited' = TRUE /\ db' = d /\ (file' = d \/ file' = file)
    BY DEF Written, NotWritten
  <1>2. Loaded' = d
    BY <1>1 DEF Loaded
  <1> QED  BY <1>1, <1>2 DEF StorageChecked, Checked

-----------------------------------------------------------------------------
(* The stack of calls *)

Frames ==
    {f \in [rules : AllRules, at : Nat, next : Nat, ids : SUBSET Elements] :
        /\ f.at \in DOMAIN f.rules
        /\ f.next \in 1 .. Len(Call(f).conditions) + 1}

\* A call is added, the innermost call goes on, or it returns to its caller.
Pushed(s, t, f) ==
    /\ Len(t) = Len(s) + 1 /\ t[1] = f
    /\ \A i \in 1 .. Len(s) : t[i + 1] = s[i]
Replaced(s, t, f) ==
    /\ Len(t) = Len(s) /\ t[1] = f
    /\ \A i \in 2 .. Len(s) : t[i] = s[i]
Popped(s, t, f) ==
    /\ Len(t) = Len(s) - 1 /\ t[1] = f
    /\ \A i \in 2 .. Len(t) : t[i] = s[i + 1]

LEMMA StackPushed ==
    ASSUME NEW S, NEW s \in Seq(S), NEW f \in S
    PROVE  <<f>> \o s \in Seq(S) /\ Pushed(s, <<f>> \o s, f)
  BY DEF Pushed

LEMMA StackReplaced ==
    ASSUME NEW S, NEW s \in Seq(S), s # <<>>, NEW f \in S
    PROVE  <<f>> \o Tail(s) \in Seq(S) /\ Replaced(s, <<f>> \o Tail(s), f)
  BY DEF Replaced

LEMMA StackPopped ==
    ASSUME NEW S, NEW s \in Seq(S), Len(s) > 1, NEW f \in S
    PROVE  /\ <<f>> \o Tail(Tail(s)) \in Seq(S)
           /\ Popped(s, <<f>> \o Tail(Tail(s)), f)
  <1>1. /\ Tail(s) \in Seq(S) /\ Len(Tail(s)) = Len(s) - 1
        /\ \A i \in 1 .. Len(s) - 1 : Tail(s)[i] = s[i + 1]
    OBVIOUS
  <1> DEFINE u == Tail(s)
  <1> HIDE DEF u
  <1>2. u \in Seq(S) /\ u # <<>> /\ Len(u) = Len(s) - 1
    <2>1. u \in Seq(S) /\ Len(u) = Len(s) - 1
      BY <1>1 DEF u
    <2>2. Len(s) \in Nat /\ Len(s) - 1 # 0
      OBVIOUS
    <2> QED  BY <2>1, <2>2
  <1>3. <<f>> \o Tail(u) \in Seq(S) /\ Replaced(u, <<f>> \o Tail(u), f)
    BY <1>2, StackReplaced
  <1> QED  BY <1>1, <1>2, <1>3 DEF u, Replaced, Popped

-----------------------------------------------------------------------------
(* The walk keeps its types *)

LEMMA FrameType ==
    ASSUME NEW r \in AllRules, NEW k \in DOMAIN r
    PROVE  /\ Frame(r, k) \in Frames
           /\ Frame(r, k).rules = r /\ Frame(r, k).at = k
           /\ Frame(r, k).next = 1 /\ Frame(r, k).ids = {}
  BY RulesType DEF Frame, Frames, Call

LEMMA FrameFacts ==
    ASSUME NEW f \in Frames
    PROVE  /\ f.rules \in AllRules /\ f.at \in DOMAIN f.rules
           /\ f.next \in Nat /\ f.next > 0 /\ f.ids \subseteq Elements
           /\ Len(Call(f).conditions) \in Nat
           /\ f.next =< Len(Call(f).conditions) + 1
           /\ DOMAIN Call(f).conditions = 1 .. Len(Call(f).conditions)
           /\ Call(f).groupOp \in {"And", "Or", "Unknown"}
  BY RulesType DEF Frames, Call

LEMMA AdvanceType ==
    ASSUME NEW f \in Frames, f.next =< Len(Call(f).conditions),
           NEW ids \in SUBSET Elements
    PROVE  /\ Advance(f, ids) \in Frames
           /\ Advance(f, ids).rules = f.rules /\ Advance(f, ids).at = f.at
           /\ Advance(f, ids).next = f.next + 1
           /\ Advance(f, ids).ids = Combine(f, ids)
  <1>1. Combine(f, ids) \subseteq Elements
    BY FrameFacts DEF Combine, Wanted
  <1>2. f \in [rules : AllRules, at : Nat, next : Nat, ids : SUBSET Elements]
    BY DEF Frames
  <1> DEFINE g == Advance(f, ids)
             ids2 == Combine(f, ids)
  <1>3. g = [f EXCEPT !.ids = ids2, !.next = f.next + 1]
    BY DEF Advance
  <1> HIDE DEF ids2
  <1> HIDE DEF g
  <1>4. /\ g \in [rules : AllRules, at : Nat, next : Nat, ids : SUBSET Elements]
        /\ g.rules = f.rules /\ g.at = f.at /\ g.next = f.next + 1
        /\ g.ids = ids2
    <2>1. ids2 \in SUBSET Elements /\ f.next + 1 \in Nat
      BY <1>1, <1>2 DEF ids2
    <2> QED  BY <1>2, <1>3, <2>1
  <1>5. g.at \in DOMAIN g.rules /\ g.next \in 1 .. Len(Call(g).conditions) + 1
    BY <1>4, FrameFacts DEF Call
  <1> QED  BY <1>4, <1>5 DEF Frames, g, ids2

ResolveInv ==
    /\ StorageChecked
    /\ phase \in {"idle", "resolving", "done", "error", "escaped", "overflown"}
    /\ cause \in {"none", "rules", "value", "group", "database"}
    /\ cause = "none" <=> phase \notin {"error", "escaped"}
    /\ flaws \subseteq {"rules", "value"}
    /\ phase = "idle" => flaws = {}
    /\ stack \in Seq(Frames)
    /\ \A i \in 2 .. Len(stack) : stack[i].next =< Len(Call(stack[i]).conditions)
    /\ phase = "resolving" <=> stack # <<>>
    /\ answer \subseteq Elements
    /\ seen \subseteq DbObj
    /\ phase = "resolving" => Loaded \in seen
    /\ phase \in {"resolving", "done"} => root \in AllRules
    /\ changes \in 0 .. MaxChanges

LEMMA InnermostCall ==
    ASSUME ResolveInv, phase = "resolving"
    PROVE  /\ Len(stack) \in Nat /\ Len(stack) > 0 /\ stack # <<>>
           /\ Head(stack) = stack[1] /\ stack[1] \in Frames
  BY DEF ResolveInv

LEMMA CurrentType ==
    ASSUME ResolveInv, AtCondition
    PROVE  /\ phase = "resolving"
           /\ stack[1].next =< Len(Call(stack[1]).conditions)
           /\ Current = Call(stack[1]).conditions[stack[1].next]
           /\ IF IsCondition(Current)
              THEN /\ Current.field \in Fields \union {"Group", "Unknown"}
                   /\ Current.op \in Ops \union {"Unknown"}
              ELSE Current.inner \in DOMAIN stack[1].rules
  <1>1. phase = "resolving"
    BY DEF AtCondition
  <1>2. Head(stack) = stack[1] /\ stack[1] \in Frames
    BY <1>1, InnermostCall
  <1> DEFINE f == stack[1]
             c == Call(f).conditions[f.next]
  <1>3. f.next =< Len(Call(f).conditions) /\ Current = c
    BY <1>2 DEF AtCondition, Current
  <1>4. /\ f.rules \in AllRules /\ f.at \in DOMAIN f.rules
        /\ f.next \in DOMAIN f.rules[f.at].conditions
    BY <1>2, <1>3, FrameFacts DEF Call
  <1>5. IF IsCondition(c)
        THEN /\ c.field \in Fields \union {"Group", "Unknown"}
             /\ c.op \in Ops \union {"Unknown"}
        ELSE c.inner \in DOMAIN f.rules
    BY <1>4, RulesType DEF Call
  <1> QED  BY <1>1, <1>3, <1>5

\* Rules without conditions, or several without an operator.
Senseless(r) ==
    \/ Len(r.conditions) = 0
    \/ Len(r.conditions) > 1 /\ r.groupOp = "Unknown"

\* The innermost call is at rules, or at a condition, that no check lets pass; at
\* a condition whose value the job cannot take.
UnknownHere ==
    /\ phase = "resolving"
    /\ \/ /\ AtCondition /\ IsCondition(Current)
          /\ Current.field = "Unknown" \/ Current.op = "Unknown"
       \/ Senseless(Call(stack[1]))
OddHere ==
    /\ AtCondition /\ IsCondition(Current)
    /\ IF Current.field = "Group" THEN Current.group = NoNumber
                                  ELSE Quote \in Current.value

\* What the steps of the walk do to the stack.
Ends(p, about) ==
    /\ phase' = p /\ cause' = about /\ stack' = <<>>
    /\ UNCHANGED <<flaws, root, answer, seen, changes>>
    /\ StorageChecked'
Throws(about) == Ends("error", about)

\* What is wrong with the SQL is wrong with the condition or the rules there.
Blamed ==
    /\ flaws \subseteq flaws' /\ flaws' \subseteq {"rules", "value"}
    /\ "rules" \in flaws' => "rules" \in flaws \/ UnknownHere
    /\ "value" \in flaws' => "value" \in flaws \/ OddHere

GoesOn ==
    /\ phase = "resolving" /\ stack' \in Seq(Frames)
    /\ UNCHANGED <<phase, cause, root, answer, seen, changes>>
    /\ Blamed
    /\ StorageChecked' /\ Loaded' = Loaded

StartStep ==
    /\ phase = "idle" /\ phase' = "resolving" /\ UNCHANGED <<cause, flaws>>
    /\ root' \in AllRules /\ stack' = <<Frame(root', 1)>>
    /\ seen' = {Loaded'} /\ Loaded' = Loaded /\ StorageChecked'
    /\ UNCHANGED <<answer, changes>>

EvaluateStep ==
    /\ AtCondition /\ IsCondition(Current) /\ Current.field \in Fields
    /\ GoesOn
    /\ \E ids \in SUBSET Elements :
          /\ Replaced(stack, stack', Advance(stack[1], ids))
          /\ flaws' = {} => Current.op \in Ops /\ ids = Q!Select(Current)

NestStep ==
    /\ AtCondition /\ ~IsCondition(Current)
    /\ GoesOn
    /\ Pushed(stack, stack', Frame(stack[1].rules, Current.inner))

LinkStep ==
    /\ AtLink /\ Current.group \in Ids(Loaded)
    /\ GoesOn
    /\ Pushed(stack, stack', Frame(ById(Loaded, Current.group).rules, 1))

ReturnStep ==
    /\ GoesOn
    /\ Len(stack) > 1
    /\ stack[1].next > Len(Call(stack[1]).conditions)
    /\ flaws' = {} => ~Senseless(Call(stack[1]))
    /\ Popped(stack, stack', Advance(stack[2], stack[1].ids))

DoneStep ==
    /\ phase = "resolving" /\ phase' = "done" /\ stack' = <<>>
    /\ Len(stack) = 1 /\ stack[1].next > Len(Call(stack[1]).conditions)
    /\ UNCHANGED <<cause, flaws, root, seen, changes>>
    /\ \/ /\ flaws = {} /\ ~Senseless(Call(stack[1]))
          /\ answer' = {e \in stack[1].ids : Asset[e].name # RackController}
       \/ "value" \in flaws /\ answer' \subseteq Elements
    /\ StorageChecked'

\* It ends for the groups or the database, for its rules, or for a value.
FailStep ==
    /\ phase \in {"idle", "resolving"}
    /\ \/ Throws("group") \/ Throws("database") \/ Ends("escaped", "database")
       \/ Ends("overflown", cause) /\ phase = "resolving"
RefuseStep ==
    /\ Throws("rules") /\ phase = "resolving"
    /\ UnknownHere \/ "rules" \in flaws
OddStep ==
    /\ Throws("value") \/ Ends("escaped", "value")
    /\ phase = "resolving"
    /\ OddHere \/ "value" \in flaws

LEMMA StartSteps ==
    ASSUME ResolveInv, Start
    PROVE  StartStep \/ FailStep
  <1>1. Checked(Loaded) /\ StorageChecked
    BY LoadedChecked DEF ResolveInv
  <1>2. phase = "idle" /\ UNCHANGED changes
    BY DEF Start
  <1> PICK in \in Inputs :
          \/ /\ "id" \in DOMAIN in /\ in.id \in Ids(Loaded)
             /\ Query
             /\ Begin(ById(Loaded, in.id).rules)
          \/ /\ "id" \in DOMAIN in /\ in.id \notin Ids(Loaded)
             /\ Query
             /\ Throw("group")
             /\ UNCHANGED <<flaws, root, answer, seen>>
          \/ /\ "rules" \in DOMAIN in
             /\ Begin(in.rules)
             /\ UNCHANGED storageVars
    BY DEF Start
  <1>3. CASE in.id \in Ids(Loaded) /\ Query /\ Begin(ById(Loaded, in.id).rules)
    <2>1. ById(Loaded, in.id).rules \in AllRules
      BY <1>1, <1>3, ByIdIsStored DEF Checked, DbObj, Group, AllRules
    <2> QED  BY <1>1, <1>2, <1>3, <2>1, QueryChecked DEF Begin, StartStep
  <1>4. CASE Query /\ Throw("group") /\ UNCHANGED <<flaws, root, answer, seen>>
    BY <1>1, <1>2, <1>4, QueryChecked DEF Throw, Throws, Ends, FailStep
  <1>5. CASE "rules" \in DOMAIN in /\ Begin(in.rules) /\ UNCHANGED storageVars
    <2>1. in.rules \in AllRules
      BY <1>5 DEF AllRules
    <2> QED  BY <1>1, <1>2, <1>5, <2>1, QueryChecked DEF Begin, StartStep
  <1> QED  BY <1>3, <1>4, <1>5

LEMMA EvaluateSteps ==
    ASSUME ResolveInv, Evaluate
    PROVE  EvaluateStep \/ RefuseStep \/ OddStep
  <1>1. AtCondition /\ IsCondition(Current) /\ Current.field # "Group"
    BY DEF Evaluate, AtLink
  <1>2. phase = "resolving"
    BY <1>1 DEF AtCondition
  <1>3. StorageChecked' /\ Loaded' = Loaded /\ UNCHANGED <<root, answer, seen, changes>>
    BY QueryChecked DEF Evaluate, ResolveInv
  <1>4. /\ "rules" \in Flaws(Current) <=> Current.op = "Unknown"
        /\ "value" \in Flaws(Current) <=> Quote \in Current.value
        /\ Flaws(Current) \subseteq {"rules", "value"}
    BY DEF Flaws
  <1>5. /\ "rules" \in Flaws(Current) \/ Current.field = "Unknown" => UnknownHere
        /\ "value" \in Flaws(Current) => OddHere
    BY <1>1, <1>2, <1>4 DEF UnknownHere, OddHere
  <1>6. CASE Current.field = "Unknown" /\ Throw("rules") /\ UNCHANGED flaws
    BY <1>2, <1>3, <1>5, <1>6 DEF Throw, Throws, Ends, RefuseStep
  <1>7. CASE UNCHANGED flaws /\ \E about \in Flaws(Current) : Throw(about)
    <2>1. PICK about \in Flaws(Current) : Throw(about)
      BY <1>7
    <2>2. Throws(about)
      BY <1>3, <1>7, <2>1 DEF Throw, Throws, Ends
    <2> QED  BY <1>2, <1>4, <1>5, <2>2 DEF RefuseStep, OddStep
  <1>8. CASE /\ Current.field # "Unknown"
             /\ LET ids == IF Flaws(Current) = {} THEN Q!Select(Current) ELSE {}
                IN  stack' = <<Advance(Head(stack), ids)>> \o Tail(stack)
             /\ flaws' = flaws \union Flaws(Current)
             /\ Goes
    <2> DEFINE ids == IF Flaws(Current) = {} THEN Q!Select(Current) ELSE {}
    <2>1. stack' = <<Advance(Head(stack), ids)>> \o Tail(stack)
      BY <1>8
    <2>2. Current.field \in Fields /\ Current.op \in Ops \union {"Unknown"}
      BY <1>1, <1>8, CurrentType
    <2>3. ids \in SUBSET Elements
      BY <2>2, SelectType
    <2>4. flaws' = {} => Current.op \in Ops /\ ids = Q!Select(Current)
      BY <1>4, <1>8, <2>2
    <2> HIDE DEF ids
    <2>5. Advance(stack[1], ids) \in Frames
      BY <1>1, <1>2, <2>3, InnermostCall, CurrentType, AdvanceType
    <2>6. stack \in Seq(Frames) /\ stack # <<>> /\ Head(stack) = stack[1]
      BY <1>2, InnermostCall DEF ResolveInv
    <2>7. stack' \in Seq(Frames) /\ Replaced(stack, stack', Advance(stack[1], ids))
      BY <2>1, <2>5, <2>6, StackReplaced
    <2>8. Blamed
      BY <1>4, <1>5, <1>8 DEF Blamed, ResolveInv
    <2>9. GoesOn
      BY <1>2, <1>3, <1>8, <2>7, <2>8 DEF GoesOn, Goes
    <2> QED  BY <1>1, <2>2, <2>3, <2>4, <2>7, <2>9 DEF EvaluateStep
  <1> QED  BY <1>6, <1>7, <1>8 DEF Evaluate

LEMMA NestSteps ==
    ASSUME ResolveInv, Nest
    PROVE  NestStep
  <1>1. AtCondition /\ ~IsCondition(Current) /\ Goes /\ UNCHANGED storageVars
        /\ UNCHANGED <<flaws, root, answer, seen, changes>>
        /\ stack' = <<Frame(Head(stack).rules, Current.inner)>> \o stack
    BY DEF Nest, Push
  <1>2. phase = "resolving"
    BY <1>1 DEF AtCondition
  <1>3. StorageChecked' /\ Loaded' = Loaded
    BY <1>1, QueryChecked DEF ResolveInv
  <1>4. stack \in Seq(Frames) /\ Head(stack) = stack[1] /\ stack[1] \in Frames
    BY <1>2, InnermostCall DEF ResolveInv
  <1>5. Frame(stack[1].rules, Current.inner) \in Frames
    BY <1>1, <1>4, CurrentType, FrameFacts, FrameType
  <1>6. /\ stack' \in Seq(Frames)
        /\ Pushed(stack, stack', Frame(stack[1].rules, Current.inner))
    BY <1>1, <1>4, <1>5, StackPushed
  <1> QED
    BY <1>1, <1>2, <1>3, <1>6 DEF NestStep, GoesOn, Goes, Blamed, ResolveInv

LEMMA LinkSteps ==
    ASSUME ResolveInv, Link
    PROVE  LinkStep \/ FailStep \/ OddStep
  <1>1. /\ AtLink /\ UNCHANGED <<flaws, root, answer, seen, changes>>
        /\ Query \/ UNCHANGED storageVars
    BY DEF Link
  <1>2. AtCondition /\ IsCondition(Current) /\ Current.field = "Group"
        /\ phase = "resolving"
    BY <1>1 DEF AtLink, AtCondition
  <1>3. StorageChecked' /\ Loaded' = Loaded
    BY <1>1, QueryChecked DEF ResolveInv
  <1>4. CASE Throw("group") \/ (Current.group = NoNumber /\ Throw("value"))
             \/ (Current.group = NoNumber /\ Escape("value"))
    BY <1>1, <1>2, <1>3, <1>4
    DEF Throw, Throws, Escape, Ends, FailStep, OddStep, OddHere
  <1>5. CASE /\ Current.group \in Ids(Loaded)
             /\ Push(Frame(ById(Loaded, Current.group).rules, 1)) /\ Goes
    <2> DEFINE f == Frame(ById(Loaded, Current.group).rules, 1)
    <2>1. stack' = <<f>> \o stack /\ Goes
      BY <1>5 DEF Push
    <2>2. ById(Loaded, Current.group).rules \in AllRules
      BY <1>5, LoadedChecked, ByIdIsStored
      DEF ResolveInv, Checked, DbObj, Group, AllRules
    <2>3. f \in Frames
      BY <2>2, RulesType, FrameType
    <2> HIDE DEF f
    <2>4. stack' \in Seq(Frames) /\ Pushed(stack, stack', f)
      BY <2>1, <2>3, StackPushed DEF ResolveInv
    <2>5. GoesOn
      BY <1>1, <1>2, <1>3, <2>1, <2>4 DEF GoesOn, Goes, Blamed, ResolveInv
    <2> QED  BY <1>1, <1>5, <2>4, <2>5 DEF LinkStep, f
  <1> QED  BY <1>4, <1>5 DEF Link

LEMMA ReturnSteps ==
    ASSUME ResolveInv, Return
    PROVE  RefuseStep \/ OddStep \/ ReturnStep \/ DoneStep
  <1> DEFINE f == stack[1]
             n == Len(Call(f).conditions)
             wrong == IF n > 1 /\ Call(f).groupOp = "Unknown"
                      THEN flaws \union {"rules"} ELSE flaws
  <1>1. phase = "resolving"
    BY DEF Return
  <1>2. /\ Len(stack) \in Nat /\ Len(stack) > 0 /\ Head(stack) = f
        /\ f \in Frames /\ stack \in Seq(Frames)
    BY <1>1, InnermostCall DEF ResolveInv
  <1>3. /\ f.next > n /\ UNCHANGED <<storageVars, root, seen, changes>>
        /\ \/ n = 0 /\ Throw("rules") /\ UNCHANGED <<flaws, answer>>
           \/ /\ n > 0 /\ Len(stack) > 1
              /\ stack' = <<Advance(stack[2], f.ids)>> \o Tail(Tail(stack))
              /\ flaws' = wrong
              /\ Goes /\ UNCHANGED answer
           \/ n > 0 /\ Len(stack) = 1 /\ Execute(f.ids, wrong) /\ UNCHANGED flaws
    BY <1>2 DEF Return
  <1>4. StorageChecked' /\ Loaded' = Loaded
    BY <1>3, QueryChecked DEF ResolveInv
  <1>5. n = 0 => Senseless(Call(f))
    BY DEF Senseless
  <1>6. /\ "rules" \in wrong => "rules" \in flaws \/ Senseless(Call(f))
        /\ "value" \in wrong <=> "value" \in flaws
        /\ n > 0 /\ wrong = {} => flaws = {} /\ ~Senseless(Call(f))
        /\ flaws \subseteq wrong /\ wrong \subseteq {"rules", "value"}
    BY DEF Senseless, ResolveInv
  <1>7. Senseless(Call(f)) => UnknownHere
    BY <1>1 DEF UnknownHere
  <1>8. f.next > n => stack[1].next > Len(Call(stack[1]).conditions)
    OBVIOUS
  <1> HIDE DEF f, n, wrong
  <1>9. CASE n = 0 /\ Throw("rules") /\ UNCHANGED <<flaws, answer>>
    BY <1>1, <1>3, <1>4, <1>5, <1>7, <1>9 DEF Throw, Throws, Ends, RefuseStep
  <1>10. CASE /\ n > 0 /\ Len(stack) > 1
              /\ stack' = <<Advance(stack[2], f.ids)>> \o Tail(Tail(stack))
              /\ flaws' = wrong
              /\ Goes /\ UNCHANGED answer
    <2> DEFINE g == Advance(stack[2], f.ids)
    <2>1. stack' = <<g>> \o Tail(Tail(stack)) /\ Goes /\ UNCHANGED answer
      BY <1>10
    <2>2. stack[2] \in Frames /\ stack[2].next =< Len(Call(stack[2]).conditions)
      BY <1>2, <1>10 DEF ResolveInv
    <2>3. g \in Frames
      BY <1>2, <2>2, FrameFacts, AdvanceType
    <2> HIDE DEF g
    <2>4. stack' \in Seq(Frames) /\ Popped(stack, stack', g)
      BY <1>2, <1>10, <2>1, <2>3, StackPopped
    <2>5. Blamed
      BY <1>6, <1>7, <1>10 DEF Blamed
    <2>6. GoesOn
      BY <1>1, <1>3, <1>4, <2>1, <2>4, <2>5 DEF GoesOn, Goes
    <2>7. Popped(stack, stack', Advance(stack[2], stack[1].ids))
      BY <2>4 DEF g, f
    <2>8. flaws' = {} => ~Senseless(Call(stack[1]))
      BY <1>6, <1>10 DEF f
    <2> QED  BY <1>3, <1>8, <1>10, <2>6, <2>7, <2>8 DEF ReturnStep
  <1>11. CASE n > 0 /\ Len(stack) = 1 /\ Execute(f.ids, wrong) /\ UNCHANGED flaws
    <2>1. CASE \E about \in wrong : Throw(about) /\ UNCHANGED answer
      <3>1. PICK about \in wrong : Throw(about) /\ UNCHANGED answer
        BY <2>1
      <3>2. Throws(about)
        BY <1>3, <1>4, <1>11, <3>1 DEF Throw, Throws, Ends
      <3> QED  BY <1>1, <1>6, <1>7, <3>1, <3>2 DEF RefuseStep, OddStep
    <2>2. CASE /\ wrong = {} \/ "value" \in wrong
               /\ phase' = "done" /\ stack' = <<>> /\ UNCHANGED cause
               /\ answer' \in IF wrong = {}
                              THEN {{e \in f.ids : Asset[e].name # RackController}}
                              ELSE SUBSET Elements
      <3> DEFINE plain == {e \in f.ids : Asset[e].name # RackController}
      <3>1. (wrong = {} /\ answer' = plain) \/ ("value" \in wrong /\ answer' \subseteq Elements)
        BY <2>2
      <3>2. \/ flaws = {} /\ ~Senseless(Call(f)) /\ answer' = plain
            \/ "value" \in flaws /\ answer' \subseteq Elements
        BY <1>6, <1>11, <3>1
      <3>3. \/ /\ flaws = {} /\ ~Senseless(Call(stack[1]))
               /\ answer' = {e \in stack[1].ids : Asset[e].name # RackController}
            \/ "value" \in flaws /\ answer' \subseteq Elements
        BY <3>2 DEF f
      <3> QED  BY <1>1, <1>3, <1>4, <1>8, <1>11, <2>2, <3>3 DEF DoneStep
    <2> QED  BY <1>11, <2>1, <2>2 DEF Execute
  <1> QED  BY <1>3, <1>9, <1>10, <1>11

-----------------------------------------------------------------------------
(* Every step is one of these *)

ChangeStep ==
    /\ phase = "resolving"
    /\ UNCHANGED <<phase, cause, stack, flaws, root, answer>>
    /\ changes < MaxChanges /\ changes' = changes + 1
    /\ seen' = seen \union {Loaded'} /\ Checked(Loaded') /\ StorageChecked'

Step ==
    \/ StartStep \/ EvaluateStep \/ NestStep \/ LinkStep \/ ReturnStep \/ DoneStep
    \/ FailStep \/ RefuseStep \/ OddStep \/ ChangeStep \/ UNCHANGED vars

LEMMA ChangeSteps ==
    ASSUME ResolveInv, Change
    PROVE  ChangeStep
  <1>1. Checked(Loaded) /\ StorageChecked
    BY LoadedChecked DEF ResolveInv
  <1>2. ASSUME NEW d, Checked(d), Written(d) \/ NotWritten(d)
        PROVE  StorageChecked' /\ Checked(Loaded')
    BY <1>1, <1>2, ChangeChecked
  <1>3. ASSUME NEW g \in GroupChanges, PassesCheck(g.rules), Save(g)
        PROVE  StorageChecked' /\ Checked(Loaded')
    <2>1. g \in Group
      BY RulesAssumption
    <2>2. PICK d : d = AfterSave(Loaded, g)
      OBVIOUS
    <2>3. Checked(d)
      BY <1>1, <1>3, <2>1, <2>2, SaveChecked
    <2> QED  BY <1>2, <1>3, <2>2, <2>3 DEF Save
  <1>4. ASSUME NEW id, Remove(id)
        PROVE  StorageChecked' /\ Checked(Loaded')
    <2>1. PICK d : d = AfterRemove(Loaded, id)
      OBVIOUS
    <2>2. Checked(d)
      BY <1>1, <2>1, RemoveChecked
    <2> QED  BY <1>2, <1>4, <2>1, <2>2 DEF Remove
  <1>5. StorageChecked' /\ Checked(Loaded')
    BY <1>3, <1>4 DEF Change
  <1> QED  BY <1>5 DEF Change, ChangeStep, Goes

LEMMA Steps ==
    ASSUME ResolveInv, [Next]_vars
    PROVE  Step
  <1>1. CASE Start
    BY <1>1, StartSteps DEF Step
  <1>2. CASE ConnectFails
    BY <1>2, QueryChecked DEF ResolveInv, ConnectFails, Escape, Ends, FailStep, Step
  <1>3. CASE Evaluate
    BY <1>3, EvaluateSteps DEF Step
  <1>4. CASE Nest
    BY <1>4, NestSteps DEF Step
  <1>5. CASE Link
    BY <1>5, LinkSteps DEF Step
  <1>6. CASE Return
    BY <1>6, ReturnSteps DEF Step
  <1>7. CASE QueryFails
    <2>1. phase = "resolving" /\ (Throws("database") \/ Ends("escaped", "database"))
      BY <1>7, QueryChecked
      DEF ResolveInv, QueryFails, AtCondition, Throw, Throws, Escape, Ends
    <2> QED  BY <2>1 DEF Step, FailStep
  <1>8. CASE Change
    BY <1>8, ChangeSteps DEF Step
  <1>9. CASE Finished \/ UNCHANGED vars
    BY <1>9 DEF Finished, Step
  <1>10. CASE Overflow
    BY <1>10, QueryChecked
    DEF ResolveInv, Overflow, AtCall, AtLink, AtCondition, Ends, FailStep, Step
  <1> QED
    BY <1>1, <1>2, <1>3, <1>4, <1>5, <1>6, <1>7, <1>8, <1>9, <1>10 DEF Next, Work

-----------------------------------------------------------------------------
(* Types *)

Waiting(s) == \A i \in 2 .. Len(s) : s[i].next =< Len(Call(s[i]).conditions)

LEMMA GoingOnKeepsTypes ==
    ASSUME ResolveInv, GoesOn, stack' # <<>>, Waiting(stack')
    PROVE  ResolveInv'
  <1>1. /\ StorageChecked' /\ stack' \in Seq(Frames) /\ phase = "resolving"
        /\ UNCHANGED <<phase, cause, root, answer, seen, changes>>
        /\ flaws' \subseteq {"rules", "value"}
        /\ Loaded' = Loaded
    BY DEF GoesOn, Blamed
  <1>2. \A i \in 2 .. Len(stack') :
            stack'[i].next =< Len(Call(stack'[i]).conditions)
    BY DEF Waiting
  <1> QED  BY <1>1, <1>2 DEF ResolveInv, Call

LEMMA PushedWaits ==
    ASSUME NEW s \in Seq(Frames), Len(s) > 0, Waiting(s),
           s[1].next =< Len(Call(s[1]).conditions),
           NEW t \in Seq(Frames), NEW f, Pushed(s, t, f)
    PROVE  t # <<>> /\ Waiting(t)
  <1>1. Len(t) = Len(s) + 1 /\ Len(s) \in Nat
    BY DEF Pushed
  <1>2. ASSUME NEW i \in 2 .. Len(t)
        PROVE  t[i].next =< Len(Call(t[i]).conditions)
    <2>1. PICK j \in 1 .. Len(s) : i = j + 1
      <3>1. \A n \in Nat : \A k \in 2 .. n + 1 : k - 1 \in 1 .. n /\ k = (k - 1) + 1
        OBVIOUS
      <3> QED  BY <1>1, <3>1
    <2>2. t[i] = s[j]
      BY <2>1 DEF Pushed
    <2>3. s[j].next =< Len(Call(s[j]).conditions)
      BY <1>1 DEF Waiting
    <2> QED  BY <2>2, <2>3
  <1> QED  BY <1>1, <1>2 DEF Waiting

LEMMA ReplacedWaits ==
    ASSUME NEW s \in Seq(Frames), Len(s) > 0, Waiting(s),
           NEW t \in Seq(Frames), NEW f, Replaced(s, t, f)
    PROVE  t # <<>> /\ Waiting(t)
  BY DEF Replaced, Waiting

LEMMA PoppedWaits ==
    ASSUME NEW s \in Seq(Frames), Len(s) > 1, Waiting(s),
           NEW t \in Seq(Frames), NEW f, Popped(s, t, f)
    PROVE  t # <<>> /\ Waiting(t)
  <1>1. Len(t) = Len(s) - 1 /\ Len(s) \in Nat
    BY DEF Popped
  <1>2. ASSUME NEW i \in 2 .. Len(t)
        PROVE  t[i].next =< Len(Call(t[i]).conditions)
    <2>1. t[i] = s[i + 1] /\ i + 1 \in 2 .. Len(s)
      BY <1>1 DEF Popped
    <2> QED  BY <2>1 DEF Waiting
  <1> QED  BY <1>1, <1>2 DEF Waiting

LEMMA EndingKeepsTypes ==
    ASSUME ResolveInv, StorageChecked', stack' = <<>>, UNCHANGED <<seen, changes>>,
           answer' \subseteq Elements, UNCHANGED flaws,
           \/ phase' = "overflown" /\ phase = "resolving" /\ UNCHANGED cause
           \/ phase' = "done" /\ phase = "resolving" /\ UNCHANGED <<cause, root>>
           \/ /\ phase' \in {"error", "escaped"}
              /\ cause' \in {"rules", "value", "group", "database"}
    PROVE  ResolveInv'
  <1>1. stack' \in Seq(Frames) /\ Len(stack') = 0
    OBVIOUS
  <1> QED  BY <1>1 DEF ResolveInv

LEMMA StepKeepsTypes ==
    ASSUME ResolveInv, Step
    PROVE  ResolveInv'
  <1>1. CASE StartStep
    <2> DEFINE f == Frame(root', 1)
    <2>1. root' \in AllRules /\ stack' = <<f>> /\ phase = "idle"
          /\ phase' = "resolving" /\ cause' = cause /\ flaws' = flaws
          /\ answer' = answer
          /\ changes' = changes /\ seen' = {Loaded'} /\ Loaded' = Loaded
          /\ StorageChecked'
      BY <1>1 DEF StartStep
    <2>2. f \in Frames
      BY <2>1, RulesType, FrameType
    <2> HIDE DEF f
    <2>3. stack' \in Seq(Frames) /\ stack' # <<>> /\ Len(stack') = 1
      BY <2>1, <2>2
    <2>4. Loaded \in DbObj
      BY LoadedChecked DEF ResolveInv, Checked
    <2> QED  BY <2>1, <2>3, <2>4 DEF ResolveInv
  <1>2. CASE EvaluateStep
    <2>1. phase = "resolving" /\ GoesOn /\ stack' \in Seq(Frames)
      BY <1>2 DEF EvaluateStep, AtCondition, GoesOn
    <2>2. PICK f : Replaced(stack, stack', f)
      BY <1>2 DEF EvaluateStep
    <2>3. stack' # <<>> /\ Waiting(stack')
      BY <2>1, <2>2, InnermostCall, ReplacedWaits DEF ResolveInv, Waiting
    <2> QED  BY <2>1, <2>3, GoingOnKeepsTypes
  <1>3. CASE NestStep \/ LinkStep
    <2>1. AtCondition /\ phase = "resolving" /\ GoesOn /\ stack' \in Seq(Frames)
      BY <1>3 DEF NestStep, LinkStep, AtLink, AtCondition, GoesOn
    <2>2. PICK f : Pushed(stack, stack', f)
      BY <1>3 DEF NestStep, LinkStep
    <2>3. stack \in Seq(Frames) /\ Len(stack) > 0 /\ Waiting(stack)
      BY <2>1, InnermostCall DEF ResolveInv, Waiting
    <2>4. stack[1].next =< Len(Call(stack[1]).conditions)
      BY <2>1, CurrentType
    <2>5. stack' # <<>> /\ Waiting(stack')
      BY <2>1, <2>2, <2>3, <2>4, PushedWaits
    <2> QED  BY <2>1, <2>5, GoingOnKeepsTypes
  <1>4. CASE ReturnStep
    <2>1. phase = "resolving" /\ GoesOn /\ stack' \in Seq(Frames) /\ Len(stack) > 1
      BY <1>4 DEF ReturnStep, GoesOn
    <2>2. stack \in Seq(Frames) /\ Waiting(stack)
      BY DEF ResolveInv, Waiting
    <2>3. stack' # <<>> /\ Waiting(stack')
      BY <1>4, <2>1, <2>2, PoppedWaits DEF ReturnStep
    <2> QED  BY <2>1, <2>3, GoingOnKeepsTypes
  <1>5. CASE DoneStep
    <2>1. stack[1] \in Frames
      BY <1>5, InnermostCall DEF DoneStep
    <2>2. answer' \subseteq Elements
      BY <1>5, <2>1, FrameFacts DEF DoneStep
    <2> QED  BY <1>5, <2>2, EndingKeepsTypes DEF DoneStep
  <1>6. CASE FailStep \/ RefuseStep \/ OddStep
    <2>1. PICK p, about :
              /\ Ends(p, about)
              /\ \/ p = "overflown" /\ about = cause /\ phase = "resolving"
                 \/ /\ p \in {"error", "escaped"}
                    /\ about \in {"rules", "value", "group", "database"}
      BY <1>6 DEF FailStep, RefuseStep, OddStep, Throws
    <2>2. answer' \subseteq Elements
      BY <2>1 DEF Ends, ResolveInv
    <2> QED  BY <2>1, <2>2, EndingKeepsTypes DEF Ends
  <1>8. CASE ChangeStep
    <2>1. seen' \subseteq DbObj /\ Loaded' \in seen'
      BY <1>8 DEF ChangeStep, Checked, ResolveInv
    <2>2. changes' \in 0 .. MaxChanges
      BY <1>8, RulesAssumption DEF ChangeStep, ResolveInv
    <2> QED  BY <1>8, <2>1, <2>2 DEF ChangeStep, ResolveInv, Call
  <1>9. CASE UNCHANGED vars
    BY <1>9 DEF vars, storageVars, ResolveInv, StorageChecked, Checked, Loaded, Call
  <1> QED
    BY <1>1, <1>2, <1>3, <1>4, <1>5, <1>6, <1>8, <1>9 DEF Step

LEMMA InitTypes == Init => ResolveInv
  <1> SUFFICES ASSUME Init PROVE ResolveInv
    OBVIOUS
  <1>1. Checked(db) /\ Checked(file) /\ inited \in BOOLEAN
    BY EmptyChecked, InitialFileAssumption, StoredAreChecked
    DEF Init, StorageInit, Checked
  <1>2. stack \in Seq(Frames) /\ Len(stack) = 0
    BY DEF Init
  <1> QED  BY <1>1, <1>2, RulesAssumption DEF Init, ResolveInv, StorageChecked

LEMMA ResolveInvHolds == Spec => []ResolveInv
  BY InitTypes, Steps, StepKeepsTypes, PTL DEF Spec

\* The walk of the rules keeps its types: each call is at a place of rules the
\* job may meet and at a condition of that place or past the last, what it has
\* selected are assets, and it is under way exactly while there are calls.
THEOREM ResolveTypeCorrect == Spec => []TypeOK
  <1>1. ResolveInv => TypeOK
    <2> SUFFICES ASSUME ResolveInv PROVE TypeOK
      OBVIOUS
    <2>1. StorageTypeOK
      BY DEF ResolveInv, StorageChecked, Checked, StorageTypeOK
    <2>2. (cause = "none") = (phase \notin {"error", "escaped"})
      BY Zenon DEF ResolveInv
    <2>3. (phase = "resolving") = (stack # <<>>)
      BY Zenon DEF ResolveInv
    <2>4. \A i \in DOMAIN stack :
             /\ stack[i].rules \in AllRules
             /\ stack[i].at \in DOMAIN stack[i].rules
             /\ stack[i].next \in 1 .. Len(Call(stack[i]).conditions) + 1
             /\ stack[i].ids \subseteq Elements
      BY DEF ResolveInv, Frames
    <2> QED  BY <2>1, <2>2, <2>3, <2>4 DEF ResolveInv, TypeOK
  <1> QED  BY <1>1, ResolveInvHolds, PTL

-----------------------------------------------------------------------------
(* Rules that pass the check *)

\* Some rules the job may have met have a value it cannot take.
OddMet == \E r \in Met : ~PlainValues(r)

\* If the rules of the request pass the check, so do those of every call, which
\* are all of the job's or of a group's; and what is wrong with the SQL was wrong
\* with them.
CheckInv ==
    /\ ResolveInv
    /\ PassesCheck(root) => \A i \in 1 .. Len(stack) : PassesCheck(stack[i].rules)
    /\ \A i \in 1 .. Len(stack) : stack[i].rules \in Met
    /\ "rules" \in flaws => ~PassesCheck(root)
    /\ "value" \in flaws => OddMet
    /\ phase = "done" => flaws = {} \/ "value" \in flaws
    /\ CheckedRulesResolve

LEMMA PassingMakesSense ==
    ASSUME NEW f \in Frames, PassesCheck(f.rules)
    PROVE  /\ ~Senseless(Call(f))
           /\ \A i \in DOMAIN Call(f).conditions :
                 LET c == Call(f).conditions[i]
                 IN  IsCondition(c) => c.field # "Unknown" /\ c.op # "Unknown"
  <1>1. RulesPass(Call(f))
    BY FrameFacts DEF PassesCheck, Call
  <1>2. Len(Call(f).conditions) # 0
    BY <1>1, FrameFacts, RulesType DEF RulesPass, Call
  <1> QED  BY <1>1, <1>2 DEF RulesPass, ConditionPasses, Senseless

LEMMA RefusedRules ==
    ASSUME CheckInv, UnknownHere
    PROVE  ~PassesCheck(root)
  <1> SUFFICES ASSUME PassesCheck(root) PROVE FALSE
    OBVIOUS
  <1>1. phase = "resolving"
    BY DEF UnknownHere
  <1>2. /\ Len(stack) \in Nat /\ Len(stack) > 0 /\ stack[1] \in Frames
        /\ ResolveInv
    BY <1>1, InnermostCall DEF CheckInv
  <1>3. PassesCheck(stack[1].rules)
    BY <1>2 DEF CheckInv
  <1>4. ASSUME AtCondition, IsCondition(Current)
        PROVE  Current.field # "Unknown" /\ Current.op # "Unknown"
    <2>1. /\ stack[1].next =< Len(Call(stack[1]).conditions)
          /\ Current = Call(stack[1]).conditions[stack[1].next]
      BY <1>2, <1>4, CurrentType
    <2>2. stack[1].next \in DOMAIN Call(stack[1]).conditions
      BY <1>2, <2>1, FrameFacts
    <2> QED  BY <1>2, <1>3, <1>4, <2>1, <2>2, PassingMakesSense
  <1> QED  BY <1>2, <1>3, <1>4, PassingMakesSense DEF UnknownHere

LEMMA OddRules ==
    ASSUME CheckInv, OddHere
    PROVE  OddMet
  <1> DEFINE f == stack[1]
  <1>1. AtCondition /\ IsCondition(Current) /\ phase = "resolving" /\ ResolveInv
    BY DEF OddHere, AtCondition, CheckInv
  <1>2. /\ Len(stack) \in Nat /\ Len(stack) > 0 /\ f \in Frames
        /\ f.next =< Len(Call(f).conditions)
        /\ Current = Call(f).conditions[f.next]
    BY <1>1, InnermostCall, CurrentType
  <1>3. f.rules \in Met
    BY <1>2 DEF CheckInv
  <1> HIDE DEF f
  <1>4. /\ f.at \in DOMAIN f.rules
        /\ f.next \in DOMAIN f.rules[f.at].conditions
        /\ Current = f.rules[f.at].conditions[f.next]
    BY <1>2, FrameFacts DEF Call
  <1>5. ~PlainValues(f.rules)
    BY <1>1, <1>4 DEF OddHere, PlainValues
  <1> QED  BY <1>3, <1>5 DEF OddMet

\* What these facts say later, when no rules are forgotten.
LEMMA PassesLater == PassesCheck(root)' <=> PassesCheck(root')
  BY DEF PassesCheck, RulesPass, ConditionPasses, IsCondition

LEMMA CallsPassLater ==
    (\A i \in 1 .. Len(stack) : PassesCheck(stack[i].rules))'
        <=> \A i \in 1 .. Len(stack') : PassesCheck(stack'[i].rules)
  BY DEF PassesCheck, RulesPass, ConditionPasses, IsCondition

LEMMA MetLater ==
    ASSUME UNCHANGED root, seen \subseteq seen'
    PROVE  Met \subseteq Met' /\ (OddMet => OddMet')
  BY DEF Met, OddMet, PlainValues, IsCondition

LEMMA PassingCallsGoOn ==
    ASSUME CheckInv, GoesOn, ResolveInv',
           PassesCheck(root) => PassesCheck(stack'[1].rules),
           stack'[1].rules \in Met,
           \A i \in 2 .. Len(stack') : \E j \in 1 .. Len(stack) :
               stack'[i].rules = stack[j].rules
    PROVE  CheckInv'
  <1>1. Len(stack') \in Nat
    BY DEF ResolveInv
  <1>2. UNCHANGED <<root, cause, phase, seen>> /\ phase = "resolving" /\ Blamed
    BY DEF GoesOn
  <1>3. Met \subseteq Met' /\ (OddMet => OddMet')
    BY <1>2, MetLater
  <1>4. PassesCheck(root)' <=> PassesCheck(root)
    BY <1>2, PassesLater
  <1>5. ASSUME NEW i \in 1 .. Len(stack')
        PROVE  /\ PassesCheck(root) => PassesCheck(stack'[i].rules)
               /\ stack'[i].rules \in Met
    <2>1. CASE i # 1
      <3>1. i \in 2 .. Len(stack')
        BY <1>1, <2>1
      <3> QED  BY <3>1 DEF CheckInv
    <2> QED  BY <2>1
  <1>6. "rules" \in flaws' => ~PassesCheck(root)
    BY <1>2, RefusedRules DEF Blamed, CheckInv
  <1>7. "value" \in flaws' => OddMet
    BY <1>2, OddRules DEF Blamed, CheckInv
  <1>8. CheckedRulesResolve'
    BY <1>2, <1>3, <1>4 DEF CheckInv, CheckedRulesResolve, ResolveInv
  <1>9. PassesCheck(root)' =>
            (\A i \in 1 .. Len(stack) : PassesCheck(stack[i].rules))'
    BY <1>4, <1>5, CallsPassLater
  <1> QED  BY <1>2, <1>3, <1>4, <1>5, <1>6, <1>7, <1>8, <1>9 DEF CheckInv

LEMMA PassingCallsEnd ==
    ASSUME CheckInv, ResolveInv', stack' = <<>>, UNCHANGED <<root, flaws, seen>>,
           phase' = "done" => flaws = {} \/ "value" \in flaws,
           cause' = "rules" => ~PassesCheck(root),
           cause' = "value" => OddMet
    PROVE  CheckInv'
  <1>1. Len(stack') = 0
    OBVIOUS
  <1>2. Met \subseteq Met' /\ (OddMet => OddMet')
    BY MetLater
  <1>3. PassesCheck(root)' <=> PassesCheck(root)
    BY PassesLater
  <1>4. CheckedRulesResolve'
    BY <1>2, <1>3 DEF CheckedRulesResolve, OddMet
  <1> QED  BY <1>1, <1>2, <1>3, <1>4 DEF CheckInv

LEMMA StepKeepsCheck ==
    ASSUME CheckInv, Step
    PROVE  CheckInv'
  <1>1. ResolveInv /\ ResolveInv'
    BY StepKeepsTypes DEF CheckInv
  <1>2. stack \in Seq(Frames) /\ Len(stack) \in Nat
    BY <1>1 DEF ResolveInv
  <1>3. ASSUME NEW i \in 1 .. Len(stack)
        PROVE  /\ PassesCheck(root) => PassesCheck(stack[i].rules)
               /\ stack[i].rules \in Met
    BY DEF CheckInv
  <1>4. CASE StartStep
    <2> DEFINE f == Frame(root', 1)
    <2>1. /\ root' \in AllRules /\ stack' = <<f>> /\ phase = "idle"
          /\ UNCHANGED <<cause, flaws>> /\ phase' = "resolving"
      BY <1>4 DEF StartStep
    <2>2. f.rules = root'
      BY <2>1, RulesType, FrameType
    <2> HIDE DEF f
    <2>3. Len(stack') = 1 /\ stack'[1] = f
      BY <2>1
    <2>4. cause' = "none" /\ flaws' = {}
      BY <1>1, <2>1 DEF ResolveInv
    <2>5. root' \in Met'
      BY DEF Met
    <2>6. \A i \in 1 .. Len(stack') : stack'[i].rules = root'
      BY <2>2, <2>3
    <2>7. PassesCheck(root)' =>
              (\A i \in 1 .. Len(stack) : PassesCheck(stack[i].rules))'
      BY <2>6, PassesLater, CallsPassLater
    <2>8. CheckedRulesResolve'
      BY <2>4 DEF CheckedRulesResolve
    <2> QED  BY <1>1, <2>1, <2>4, <2>5, <2>6, <2>7, <2>8 DEF CheckInv
  <1>5. CASE EvaluateStep
    <2> PICK ids \in SUBSET Elements :
            Replaced(stack, stack', Advance(stack[1], ids))
      BY <1>5 DEF EvaluateStep
    <2> DEFINE f == Advance(stack[1], ids)
    <2>1. AtCondition /\ GoesOn /\ Replaced(stack, stack', f)
      BY <1>5 DEF EvaluateStep
    <2>2. /\ phase = "resolving" /\ Len(stack) > 0 /\ stack[1] \in Frames
          /\ stack[1].next =< Len(Call(stack[1]).conditions)
      BY <1>1, <2>1, CurrentType, InnermostCall
    <2>3. f.rules = stack[1].rules
      BY <2>1, <2>2, AdvanceType
    <2> HIDE DEF f
    <2>4. /\ PassesCheck(root) => PassesCheck(stack'[1].rules)
          /\ stack'[1].rules \in Met
      BY <1>2, <1>3, <2>1, <2>2, <2>3 DEF Replaced
    <2>5. \A i \in 2 .. Len(stack') : \E j \in 1 .. Len(stack) :
              stack'[i].rules = stack[j].rules
      BY <1>2, <2>1 DEF Replaced
    <2> QED  BY <1>1, <2>1, <2>4, <2>5, PassingCallsGoOn
  <1>6. ASSUME GoesOn, phase = "resolving", NEW f, Pushed(stack, stack', f),
               PassesCheck(root) => PassesCheck(f.rules), f.rules \in Met
        PROVE  CheckInv'
    <2>1. stack'[1] = f /\ Len(stack') = Len(stack) + 1
          /\ \A i \in 1 .. Len(stack) : stack'[i + 1] = stack[i]
      BY <1>6 DEF Pushed
    <2>2. ASSUME NEW i \in 2 .. Len(stack')
          PROVE  \E j \in 1 .. Len(stack) : stack'[i].rules = stack[j].rules
      <3>1. \A n \in Nat : \A k \in 2 .. n + 1 : k - 1 \in 1 .. n /\ k = (k - 1) + 1
        OBVIOUS
      <3>2. i - 1 \in 1 .. Len(stack) /\ i = (i - 1) + 1
        BY <1>2, <2>1, <3>1
      <3>3. stack'[(i - 1) + 1] = stack[i - 1]
        BY <2>1, <3>2
      <3> QED  BY <3>2, <3>3
    <2> QED  BY <1>1, <1>6, <2>1, <2>2, PassingCallsGoOn
  <1>7. CASE NestStep
    <2> DEFINE f == Frame(stack[1].rules, Current.inner)
    <2>1. AtCondition /\ ~IsCondition(Current) /\ GoesOn /\ Pushed(stack, stack', f)
      BY <1>7 DEF NestStep
    <2>2. /\ phase = "resolving" /\ Len(stack) > 0 /\ stack[1] \in Frames
          /\ Current.inner \in DOMAIN stack[1].rules
      BY <1>1, <2>1, CurrentType, InnermostCall
    <2>3. f.rules = stack[1].rules
      BY <2>2, FrameFacts, FrameType
    <2> HIDE DEF f
    <2>4. (PassesCheck(root) => PassesCheck(f.rules)) /\ f.rules \in Met
      BY <1>2, <1>3, <2>2, <2>3
    <2> QED  BY <1>6, <2>1, <2>2, <2>4
  <1>8. CASE LinkStep
    <2> DEFINE g == ById(Loaded, Current.group)
               f == Frame(g.rules, 1)
    <2>1. AtLink /\ Current.group \in Ids(Loaded) /\ GoesOn /\ Pushed(stack, stack', f)
      BY <1>8 DEF LinkStep
    <2>2. phase = "resolving"
      BY <2>1 DEF AtLink, AtCondition
    <2>3. g \in Loaded.groups
      BY <2>1, ByIdIsStored
    <2>4. g.rules \in AllRules /\ PassesCheck(g.rules)
      BY <1>1, <2>3, LoadedChecked DEF ResolveInv, Checked, DbObj, Group, AllRules
    <2>5. g.rules \in Met
      BY <1>1, <2>2, <2>3 DEF ResolveInv, Met
    <2> HIDE DEF g
    <2>6. f.rules = g.rules
      BY <2>4, RulesType, FrameType
    <2> HIDE DEF f
    <2> QED  BY <1>6, <2>1, <2>2, <2>4, <2>5, <2>6
  <1>9. CASE ReturnStep
    <2> DEFINE f == Advance(stack[2], stack[1].ids)
    <2>1. GoesOn /\ Popped(stack, stack', f) /\ Len(stack) > 1
      BY <1>9 DEF ReturnStep
    <2>2. /\ stack[1] \in Frames /\ stack[2] \in Frames
          /\ stack[2].next =< Len(Call(stack[2]).conditions)
      BY <1>1, <1>2, <2>1 DEF ResolveInv
    <2>3. f.rules = stack[2].rules
      BY <2>2, FrameFacts, AdvanceType
    <2> HIDE DEF f
    <2>4. /\ PassesCheck(root) => PassesCheck(stack'[1].rules)
          /\ stack'[1].rules \in Met
      BY <1>2, <1>3, <2>1, <2>3 DEF Popped
    <2>5. \A i \in 2 .. Len(stack') : \E j \in 1 .. Len(stack) :
              stack'[i].rules = stack[j].rules
      BY <1>2, <2>1 DEF Popped
    <2> QED  BY <1>1, <2>1, <2>4, <2>5, PassingCallsGoOn
  <1>10. CASE RefuseStep
    <2>1. ~PassesCheck(root)
      BY <1>10, RefusedRules DEF RefuseStep, CheckInv
    <2> QED  BY <1>1, <1>10, <2>1, PassingCallsEnd DEF RefuseStep, Throws, Ends
  <1>11. CASE OddStep
    <2>1. OddMet
      BY <1>11, OddRules DEF OddStep, CheckInv
    <2> QED  BY <1>1, <1>11, <2>1, PassingCallsEnd DEF OddStep, Throws, Ends
  <1>12. CASE FailStep \/ DoneStep
    <2>1. /\ stack' = <<>> /\ UNCHANGED <<root, flaws, seen>>
          /\ cause' = cause \/ cause' \notin {"rules", "value"}
          /\ phase' = "done" => flaws = {} \/ "value" \in flaws
      BY <1>12 DEF FailStep, DoneStep, Throws, Ends
    <2> QED  BY <1>1, <2>1, PassingCallsEnd DEF CheckInv, CheckedRulesResolve, OddMet
  <1>13. CASE ChangeStep \/ UNCHANGED vars
    <2>1. UNCHANGED <<stack, root, cause, flaws, phase>> /\ seen \subseteq seen'
      BY <1>13 DEF ChangeStep, vars
    <2>2. Met \subseteq Met' /\ (OddMet => OddMet')
      BY <2>1, MetLater
    <2>3. PassesCheck(root)' <=> PassesCheck(root)
      BY <2>1, PassesLater
    <2>4. CheckedRulesResolve'
      BY <2>1, <2>2, <2>3 DEF CheckInv, CheckedRulesResolve, OddMet
    <2>5. PassesCheck(root)' =>
              (\A i \in 1 .. Len(stack) : PassesCheck(stack[i].rules))'
      BY <1>3, <2>1, <2>3, CallsPassLater
    <2>6. \A i \in 1 .. Len(stack') : stack'[i].rules \in Met'
      BY <1>3, <2>1, <2>2
    <2> QED  BY <1>1, <2>1, <2>2, <2>3, <2>4, <2>5, <2>6 DEF CheckInv
  <1> QED
    BY <1>4, <1>5, <1>7, <1>8, <1>9, <1>10, <1>11, <1>12, <1>13 DEF Step

LEMMA InitCheck == Init => CheckInv
  <1> SUFFICES ASSUME Init PROVE CheckInv
    OBVIOUS
  <1>1. Len(stack) = 0 /\ cause = "none" /\ flaws = {} /\ phase = "idle"
    BY DEF Init
  <1> QED  BY <1>1, InitTypes DEF CheckInv, CheckedRulesResolve

LEMMA StepsKeepCheck == CheckInv /\ [Next]_vars => CheckInv'
  <1> SUFFICES ASSUME CheckInv, [Next]_vars PROVE CheckInv'
    OBVIOUS
  <1>1. ResolveInv
    BY DEF CheckInv
  <1> QED  BY <1>1, Steps, StepKeepsCheck

LEMMA CheckInvHolds == Spec => []CheckInv
  BY InitCheck, StepsKeepCheck, PTL DEF Spec

\* Rules that Group::check accepts never end the job in an error about rules,
\* whatever other jobs save meanwhile: the calls for inner rules and for linked
\* groups are made for checked rules again, and an operator SQL does not know,
\* which shows only when the statement is executed, came from one of them.  If it
\* ends for a value, with a reply or without, then these rules have one that is no
\* number where it names a group, or has a quote: the check does not look at it.
THEOREM CheckedRulesAreResolved == Spec => []CheckedRulesResolve
  BY CheckInvHolds, PTL DEF CheckInv

-----------------------------------------------------------------------------
(* The conditions on a field *)

\* The query made of a condition selects the assets the condition holds for,
\* for every asset database: the joins, the sub-selects and the NOT IN of the
\* SQL are the negation, the missing rows and the places that Holds describes.
THEOREM QueriesMean ==
    ASSUME NEW c, c.field \in Fields, c.op \in Ops,
           c.field = "Location" => /\ c.op # "DoesNotContain"
                                   /\ c.op = "IsNot" => Located(c)
    PROVE  Q!Select(c) = {e \in Elements : Holds(e, c)}
  BY ManyValuesMeant, OneValueMeant, LocationMeant DEF Fields, Ops

-----------------------------------------------------------------------------
(* The equation the meaning of the rules solves *)

Ask(D, r, k, may) == D[[rules |-> r, at |-> k, may |-> may]]

Says(D, c, r, may) ==
    IF c.op = "IsNot" THEN Elements \ Ask(D, r, 1, ~may) ELSE Ask(D, r, 1, may)

Told(B, D, c, may) ==
    LET told == {Says(D, c, r, may) : r \in Versions(B, c.group)}
    IN  IF may THEN UNION told ELSE InAll(told)

Meant(B, D, r, c, may) ==
    IF ~IsCondition(c) THEN Ask(D, r, c.inner, may)
    ELSE IF c.field = "Group" THEN Told(B, D, c, may)
    ELSE {e \in Elements : Holds(e, c)}

Body(B, D, q) ==
    LET here == q.rules[q.at]
        parts == {Meant(B, D, q.rules, here.conditions[i], q.may) :
                      i \in DOMAIN here.conditions}
    IN  IF here.groupOp = "Or" THEN UNION parts ELSE InAll(parts)

Solves(B, D) == D = [q \in Questions |-> Body(B, D, q)]

LEMMA SelectedSolves ==
    ASSUME \E D : Solves(seen, D)
    PROVE  Solves(seen, Selected)
  BY DEF Selected, Solves, Body, Meant, Told, Says, Ask

LEMMA BodyIs ==
    ASSUME NEW B, NEW D, NEW r, NEW k, NEW may, NEW e
    PROVE  e \in Body(B, D, [rules |-> r, at |-> k, may |-> may]) <=>
             IF r[k].groupOp = "Or"
             THEN \E i \in DOMAIN r[k].conditions :
                      e \in Meant(B, D, r, r[k].conditions[i], may)
             ELSE /\ e \in Elements
                  /\ \A i \in DOMAIN r[k].conditions :
                         e \in Meant(B, D, r, r[k].conditions[i], may)
  <1> DEFINE q == [rules |-> r, at |-> k, may |-> may]
             parts == {Meant(B, D, r, r[k].conditions[i], may) :
                           i \in DOMAIN r[k].conditions}
  <1>1. q.rules = r /\ q.at = k /\ q.may = may
    OBVIOUS
  <1>2. Body(B, D, q) = IF r[k].groupOp = "Or" THEN UNION parts ELSE InAll(parts)
    BY <1>1 DEF Body
  <1>3. e \in InAll(parts) <=>
            /\ e \in Elements
            /\ \A i \in DOMAIN r[k].conditions :
                   e \in Meant(B, D, r, r[k].conditions[i], may)
    BY DEF InAll
  <1>4. e \in UNION parts <=>
            \E i \in DOMAIN r[k].conditions :
                e \in Meant(B, D, r, r[k].conditions[i], may)
    OBVIOUS
  <1> HIDE DEF q, parts
  <1> QED  BY <1>2, <1>3, <1>4 DEF q

LEMMA QuestionType ==
    ASSUME NEW r \in AllRules, NEW k \in DOMAIN r, NEW may \in BOOLEAN
    PROVE  [rules |-> r, at |-> k, may |-> may] \in Questions
  BY RulesType DEF Questions

LEMMA SolutionIs ==
    ASSUME NEW B, NEW D, Solves(B, D),
           NEW r \in AllRules, NEW k \in DOMAIN r, NEW may \in BOOLEAN, NEW e
    PROVE  e \in Ask(D, r, k, may) <=>
             IF r[k].groupOp = "Or"
             THEN \E i \in DOMAIN r[k].conditions :
                      e \in Meant(B, D, r, r[k].conditions[i], may)
             ELSE /\ e \in Elements
                  /\ \A i \in DOMAIN r[k].conditions :
                         e \in Meant(B, D, r, r[k].conditions[i], may)
  <1> DEFINE q == [rules |-> r, at |-> k, may |-> may]
  <1>1. q \in Questions
    BY QuestionType
  <1>2. Ask(D, r, k, may) = D[q]
    BY DEF Ask
  <1>3. D[q] = Body(B, D, q)
    <2> HIDE DEF q
    <2> QED  BY <1>1 DEF Solves
  <1> QED  BY <1>2, <1>3, BodyIs

-----------------------------------------------------------------------------
(* The equation has a solution *)

\* An answer is below another if it lets rules select less and demands more.
Below(L, M) ==
    \A q \in Questions : IF q.may THEN L[q] \subseteq M[q] ELSE M[q] \subseteq L[q]

Answers == [Questions -> SUBSET Elements]

Image(B, D) == [q \in Questions |-> Body(B, D, q)]

LEMMA AskBelow ==
    ASSUME NEW L, NEW M, Below(L, M), NEW r \in AllRules, NEW k \in DOMAIN r
    PROVE  /\ Ask(L, r, k, TRUE) \subseteq Ask(M, r, k, TRUE)
           /\ Ask(M, r, k, FALSE) \subseteq Ask(L, r, k, FALSE)
  <1> DEFINE q == [rules |-> r, at |-> k, may |-> TRUE]
             p == [rules |-> r, at |-> k, may |-> FALSE]
  <1>1. q \in Questions /\ p \in Questions /\ q.may = TRUE /\ p.may = FALSE
    BY QuestionType
  <1>2. /\ Ask(L, r, k, TRUE) = L[q] /\ Ask(M, r, k, TRUE) = M[q]
        /\ Ask(L, r, k, FALSE) = L[p] /\ Ask(M, r, k, FALSE) = M[p]
    BY DEF Ask
  <1> HIDE DEF p, q
  <1> QED  BY <1>1, <1>2 DEF Below

LEMMA VersionsType ==
    ASSUME NEW B \in SUBSET DbObj, NEW id, NEW r \in Versions(B, id)
    PROVE  r \in AllRules /\ 1 \in DOMAIN r
  <1>1. PICK d \in B : id \in Ids(d) /\ r = ById(d, id).rules
    BY DEF Versions
  <1>2. ById(d, id) \in d.groups
    BY <1>1, ByIdIsStored
  <1>3. r \in AllRules
    BY <1>1, <1>2 DEF DbObj, Group, AllRules
  <1> QED  BY <1>3, RulesType

LEMMA ToldIs ==
    ASSUME NEW B, NEW D, NEW c, NEW e
    PROVE  /\ e \in Told(B, D, c, TRUE) <=>
                 \E r \in Versions(B, c.group) : e \in Says(D, c, r, TRUE)
           /\ e \in Told(B, D, c, FALSE) <=>
                 /\ e \in Elements
                 /\ \A r \in Versions(B, c.group) : e \in Says(D, c, r, FALSE)
  <1> DEFINE S(may) == {Says(D, c, r, may) : r \in Versions(B, c.group)}
  <1>1. Told(B, D, c, TRUE) = UNION S(TRUE)
    BY DEF Told
  <1>2. Told(B, D, c, FALSE) = InAll(S(FALSE))
    BY DEF Told
  <1>3. e \in InAll(S(FALSE)) <=> e \in Elements /\ \A s \in S(FALSE) : e \in s
    BY DEF InAll
  <1>4. (\A s \in S(FALSE) : e \in s)
            <=> \A r \in Versions(B, c.group) : e \in Says(D, c, r, FALSE)
    OBVIOUS
  <1>5. e \in UNION S(TRUE)
            <=> \E r \in Versions(B, c.group) : e \in Says(D, c, r, TRUE)
    OBVIOUS
  <1> QED  BY <1>1, <1>2, <1>3, <1>4, <1>5, Zenon

LEMMA ToldGrows ==
    ASSUME NEW B \in SUBSET DbObj, NEW L, NEW M, Below(L, M), NEW c
    PROVE  /\ Told(B, L, c, TRUE) \subseteq Told(B, M, c, TRUE)
           /\ Told(B, M, c, FALSE) \subseteq Told(B, L, c, FALSE)
  <1>1. ASSUME NEW r \in Versions(B, c.group)
        PROVE  /\ Says(L, c, r, TRUE) \subseteq Says(M, c, r, TRUE)
               /\ Says(M, c, r, FALSE) \subseteq Says(L, c, r, FALSE)
    <2>1. r \in AllRules /\ 1 \in DOMAIN r
      BY VersionsType
    <2>2. /\ Ask(L, r, 1, TRUE) \subseteq Ask(M, r, 1, TRUE)
          /\ Ask(M, r, 1, FALSE) \subseteq Ask(L, r, 1, FALSE)
      BY <2>1, AskBelow
    <2>3. (~TRUE) = FALSE /\ (~FALSE) = TRUE
      OBVIOUS
    <2> QED  BY <2>2, <2>3 DEF Says
  <1> QED  BY <1>1, ToldIs

LEMMA MeantGrows ==
    ASSUME NEW B \in SUBSET DbObj, NEW L, NEW M, Below(L, M),
           NEW r \in AllRules, NEW c, ~IsCondition(c) => c.inner \in DOMAIN r
    PROVE  /\ Meant(B, L, r, c, TRUE) \subseteq Meant(B, M, r, c, TRUE)
           /\ Meant(B, M, r, c, FALSE) \subseteq Meant(B, L, r, c, FALSE)
  <1>1. CASE ~IsCondition(c)
    BY <1>1, AskBelow DEF Meant
  <1>2. CASE IsCondition(c) /\ c.field = "Group"
    BY <1>2, ToldGrows DEF Meant
  <1>3. CASE IsCondition(c) /\ c.field # "Group"
    BY <1>3 DEF Meant
  <1> QED  BY <1>1, <1>2, <1>3

LEMMA QuestionIs ==
    ASSUME NEW q \in Questions
    PROVE  /\ q.rules \in AllRules /\ q.at \in DOMAIN q.rules /\ q.may \in BOOLEAN
           /\ q = [rules |-> q.rules, at |-> q.at, may |-> q.may]
  BY DEF Questions

LEMMA ImageGrows ==
    ASSUME NEW B \in SUBSET DbObj, NEW L, NEW M, Below(L, M)
    PROVE  Below(Image(B, L), Image(B, M))
  <1> SUFFICES ASSUME NEW q \in Questions
               PROVE  IF q.may THEN Body(B, L, q) \subseteq Body(B, M, q)
                               ELSE Body(B, M, q) \subseteq Body(B, L, q)
    BY DEF Below, Image
  <1> DEFINE r == q.rules
             k == q.at
             cs == r[k].conditions
  <1>1. r \in AllRules /\ k \in DOMAIN r /\ q.may \in BOOLEAN
        /\ q = [rules |-> r, at |-> k, may |-> q.may]
    BY QuestionIs
  <1>2. ASSUME NEW i \in DOMAIN cs
        PROVE  /\ Meant(B, L, r, cs[i], TRUE) \subseteq Meant(B, M, r, cs[i], TRUE)
               /\ Meant(B, M, r, cs[i], FALSE) \subseteq Meant(B, L, r, cs[i], FALSE)
    <2>1. ~IsCondition(cs[i]) => cs[i].inner \in DOMAIN r
      BY <1>1, RulesType
    <2> QED  BY <1>1, <2>1, MeantGrows
  <1>3. \A D, e : e \in Body(B, D, q) <=>
             IF r[k].groupOp = "Or"
             THEN \E i \in DOMAIN cs : e \in Meant(B, D, r, cs[i], q.may)
             ELSE /\ e \in Elements
                  /\ \A i \in DOMAIN cs : e \in Meant(B, D, r, cs[i], q.may)
    <2> SUFFICES ASSUME NEW D, NEW e
                 PROVE  e \in Body(B, D, [rules |-> r, at |-> k, may |-> q.may]) <=>
             IF r[k].groupOp = "Or"
             THEN \E i \in DOMAIN cs : e \in Meant(B, D, r, cs[i], q.may)
             ELSE /\ e \in Elements
                  /\ \A i \in DOMAIN cs : e \in Meant(B, D, r, cs[i], q.may)
      BY <1>1, Zenon
    <2> QED  BY BodyIs
  <1> HIDE DEF cs, r, k
  <1>4. CASE q.may = TRUE
    BY <1>2, <1>3, <1>4
  <1>5. CASE q.may = FALSE
    BY <1>2, <1>3, <1>5
  <1> QED  BY <1>1, <1>4, <1>5

LEMMA AskType ==
    ASSUME NEW D \in Answers, NEW r \in AllRules, NEW k \in DOMAIN r,
           NEW may \in BOOLEAN
    PROVE  Ask(D, r, k, may) \subseteq Elements
  <1> DEFINE q == [rules |-> r, at |-> k, may |-> may]
  <1>1. q \in Questions /\ Ask(D, r, k, may) = D[q]
    BY QuestionType DEF Ask
  <1> HIDE DEF q
  <1> QED  BY <1>1 DEF Answers

LEMMA MeantType ==
    ASSUME NEW B \in SUBSET DbObj, NEW D \in Answers, NEW r \in AllRules,
           NEW c, ~IsCondition(c) => c.inner \in DOMAIN r, NEW may \in BOOLEAN
    PROVE  Meant(B, D, r, c, may) \subseteq Elements
  <1>1. CASE ~IsCondition(c)
    BY <1>1, AskType DEF Meant
  <1>2. CASE IsCondition(c) /\ c.field = "Group"
    <2>1. ASSUME NEW s \in Versions(B, c.group)
          PROVE  Says(D, c, s, may) \subseteq Elements
      <3>1. s \in AllRules /\ 1 \in DOMAIN s
        BY VersionsType
      <3> QED  BY <3>1, AskType DEF Says
    <2>2. Told(B, D, c, may) \subseteq Elements
      BY <2>1 DEF Told, InAll
    <2> QED  BY <1>2, <2>2 DEF Meant
  <1>3. CASE IsCondition(c) /\ c.field # "Group"
    BY <1>3 DEF Meant
  <1> QED  BY <1>1, <1>2, <1>3

LEMMA ImageType ==
    ASSUME NEW B \in SUBSET DbObj, NEW D \in Answers
    PROVE  Image(B, D) \in Answers
  <1> SUFFICES ASSUME NEW q \in Questions
               PROVE  Body(B, D, q) \subseteq Elements
    BY DEF Image, Answers
  <1> DEFINE r == q.rules
             k == q.at
             cs == r[k].conditions
  <1>1. r \in AllRules /\ k \in DOMAIN r /\ q.may \in BOOLEAN
        /\ q = [rules |-> r, at |-> k, may |-> q.may]
    BY QuestionIs
  <1>2. ASSUME NEW i \in DOMAIN cs
        PROVE  Meant(B, D, r, cs[i], q.may) \subseteq Elements
    <2>1. ~IsCondition(cs[i]) => cs[i].inner \in DOMAIN r
      BY <1>1, RulesType
    <2> QED  BY <1>1, <2>1, MeantType
  <1>3. ASSUME NEW e
        PROVE  e \in Body(B, D, [rules |-> r, at |-> k, may |-> q.may]) <=>
             IF r[k].groupOp = "Or"
             THEN \E i \in DOMAIN cs : e \in Meant(B, D, r, cs[i], q.may)
             ELSE /\ e \in Elements
                  /\ \A i \in DOMAIN cs : e \in Meant(B, D, r, cs[i], q.may)
    BY BodyIs
  <1>4. ASSUME NEW e
        PROVE  e \in Body(B, D, q) => e \in Elements
    <2>1. e \in Body(B, D, [rules |-> r, at |-> k, may |-> q.may]) => e \in Elements
      <3> HIDE DEF r, k, cs
      <3> QED  BY <1>2, <1>3
    <2> QED  BY <1>1, <2>1, Zenon
  <1> QED  BY <1>4

\* The greatest of the answers that are below their image (Knaster and Tarski).
LEMMA SolutionExists ==
    ASSUME NEW B \in SUBSET DbObj
    PROVE  \E D : Solves(B, D)
  <1> DEFINE Post == {D \in Answers : Below(D, Image(B, D))}
             Z == [q \in Questions |->
                      {e \in Elements : IF q.may THEN \E D \in Post : e \in D[q]
                                                 ELSE \A D \in Post : e \in D[q]}]
             Y == Image(B, Z)
  <1>1. Z \in Answers
    BY DEF Answers
  <1>2. Y \in Answers
    <2> HIDE DEF Z
    <2> QED  BY <1>1, ImageType
  <1>3. ASSUME NEW D \in Post
        PROVE  Below(D, Z)
    <2>1. \A q \in Questions : D[q] \subseteq Elements
      BY DEF Answers
    <2>2. \A q \in Questions :
             Z[q] = {e \in Elements : IF q.may THEN \E E \in Post : e \in E[q]
                                               ELSE \A E \in Post : e \in E[q]}
      OBVIOUS
    <2> HIDE DEF Post, Z
    <2> QED  BY <2>1, <2>2 DEF Below
  <1>4. ASSUME NEW D \in Post
        PROVE  Below(D, Y)
    <2>1. Below(D, Image(B, D)) /\ Below(D, Z)
      BY <1>3
    <2>2. Below(Image(B, D), Y)
      <3> HIDE DEF Z
      <3> QED  BY <2>1, ImageGrows
    <2> HIDE DEF Z, Y
    <2> QED  BY <2>1, <2>2 DEF Below
  <1>5. Below(Z, Y)
    <2>1. \A q \in Questions :
             Z[q] = {e \in Elements : IF q.may THEN \E E \in Post : e \in E[q]
                                               ELSE \A E \in Post : e \in E[q]}
      OBVIOUS
    <2>2. \A q \in Questions : Y[q] \subseteq Elements
      <3> HIDE DEF Y
      <3> QED  BY <1>2 DEF Answers
    <2> HIDE DEF Post, Z, Y
    <2> QED  BY <1>4, <2>1, <2>2 DEF Below
  <1>6. Y \in Post
    <2>1. Below(Y, Image(B, Y))
      <3> HIDE DEF Z
      <3>1. Below(Image(B, Z), Image(B, Y))
        <4> HIDE DEF Y
        <4> QED  BY <1>5, ImageGrows
      <3> QED  BY <3>1
    <2> HIDE DEF Z, Y
    <2> QED  BY <1>2, <2>1
  <1>7. Below(Y, Z)
    <2> HIDE DEF Post, Z, Y
    <2> QED  BY <1>3, <1>6
  <1>8. Z = Y
    <2> HIDE DEF Post, Z, Y
    <2>1. \A q \in Questions : Z[q] = Y[q]
      BY <1>1, <1>2, <1>5, <1>7 DEF Below
    <2> QED  BY <1>1, <1>2, <2>1 DEF Answers
  <1>9. Solves(B, Z)
    <2> HIDE DEF Z
    <2> QED  BY <1>8 DEF Solves, Image
  <1> QED  BY <1>9

-----------------------------------------------------------------------------
(* What the calls have selected is what the rules mean *)

\* What the first n conditions of a call say of an element.
Joined(B, D, f, n, e, may) ==
    LET says(i) == e \in Meant(B, D, f.rules, Call(f).conditions[i], may)
    IN  IF Call(f).groupOp = "Or" THEN \E i \in 1 .. n : says(i)
                                  ELSE \A i \in 1 .. n : says(i)

\* What a call has selected so far.  One that has two conditions and no operator
\* ends in an error.
Part(B, D, f) ==
    LET n == f.next - 1
    IN  n > 0 /\ (n > 1 => Call(f).groupOp # "Unknown") =>
            \A e : /\ e \in f.ids => Joined(B, D, f, n, e, TRUE)
                   /\ Joined(B, D, f, n, e, FALSE) => e \in f.ids

\* Call f waits for call g.
Calls(B, f, g) ==
    LET c == Call(f).conditions[f.next]
    IN  IF IsCondition(c)
        THEN c.field = "Group" /\ g.rules \in Versions(B, c.group) /\ g.at = 1
        ELSE g.rules = f.rules /\ g.at = c.inner

\* The answer of a call or of the job, between what rules must and may select.
Between(D, r, k, ids) ==
    /\ ids \subseteq Ask(D, r, k, TRUE)
    /\ Ask(D, r, k, FALSE) \subseteq ids

Answered(D, r, ids) ==
    /\ ids \subseteq Ask(D, r, 1, TRUE)
    /\ {e \in Ask(D, r, 1, FALSE) : Asset[e].name # RackController} \subseteq ids

StackMeans(B, D, s, r) ==
    /\ \A i \in 1 .. Len(s) : Part(B, D, s[i])
    /\ \A i \in 2 .. Len(s) : Calls(B, s[i], s[i - 1])
    /\ Len(s) > 0 => s[Len(s)].rules = r /\ s[Len(s)].at = 1

Meaning(B, D) ==
    \E s, r, a :
        /\ s = stack /\ r = root /\ a = answer
        /\ StackMeans(B, D, s, r)
        /\ phase = "done" => Answered(D, r, a)

LEMMA MeaningIs ==
    ASSUME NEW B, NEW D
    PROVE  /\ Meaning(B, D) <=>
                 (/\ StackMeans(B, D, stack, root)
                  /\ phase = "done" => Answered(D, root, answer))
           /\ Meaning(B, D)' <=>
                 (/\ StackMeans(B, D, stack', root')
                  /\ phase' = "done" => Answered(D, root', answer'))
  BY DEF Meaning

LEMMA FreshMeans ==
    ASSUME NEW B, NEW D, NEW r \in AllRules, NEW k \in DOMAIN r
    PROVE  Part(B, D, Frame(r, k))
  BY FrameType DEF Part

LEMMA AdvanceMeans ==
    ASSUME NEW B, NEW D, NEW f \in Frames, f.next =< Len(Call(f).conditions),
           Part(B, D, f), NEW ids \in SUBSET Elements,
           NEW c, c = Call(f).conditions[f.next],
           f.next = 1 => Wanted(c, ids) = ids,
           Wanted(c, ids) \subseteq Meant(B, D, f.rules, c, TRUE),
           Meant(B, D, f.rules, c, FALSE) \subseteq Wanted(c, ids)
    PROVE  Part(B, D, Advance(f, ids))
  <1> DEFINE g == Advance(f, ids)
             n == f.next - 1
             op == Call(f).groupOp
             W == Wanted(c, ids)
  <1>1. /\ g.rules = f.rules /\ Call(g) = Call(f) /\ g.next = f.next + 1
        /\ g.ids = Combine(f, ids)
    BY AdvanceType DEF Call
  <1>2. n \in Nat /\ f.next = n + 1 /\ op \in {"And", "Or", "Unknown"}
        /\ (f.next = 1 <=> n = 0)
    BY FrameFacts
  <1>3. Combine(f, ids) = IF f.next = 1 THEN ids
                          ELSE IF op = "And" THEN f.ids \intersect W
                          ELSE f.ids \union W
    BY DEF Combine
  <1>4. ASSUME NEW e, NEW may
        PROVE  Joined(B, D, g, n + 1, e, may) <=>
                 LET new == e \in Meant(B, D, f.rules, c, may)
                 IN  IF n = 0 THEN new
                     ELSE IF op = "Or" THEN Joined(B, D, f, n, e, may) \/ new
                     ELSE Joined(B, D, f, n, e, may) /\ new
    <2> DEFINE says(i) == e \in Meant(B, D, f.rules, Call(f).conditions[i], may)
    <2>1. Joined(B, D, g, n + 1, e, may) <=>
            IF op = "Or" THEN \E i \in 1 .. n + 1 : says(i)
                         ELSE \A i \in 1 .. n + 1 : says(i)
      BY <1>1 DEF Joined
    <2>2. Joined(B, D, f, n, e, may) <=>
            IF op = "Or" THEN \E i \in 1 .. n : says(i) ELSE \A i \in 1 .. n : says(i)
      BY DEF Joined
    <2>3. says(n + 1) <=> e \in Meant(B, D, f.rules, c, may)
      BY <1>2
    <2> HIDE DEF says, op
    <2> QED  BY <1>2, <2>1, <2>2, <2>3
  <1>5. g.next - 1 = n + 1 /\ n + 1 > 0 /\ (n + 1 > 1 <=> n # 0)
    BY <1>1, <1>2
  <1>6. SUFFICES ASSUME n # 0 => op # "Unknown", NEW e
                 PROVE  /\ e \in g.ids => Joined(B, D, g, n + 1, e, TRUE)
                        /\ Joined(B, D, g, n + 1, e, FALSE) => e \in g.ids
    <2> HIDE DEF g
    <2> QED  BY <1>1, <1>5 DEF Part, g
  <1>7. W \subseteq Meant(B, D, f.rules, c, TRUE)
        /\ Meant(B, D, f.rules, c, FALSE) \subseteq W /\ (n = 0 => W = ids)
    BY <1>2
  <1>8. n # 0 => /\ e \in f.ids => Joined(B, D, f, n, e, TRUE)
                 /\ Joined(B, D, f, n, e, FALSE) => e \in f.ids
    <2>1. n > 0 /\ (n > 1 => op # "Unknown") =>
            /\ e \in f.ids => Joined(B, D, f, n, e, TRUE)
            /\ Joined(B, D, f, n, e, FALSE) => e \in f.ids
      BY DEF Part
    <2>2. n # 0 => n > 0 /\ (n > 1 => op # "Unknown")
      BY <1>2, <1>6
    <2> HIDE DEF n, op
    <2> QED  BY <2>1, <2>2
  <1>9. Combine(f, ids) = IF n = 0 THEN ids
                          ELSE IF op = "And" THEN f.ids \intersect W
                          ELSE f.ids \union W
    BY <1>2, <1>3
  <1> HIDE DEF g, op, W, n
  <1> QED  BY <1>1, <1>2, <1>4, <1>6, <1>7, <1>8, <1>9

LEMMA WholeMeans ==
    ASSUME NEW B, NEW D, Solves(B, D), NEW f \in Frames, Part(B, D, f),
           f.next > Len(Call(f).conditions), ~Senseless(Call(f))
    PROVE  Between(D, f.rules, f.at, f.ids)
  <1> DEFINE n == f.next - 1
             r == f.rules
             cs == r[f.at].conditions
             op == r[f.at].groupOp
  <1>1. /\ n = Len(cs) /\ n \in Nat /\ n > 0 /\ (n > 1 => op # "Unknown")
        /\ DOMAIN cs = 1 .. n /\ r \in AllRules /\ f.at \in DOMAIN r
        /\ f.ids \subseteq Elements
    <2>1. /\ r \in AllRules /\ f.at \in DOMAIN r /\ f.ids \subseteq Elements
          /\ f.next \in Nat /\ f.next =< Len(cs) + 1 /\ Len(cs) \in Nat
          /\ DOMAIN cs = 1 .. Len(cs) /\ f.next > Len(cs)
      BY FrameFacts DEF Call
    <2>2. Len(cs) # 0 /\ (Len(cs) > 1 => op # "Unknown")
      <3>1. ~(Len(cs) = 0 \/ (Len(cs) > 1 /\ op = "Unknown"))
        BY DEF Call, Senseless
      <3> HIDE DEF cs, op
      <3> QED  BY <3>1
    <2>3. n = Len(cs)
      <3> HIDE DEF cs
      <3> QED  BY <2>1
    <2> HIDE DEF n, cs, op, r
    <2> QED  BY <2>1, <2>2, <2>3
  <1>2. \A e : /\ e \in f.ids => Joined(B, D, f, n, e, TRUE)
               /\ Joined(B, D, f, n, e, FALSE) => e \in f.ids
    BY <1>1 DEF Part, Call
  <1>3. ASSUME NEW e, NEW may \in BOOLEAN
        PROVE  e \in Ask(D, r, f.at, may) => Joined(B, D, f, n, e, may)
    <2>1. e \in Ask(D, r, f.at, may) =>
             IF op = "Or"
             THEN \E i \in 1 .. n : e \in Meant(B, D, r, cs[i], may)
             ELSE \A i \in 1 .. n : e \in Meant(B, D, r, cs[i], may)
      BY <1>1, SolutionIs
    <2> QED  BY <2>1 DEF Joined, Call
  <1>4. ASSUME NEW e \in Elements, NEW may \in BOOLEAN, Joined(B, D, f, n, e, may)
        PROVE  e \in Ask(D, r, f.at, may)
    <2>1. IF op = "Or"
          THEN \E i \in 1 .. n : e \in Meant(B, D, r, cs[i], may)
          ELSE \A i \in 1 .. n : e \in Meant(B, D, r, cs[i], may)
      BY <1>4 DEF Joined, Call
    <2> QED  BY <1>1, <2>1, SolutionIs
  <1> HIDE DEF n, r, cs, op
  <1>5. f.ids \subseteq Ask(D, r, f.at, TRUE)
    BY <1>1, <1>2, <1>4
  <1>6. Ask(D, r, f.at, FALSE) \subseteq f.ids
    BY <1>2, <1>3
  <1> QED  BY <1>5, <1>6 DEF Between, r

\* What a call is given back by the call it waited for.
LEMMA GivenBack ==
    ASSUME NEW B, NEW D, NEW f \in Frames, NEW g, Calls(B, f, g),
           Between(D, g.rules, g.at, g.ids), g.ids \subseteq Elements,
           NEW c, c = Call(f).conditions[f.next]
    PROVE  /\ Wanted(c, g.ids) \subseteq Meant(B, D, f.rules, c, TRUE)
           /\ Meant(B, D, f.rules, c, FALSE) \subseteq Wanted(c, g.ids)
  <1>1. CASE ~IsCondition(c)
    BY <1>1 DEF Calls, Between, Meant, Wanted
  <1>2. CASE IsCondition(c)
    <2>1. c.field = "Group" /\ g.rules \in Versions(B, c.group) /\ g.at = 1
      BY <1>2 DEF Calls
    <2>2. /\ Meant(B, D, f.rules, c, TRUE) = Told(B, D, c, TRUE)
          /\ Meant(B, D, f.rules, c, FALSE) = Told(B, D, c, FALSE)
      BY <1>2, <2>1 DEF Meant
    <2>3. /\ Says(D, c, g.rules, TRUE) \subseteq Told(B, D, c, TRUE)
          /\ Told(B, D, c, FALSE) \subseteq Says(D, c, g.rules, FALSE)
      BY <2>1, ToldIs
    <2>4. (~TRUE) = FALSE /\ (~FALSE) = TRUE
      OBVIOUS
    <2>5. /\ Wanted(c, g.ids) \subseteq Says(D, c, g.rules, TRUE)
          /\ Says(D, c, g.rules, FALSE) \subseteq Wanted(c, g.ids)
      BY <1>2, <2>1, <2>4 DEF Wanted, Says, Between
    <2> QED  BY <2>2, <2>3, <2>5
  <1> QED  BY <1>1, <1>2

LEMMA PushedMeans ==
    ASSUME NEW B, NEW D, NEW r, NEW s \in Seq(Frames), Len(s) > 0,
           NEW t \in Seq(Frames), NEW f, Pushed(s, t, f),
           StackMeans(B, D, s, r), Part(B, D, f), Calls(B, s[1], f)
    PROVE  StackMeans(B, D, t, r)
  <1>1. /\ Len(s) \in Nat /\ Len(t) = Len(s) + 1 /\ t[1] = f
        /\ \A i \in 1 .. Len(s) : t[i + 1] = s[i]
    BY DEF Pushed
  <1>2. \A i \in 2 .. Len(t) : t[i] = s[i - 1] /\ i - 1 \in 1 .. Len(s)
    <2>1. \A n \in Nat : \A k \in 2 .. n + 1 : k - 1 \in 1 .. n /\ k = (k - 1) + 1
      OBVIOUS
    <2> QED  BY <1>1, <2>1
  <1>3. ASSUME NEW i \in 1 .. Len(t)
        PROVE  Part(B, D, t[i])
    <2>1. CASE i = 1
      BY <1>1, <2>1
    <2>2. CASE i # 1
      <3>1. i \in 2 .. Len(t)
        BY <1>1, <2>2
      <3> QED  BY <1>2, <3>1 DEF StackMeans
    <2> QED  BY <2>1, <2>2
  <1>4. ASSUME NEW i \in 2 .. Len(t)
        PROVE  Calls(B, t[i], t[i - 1])
    <2>1. CASE i = 2
      BY <1>1, <1>2, <2>1
    <2>2. CASE i # 2
      <3>1. i - 1 \in 2 .. Len(s) /\ i - 1 \in 2 .. Len(t)
        BY <1>1, <2>2
      <3>2. t[i] = s[i - 1] /\ t[i - 1] = s[(i - 1) - 1]
        BY <1>2, <3>1
      <3>3. Calls(B, s[i - 1], s[(i - 1) - 1])
        BY <3>1 DEF StackMeans
      <3> QED  BY <3>2, <3>3
    <2> QED  BY <2>1, <2>2
  <1>5. t[Len(t)] = s[Len(s)]
    BY <1>1
  <1> QED  BY <1>1, <1>3, <1>4, <1>5 DEF StackMeans

LEMMA SameCaller ==
    ASSUME NEW B, NEW h, NEW f, NEW g, f.rules = g.rules, f.at = g.at
    PROVE  Calls(B, h, f) <=> Calls(B, h, g)
  BY DEF Calls

LEMMA ReplacedMeans ==
    ASSUME NEW B, NEW D, NEW r, NEW s \in Seq(Frames), Len(s) > 0,
           NEW t \in Seq(Frames), NEW f, Replaced(s, t, f),
           StackMeans(B, D, s, r), Part(B, D, f),
           f.rules = s[1].rules, f.at = s[1].at
    PROVE  StackMeans(B, D, t, r)
  <1>1. /\ Len(s) \in Nat /\ Len(t) = Len(s) /\ t[1] = f
        /\ \A i \in 2 .. Len(s) : t[i] = s[i]
    BY DEF Replaced
  <1>2. \A i \in 1 .. Len(t) : t[i].rules = s[i].rules /\ t[i].at = s[i].at
    BY <1>1
  <1>3. \A i \in 1 .. Len(t) : Part(B, D, t[i])
    BY <1>1 DEF StackMeans
  <1>4. ASSUME NEW i \in 2 .. Len(t)
        PROVE  Calls(B, t[i], t[i - 1])
    <2>1. i - 1 \in 1 .. Len(t) /\ t[i] = s[i]
      BY <1>1
    <2>2. Calls(B, s[i], s[i - 1])
      BY <1>1 DEF StackMeans
    <2> QED  BY <1>2, <2>1, <2>2, SameCaller
  <1>5. Len(t) \in 1 .. Len(t)
    BY <1>1
  <1> QED  BY <1>1, <1>2, <1>3, <1>4, <1>5 DEF StackMeans

LEMMA PoppedMeans ==
    ASSUME NEW B, NEW D, NEW r, NEW s \in Seq(Frames), Len(s) > 1,
           NEW t \in Seq(Frames), NEW f, Popped(s, t, f),
           StackMeans(B, D, s, r), Part(B, D, f),
           f.rules = s[2].rules, f.at = s[2].at
    PROVE  StackMeans(B, D, t, r)
  <1>1. /\ Len(s) \in Nat /\ Len(t) = Len(s) - 1 /\ t[1] = f
        /\ \A i \in 2 .. Len(t) : t[i] = s[i + 1]
    BY DEF Popped
  <1>2. \A i \in 1 .. Len(t) : t[i].rules = s[i + 1].rules /\ t[i].at = s[i + 1].at
    BY <1>1
  <1>3. ASSUME NEW i \in 1 .. Len(t)
        PROVE  Part(B, D, t[i])
    <2>1. CASE i = 1
      BY <1>1, <2>1
    <2>2. CASE i # 1
      <3>1. i \in 2 .. Len(t) /\ i + 1 \in 1 .. Len(s)
        BY <1>1, <2>2
      <3> QED  BY <1>1, <3>1 DEF StackMeans
    <2> QED  BY <2>1, <2>2
  <1>4. ASSUME NEW i \in 2 .. Len(t)
        PROVE  Calls(B, t[i], t[i - 1])
    <2>1. /\ i - 1 \in 1 .. Len(t) /\ i + 1 \in 2 .. Len(s)
          /\ (i - 1) + 1 = i /\ (i + 1) - 1 = i /\ t[i] = s[i + 1]
      BY <1>1
    <2>2. Calls(B, s[i + 1], s[i])
      BY <2>1 DEF StackMeans
    <2>3. t[i - 1].rules = s[i].rules /\ t[i - 1].at = s[i].at
      BY <1>2, <2>1
    <2> QED  BY <2>1, <2>2, <2>3, SameCaller
  <1>5. Len(t) \in 1 .. Len(t) /\ Len(t) + 1 = Len(s)
    BY <1>1
  <1> QED  BY <1>1, <1>2, <1>3, <1>4, <1>5 DEF StackMeans

\* Nobody asks what the SQL does not mean.  The code does not refuse such rules:
\* these theorems say nothing of them.
AllPlain == \A r \in AllRules : PlainlyAsked(r)

LEMMA PlainCondition ==
    ASSUME AllPlain, NEW f \in Frames, f.next =< Len(Call(f).conditions),
           NEW c, c = Call(f).conditions[f.next]
    PROVE  /\ \A ids : f.next = 1 => Wanted(c, ids) = ids
           /\ IsCondition(c) /\ c.field \in Fields /\ c.op \in Ops =>
                 Q!Select(c) = {e \in Elements : Holds(e, c)}
  <1>1. /\ f.rules \in AllRules /\ f.at \in DOMAIN f.rules
        /\ f.next \in DOMAIN f.rules[f.at].conditions
        /\ c = f.rules[f.at].conditions[f.next]
    BY FrameFacts DEF Call
  <1>2. IsCondition(c) =>
            /\ c.field = "Group" /\ c.op = "IsNot" => f.next # 1
            /\ c.field = "Location" => /\ c.op # "DoesNotContain"
                                       /\ c.op = "IsNot" => Located(c)
    BY <1>1 DEF AllPlain, PlainlyAsked
  <1> QED  BY <1>2, QueriesMean DEF Wanted

\* Whatever databases, those seen among them, the links are taken to show, while
\* nothing is wrong with the SQL.
MeaningInv ==
    /\ ResolveInv
    /\ \A B, D : flaws = {} /\ seen \subseteq B /\ Solves(B, D) => Meaning(B, D)

LEMMA FlawsStay ==
    ASSUME Step
    PROVE  flaws \subseteq flaws'
  BY DEF Step, StartStep, EvaluateStep, NestStep, LinkStep, ReturnStep, GoesOn,
         Blamed, DoneStep, FailStep, RefuseStep, OddStep, Throws, Ends, ChangeStep,
         vars

LEMMA EndsMeaning ==
    ASSUME NEW B, NEW D, stack' = <<>>, phase' = "done" => Answered(D, root', answer')
    PROVE  Meaning(B, D)'
  <1>1. Len(stack') = 0
    OBVIOUS
  <1>2. StackMeans(B, D, stack', root')
    BY <1>1 DEF StackMeans
  <1> QED  BY <1>2, MeaningIs

LEMMA StepKeepsMeaning ==
    ASSUME AllPlain, ResolveInv, ResolveInv', Step,
           NEW B, NEW D, flaws' = {}, seen' \subseteq B, Solves(B, D),
           seen \subseteq B => Meaning(B, D)
    PROVE  Meaning(B, D)'
  <1>1. stack \in Seq(Frames) /\ stack' \in Seq(Frames) /\ Len(stack) \in Nat
    BY DEF ResolveInv
  <1>2. ASSUME phase = "resolving", seen' = seen
        PROVE  /\ StackMeans(B, D, stack, root) /\ Loaded \in B
               /\ Len(stack) > 0 /\ stack[1] \in Frames
               /\ Part(B, D, stack[1]) /\ stack[1].ids \subseteq Elements
    <2>1. Meaning(B, D) /\ Loaded \in B
      BY <1>2 DEF ResolveInv
    <2>2. StackMeans(B, D, stack, root)
      BY <2>1, MeaningIs
    <2>3. Len(stack) > 0 /\ stack[1] \in Frames
      BY <1>2, InnermostCall
    <2> QED  BY <1>1, <2>1, <2>2, <2>3, FrameFacts DEF StackMeans
  <1>3. ASSUME GoesOn, StackMeans(B, D, stack', root)
        PROVE  Meaning(B, D)'
    <2>1. phase' # "done" /\ root' = root
      BY <1>3 DEF GoesOn
    <2>2. StackMeans(B, D, stack', root')
      BY <1>3, <2>1
    <2> QED  BY <2>1, <2>2, MeaningIs
  <1>4. CASE StartStep
    <2> DEFINE f == Frame(root', 1)
    <2>1. root' \in AllRules /\ stack' = <<f>> /\ phase' = "resolving"
      BY <1>4 DEF StartStep
    <2>2. f.rules = root' /\ f.at = 1
      BY <2>1, RulesType, FrameType
    <2>3. Part(B, D, f)
      BY <2>1, RulesType, FreshMeans
    <2> HIDE DEF f
    <2>4. Len(stack') = 1 /\ stack'[1] = f
      BY <2>1
    <2>5. StackMeans(B, D, stack', root')
      BY <2>2, <2>3, <2>4 DEF StackMeans
    <2> QED  BY <2>1, <2>5, MeaningIs
  <1>5. CASE EvaluateStep
    <2> DEFINE ids == Q!Select(Current)
               f == Advance(stack[1], ids)
    <2>1. AtCondition /\ GoesOn /\ Replaced(stack, stack', f)
          /\ IsCondition(Current)
          /\ Current.field \in Fields /\ Current.op \in Ops
      BY <1>5 DEF EvaluateStep
    <2>2. phase = "resolving" /\ seen' = seen
      BY <2>1 DEF GoesOn
    <2>3. /\ stack[1] \in Frames /\ stack[1].next =< Len(Call(stack[1]).conditions)
          /\ Current = Call(stack[1]).conditions[stack[1].next]
      BY <1>2, <2>1, <2>2, CurrentType
    <2>4. Current.field # "Group" /\ IsCondition(Current)
      BY <2>1 DEF Fields
    <2>5. ids = {e \in Elements : Holds(e, Current)}
      BY <2>1, <2>3, <2>4, PlainCondition
    <2>6. /\ Wanted(Current, ids) = ids
          /\ Meant(B, D, stack[1].rules, Current, TRUE) = ids
          /\ Meant(B, D, stack[1].rules, Current, FALSE) = ids
      BY <2>4, <2>5 DEF Wanted, Meant
    <2>7. ids \in SUBSET Elements
      BY <2>5
    <2> HIDE DEF ids
    <2>8. Part(B, D, f) /\ f.rules = stack[1].rules /\ f.at = stack[1].at
      <3> DEFINE g == stack[1]
                 c == Current
      <3>1. /\ g \in Frames /\ g.next =< Len(Call(g).conditions) /\ Part(B, D, g)
            /\ c = Call(g).conditions[g.next]
        BY <1>2, <2>2, <2>3
      <3>2. Wanted(c, ids) = ids /\ Meant(B, D, g.rules, c, TRUE) = ids
            /\ Meant(B, D, g.rules, c, FALSE) = ids
        BY <2>6
      <3> HIDE DEF g, c
      <3>3. /\ Wanted(c, ids) \subseteq Meant(B, D, g.rules, c, TRUE)
            /\ Meant(B, D, g.rules, c, FALSE) \subseteq Wanted(c, ids)
        BY <3>2
      <3>4. Part(B, D, Advance(g, ids))
        BY <2>7, <3>1, <3>2, <3>3, AdvanceMeans
      <3>5. Advance(g, ids).rules = g.rules /\ Advance(g, ids).at = g.at
        BY <2>7, <3>1, AdvanceType
      <3> QED  BY <3>4, <3>5 DEF g
    <2> HIDE DEF f
    <2>9. StackMeans(B, D, stack', root)
      BY <1>1, <1>2, <2>1, <2>2, <2>8, ReplacedMeans
    <2> QED  BY <1>3, <2>1, <2>9
  <1>6. CASE NestStep
    <2> DEFINE f == Frame(stack[1].rules, Current.inner)
    <2>1. AtCondition /\ ~IsCondition(Current) /\ GoesOn /\ Pushed(stack, stack', f)
      BY <1>6 DEF NestStep
    <2>2. phase = "resolving" /\ seen' = seen
      BY <2>1 DEF GoesOn
    <2>3. /\ stack[1] \in Frames /\ Current.inner \in DOMAIN stack[1].rules
          /\ Current = Call(stack[1]).conditions[stack[1].next]
      BY <1>2, <2>1, <2>2, CurrentType
    <2>4. stack[1].rules \in AllRules
      BY <2>3, FrameFacts
    <2>5. Part(B, D, f) /\ f.rules = stack[1].rules /\ f.at = Current.inner
      BY <2>3, <2>4, FrameType, FreshMeans
    <2> HIDE DEF f
    <2>6. Calls(B, stack[1], f)
      BY <2>1, <2>3, <2>5 DEF Calls
    <2>7. StackMeans(B, D, stack', root)
      BY <1>1, <1>2, <2>1, <2>2, <2>5, <2>6, PushedMeans
    <2> QED  BY <1>3, <2>1, <2>7
  <1>7. CASE LinkStep
    <2> DEFINE r == ById(Loaded, Current.group).rules
               f == Frame(r, 1)
    <2>1. AtLink /\ Current.group \in Ids(Loaded) /\ GoesOn /\ Pushed(stack, stack', f)
      BY <1>7 DEF LinkStep
    <2>2. phase = "resolving" /\ seen' = seen
      BY <2>1 DEF GoesOn
    <2>3. /\ AtCondition /\ IsCondition(Current) /\ Current.field = "Group"
          /\ stack[1] \in Frames
          /\ Current = Call(stack[1]).conditions[stack[1].next]
      BY <1>2, <2>1, <2>2, CurrentType DEF AtLink
    <2>4. r \in AllRules
      BY <2>1, LoadedChecked, ByIdIsStored
      DEF ResolveInv, Checked, DbObj, Group, AllRules
    <2>5. Part(B, D, f) /\ f.rules = r /\ f.at = 1
      BY <2>4, RulesType, FrameType, FreshMeans
    <2>6. r \in Versions(B, Current.group)
      BY <1>2, <2>1, <2>2 DEF Versions
    <2> HIDE DEF f, r
    <2>7. Calls(B, stack[1], f)
      BY <2>3, <2>5, <2>6 DEF Calls
    <2>8. StackMeans(B, D, stack', root)
      BY <1>1, <1>2, <2>1, <2>2, <2>5, <2>7, PushedMeans
    <2> QED  BY <1>3, <2>1, <2>8
  <1>8. CASE ReturnStep
    <2> DEFINE g == stack[1]
               f == stack[2]
               c == Call(f).conditions[f.next]
               h == Advance(f, g.ids)
    <2>1. /\ GoesOn /\ Len(stack) > 1 /\ g.next > Len(Call(g).conditions)
          /\ Popped(stack, stack', h)
      BY <1>8 DEF ReturnStep
    <2>2. phase = "resolving" /\ seen' = seen
      BY <2>1 DEF GoesOn
    <2>3. /\ f \in Frames /\ f.next =< Len(Call(f).conditions)
          /\ Part(B, D, f) /\ Calls(B, f, g)
      BY <1>1, <1>2, <2>1, <2>2 DEF StackMeans, ResolveInv
    <2>4. g \in Frames /\ Part(B, D, g) /\ g.ids \subseteq Elements
      BY <1>2, <2>2
    <2>5. ~Senseless(Call(g))
      BY <1>8 DEF ReturnStep
    <2> HIDE DEF f, g
    <2>6. Between(D, g.rules, g.at, g.ids)
      BY <2>1, <2>4, <2>5, WholeMeans
    <2>7. /\ Wanted(c, g.ids) \subseteq Meant(B, D, f.rules, c, TRUE)
          /\ Meant(B, D, f.rules, c, FALSE) \subseteq Wanted(c, g.ids)
          /\ f.next = 1 => Wanted(c, g.ids) = g.ids
      BY <2>3, <2>4, <2>6, GivenBack, PlainCondition
    <2>8. Part(B, D, h) /\ h.rules = f.rules /\ h.at = f.at
      BY <2>3, <2>4, <2>7, AdvanceMeans, AdvanceType
    <2> HIDE DEF h
    <2>9. StackMeans(B, D, stack', root)
      BY <1>1, <1>2, <2>1, <2>2, <2>8, PoppedMeans DEF f
    <2> QED  BY <1>3, <2>1, <2>9
  <1>9. CASE DoneStep
    <2> DEFINE f == stack[1]
    <2>1. /\ phase = "resolving" /\ seen' = seen /\ root' = root /\ stack' = <<>>
          /\ Len(stack) = 1 /\ f.next > Len(Call(f).conditions)
          /\ ~Senseless(Call(f))
          /\ answer' = {e \in f.ids : Asset[e].name # RackController}
      BY <1>9 DEF DoneStep
    <2>2. f \in Frames /\ Part(B, D, f) /\ f.rules = root /\ f.at = 1
      BY <1>2, <2>1 DEF StackMeans
    <2> HIDE DEF f
    <2>3. Between(D, root', 1, f.ids)
      BY <2>1, <2>2, WholeMeans
    <2>4. Answered(D, root', answer')
      BY <2>1, <2>3 DEF Between, Answered
    <2> QED  BY <2>1, <2>4, EndsMeaning
  <1>10. CASE FailStep \/ RefuseStep \/ OddStep
    <2>1. stack' = <<>> /\ phase' # "done"
      BY <1>10 DEF FailStep, RefuseStep, OddStep, Throws, Ends
    <2> QED  BY <2>1, EndsMeaning
  <1>11. CASE ChangeStep \/ UNCHANGED vars
    <2>1. UNCHANGED <<stack, root, answer, phase>> /\ seen \subseteq seen'
      BY <1>11 DEF ChangeStep, vars
    <2>2. Meaning(B, D)
      BY <2>1
    <2> QED  BY <2>1, <2>2, MeaningIs
  <1> QED
    BY <1>4, <1>5, <1>6, <1>7, <1>8, <1>9, <1>10, <1>11 DEF Step

LEMMA InitMeaning == Init => MeaningInv
  <1> SUFFICES ASSUME Init, NEW B, NEW D PROVE Meaning(B, D)
    BY InitTypes DEF MeaningInv
  <1>1. Len(stack) = 0 /\ phase # "done"
    BY DEF Init
  <1>2. StackMeans(B, D, stack, root)
    BY <1>1 DEF StackMeans
  <1> QED  BY <1>1, <1>2, MeaningIs

LEMMA StepsKeepMeaning ==
    ASSUME AllPlain
    PROVE  MeaningInv /\ [Next]_vars => MeaningInv'
  <1> SUFFICES ASSUME MeaningInv, [Next]_vars PROVE MeaningInv'
    OBVIOUS
  <1>1. ResolveInv /\ Step /\ ResolveInv'
    BY Steps, StepKeepsTypes DEF MeaningInv
  <1>2. ASSUME NEW B, NEW D, flaws' = {}, seen' \subseteq B, Solves(B, D)
        PROVE  Meaning(B, D)'
    <2>1. seen \subseteq B => Meaning(B, D)
      BY <1>1, <1>2, FlawsStay DEF MeaningInv
    <2> QED  BY <1>1, <1>2, <2>1, StepKeepsMeaning
  <1>3. ASSUME NEW B, NEW D PROVE Solves(B, D)' => Solves(B, D)
    OBVIOUS
  <1> QED  BY <1>1, <1>2, <1>3 DEF MeaningInv

\* When the job replies, the answer lies between what the rules must and what
\* they may select, for any asset database, however deep the rules and the links
\* are and however often other jobs change the groups on the way; the rules are
\* those whose SQL means what they say, with values the job can take, and whose
\* links are in no circle.
THEOREM AnswersAreMeanings ==
    ASSUME AllPlain
    PROVE  Spec => []AnswerIsMeaning
  <1>1. MeaningInv /\ CheckInv => AnswerIsMeaning
    <2> SUFFICES ASSUME MeaningInv, CheckInv, phase = "done",
                        \A r \in Met : PlainValues(r)
                 PROVE  LET asked(may) == Selected[[rules |-> root, at |-> 1, may |-> may]]
                        IN  /\ answer \subseteq asked(TRUE)
                            /\ {e \in asked(FALSE) : Asset[e].name # RackController}
                                  \subseteq answer
      BY DEF AnswerIsMeaning
    <2>1. seen \in SUBSET DbObj
      BY DEF MeaningInv, ResolveInv
    <2>2. \E D : Solves(seen, D)
      BY <2>1, SolutionExists
    <2>3. Solves(seen, Selected)
      BY <2>2, SelectedSolves
    <2>4. flaws = {}
      BY DEF CheckInv, OddMet
    <2>6. Meaning(seen, Selected)
      BY <2>3, <2>4 DEF MeaningInv
    <2>5. Answered(Selected, root, answer)
      BY <2>6, MeaningIs
    <2> QED  BY <2>5 DEF Answered, Ask
  <1> QED  BY <1>1, InitMeaning, StepsKeepMeaning, CheckInvHolds, PTL DEF Spec
=============
