------------------------------ MODULE Resolve ------------------------------
(***************************************************************************)
(* The job that computes which assets are in a group: fty::job::Resolve    *)
(* (server/src/lib/jobs/resolve.cpp), one run of it, beside the jobs that  *)
(* change the groups.                                                      *)
(*                                                                         *)
(* groupSql() walks the rules depth first and builds one SQL text; a       *)
(* condition on a group is replaced by the rules that group has when the   *)
(* walk gets there.  The job takes no lock: it reads one group at a time   *)
(* by Storage::byId, and other jobs may save and remove groups between two *)
(* of these calls.  The walk is modelled by the stack of the recursive     *)
(* calls, and the SQL built so far by the elements it selects, or by what  *)
(* is wrong with it, which shows when it is executed: the asset database   *)
(* does not change while the job runs.                                     *)
(***************************************************************************)
EXTENDS Storage, Sequences

CONSTANTS
    Elements, Asset, Links,  \* the asset database, see AssetQueries
    RackController,          \* the name 'rackcontroller-0'
    Inputs,                  \* what a client may ask: a group id or rules
    GroupChanges,            \* the groups other jobs may save
    NoNumber,                \* the value of a link that is no number
    Quote,                   \* a word with a quote in it
    MaxChanges,              \* bound: how many changes other jobs make
    MaxDepth                 \* bound: the calls there is stack for

Q == INSTANCE AssetQueries

VARIABLES
    phase,    \* "idle", "resolving", or how it ended: "done", "error" (the
              \* reply), "escaped" (no reply), "overflown" (the agent died)
    cause,    \* what was thrown about: the "rules", a "value", a "group", the
              \* "database"
    stack,    \* the calls of groupSql, innermost first
    flaws,    \* what is wrong with the SQL so far: its "rules", a "value"
    root,     \* the rules that are resolved
    answer,   \* the elements in the reply
    seen,     \* history: the databases of groups since the job began
    changes   \* history: the changes other jobs have made

vars == <<storageVars, phase, cause, stack, flaws, root, answer, seen, changes>>

\* The rules of a request that brings none.
NoRules == <<[groupOp |-> "Unknown", conditions |-> <<>>]>>

\* All rules the job may meet, and what their conditions may say.
AllRules == Rules \union {in.rules : in \in {i \in Inputs : "rules" \in DOMAIN i}}
Fields == {"Contact", "HostName", "IPAddress", "Location", "Name", "Type",
           "SubType", "InternalName", "HostedBy", "Tag"}
Ops == {"Is", "IsNot", "Contains", "DoesNotContain"}

IsTuple(s) == s \in Seq({s[i] : i \in DOMAIN s})

Init ==
    /\ StorageInit
    /\ phase = "idle"
    /\ cause = "none"
    /\ stack = <<>>
    /\ flaws = {}
    /\ root = NoRules
    /\ answer = {}
    /\ seen = {}
    /\ changes = 0

-----------------------------------------------------------------------------
(* Rules are a table of [groupOp, conditions], the outermost ones first.  A  *)
(* condition is [field, op, value], or [field |-> "Group", op, group] with   *)
(* the number its value is read as, if it is one, or [field |-> "Rules",     *)
(* inner], the place of rules in the table.                                  *)

IsCondition(c) == c.field # "Rules"

\* A call of groupSql for the rules at a place of the table.
Frame(r, k) == [rules |-> r, at |-> k, next |-> 1, ids |-> {}]
Call(f) == f.rules[f.at]

\* What the conversions make of a payload: a tree of rules whose fields and
\* operators are those of the enumerations, and their Unknown.
IsRules(r) ==
    /\ IsTuple(r) /\ r # <<>>
    /\ \A k \in DOMAIN r :
          /\ r[k].groupOp \in {"And", "Or", "Unknown"}
          /\ IsTuple(r[k].conditions)
          /\ \A i \in DOMAIN r[k].conditions :
                LET c == r[k].conditions[i]
                IN  IF IsCondition(c)
                    THEN /\ c.field \in Fields \union {"Group", "Unknown"}
                         /\ c.op \in Ops \union {"Unknown"}
                         /\ c.field = "Group" => c.group \in Nat \union {NoNumber}
                    ELSE c.inner \in DOMAIN r /\ c.inner > k
    /\ \A k \in DOMAIN r \ {1} :
          \E j \in DOMAIN r : \E i \in DOMAIN r[j].conditions :
              r[j].conditions[i] = [field |-> "Rules", inner |-> k]

ASSUME RulesAssumption ==
    /\ \A r \in AllRules : IsRules(r)
    /\ GroupChanges \subseteq Group
    /\ NoNumber \notin Nat
    /\ MaxChanges \in Nat
    /\ MaxDepth \in Nat \ {0}

ASSUME AssetAssumption == \A l \in Links : {l.src, l.dest} \subseteq Elements

\* SubQuery::op: whether the elements of the subquery are wanted or not.
Wanted(c, ids) ==
    IF IsCondition(c) /\ c.field = "Group" /\ c.op = "IsNot"
    THEN Elements \ ids ELSE ids

\* The implode lambda: ... AND id_asset_element IN (...), left to right; what
\* precedes the first subquery is always IN.
Combine(f, ids) ==
    LET wanted == Wanted(Call(f).conditions[f.next], ids)
    IN  IF f.next = 1 THEN ids
        ELSE IF Call(f).groupOp = "And" THEN f.ids \intersect wanted
        ELSE f.ids \union wanted

\* MUTANT: the loop stays at its condition.
AdvanceNot(f, ids) == [f EXCEPT !.ids = Combine(f, ids)]

\* The call goes on to its next condition.
Advance(f, ids) == [f EXCEPT !.ids = Combine(f, ids), !.next = @ + 1]

Push(f) == stack' = <<f>> \o stack

\* The condition the innermost call looks at.
AtCondition ==
    /\ phase = "resolving"
    /\ Head(stack).next =< Len(Call(Head(stack)).conditions)
Current == Call(Head(stack)).conditions[Head(stack).next]
AtLink == AtCondition /\ IsCondition(Current) /\ Current.field = "Group"

\* The rules of a condition or of a link are resolved by a call of their own.
AtCall == AtLink \/ (AtCondition /\ ~IsCondition(Current))

\* MUTANT: the error leaves the calls where they are.
ThrowInPlace(about) == phase' = "error" /\ cause' = about /\ UNCHANGED stack

\* Error is thrown through all the calls, and is the reply.
Throw(about) == phase' = "error" /\ cause' = about /\ stack' = <<>>

\* Another exception, which Task::operator() does not catch: nobody replies.
Escape(about) == phase' = "escaped" /\ cause' = about /\ stack' = <<>>

\* Nothing is thrown.
Goes == UNCHANGED <<phase, cause>>

-----------------------------------------------------------------------------
(* Resolve::run *)

Begin(r) ==
    /\ phase' = "resolving"
    /\ root' = r
    /\ stack' = <<Frame(r, 1)>>
    /\ seen' = {Loaded}
    /\ UNCHANGED <<cause, flaws, answer>>

\* The rules are those of a stored group, or the client's own, which nobody
\* has checked.
Start ==
    /\ phase = "idle"
    /\ \E in \in Inputs :
          \/ /\ "id" \in DOMAIN in /\ in.id \in Ids(Loaded)
             /\ Query
             /\ Begin(ById(Loaded, in.id).rules)
          \/ /\ "id" \in DOMAIN in /\ in.id \notin Ids(Loaded)
             /\ Query
             /\ Throw("group")
             /\ UNCHANGED <<flaws, root, answer, seen>>
          \/ /\ "rules" \in DOMAIN in
             /\ Begin(in.rules)
             /\ UNCHANGED storageVars
    /\ UNCHANGED changes

\* No connection to the asset database: tntdb throws an exception of its own.
ConnectFails ==
    /\ "db" \in Faults
    /\ phase = "resolving" /\ stack = <<Frame(root, 1)>>
    /\ Escape("database")
    /\ UNCHANGED <<storageVars, flaws, root, answer, seen, changes>>

\* What a condition puts into the SQL that is none, or means something else: an
\* operator SQL does not know, a value whose quote ends the text it stands in.
Flaws(c) ==
    {about \in {"rules", "value"} :
        \/ about = "rules" /\ c.op = "Unknown"
        \/ about = "value" /\ Quote \in c.value}

\* A condition on a field of the assets.  Only the query of a location is
\* executed at once; the others become part of the statement, whatever they are.
Evaluate ==
    /\ AtCondition /\ ~AtLink /\ IsCondition(Current)
    /\ \/ /\ Current.field = "Unknown"
          /\ Throw("rules")
          /\ UNCHANGED flaws
       \/ /\ Current.field = "Location"
          /\ \E about \in Flaws(Current) : Throw(about)
          /\ UNCHANGED flaws
       \/ /\ Current.field # "Unknown"
          /\ Current.field = "Location" => Current.op # "Unknown"
          /\ LET ids == IF Flaws(Current) = {} THEN Q!Select(Current) ELSE {}
             IN  stack' = <<Advance(Head(stack), ids)>> \o Tail(stack)
          /\ flaws' = flaws \union Flaws(Current)
          /\ Goes
    /\ UNCHANGED <<storageVars, root, answer, seen, changes>>

\* Rules among the conditions: groupSql calls itself.
Nest ==
    /\ AtCondition /\ ~IsCondition(Current)
    /\ Len(stack) < MaxDepth
    /\ Push(Frame(Head(stack).rules, Current.inner))
    /\ Goes
    /\ UNCHANGED <<storageVars, flaws, root, answer, seen, changes>>

\* byGroupId: the linked group as it is now, or an error if there is none.  A
\* value that is no number is read as that of no group, or not at all.
Link ==
    /\ AtLink
    /\ Len(stack) < MaxDepth
    /\ \/ /\ Current.group \in Ids(Loaded)
          /\ Query
          /\ Push(Frame(ById(Loaded, Current.group).rules, 1)) /\ Goes
       \/ /\ Current.group \notin Ids(Loaded)
          /\ Query
          /\ Throw(IF Current.group = NoNumber THEN "value" ELSE "group")
       \/ /\ Current.group = NoNumber
          /\ Escape("value")
          /\ UNCHANGED storageVars
    /\ UNCHANGED <<flaws, root, answer, seen, changes>>

\* Nothing remembers which groups are being resolved: the calls for links in a
\* circle go on until the thread has no stack left.
Overflow ==
    /\ AtCall
    /\ Len(stack) = MaxDepth
    /\ phase' = "overflown"
    /\ stack' = <<>>
    /\ UNCHANGED <<storageVars, cause, flaws, root, answer, seen, changes>>

\* The statement is executed, without the rack controller itself.  One with an
\* operator that SQL does not know fails, and so does most often one with a quote
\* too many; if not, it selects anything.
Execute(ids, wrong) ==
    \/ /\ \E about \in wrong : Throw(about)
       /\ UNCHANGED answer
    \/ /\ wrong = {} \/ "value" \in wrong
       /\ phase' = "done" /\ stack' = <<>> /\ UNCHANGED cause
       /\ answer' \in IF wrong = {}
                      THEN {{e \in ids : Asset[e].name # RackController}}
                      ELSE SUBSET Elements

\* The innermost call has seen its conditions: without any it ends in an error;
\* else the caller goes on, or the job has its statement.
Return ==
    LET f == Head(stack)
        n == Len(Call(f).conditions)
        wrong == IF n > 1 /\ Call(f).groupOp = "Unknown"
                 THEN flaws \union {"rules"} ELSE flaws
    IN  /\ phase = "resolving" /\ f.next > n
        /\ \/ /\ n = 0
              /\ Throw("rules")
              /\ UNCHANGED <<flaws, answer>>
           \/ /\ n > 0 /\ Len(stack) > 1
              /\ stack' = <<Advance(stack[2], f.ids)>> \o Tail(Tail(stack))
              /\ flaws' = wrong
              /\ Goes /\ UNCHANGED answer
           \/ /\ n > 0 /\ Len(stack) = 1
              /\ Execute(f.ids, wrong)
              /\ UNCHANGED flaws
        /\ UNCHANGED <<storageVars, root, seen, changes>>

\* A query of the asset database fails: byLocation's, the one for the kinds of
\* links, which byHostedBy needs and nothing catches, or the last one.
QueryFails ==
    /\ "db" \in Faults
    /\ \/ /\ AtCondition /\ IsCondition(Current)
          /\ \/ Current.field = "Location" /\ Throw("database")
             \/ Current.field = "HostedBy" /\ Escape("database")
       \/ /\ phase = "resolving" /\ Len(stack) = 1 /\ ~AtCondition
          /\ Call(Head(stack)).conditions # <<>>
          /\ Throw("database")
    /\ UNCHANGED <<storageVars, flaws, root, answer, seen, changes>>

-----------------------------------------------------------------------------
(* Group::check (common/group.cpp), which a group passes before it is saved. *)

ConditionPasses(c) ==
    /\ c.field # "Unknown" /\ c.op # "Unknown"
    /\ c.field = "Group" => c.op \in {"Is", "IsNot"}
    /\ c.field # "Group" => c.value # {}

\* The rules at one place of the table.
RulesPass(r) ==
    /\ r.conditions # <<>>
    /\ r.groupOp # "Unknown"
    /\ \A i \in DOMAIN r.conditions :
          IsCondition(r.conditions[i]) => ConditionPasses(r.conditions[i])

\* MUTANT: the rules inside the rules are not looked at.
PassesCheckOutside(r) == RulesPass(r[1])

\* The check calls itself for each of the inner rules.
PassesCheck(r) == \A k \in DOMAIN r : RulesPass(r[k])

ASSUME StoredAreChecked ==
    \A g \in InitialFile.groups : PassesCheck(g.rules)

\* Another job saves or removes a group while this one runs.
Change ==
    /\ changes < MaxChanges
    /\ phase = "resolving"
    /\ \/ \E g \in GroupChanges : PassesCheck(g.rules) /\ Save(g)
       \/ \E id \in Ids(Loaded) : Remove(id)
    /\ changes' = changes + 1
    /\ seen' = seen \union {Loaded'}
    /\ Goes
    /\ UNCHANGED <<stack, flaws, root, answer>>

Ended == phase \in {"done", "error", "escaped", "overflown"}

Finished == Ended /\ UNCHANGED vars

Work ==
    \/ Start \/ ConnectFails \/ Evaluate \/ Nest \/ Link \/ Overflow
    \/ Return \/ QueryFails

Next == Work \/ Change \/ Finished

Spec == Init /\ [][Next]_vars

FairSpec == Spec /\ WF_vars(Work)

-----------------------------------------------------------------------------
TypeOK ==
    /\ StorageTypeOK
    /\ phase \in {"idle", "resolving", "done", "error", "escaped", "overflown"}
    /\ cause \in {"none", "rules", "value", "group", "database"}
    /\ (cause = "none") = (phase \notin {"error", "escaped"})
    /\ flaws \subseteq {"rules", "value"}
    /\ \A i \in DOMAIN stack :
          /\ stack[i].rules \in AllRules
          /\ stack[i].at \in DOMAIN stack[i].rules
          /\ stack[i].next \in 1 .. Len(Call(stack[i]).conditions) + 1
          /\ stack[i].ids \subseteq Elements
    /\ (phase = "resolving") = (stack # <<>>)
    /\ answer \subseteq Elements
    /\ \A d \in seen : d \in DbObj
    /\ changes \in 0 .. MaxChanges

\* The rules the job may have met: its own, and those of the groups there were.
Met == {root} \union {g.rules : g \in UNION {d.groups : d \in seen}}

\* The values are such as the job takes: numbers in links, no quotes elsewhere.
PlainValues(r) ==
    \A k \in DOMAIN r : \A i \in DOMAIN r[k].conditions :
        LET c == r[k].conditions[i]
        IN  IsCondition(c) => IF c.field = "Group" THEN c.group # NoNumber
                                                   ELSE Quote \notin c.value

\* Some condition of the rules, at any depth, is on the group with an id.
LinksTo(r, id) ==
    \E k \in DOMAIN r : \E i \in DOMAIN r[k].conditions :
        LET c == r[k].conditions[i]
        IN  IsCondition(c) /\ c.field = "Group" /\ c.group = id

\* There are groups each of which has linked to one of them.
Circle ==
    \E S \in (SUBSET UNION {Ids(d) : d \in seen}) \ {{}} :
        \A id \in S : \E d \in seen : \E g \in d.groups :
            g.id = id /\ \E other \in S : LinksTo(g.rules, other)

\* What Group::check accepts fails for its values only, at which it does not
\* look (group.cpp:150-164): nothing else that groupSql finds in the rules, in
\* their inner rules or in the groups they link to, as these are saved
\* meanwhile, ends the job in an error about rules; and it ends for a value only
\* if some of these rules have one that the job cannot take.
CheckedRulesResolve ==
    /\ cause = "rules" => ~PassesCheck(root)
    /\ cause = "value" => \E r \in Met : ~PlainValues(r)

\* The walk of the rules ends with a reply or an exception, although the links
\* change while it follows them, unless they have formed a circle.  Nobody
\* refuses one (group.cpp:150-164), and then the agent can die of the walk.
ResolveEnds ==
    (phase = "resolving") ~> (phase \in {"done", "error", "escaped"} \/ Circle)

=============================================================================
