------------------------- MODULE RestClientsProofs -------------------------
(***************************************************************************)
(* What the HTTP clients can rely on, for any calls, ids and groups,       *)
(* however answers are lost or handed to the wrong call and however often  *)
(* the agent is stopped and started: a call is given its own answer, a     *)
(* list is complete, a removed group stays away.  The lock may fail and    *)
(* stay closed, and writes may fail; the registry alone needs a file that  *)
(* can be written.                                                         *)
(*                                                                         *)
(* The argument follows a request on its way: as a message, as a job, as a *)
(* reply it belongs to a call that made it, is what that call asked, and   *)
(* is nowhere else at the same time.                                       *)
(***************************************************************************)
EXTENDS RestClients, StorageProofs, WellFoundedInduction

-----------------------------------------------------------------------------
(* The inductive invariant *)

\* A correlation id that some call has used.
Used(c) ==
    /\ c \in [by : Calls, n : Nat]
    /\ c.n \in 1 .. call[c.by].n

\* A request is the one its call is for, or a list's for one of its groups.
MessageOK(m) ==
    /\ Used(m.corr)
    /\ \/ /\ m.corr.n = 1
          /\ m.op = request[m.corr.by].op
          /\ m.arg \in Arguments(request[m.corr.by])
       \/ /\ m.corr.n > 1
          /\ Lists(m.corr.by)
          /\ m.op = "READ"
          /\ m.arg \in Nat

JobOK(j) ==
    /\ MessageOK(j.msg)
    /\ j.stage \in {"queued", "checked", "asleep"}
    /\ j.stage = "checked" => j.msg.op \in {"CREATE", "UPDATE"}

\* What an answer to request n of call k is about.
AnswerFits(k, n, out) ==
    IF ~Lists(k) THEN /\ \A a \in out : Fits(request[k], a)
                      /\ Creates(k) => \E g \in out : out = {g}
    ELSE IF n = 1 THEN \A a \in out : a.id \in Nat
    ELSE out \subseteq Group

ReplyOK(r) ==
    /\ Used(r.corr)
    /\ r.status \in {"ok", "error"}
    /\ r.status = "ok" => AnswerFits(r.corr.by, r.corr.n, r.out)

CallOK(k) ==
    /\ call[k] \in [at : {"new", "waiting", "over"}, n : Nat,
                    todo : SUBSET Nat, out : {call[k].out},
                    status : {"none", "ok", "error"}]
    /\ call[k].at = "new" => call[k].n = 0 /\ call[k].out = {}
    /\ call[k].at = "waiting" => call[k].n > 0
    /\ call[k].at # "over" => call[k].status = "none"
    /\ Lists(k) => call[k].out \subseteq Group
    /\ ~Lists(k) => call[k].n =< 1
    /\ Done(k) => AnswerFits(k, 2, call[k].out)

ShapesInv ==
    /\ request \in Scenarios
    /\ call = [k \in Calls |-> call[k]]
    /\ \A k \in Calls : CallOK(k)
    /\ \A m \in mailbox : MessageOK(m)
    /\ \A j \in jobs : JobOK(j)
    /\ \A r \in replies : ReplyOK(r)

\* A request is in one place.
ApartInv ==
    /\ \A m, p \in mailbox : m.corr = p.corr => m = p
    /\ \A i, j \in jobs : i.msg.corr = j.msg.corr => i = j
    /\ \A r, s \in replies : r.corr = s.corr => r = s
    /\ \A m \in mailbox, j \in jobs : m.corr # j.msg.corr
    /\ \A m \in mailbox, r \in replies : m.corr # r.corr
    /\ \A j \in jobs, r \in replies : j.msg.corr # r.corr
    /\ \A k \in Calls : Done(k) =>
          /\ \A m \in mailbox : m.corr # Uuid(k, call[k].n)
          /\ \A j \in jobs : j.msg.corr # Uuid(k, call[k].n)
          /\ \A r \in replies : r.corr # Uuid(k, call[k].n)

\* A group that is not there, nor in the file that a restart reads again, and
\* whose id neither of them gives again.
GoneFrom(d, id) == id \in 0 .. d.lastId /\ id \notin Ids(d)
Gone(id) == GoneFrom(Loaded, id) /\ GoneFrom(file, id)

\* An answer to a removal says so only of groups that are gone.
RemovalTrue(k, out) ==
    request[k].op = "REMOVE" => \A a \in out : a.ok => Gone(a.id)

RemovedInv ==
    /\ \A r \in replies :
          r.status = "ok" => RemovalTrue(r.corr.by, r.out)
    /\ \A k \in Calls : Done(k) => RemovalTrue(k, call[k].out)

\* A list waits for request number n.
Awaits(k, n) == Lists(k) /\ call[k].at = "waiting" /\ call[k].n = n

OutIds(k) == {g.id : g \in call[k].out}

\* The groups that were there all along are in the list, or it will ask for
\* them, or it is asking for them.
Accounted(k, ids) == kept[k] \subseteq OutIds(k) \union call[k].todo \union ids

CallAccounted(k) ==
    /\ kept[k] \subseteq Ids(Loaded)
    /\ Lists(k) /\ call[k].at = "waiting" => Loaded.groups \subseteq met[k]
    /\ Lists(k) /\ call[k].at # "new" => call[k].out \subseteq met[k]
    /\ Awaits(k, 1) => call[k].out = {}
    /\ Lists(k) /\ Done(k) => kept[k] \subseteq OutIds(k)

RequestAccounted(m) ==
    m.corr.n > 1 /\ Awaits(m.corr.by, m.corr.n)
        => Accounted(m.corr.by, {m.arg})

ReplyAccounted(r) ==
    r.status = "ok" /\ Awaits(r.corr.by, r.corr.n)
        => IF r.corr.n = 1
           THEN kept[r.corr.by] \subseteq {a.id : a \in r.out}
           ELSE /\ Accounted(r.corr.by, {a.id : a \in r.out})
                /\ r.out \subseteq met[r.corr.by]

ListsInv ==
    /\ DOMAIN kept = Calls /\ DOMAIN met = Calls
    /\ \A k \in Calls : CallAccounted(k)
    /\ \A m \in mailbox : RequestAccounted(m)
    /\ \A j \in jobs : RequestAccounted(j.msg)
    /\ \A r \in replies : ReplyAccounted(r)

AgentInv ==
    /\ StorageInv
    /\ "write" \notin Faults => FileCurrent
    /\ LifeTypeOK
    /\ closed \in BOOLEAN
    /\ jobs # {} => Working

ClientsInv == ShapesInv /\ ApartInv /\ RemovedInv /\ ListsInv

RestInv == AgentInv /\ ClientsInv

-----------------------------------------------------------------------------
(* The agent's process *)

LEMMA LifeKeepsAgent ==
    ASSUME AgentInv,
           \/ MainRuns \/ Signalled \/ Shutdown \/ Exits \/ Killed
           \/ Exit /\ ProcessGone
    PROVE  /\ AgentInv' /\ jobs' \subseteq jobs
           /\ ProcessGone \/ UNCHANGED storageVars
           /\ "write" \notin Faults => Loaded' = Loaded
  <1>1. /\ StorageInv'
        /\ "write" \notin Faults => FileCurrent' /\ Loaded' = Loaded
    <2>1. UNCHANGED storageVars \/ CrashStorage
      BY DEF MainRuns, Signalled, Shutdown, Exits, Killed, ProcessGone
    <2>2. StorageInv'
      <3>1. CASE UNCHANGED storageVars
        BY <3>1 DEF AgentInv, StorageInv, WellFormed, storageVars
      <3> QED  BY <2>1, <3>1, CrashKeepsInv DEF AgentInv
    <2> QED  BY <2>1, <2>2, SameLoaded DEF AgentInv
  <1>2. LifeTypeOK'
    <2> USE DEF AgentInv, LifeTypeOK, Phases, Goto
    <2>1. Trouble => troubles' \in 0 .. MaxTroubles
      BY TroublesAssumption DEF Trouble
    <2>2. CASE MainRuns
      BY <2>2 DEF MainRuns, Start, InstallHandlers, Subscribe, Wait
    <2>3. CASE Signalled \/ Killed
      BY <2>1, <2>3 DEF Signalled, Killed, Die, Interrupt, Reload, Trouble
    <2>4. CASE Shutdown \/ Exits \/ (Exit /\ ProcessGone)
      BY <2>4 DEF Shutdown, Exits, StopPool, Exit
    <2> QED  BY <2>2, <2>3, <2>4
  <1>3. closed' \in BOOLEAN
    BY DEF AgentInv, MainRuns, Signalled, Shutdown, Exits, Killed, ProcessGone,
           poolVars
  <1>4. /\ jobs' \subseteq jobs /\ (jobs' # {} => Working')
        /\ ProcessGone \/ UNCHANGED storageVars
    BY DEF AgentInv, Working, MainRuns, Signalled, Shutdown, Exits, Killed,
           ProcessGone, Start, InstallHandlers, Subscribe, Wait, StopPool,
           Interrupt, Reload, Goto, poolVars
  <1> QED  BY <1>1, <1>2, <1>3, <1>4 DEF AgentInv

\* A list that has still to ask has a smallest id to ask for.
Below == {p \in Nat \X Nat : p[1] < p[2]}

LEMMA BelowWellFounded == IsWellFoundedOn(Below, Nat)
  BY NatLessThanWellFounded DEF OpToRel, Below

LEMMA LeastId ==
    ASSUME NEW S, S \subseteq Nat, S # {}
    PROVE  \E i \in S : \A j \in S : i =< j
  <1>1. PICK i \in S : \A j \in S : <<j, i>> \notin Below
    BY BelowWellFounded, WFMin
  <1>2. ASSUME NEW j \in S PROVE i =< j
    <2>1. i \in Nat /\ j \in Nat /\ <<j, i>> \notin Below
      BY <1>1
    <2>2. <<j, i>> \in Nat \X Nat /\ <<j, i>>[1] = j /\ <<j, i>>[2] = i
      BY <2>1
    <2> QED  BY <2>1, <2>2 DEF Below
  <1> QED  BY <1>1, <1>2

-----------------------------------------------------------------------------
(* Requests and replies on their way *)

\* The groups change, and the histories of the lists with them.
HistoriesFollow ==
    /\ UNCHANGED <<request, call>>
    /\ \A id : Gone(id) => Gone(id)'
    /\ DOMAIN kept' = Calls /\ DOMAIN met' = Calls
    /\ \A k \in Calls : /\ kept'[k] \subseteq kept[k] \intersect Ids(Loaded')
                        /\ met[k] \subseteq met'[k]
                        /\ Lists(k) /\ call[k].at = "waiting"
                              => Loaded'.groups \subseteq met'[k]

LEMMA NothingHappens ==
    ASSUME RestInv, UNCHANGED clientVars, Loaded' = Loaded, file' = file
    PROVE  HistoriesFollow
  BY DEF HistoriesFollow, RestInv, ClientsInv, ListsInv, CallAccounted,
         clientVars, Gone, Ids

\* The groups become those of d, which the histories note.
LEMMA NotedFollow ==
    ASSUME RestInv, NEW d, Noted(d), Loaded' = d, \A id : Gone(id) => Gone(id)'
    PROVE  HistoriesFollow
  BY DEF HistoriesFollow, Noted

\* The process ends: there is what the file has.
LEMMA GoneFollow ==
    ASSUME RestInv, ProcessGone
    PROVE  HistoriesFollow
  <1>1. Loaded' = file /\ file' = file
    BY DEF ProcessGone, CrashStorage, Loaded
  <1>2. \A id : Gone(id) => Gone(id)'
    BY <1>1 DEF Gone
  <1> QED  BY <1>1, <1>2, NotedFollow DEF ProcessGone

\* What is true of a request, a reply or a call stays true.
LEMMA HistoriesKeep ==
    ASSUME ClientsInv, HistoriesFollow
    PROVE  /\ request' \in Scenarios /\ call' = [k \in Calls |-> call'[k]]
           /\ \A k \in Calls : /\ CallOK(k)' /\ CallAccounted(k)'
                               /\ Done(k)' = Done(k)
                               /\ Done(k) => RemovalTrue(k, call[k].out)'
           /\ \A m : /\ MessageOK(m) => MessageOK(m)'
                     /\ MessageOK(m) /\ RequestAccounted(m) => RequestAccounted(m)'
           /\ \A j : JobOK(j) => JobOK(j)'
           /\ \A r \in replies : /\ ReplyOK(r)' /\ ReplyAccounted(r)'
                                 /\ r.status = "ok" => RemovalTrue(r.corr.by, r.out)'
  <1>1. /\ request' = request /\ call' = call
        /\ \A k, n, c : /\ Lists(k)' = Lists(k) /\ Awaits(k, n)' = Awaits(k, n)
                        /\ OutIds(k)' = OutIds(k) /\ Done(k)' = Done(k)
                        /\ Used(c)' = Used(c)
        /\ \A k, n, out : AnswerFits(k, n, out)' = AnswerFits(k, n, out)
    BY DEF HistoriesFollow, Lists, Awaits, OutIds, Done, Used, AnswerFits, Fits,
           Creates
  <1>2. \A m : MessageOK(m)' = MessageOK(m)
    BY <1>1 DEF MessageOK, Arguments, Narrowed
  <1>3. \A r : ReplyOK(r)' = ReplyOK(r)
    BY <1>1 DEF ReplyOK
  <1>4. \A k \in Calls : CallOK(k)'
    BY <1>1 DEF CallOK, ClientsInv, ShapesInv
  <1>5. \A k \in Calls : \A ids : Accounted(k, ids) => Accounted(k, ids)'
    BY <1>1 DEF Accounted, HistoriesFollow
  <1>6. \A k \in Calls : CallAccounted(k)'
    BY <1>1 DEF CallAccounted, HistoriesFollow, ClientsInv, ListsInv
  <1>7. \A id : Gone(id) => Gone(id)'
    BY DEF HistoriesFollow
  <1>8. \A k, out : RemovalTrue(k, out) => RemovalTrue(k, out)'
    BY <1>1, <1>7 DEF RemovalTrue
  <1>9. \A m : MessageOK(m) /\ RequestAccounted(m) => RequestAccounted(m)'
    BY <1>1, <1>5 DEF MessageOK, Used, RequestAccounted
  <1>10. ASSUME NEW r \in replies
         PROVE  ReplyOK(r)' /\ ReplyAccounted(r)'
    <2>1. ReplyOK(r) /\ ReplyAccounted(r) /\ r.corr.by \in Calls
      BY DEF ClientsInv, ShapesInv, ListsInv, ReplyOK, Used
    <2>2. /\ kept'[r.corr.by] \subseteq kept[r.corr.by]
          /\ met[r.corr.by] \subseteq met'[r.corr.by]
      BY <2>1 DEF HistoriesFollow
    <2> QED  BY <1>1, <1>3, <1>5, <2>1, <2>2 DEF ReplyAccounted
  <1>11. \A r \in replies :
            r.status = "ok" => RemovalTrue(r.corr.by, r.out)'
    BY <1>8 DEF ClientsInv, RemovedInv
  <1> QED  BY <1>1, <1>2, <1>4, <1>6, <1>8, <1>9, <1>10, <1>11
           DEF JobOK, ClientsInv, ShapesInv, RemovedInv

\* What is lost does no harm.
LEMMA LossKeepsClients ==
    ASSUME ClientsInv, HistoriesFollow, mailbox' \subseteq mailbox,
           jobs' \subseteq jobs, replies' \subseteq replies
    PROVE  ClientsInv'
  <1>1. ShapesInv'
    BY HistoriesKeep DEF ClientsInv, ShapesInv
  <1>2. RemovedInv'
    BY HistoriesKeep DEF ClientsInv, RemovedInv, HistoriesFollow
  <1>3. ListsInv'
    BY HistoriesKeep DEF ClientsInv, ShapesInv, ListsInv, HistoriesFollow, JobOK
  <1>4. ApartInv'
    BY DEF ClientsInv, ApartInv, HistoriesFollow, Done, Uuid
  <1> QED  BY <1>1, <1>2, <1>3, <1>4 DEF ClientsInv

\* A message becomes a job, or is lost.
LEMMA ReceiveKeepsClients ==
    ASSUME RestInv, NEW m \in mailbox, Receive(m)
    PROVE  ClientsInv' /\ HistoriesFollow
  <1> DEFINE new == Job(m, "queued")
  <1>1. /\ ClientsInv /\ HistoriesFollow
        /\ mailbox' = mailbox \ {m} /\ replies' = replies
        /\ jobs' \subseteq jobs \/ jobs' = jobs \union {new}
    <2>1. CASE UNCHANGED <<storageVars, clientVars>>
      <3>1. HistoriesFollow
        BY <2>1, SameStorage, NothingHappens
      <3> QED  BY <3>1, <2>1 DEF RestInv, Receive, ProcessGone, poolVars
    <2>2. CASE ProcessGone
      BY <2>2, GoneFollow DEF RestInv, Receive, ProcessGone
    <2> QED  BY <2>1, <2>2 DEF Receive
  <1>2. CASE jobs' \subseteq jobs
    BY <1>1, <1>2, LossKeepsClients
  <1>3. CASE jobs' = jobs \union {new}
    <2>1. new.msg = m /\ new.stage = "queued" /\ JobOK(new)
      BY <1>1 DEF Job, JobOK, ClientsInv, ShapesInv
    <2>2. MessageOK(m) /\ RequestAccounted(m)
      BY <1>1 DEF ClientsInv, ShapesInv, ListsInv
    <2> HIDE DEF new
    <2>3. ShapesInv'
      BY <1>1, <1>3, <2>1, HistoriesKeep DEF ClientsInv, ShapesInv
    <2>4. RemovedInv'
      BY <1>1, HistoriesKeep DEF ClientsInv, RemovedInv, HistoriesFollow
    <2>5. ListsInv'
      BY <1>1, <1>3, <2>1, <2>2, HistoriesKeep
      DEF ClientsInv, ShapesInv, ListsInv, HistoriesFollow, JobOK
    <2>6. ApartInv'
      BY <1>1, <1>3, <2>1 DEF ClientsInv, ApartInv, HistoriesFollow, Done, Uuid
    <2> QED  BY <1>1, <2>3, <2>4, <2>5, <2>6 DEF ClientsInv
  <1> QED  BY <1>1, <1>2, <1>3

\* A job goes on.
LEMMA MoveKeepsClients ==
    ASSUME ClientsInv, HistoriesFollow, NEW j \in jobs,
           NEW st \in {"checked", "asleep"}, MoveTo(j, st),
           st = "checked" => j.msg.op \in {"CREATE", "UPDATE"}
    PROVE  ClientsInv'
  <1> DEFINE new == Job(j.msg, st)
  <1>1. new.msg = j.msg /\ JobOK(new) /\ RequestAccounted(new.msg)
    BY DEF Job, JobOK, ClientsInv, ShapesInv, ListsInv
  <1> HIDE DEF new
  <1>2. /\ jobs' = (jobs \ {j}) \union {new}
        /\ mailbox' = mailbox /\ replies' = replies
    BY DEF new, busVars, MoveTo
  <1>3. ShapesInv'
    BY <1>1, <1>2, HistoriesKeep DEF ClientsInv, ShapesInv
  <1>4. RemovedInv'
    BY <1>2, HistoriesKeep DEF ClientsInv, RemovedInv, HistoriesFollow
  <1>5. ListsInv'
    BY <1>1, <1>2, HistoriesKeep
    DEF ClientsInv, ShapesInv, ListsInv, HistoriesFollow, JobOK
  <1>6. ApartInv'
    BY <1>1, <1>2 DEF ClientsInv, ApartInv, HistoriesFollow, Done, Uuid
  <1> QED  BY <1>3, <1>4, <1>5, <1>6 DEF ClientsInv

\* A job ends with its reply, which is right when it leaves.
LEMMA ReplyKeepsClients ==
    ASSUME ClientsInv, HistoriesFollow,
           NEW j \in jobs, NEW status \in {"ok", "error"}, NEW out,
           End(j, status, out),
           LET c == j.msg.corr
           IN  status = "ok" =>
                  /\ AnswerFits(c.by, c.n, out)
                  /\ RemovalTrue(c.by, out)'
                  /\ ReplyAccounted([corr |-> c, status |-> "ok", out |-> out])'
    PROVE  ClientsInv'
  <1> DEFINE r == [corr |-> j.msg.corr, status |-> status, out |-> out]
  <1>1. /\ jobs' = jobs \ {j} /\ mailbox' = mailbox
        /\ replies' = replies \/ replies' = replies \union {r}
    BY DEF End
  <1>2. CASE replies' = replies
    BY <1>1, <1>2, LossKeepsClients
  <1>3. CASE replies' = replies \union {r}
    <2>1. r.corr = j.msg.corr /\ r.status = status /\ r.out = out
      OBVIOUS
    <2>2. ReplyOK(r)'
      <3>1. Used(j.msg.corr)
        BY DEF ClientsInv, ShapesInv, JobOK, MessageOK
      <3>2. Used(r.corr)'
        BY <2>1, <3>1 DEF Used, HistoriesFollow
      <3>3. \A k, n, o : AnswerFits(k, n, o)' = AnswerFits(k, n, o)
        BY DEF HistoriesFollow, AnswerFits, Lists, Fits, Creates
      <3> QED  BY <2>1, <3>2, <3>3 DEF ReplyOK
    <2>3. r.status = "ok" => RemovalTrue(r.corr.by, r.out)' /\ ReplyAccounted(r)'
      BY <2>1
    <2>4. ReplyAccounted(r)'
      BY <2>3 DEF ReplyAccounted
    <2> HIDE DEF r
    <2>5. ShapesInv'
      BY <1>1, <1>3, <2>2, HistoriesKeep DEF ClientsInv, ShapesInv
    <2>6. RemovedInv'
      BY <1>3, <2>3, HistoriesKeep DEF ClientsInv, RemovedInv, HistoriesFollow
    <2>7. ListsInv'
      BY <1>1, <1>3, <2>4, HistoriesKeep
      DEF ClientsInv, ShapesInv, ListsInv, HistoriesFollow, JobOK
    <2>8. ApartInv'
      BY <1>1, <1>3, <2>1 DEF ClientsInv, ApartInv, HistoriesFollow, Done, Uuid
    <2> QED  BY <2>5, <2>6, <2>7, <2>8 DEF ClientsInv
  <1> QED  BY <1>1, <1>2, <1>3

-----------------------------------------------------------------------------
(* The jobs *)

LEMMA AgentGoesOn ==
    ASSUME AgentInv, jobs # {}, StorageInv', UNCHANGED lifeVars,
           "write" \notin Faults => FileCurrent', closed' \in BOOLEAN
    PROVE  AgentInv'
  BY DEF AgentInv, LifeTypeOK, Working, lifeVars

LEMMA UnchangedKeepsAgent ==
    ASSUME RestInv, jobs # {}, UNCHANGED storageVars, UNCHANGED lifeVars,
           closed' \in BOOLEAN
    PROVE  AgentInv' /\ Loaded' = Loaded /\ file' = file
  <1>1. /\ StorageInv' /\ ("write" \notin Faults => FileCurrent')
        /\ Loaded' = Loaded /\ file' = file
    BY SameLoaded, SameStorage
    DEF RestInv, AgentInv, StorageInv, WellFormed, storageVars
  <1> QED  BY <1>1, AgentGoesOn DEF RestInv

LEMMA QueryKeepsAgent ==
    ASSUME RestInv, jobs # {}, Query, UNCHANGED lifeVars, closed' \in BOOLEAN
    PROVE  AgentInv' /\ Loaded' = Loaded /\ file' = file
  <1>1. /\ StorageInv' /\ ("write" \notin Faults => FileCurrent')
        /\ Loaded' = Loaded /\ file' = file
    BY QueryKeepsInv, QueryLoaded, SameLoaded DEF RestInv, AgentInv, Query
  <1> QED  BY <1>1, AgentGoesOn DEF RestInv

LEMMA StoreKeepsAgent ==
    ASSUME RestInv, jobs # {}, NEW d, WellFormed(d), NextIds(Loaded, d),
           Written(d) \/ NotWritten(d), Noted(d), UNCHANGED lifeVars,
           closed' \in BOOLEAN
    PROVE  AgentInv' /\ HistoriesFollow /\ Loaded' = d
  <1>1. /\ Loaded' = d /\ file' \in {file, d}
        /\ "write" \notin Faults => FileCurrent'
    BY DEF Written, NotWritten, FileCurrent, Loaded
  <1>2. StorageInv'
    BY WriteKeepsInv DEF RestInv, AgentInv
  <1>3. \A id : Gone(id) => Gone(id)'
    <2>1. Loaded.lastId \in Nat /\ d.lastId \in Nat
      BY LoadedWellFormed DEF RestInv, AgentInv, WellFormed, DbObj
    <2>2. \A id : GoneFrom(Loaded, id) => GoneFrom(d, id)
      BY <2>1 DEF GoneFrom, NextIds
    <2> QED  BY <1>1, <2>2 DEF Gone
  <1>4. HistoriesFollow
    BY <1>1, <1>3, NotedFollow
  <1> QED  BY <1>1, <1>2, <1>4, AgentGoesOn DEF RestInv

\* What a job is about.
LEMMA JobFacts ==
    ASSUME ClientsInv, NEW j \in jobs
    PROVE  LET k == j.msg.corr.by
               n == j.msg.corr.n
           IN  /\ JobOK(j) /\ RequestAccounted(j.msg) /\ k \in Calls /\ n \in Nat
               /\ request \in Scenarios
               /\ j.msg.op # "READ" => n = 1
               /\ n = 1 => /\ j.msg.op = request[k].op
                           /\ j.msg.arg \in Arguments(request[k])
               /\ n # 1 => Lists(k) /\ j.msg.op = "READ" /\ j.msg.arg \in Nat
               /\ n # 1 <=> n > 1
  BY DEF ClientsInv, ShapesInv, ListsInv, JobOK, MessageOK, Used

LEMMA RequestFacts ==
    ASSUME request \in Scenarios, NEW k \in Calls
    PROVE  LET q == request[k]
           IN  /\ q.op \in {"CREATE", "UPDATE", "REMOVE", "READ", "RESOLVE", "LIST"}
               /\ q.op \in {"CREATE", "UPDATE"}
                     => q.group \in Group /\ Arguments(q) = {q.group}
               /\ q.op \in {"REMOVE", "READ", "RESOLVE"} => q.id \in Nat
               /\ q.op = "REMOVE" => Arguments(q) = {q.id}
               /\ q.op \in {"READ", "RESOLVE"} => Arguments(q) = Narrowed(q.id)
  BY CallsAssumption DEF Arguments

\* An error says nothing that could be wrong.
LEMMA ErrorKeepsClients ==
    ASSUME ClientsInv, HistoriesFollow, NEW j \in jobs, End(j, "error", {})
    PROVE  ClientsInv'
  BY ReplyKeepsClients

LEMMA CheckNameKeeps ==
    ASSUME RestInv, NEW j \in jobs, CheckName(j)
    PROVE  RestInv'
  <1>1. closed' \in BOOLEAN /\ UNCHANGED lifeVars
    BY DEF CheckName, RestInv, AgentInv, End, MoveTo
  <1>2. AgentInv' /\ Loaded' = Loaded /\ file' = file
    <2>1. CASE Query
      BY <1>1, <2>1, QueryKeepsAgent
    <2>2. CASE UNCHANGED storageVars
      BY <1>1, <2>2, UnchangedKeepsAgent
    <2> QED  BY <2>1, <2>2 DEF CheckName
  <1>3. HistoriesFollow
    BY <1>2, NothingHappens DEF CheckName
  <1>4. ClientsInv'
    BY <1>3, ErrorKeepsClients, MoveKeepsClients DEF CheckName, RestInv
  <1> QED  BY <1>2, <1>4 DEF RestInv

LEMMA SaveGroupKeeps ==
    ASSUME RestInv, NEW j \in jobs, SaveGroup(j)
    PROVE  RestInv'
  <1> DEFINE k == j.msg.corr.by
             g == j.msg.arg
  <1>1. /\ k \in Calls /\ j.msg.corr.n = 1
        /\ request[k].op \in {"CREATE", "UPDATE"} /\ j.msg.op = request[k].op
        /\ request[k].group = g /\ g \in Group
    BY JobFacts, RequestFacts DEF RestInv, SaveGroup, JobOK
  <1>2. WellFormed(Loaded)
    BY LoadedWellFormed DEF RestInv, AgentInv
  <1>3. AgentInv' /\ HistoriesFollow
    <2>1. /\ Written(AfterSave(Loaded, g)) \/ NotWritten(AfterSave(Loaded, g))
          /\ Noted(AfterSave(Loaded, g))
      BY DEF SaveGroup
    <2>2. UNCHANGED lifeVars /\ closed' \in BOOLEAN
      BY DEF SaveGroup, End, Unlocks
    <2> QED  BY <1>1, <1>2, <2>1, <2>2, StoreKeepsAgent, SaveWellFormed,
                SaveNextIds
  <1>4. /\ Saved(Loaded, g) \in Group
        /\ [Saved(Loaded, g) EXCEPT !.id = g.id] = g
        /\ g.id # NoId => Saved(Loaded, g) = g
    BY <1>1, <1>2 DEF Saved, Group, WellFormed, DbObj
  <1>5. ~Lists(k) /\ ~Awaits(k, 1)'
    BY <1>1, <1>3 DEF Lists, Awaits, HistoriesFollow
  <1>6. PICK out : out = {Saved(Loaded, g)}
    OBVIOUS
  <1>7. AnswerFits(k, 1, out)
    BY <1>1, <1>4, <1>5, <1>6 DEF AnswerFits, Fits
  <1>8. RemovalTrue(k, out)'
    BY <1>1, <1>3 DEF RemovalTrue, HistoriesFollow
  <1>9. ReplyAccounted([corr |-> j.msg.corr, status |-> "ok", out |-> out])'
    BY <1>1, <1>5 DEF ReplyAccounted
  <1>10. End(j, "ok", out) \/ End(j, "error", {})
    BY <1>6 DEF SaveGroup
  <1>11. ClientsInv'
    BY <1>1, <1>3, <1>7, <1>8, <1>9, <1>10, ReplyKeepsClients,
       ErrorKeepsClients DEF RestInv
  <1> QED  BY <1>3, <1>11 DEF RestInv

LEMMA RemoveGroupKeeps ==
    ASSUME RestInv, NEW j \in jobs, RemoveGroup(j)
    PROVE  RestInv'
  <1> DEFINE k == j.msg.corr.by
             id == j.msg.arg
             line(ok) == [id |-> id, ok |-> ok]
  <1>1. /\ k \in Calls /\ j.msg.corr.n = 1 /\ request[k].op = "REMOVE"
        /\ request[k].id = id
    BY JobFacts, RequestFacts DEF RestInv, RemoveGroup
  <1>2. WellFormed(Loaded)
    BY LoadedWellFormed DEF RestInv, AgentInv
  <1>3. \A ok : AnswerFits(k, 1, {line(ok)})
    BY <1>1 DEF AnswerFits, Fits, Lists, Creates
  <1>4. \A ok : HistoriesFollow
           => ReplyAccounted([corr |-> j.msg.corr, status |-> "ok",
                              out |-> {line(ok)}])'
    BY <1>1 DEF ReplyAccounted, Awaits, Lists, HistoriesFollow
  <1>5. closed' \in BOOLEAN
    BY DEF RemoveGroup, Unlocks
  <1>6. CASE /\ id \in Ids(Loaded)
             /\ Written(AfterRemove(Loaded, id)) /\ Noted(AfterRemove(Loaded, id))
             /\ End(j, "ok", {line(TRUE)})
    <2>1. AgentInv' /\ HistoriesFollow /\ Loaded' = AfterRemove(Loaded, id)
      BY <1>2, <1>6, <1>5, StoreKeepsAgent, RemoveWellFormed, RemoveNextIds
      DEF End
    <2>2. Gone(id)'
      <3>1. GoneFrom(AfterRemove(Loaded, id), id)
        BY <1>2, <1>6, RemoveIds DEF GoneFrom, WellFormed, UniqueIds, DbObj, Ids
      <3> QED  BY <1>6, <2>1, <3>1 DEF Gone, Written
    <2>3. RemovalTrue(k, {line(TRUE)})'
      BY <2>2 DEF RemovalTrue
    <2> HIDE DEF line
    <2>4. ClientsInv'
      BY <1>1, <1>3, <1>4, <1>6, <2>1, <2>3, ReplyKeepsClients DEF RestInv
    <2> QED  BY <2>1, <2>4 DEF RestInv
  <1>7. CASE Query /\ UNCHANGED clientVars /\ End(j, "ok", {line(FALSE)})
    <2>1. AgentInv' /\ HistoriesFollow
      BY <1>7, <1>5, QueryKeepsAgent, NothingHappens DEF End
    <2>2. RemovalTrue(k, {line(FALSE)})'
      BY DEF RemovalTrue
    <2> HIDE DEF line
    <2>3. ClientsInv'
      BY <1>1, <1>3, <1>4, <1>7, <2>1, <2>2, ReplyKeepsClients DEF RestInv
    <2> QED  BY <2>1, <2>3 DEF RestInv
  <1>8. CASE /\ id \in Ids(Loaded)
             /\ NotWritten(AfterRemove(Loaded, id))
             /\ Noted(AfterRemove(Loaded, id))
             /\ End(j, "ok", {line(FALSE)})
    <2>1. AgentInv' /\ HistoriesFollow
      BY <1>2, <1>8, <1>5, StoreKeepsAgent, RemoveWellFormed, RemoveNextIds
      DEF End
    <2>2. RemovalTrue(k, {line(FALSE)})'
      BY DEF RemovalTrue
    <2> HIDE DEF line
    <2>3. ClientsInv'
      BY <1>1, <1>3, <1>4, <1>8, <2>1, <2>2, ReplyKeepsClients DEF RestInv
    <2> QED  BY <2>1, <2>3 DEF RestInv
  <1> QED  BY <1>6, <1>7, <1>8 DEF RemoveGroup

LEMMA ReadGroupKeeps ==
    ASSUME RestInv, NEW j \in jobs, ReadGroup(j)
    PROVE  RestInv'
  <1> DEFINE k == j.msg.corr.by
             n == j.msg.corr.n
             id == j.msg.arg
  <1>1. JobOK(j) /\ RequestAccounted(j.msg) /\ k \in Calls /\ n \in Nat
    BY JobFacts DEF RestInv
  <1>2. AgentInv' /\ Loaded' = Loaded /\ file' = file
    BY QueryKeepsAgent DEF ReadGroup, End, RestInv, AgentInv
  <1>3. HistoriesFollow
    BY <1>2, NothingHappens DEF ReadGroup
  <1>4. CASE End(j, "error", {})
    BY <1>2, <1>3, <1>4, ErrorKeepsClients DEF RestInv
  <1>5. CASE id \in Ids(Loaded) /\ End(j, "ok", {ById(Loaded, id)})
    <2>1. PICK g : g = ById(Loaded, id)
      OBVIOUS
    <2>2. g \in Loaded.groups /\ g.id = id /\ g \in Group
      BY <1>5, <2>1, ByIdIsStored, LoadedWellFormed
      DEF RestInv, AgentInv, WellFormed, DbObj
    <2>3. CASE n = 1
      <3>1. /\ request[k].op \in {"READ", "RESOLVE"}
            /\ id \in Narrowed(request[k].id)
        BY <2>3, JobFacts, RequestFacts DEF RestInv, ReadGroup
      <3>2. ~Lists(k) /\ ~Awaits(k, n)'
        BY <3>1, <1>3 DEF Lists, Awaits, HistoriesFollow
      <3>3. AnswerFits(k, n, {g})
        BY <2>2, <3>1, <3>2 DEF AnswerFits, Fits, Narrowed
      <3>4. RemovalTrue(k, {g})'
        BY <1>3, <3>1 DEF RemovalTrue, HistoriesFollow
      <3>5. ReplyAccounted([corr |-> j.msg.corr, status |-> "ok", out |-> {g}])'
        BY <3>2 DEF ReplyAccounted
      <3> QED  BY <1>2, <1>3, <1>5, <2>1, <3>3, <3>4, <3>5, ReplyKeepsClients
               DEF RestInv
    <2>4. CASE n # 1
      <3>1. Lists(k) /\ n > 1
        BY <2>4, JobFacts DEF RestInv
      <3>2. AnswerFits(k, n, {g})
        BY <2>2, <2>4, <3>1 DEF AnswerFits
      <3>3. RemovalTrue(k, {g})'
        BY <1>3, <3>1 DEF RemovalTrue, HistoriesFollow, Lists
      <3>4. /\ kept'[k] \subseteq kept[k]
            /\ Awaits(k, n)' => g \in met'[k] /\ Awaits(k, n)
        BY <1>1, <1>2, <1>3, <2>2 DEF HistoriesFollow, Awaits, Lists
      <3>5. Awaits(k, n)' => Accounted(k, {g.id})'
        BY <1>1, <1>3, <2>2, <3>1, <3>4
        DEF RequestAccounted, Accounted, HistoriesFollow, OutIds
      <3>6. ReplyAccounted([corr |-> j.msg.corr, status |-> "ok", out |-> {g}])'
        <4>1. {a.id : a \in {g}} = {g.id}
          OBVIOUS
        <4> QED  BY <2>4, <3>4, <3>5, <4>1 DEF ReplyAccounted
      <3> QED  BY <1>2, <1>3, <1>5, <2>1, <3>2, <3>3, <3>6, ReplyKeepsClients
               DEF RestInv
    <2> QED  BY <2>3, <2>4
  <1> QED  BY <1>4, <1>5 DEF ReadGroup

LEMMA ListGroupsKeeps ==
    ASSUME RestInv, NEW j \in jobs, ListGroups(j)
    PROVE  RestInv'
  <1> DEFINE k == j.msg.corr.by
  <1>1. /\ k \in Calls /\ j.msg.corr.n = 1 /\ Lists(k)
    BY JobFacts DEF RestInv, ListGroups, Lists
  <1>2. AgentInv' /\ Loaded' = Loaded /\ file' = file
    BY QueryKeepsAgent DEF ListGroups, End, RestInv, AgentInv
  <1>3. HistoriesFollow
    BY <1>2, NothingHappens DEF ListGroups
  <1>4. PICK out : out = {[id |-> id] : id \in Ids(Loaded)}
    OBVIOUS
  <1>5. Ids(Loaded) \subseteq Nat /\ {a.id : a \in out} = Ids(Loaded)
    <2>1. Ids(Loaded) \subseteq Nat
      BY LoadedWellFormed DEF RestInv, AgentInv, WellFormed, DbObj, Group, Ids
    <2> DEFINE line(id) == [id |-> id]
    <2>2. out = {line(id) : id \in Ids(Loaded)} /\ \A id : line(id).id = id
      BY <1>4
    <2> HIDE DEF line
    <2>3. {a.id : a \in out} = Ids(Loaded)
      BY <2>2
    <2> QED  BY <2>1, <2>3
  <1>6. AnswerFits(k, 1, out)
    BY <1>1, <1>5 DEF AnswerFits
  <1>7. RemovalTrue(k, out)'
    BY <1>1, <1>3 DEF RemovalTrue, HistoriesFollow, Lists
  <1>8. kept'[k] \subseteq {a.id : a \in out}
    BY <1>1, <1>3, <1>5, <1>2 DEF HistoriesFollow
  <1>9. ReplyAccounted([corr |-> j.msg.corr, status |-> "ok", out |-> out])'
    BY <1>1, <1>8 DEF ReplyAccounted
  <1>10. ClientsInv'
    BY <1>1, <1>3, <1>4, <1>6, <1>7, <1>9, ReplyKeepsClients
    DEF RestInv, ListGroups
  <1> QED  BY <1>2, <1>10 DEF RestInv

LEMMA JobStepKeeps ==
    ASSUME RestInv, NEW j \in jobs, JobStep(j)
    PROVE  RestInv'
  <1>1. CASE LockThrows(j)
    <2>1. AgentInv' /\ Loaded' = Loaded /\ file' = file
      BY <1>1, UnchangedKeepsAgent DEF LockThrows
    <2>2. HistoriesFollow
      BY <1>1, <2>1, NothingHappens DEF LockThrows
    <2>3. ClientsInv'
      BY <1>1, <2>2, LossKeepsClients DEF LockThrows, busVars, RestInv
    <2> QED  BY <2>1, <2>3 DEF RestInv
  <1>2. CASE FallAsleep(j)
    <2>1. AgentInv' /\ Loaded' = Loaded /\ file' = file
      BY <1>2, UnchangedKeepsAgent DEF FallAsleep, MoveTo, RestInv, AgentInv
    <2>2. HistoriesFollow
      BY <1>2, <2>1, NothingHappens DEF FallAsleep
    <2>3. ClientsInv'
      BY <1>2, <2>2, MoveKeepsClients DEF FallAsleep, RestInv
    <2> QED  BY <2>1, <2>3 DEF RestInv
  <1> QED  BY <1>1, <1>2, CheckNameKeeps, SaveGroupKeeps, RemoveGroupKeeps,
              ReadGroupKeeps, ListGroupsKeeps DEF JobStep

-----------------------------------------------------------------------------
(* The calls *)

\* Call k becomes c, and replies are lost or handed over.
OnlyCall(k, c) ==
    /\ call' = [call EXCEPT ![k] = c]
    /\ request' = request /\ jobs' = jobs /\ replies' \subseteq replies
    /\ Loaded' = Loaded /\ file' = file
    /\ DOMAIN kept' = Calls /\ DOMAIN met' = Calls
    /\ \A b \in Calls : b # k => kept'[b] = kept[b] /\ met'[b] = met[b]

LEMMA OthersStay ==
    ASSUME ClientsInv, NEW k \in Calls, NEW c, OnlyCall(k, c), c.n >= call[k].n,
           c.n \in Nat
    PROVE  /\ call'[k] = c /\ request' \in Scenarios
           /\ call' = [b \in Calls |-> call'[b]]
           /\ \A b \in Calls : b # k =>
                 call'[b] = call[b] /\ CallOK(b)' /\ CallAccounted(b)'
           /\ \A m : MessageOK(m) => MessageOK(m)'
           /\ \A j \in jobs : JobOK(j)'
           /\ \A r \in replies : ReplyOK(r)'
           /\ \A b, out : RemovalTrue(b, out)' = RemovalTrue(b, out)
  <1>1. /\ call'[k] = c /\ \A b \in Calls : b # k => call'[b] = call[b]
        /\ call' = [b \in Calls |-> call'[b]]
        /\ call[k].n \in Nat
    BY DEF OnlyCall, ClientsInv, ShapesInv, CallOK
  <1>2. request' = request /\ request' \in Scenarios
    BY DEF OnlyCall, ClientsInv, ShapesInv
  <1>3. \A i : Used(i) => Used(i)'
    <2> SUFFICES ASSUME NEW i, Used(i) PROVE Used(i)'
      OBVIOUS
    <2>1. i \in [by : Calls, n : Nat] /\ i.n \in 1 .. call[i.by].n
      BY DEF Used
    <2>2. CASE i.by = k
      BY <1>1, <2>1, <2>2 DEF Used
    <2>3. CASE i.by # k
      BY <1>1, <2>1, <2>3 DEF Used
    <2> QED  BY <2>2, <2>3
  <1>4. \A b : Lists(b)' = Lists(b)
    BY <1>2 DEF Lists
  <1>5. \A m : MessageOK(m) => MessageOK(m)'
    BY <1>2, <1>3, <1>4 DEF MessageOK, Arguments, Narrowed
  <1>6. \A b, n, out : AnswerFits(b, n, out)' = AnswerFits(b, n, out)
    BY <1>2 DEF AnswerFits, Fits, Lists, Creates
  <1>7. \A r \in replies : ReplyOK(r)'
    BY <1>3, <1>6 DEF ReplyOK, ClientsInv, ShapesInv
  <1>8. ASSUME NEW b \in Calls, b # k PROVE CallOK(b)' /\ CallAccounted(b)'
    <2>1. call'[b] = call[b] /\ kept'[b] = kept[b] /\ met'[b] = met[b]
      BY <1>1, <1>8 DEF OnlyCall
    <2>2. CallOK(b)'
      BY <1>4, <1>6, <2>1 DEF CallOK, Done, ClientsInv, ShapesInv
    <2>3. CallAccounted(b)'
      BY <1>4, <2>1
      DEF CallAccounted, Done, Awaits, OutIds, OnlyCall, Ids, ClientsInv, ListsInv
    <2> QED  BY <2>2, <2>3
  <1>9. \A b, out : RemovalTrue(b, out)' = RemovalTrue(b, out)
    BY <1>2 DEF RemovalTrue, Gone, OnlyCall, Ids
  <1> QED  BY <1>1, <1>2, <1>5, <1>7, <1>8, <1>9
           DEF JobOK, ClientsInv, ShapesInv

\* A request or a reply to another call, or to an earlier request, is as
\* much accounted for as before.
LEMMA OthersAccounted ==
    ASSUME ClientsInv, NEW k \in Calls, NEW c, OnlyCall(k, c), c.n \in Nat,
           call[k].n \in Nat,
           \/ c.at # "waiting"
           \/ c.n > call[k].n
    PROVE  /\ \A m \in mailbox : RequestAccounted(m)'
           /\ \A j \in jobs : RequestAccounted(j.msg)'
           /\ \A r \in replies : ReplyAccounted(r)'
  <1>1. /\ call'[k] = c /\ \A b \in Calls : b # k => call'[b] = call[b]
        /\ \A b : Lists(b)' = Lists(b)
    BY DEF OnlyCall, ClientsInv, ShapesInv, Lists
  <1>2. \A b \in Calls : \A n, ids : b # k =>
           /\ Awaits(b, n)' = Awaits(b, n)
           /\ Accounted(b, ids)' = Accounted(b, ids)
           /\ kept'[b] = kept[b] /\ met'[b] = met[b]
    BY <1>1 DEF Awaits, Accounted, OutIds, OnlyCall
  <1>3. \A i : Used(i) /\ i.by = k => ~Awaits(k, i.n)'
    BY <1>1 DEF Used, Awaits
  <1>4. ASSUME NEW m, MessageOK(m), RequestAccounted(m)
        PROVE  RequestAccounted(m)'
    BY <1>2, <1>3, <1>4 DEF MessageOK, RequestAccounted, Used
  <1>5. ASSUME NEW r \in replies PROVE ReplyAccounted(r)'
    BY <1>2, <1>3 DEF ReplyOK, ReplyAccounted, Used, ClientsInv, ShapesInv, ListsInv
  <1> QED  BY <1>4, <1>5 DEF ClientsInv, ShapesInv, ListsInv, JobOK

\* The call is over.
LEMMA OverKeepsClients ==
    ASSUME ClientsInv, NEW k \in Calls, NEW c, OnlyCall(k, c),
           c.n = call[k].n, c.at = "over", mailbox' \subseteq mailbox,
           kept' = kept, met' = met,
           CallOK(k)', CallAccounted(k)', Done(k)' => RemovalTrue(k, c.out),
           Done(k)' =>
              /\ \A m \in mailbox : m.corr # Uuid(k, c.n)
              /\ \A j \in jobs : j.msg.corr # Uuid(k, c.n)
              /\ \A r \in replies' : r.corr # Uuid(k, c.n)
    PROVE  ClientsInv'
  <1>1. call[k].n \in Nat
    BY DEF ClientsInv, ShapesInv, CallOK
  <1>2. /\ call'[k] = c /\ call' = [b \in Calls |-> call'[b]]
        /\ \A b \in Calls : b # k => call'[b] = call[b]
    BY <1>1, OthersStay
  <1>3. jobs' = jobs /\ replies' \subseteq replies
    BY DEF OnlyCall
  <1>4. ShapesInv'
    BY <1>1, <1>3, OthersStay DEF ClientsInv, ShapesInv
  <1>5. ListsInv'
    <2>1. /\ \A m \in mailbox : RequestAccounted(m)'
          /\ \A j \in jobs : RequestAccounted(j.msg)'
          /\ \A r \in replies : ReplyAccounted(r)'
      BY <1>1, OthersAccounted
    <2>2. \A b \in Calls : CallAccounted(b)'
      BY <1>1, OthersStay
    <2> QED  BY <1>3, <2>1, <2>2 DEF ListsInv, OnlyCall
  <1>6. RemovedInv'
    <2>1. \A b, out : RemovalTrue(b, out)' = RemovalTrue(b, out)
      BY <1>1, OthersStay
    <2>2. \A b \in Calls : b # k => Done(b)' = Done(b)
      BY <1>2 DEF Done
    <2> QED  BY <1>2, <1>3, <2>1, <2>2 DEF ClientsInv, RemovedInv
  <1>7. ApartInv'
    <2>1. \A b \in Calls : Uuid(b, call'[b].n) = Uuid(b, call[b].n)
      BY <1>2
    <2>2. \A b \in Calls : b # k => Done(b)' = Done(b)
      BY <1>2 DEF Done
    <2>3. \A b \in Calls : Done(b)' =>
             /\ \A m \in mailbox : m.corr # Uuid(b, call[b].n)
             /\ \A j \in jobs : j.msg.corr # Uuid(b, call[b].n)
             /\ \A r \in replies' : r.corr # Uuid(b, call[b].n)
      BY <1>3, <2>2 DEF ClientsInv, ApartInv
    <2> QED  BY <1>3, <2>1, <2>3 DEF ClientsInv, ApartInv
  <1> QED  BY <1>4, <1>5, <1>6, <1>7 DEF ClientsInv

\* The call sends a request, with a number it has not used before.
LEMMA SendKeepsClients ==
    ASSUME ClientsInv, NEW k \in Calls, NEW c, NEW m, OnlyCall(k, c),
           c.n = call[k].n + 1, c.at = "waiting", ~Done(k),
           mailbox' = mailbox \union {m}, m.corr = Uuid(k, c.n),
           MessageOK(m)', RequestAccounted(m)', CallOK(k)', CallAccounted(k)'
    PROVE  ClientsInv'
  <1>1. call[k].n \in Nat /\ c.n \in Nat
    BY DEF ClientsInv, ShapesInv, CallOK
  <1>2. /\ call'[k] = c /\ call' = [b \in Calls |-> call'[b]]
        /\ \A b \in Calls : b # k => call'[b] = call[b]
    BY <1>1, OthersStay
  <1>3. jobs' = jobs /\ replies' \subseteq replies
    BY DEF OnlyCall
  <1>4. ShapesInv'
    BY <1>1, <1>3, OthersStay DEF ClientsInv, ShapesInv
  <1>5. ListsInv'
    <2>1. /\ \A p \in mailbox : RequestAccounted(p)'
          /\ \A j \in jobs : RequestAccounted(j.msg)'
          /\ \A r \in replies : ReplyAccounted(r)'
      BY <1>1, OthersAccounted
    <2>2. \A b \in Calls : CallAccounted(b)'
      BY <1>1, OthersStay
    <2> QED  BY <1>3, <2>1, <2>2 DEF ListsInv, OnlyCall
  <1>6. ~Done(k)' /\ \A b \in Calls : b # k => Done(b)' = Done(b)
    BY <1>2 DEF Done
  <1>7. RemovedInv'
    <2>1. \A b, out : RemovalTrue(b, out)' = RemovalTrue(b, out)
      BY <1>1, OthersStay
    <2> QED  BY <1>2, <1>3, <1>6, <2>1 DEF ClientsInv, RemovedInv
  <1>8. ApartInv'
    <2>1. \A i : Used(i) => i # Uuid(k, c.n)
      BY <1>1 DEF Used, Uuid
    <2>2. /\ \A p \in mailbox : p.corr # m.corr
          /\ \A j \in jobs : j.msg.corr # m.corr
          /\ \A r \in replies : r.corr # m.corr
      BY <2>1 DEF ClientsInv, ShapesInv, MessageOK, JobOK, ReplyOK
    <2>3. \A b \in Calls : b # k => Uuid(b, call[b].n) # m.corr
      BY DEF Uuid
    <2> QED  BY <1>2, <1>3, <1>6, <2>2, <2>3 DEF ClientsInv, ApartInv
  <1> QED  BY <1>4, <1>5, <1>7, <1>8 DEF ClientsInv

LEMMA AgentUntouched ==
    ASSUME RestInv, UNCHANGED <<storageVars, lifeVars, closed>>,
           jobs' \subseteq jobs \/ (Working /\ jobs' # {})
    PROVE  AgentInv' /\ Loaded' = Loaded /\ file' = file
  BY SameLoaded, SameStorage
  DEF RestInv, AgentInv, StorageInv, WellFormed, LifeTypeOK, Working,
      storageVars, lifeVars

LEMMA CallType ==
    ASSUME ClientsInv, NEW k \in Calls
    PROVE  /\ CallOK(k) /\ CallAccounted(k) /\ call[k].n \in Nat
           /\ call[k] \in [at : {"new", "waiting", "over"}, n : Nat,
                           todo : SUBSET Nat, out : {call[k].out},
                           status : {"none", "ok", "error"}]
           /\ DOMAIN call = Calls /\ request \in Scenarios
           /\ DOMAIN kept = Calls /\ DOMAIN met = Calls
  BY DEF ClientsInv, ShapesInv, ListsInv, CallOK

LEMMA MakeKeeps ==
    ASSUME RestInv, NEW k \in Calls, Make(k)
    PROVE  RestInv'
  <1> DEFINE c == [call[k] EXCEPT !.at = "waiting", !.n = @ + 1]
  <1>1. /\ CallOK(k) /\ CallAccounted(k) /\ call[k].at = "new"
        /\ call[k].n = 0 /\ call[k].out = {} /\ call[k].status = "none"
    BY CallType DEF RestInv, Make, CallOK
  <1>2. AgentInv' /\ Loaded' = Loaded /\ file' = file
    BY AgentUntouched DEF Make, poolVars
  <1>3. PICK arg \in Arguments(request[k]) :
           Send(k, request[k].op, arg, call[k])
    BY DEF Make
  <1>4. PICK m : m = [op |-> request[k].op, arg |-> arg, corr |-> Uuid(k, 1)]
    OBVIOUS
  <1>5. /\ m.op = request[k].op /\ m.arg = arg /\ m.corr = Uuid(k, 1)
        /\ m.corr.by = k /\ m.corr.n = 1
    BY <1>4 DEF Uuid
  <1>6. /\ call' = [call EXCEPT ![k] = c] /\ mailbox' = mailbox \union {m}
        /\ c.n = 1 /\ c.at = "waiting" /\ c.out = {} /\ c.status = "none"
        /\ c.todo = call[k].todo
    BY <1>1, <1>3, <1>4, CallType DEF Send, RestInv
  <1>7. OnlyCall(k, c)
    BY <1>2, <1>6, CallType DEF RestInv, OnlyCall, Make, poolVars
  <1>8. c \in [at : {"new", "waiting", "over"}, n : Nat, todo : SUBSET Nat,
               out : {c.out}, status : {"none", "ok", "error"}]
    <2>1. call[k] \in [at : {"new", "waiting", "over"}, n : Nat,
                       todo : SUBSET Nat, out : {call[k].out},
                       status : {"none", "ok", "error"}]
      BY CallType DEF RestInv
    <2>2. c.out = call[k].out /\ call[k].n + 1 \in Nat
      BY <1>1, <1>6
    <2> QED  BY <2>1, <2>2
  <1> HIDE DEF c
  <1>9. call'[k] = c /\ request' = request /\ Lists(k)' = Lists(k)
    BY <1>6, <1>7, CallType DEF RestInv, OnlyCall, Lists
  <1>10. MessageOK(m)'
    BY <1>5, <1>6, <1>9 DEF MessageOK, Used, Uuid, Arguments, Narrowed
  <1>11. RequestAccounted(m)'
    BY <1>5 DEF RequestAccounted
  <1>12. CallOK(k)'
    BY <1>6, <1>8, <1>9 DEF CallOK, Done
  <1>13. CallAccounted(k)'
    <2>1. /\ kept'[k] = IF Lists(k) THEN Ids(Loaded) ELSE {}
          /\ met'[k] = IF Lists(k) THEN Loaded.groups ELSE {}
      BY CallType DEF RestInv, Make
    <2> QED  BY <1>2, <1>6, <1>9, <2>1 DEF CallAccounted, Done, Ids
  <1>14. ClientsInv'
    BY <1>1, <1>5, <1>6, <1>7, <1>10, <1>11, <1>12, <1>13, SendKeepsClients
    DEF RestInv, Done
  <1> QED  BY <1>2, <1>14 DEF RestInv

\* A call that fails is told nothing.
LEMMA FailureKeepsClients ==
    ASSUME ClientsInv, NEW k \in Calls, call[k].at = "waiting", Fails(k),
           UNCHANGED <<request, kept, met, jobs, mailbox>>,
           replies' \subseteq replies, Loaded' = Loaded, file' = file
    PROVE  ClientsInv'
  <1> DEFINE c == [call[k] EXCEPT !.at = "over", !.status = "error"]
  <1>1. /\ call' = [call EXCEPT ![k] = c]
        /\ c.n = call[k].n /\ c.at = "over" /\ c.status = "error"
        /\ c.out = call[k].out /\ c.todo = call[k].todo
    BY CallType DEF Fails
  <1>2. OnlyCall(k, c)
    BY <1>1, CallType DEF OnlyCall
  <1>3. c \in [at : {"new", "waiting", "over"}, n : Nat, todo : SUBSET Nat,
               out : {c.out}, status : {"none", "ok", "error"}]
    BY <1>1, CallType
  <1> HIDE DEF c
  <1>4. call'[k] = c /\ Lists(k)' = Lists(k) /\ ~Done(k)'
    BY <1>1, CallType DEF Lists, Done
  <1>5. CallOK(k)'
    BY <1>1, <1>3, <1>4, CallType DEF CallOK
  <1>6. CallAccounted(k)'
    BY <1>1, <1>4, CallType DEF CallAccounted, Awaits, Ids
  <1> QED  BY <1>1, <1>2, <1>4, <1>5, <1>6, OverKeepsClients

LEMMA GiveUpKeeps ==
    ASSUME RestInv, NEW k \in Calls, GiveUp(k)
    PROVE  RestInv'
  <1>1. AgentInv' /\ Loaded' = Loaded /\ file' = file
    BY AgentUntouched DEF GiveUp, poolVars
  <1>2. ClientsInv'
    BY <1>1, FailureKeepsClients DEF GiveUp, RestInv, busVars, poolVars
  <1> QED  BY <1>1, <1>2 DEF RestInv

\* A call that is handed its answer.
Answered(k, r) ==
    /\ call[k].at = "waiting"
    /\ r \in replies /\ r.status = "ok" /\ r.corr = Uuid(k, call[k].n)
    /\ replies' = replies \ {r}
    /\ UNCHANGED <<request, kept, met, jobs>>
    /\ Loaded' = Loaded /\ file' = file

LEMMA AnswerFacts ==
    ASSUME ClientsInv, NEW k \in Calls, NEW r, Answered(k, r)
    PROVE  /\ AnswerFits(k, call[k].n, r.out) /\ RemovalTrue(k, r.out)
           /\ Lists(k) => /\ ReplyAccounted(r) /\ r.corr.by = k
                          /\ r.corr.n = call[k].n /\ Awaits(k, call[k].n)
           /\ \A m \in mailbox : m.corr # Uuid(k, call[k].n)
           /\ \A j \in jobs : j.msg.corr # Uuid(k, call[k].n)
           /\ \A s \in replies' : s.corr # Uuid(k, call[k].n)
  <1>1. r.corr.by = k /\ r.corr.n = call[k].n
    BY DEF Answered, Uuid
  <1> QED  BY <1>1 DEF Answered, ClientsInv, ShapesInv, RemovedInv, ListsInv,
                       ApartInv, ReplyOK, Awaits

\* A call succeeds with an answer that fits, and for a list has all it must.
LEMMA SuccessKeepsClients ==
    ASSUME ClientsInv, NEW k \in Calls, NEW r, Answered(k, r), NEW out,
           Succeeds(k, out), mailbox' = mailbox,
           AnswerFits(k, 2, out), RemovalTrue(k, out),
           Lists(k) => /\ out \subseteq met[k]
                       /\ kept[k] \subseteq {g.id : g \in out}
    PROVE  ClientsInv'
  <1> DEFINE c == [call[k] EXCEPT !.at = "over", !.status = "ok", !.out = out]
  <1>1. /\ call' = [call EXCEPT ![k] = c]
        /\ c.n = call[k].n /\ c.at = "over" /\ c.status = "ok"
        /\ c.out = out /\ c.todo = call[k].todo
    BY CallType DEF Succeeds
  <1>2. OnlyCall(k, c)
    BY <1>1, CallType DEF OnlyCall, Answered
  <1>3. c \in [at : {"new", "waiting", "over"}, n : Nat, todo : SUBSET Nat,
               out : {c.out}, status : {"none", "ok", "error"}]
    BY <1>1, CallType
  <1> HIDE DEF c
  <1>4. call'[k] = c /\ request' = request /\ Lists(k)' = Lists(k)
    BY <1>1, CallType DEF Lists, Answered
  <1>5. AnswerFits(k, 2, out)'
    BY <1>4 DEF AnswerFits, Fits, Creates
  <1>6. CallOK(k)'
    BY <1>1, <1>3, <1>4, <1>5, CallType DEF CallOK, AnswerFits
  <1>7. CallAccounted(k)'
    BY <1>1, <1>4, CallType DEF CallAccounted, Awaits, OutIds, Ids, Answered
  <1> QED  BY <1>1, <1>2, <1>6, <1>7, AnswerFacts, OverKeepsClients DEF Answered

\* A list that has an answer has the groups of the answers before, and will
\* ask for the rest.
LEMMA CollectedFacts ==
    ASSUME ClientsInv, NEW k \in Calls, NEW r, Answered(k, r), Lists(k),
           NEW c, c = Collected(call[k], r)
    PROVE  /\ c \in [at : {"waiting"}, n : {call[k].n}, todo : SUBSET Nat,
                     out : {c.out}, status : {"none"}]
           /\ c.out \subseteq Group /\ c.out \subseteq met[k]
           /\ kept[k] \subseteq {g.id : g \in c.out} \union c.todo
  <1>1. /\ CallOK(k) /\ CallAccounted(k) /\ call[k].at = "waiting"
        /\ call[k].status = "none" /\ call[k].n > 0
        /\ call[k].out \subseteq Group /\ call[k].out \subseteq met[k]
    BY CallType DEF Answered, CallOK, CallAccounted
  <1>2. CASE call[k].n = 1
    <2>1. c = [call[k] EXCEPT !.todo = {a.id : a \in r.out}]
      BY <1>2 DEF Collected
    <2>2. {a.id : a \in r.out} \subseteq Nat
      BY <1>2, AnswerFacts DEF AnswerFits
    <2>3. kept[k] \subseteq {a.id : a \in r.out}
      BY <1>2, AnswerFacts DEF ReplyAccounted, Answered
    <2>4. call[k] \in [at : {"waiting"}, n : {call[k].n}, todo : SUBSET Nat,
                       out : {call[k].out}, status : {"none"}]
      BY <1>1, CallType
    <2>5. /\ c.todo = {a.id : a \in r.out} /\ c.out = call[k].out
          /\ c \in [at : {"waiting"}, n : {call[k].n}, todo : SUBSET Nat,
                    out : {c.out}, status : {"none"}]
      BY <2>1, <2>2, <2>4
    <2> QED  BY <1>1, <2>3, <2>5
  <1>3. CASE call[k].n # 1
    <2>1. c = [call[k] EXCEPT !.out = call[k].out \union r.out]
      BY <1>3 DEF Collected
    <2>2. r.out \subseteq Group
      BY <1>3, AnswerFacts DEF AnswerFits
    <2>3. /\ r.out \subseteq met[k]
          /\ kept[k] \subseteq OutIds(k) \union call[k].todo
                                 \union {a.id : a \in r.out}
      BY <1>3, AnswerFacts DEF ReplyAccounted, Accounted, Answered
    <2>4. call[k] \in [at : {"waiting"}, n : {call[k].n}, todo : SUBSET Nat,
                       out : {call[k].out}, status : {"none"}]
      BY <1>1, CallType
    <2>5. /\ c.todo = call[k].todo /\ c.out = call[k].out \union r.out
          /\ c \in [at : {"waiting"}, n : {call[k].n}, todo : SUBSET Nat,
                    out : {c.out}, status : {"none"}]
      BY <2>1, <2>4
    <2> QED  BY <1>1, <2>2, <2>3, <2>5 DEF OutIds
  <1> QED  BY <1>2, <1>3

LEMMA NextRequestKeepsClients ==
    ASSUME ClientsInv, NEW k \in Calls, NEW r, Answered(k, r), Lists(k),
           NEW c, c = Collected(call[k], r),
           NEW id \in c.todo,
           Send(k, "READ", id, [c EXCEPT !.todo = @ \ {id}])
    PROVE  ClientsInv'
  <1>1. /\ c \in [at : {"waiting"}, n : {call[k].n}, todo : SUBSET Nat,
                  out : {c.out}, status : {"none"}]
        /\ c.out \subseteq Group /\ c.out \subseteq met[k]
        /\ kept[k] \subseteq {g.id : g \in c.out} \union c.todo
        /\ CallOK(k) /\ CallAccounted(k) /\ call[k].n \in Nat /\ call[k].n > 0
        /\ call[k].at = "waiting" /\ call[k].status = "none"
    BY CollectedFacts, CallType DEF Answered, CallOK
  <1>2. PICK d : d = [c EXCEPT !.todo = c.todo \ {id}, !.n = call[k].n + 1]
    OBVIOUS
  <1>3. /\ d \in [at : {"waiting"}, n : {call[k].n + 1}, todo : SUBSET Nat,
                  out : {c.out}, status : {"none"}]
        /\ d.todo = c.todo \ {id} /\ d.at = "waiting" /\ d.n = call[k].n + 1
        /\ d.out = c.out /\ d.status = "none"
    BY <1>1, <1>2
  <1>4. PICK m : m = [op |-> "READ", arg |-> id, corr |-> Uuid(k, d.n)]
    OBVIOUS
  <1>5. /\ m.op = "READ" /\ m.arg = id /\ m.corr = Uuid(k, d.n)
        /\ m.corr.by = k /\ m.corr.n = d.n
    BY <1>4 DEF Uuid
  <1>6. call' = [call EXCEPT ![k] = d] /\ mailbox' = mailbox \union {m}
    <2> DEFINE e == [c EXCEPT !.todo = @ \ {id}]
    <2>1. e.n = call[k].n
      BY <1>1
    <2>2. [e EXCEPT !.at = "waiting", !.n = @ + 1] = d
      BY <1>1, <1>2
    <2> QED  BY <1>3, <1>4, <2>1, <2>2 DEF Send
  <1>7. OnlyCall(k, d)
    BY <1>6, CallType DEF OnlyCall, Answered
  <1>8. /\ call'[k] = d /\ request' = request /\ Lists(k)'
        /\ kept' = kept /\ met' = met /\ Loaded' = Loaded
    BY <1>6, CallType DEF Lists, Answered
  <1>9. MessageOK(m)'
    BY <1>1, <1>3, <1>5, <1>8 DEF MessageOK, Used, Uuid
  <1>10. RequestAccounted(m)'
    BY <1>1, <1>3, <1>5, <1>8 DEF RequestAccounted, Accounted, OutIds
  <1>11. CallOK(k)'
    BY <1>1, <1>3, <1>8 DEF CallOK, Done
  <1>12. CallAccounted(k)'
    BY <1>1, <1>3, <1>8 DEF CallAccounted, Done, Awaits, Ids
  <1> QED  BY <1>1, <1>3, <1>5, <1>6, <1>7, <1>9, <1>10, <1>11, <1>12,
              SendKeepsClients DEF Done

LEMMA AnswerKeepsClients ==
    ASSUME ClientsInv, NEW k \in Calls, NEW r \in replies,
           call[k].at = "waiting", r.corr = Uuid(k, call[k].n), Answer(k, r),
           replies' = replies \ {r}, Loaded' = Loaded, file' = file,
           UNCHANGED <<request, kept, met, jobs>>
    PROVE  ClientsInv'
  <1>1. CASE Fails(k) /\ UNCHANGED mailbox
    BY <1>1, FailureKeepsClients
  <1>2. CASE r.status = "ok" /\ ~Lists(k) /\ Succeeds(k, r.out)
             /\ UNCHANGED mailbox
    <2>1. Answered(k, r)
      BY <1>2 DEF Answered
    <2>2. AnswerFits(k, 2, r.out) /\ RemovalTrue(k, r.out)
      BY <1>2, <2>1, AnswerFacts DEF AnswerFits
    <2> QED  BY <1>2, <2>1, <2>2, SuccessKeepsClients
  <1>3. CASE r.status = "ok" /\ Lists(k) /\ AskNext(k, Collected(call[k], r))
    <2>1. Answered(k, r)
      BY <1>3 DEF Answered
    <2>2. PICK c : c = Collected(call[k], r)
      OBVIOUS
    <2>3. /\ c.out \subseteq Group /\ c.out \subseteq met[k]
          /\ kept[k] \subseteq {g.id : g \in c.out} \union c.todo
          /\ c.todo \subseteq Nat
      BY <1>3, <2>1, <2>2, CollectedFacts
    <2>4. CASE c.todo = {} /\ Succeeds(k, c.out) /\ UNCHANGED mailbox
      <3>1. PICK out : out = c.out
        OBVIOUS
      <3>2. AnswerFits(k, 2, out) /\ RemovalTrue(k, out)
        BY <1>3, <2>3, <3>1 DEF AnswerFits, RemovalTrue, Lists
      <3> QED  BY <2>1, <2>3, <2>4, <3>1, <3>2, SuccessKeepsClients
    <2>5. CASE c.todo # {} /\ ~(Succeeds(k, c.out) /\ c.todo = {})
      <3> DEFINE id == CHOOSE i \in c.todo : \A j \in c.todo : i =< j
      <3>1. id \in c.todo
        BY <2>3, <2>5, LeastId
      <3>2. Send(k, "READ", id, [c EXCEPT !.todo = @ \ {id}])
        BY <1>3, <2>2, <2>5 DEF AskNext
      <3> HIDE DEF id
      <3> QED  BY <1>3, <2>1, <2>2, <3>1, <3>2, NextRequestKeepsClients
    <2> QED  BY <1>3, <2>2, <2>4, <2>5 DEF AskNext
  <1> QED  BY <1>1, <1>2, <1>3 DEF Answer

LEMMA HandOverKeeps ==
    ASSUME RestInv, NEW k \in Calls, NEW r \in replies, HandOver(k, r)
    PROVE  RestInv'
  <1>1. AgentInv' /\ Loaded' = Loaded /\ file' = file
    BY AgentUntouched DEF HandOver, poolVars
  <1>2. CASE r.corr = Uuid(k, call[k].n) /\ Answer(k, r)
    BY <1>1, <1>2, AnswerKeepsClients DEF HandOver, RestInv, poolVars
  <1>3. CASE UNCHANGED <<call, mailbox>>
    <2>1. HistoriesFollow
      BY <1>1, <1>3, NothingHappens DEF HandOver, clientVars
    <2> QED  BY <1>1, <1>3, <2>1, LossKeepsClients DEF HandOver, RestInv, poolVars
  <1> QED  BY <1>2, <1>3 DEF HandOver

-----------------------------------------------------------------------------
(* The invariant and what follows from it *)

LEMMA RestInductive == RestInv /\ [Next]_vars => RestInv'
  <1> SUFFICES ASSUME RestInv, [Next]_vars PROVE RestInv'
    OBVIOUS
  <1>1. ASSUME NEW k \in Calls, Make(k) \/ GiveUp(k) PROVE RestInv'
    BY <1>1, MakeKeeps, GiveUpKeeps
  <1>2. ASSUME NEW k \in Calls, NEW r \in replies, HandOver(k, r)
        PROVE  RestInv'
    BY <1>2, HandOverKeeps
  <1>3. ASSUME NEW m \in mailbox, Receive(m) PROVE RestInv'
    <2>1. AgentInv'
      <3>1. CASE Exit /\ ProcessGone
        BY <3>1, LifeKeepsAgent DEF RestInv
      <3> QED  BY <1>3, <3>1, AgentUntouched DEF Receive, poolVars
    <2> QED  BY <1>3, <2>1, ReceiveKeepsClients DEF RestInv
  <1>4. ASSUME NEW j \in jobs, JobStep(j) PROVE RestInv'
    BY <1>4, JobStepKeeps
  <1>5. CASE MainRuns \/ Signalled \/ Shutdown \/ Exits \/ Killed
    <2>1. /\ AgentInv' /\ jobs' \subseteq jobs
          /\ ProcessGone \/ UNCHANGED storageVars
      BY <1>5, LifeKeepsAgent DEF RestInv
    <2>2. UNCHANGED busVars /\ (UNCHANGED clientVars \/ ProcessGone)
      BY <1>5 DEF MainRuns, Signalled, Shutdown, Exits, Killed, OutsideProcess
    <2>3. HistoriesFollow
      BY <2>1, <2>2, SameStorage, NothingHappens, GoneFollow
    <2> QED  BY <2>1, <2>2, <2>3, LossKeepsClients DEF RestInv, busVars
  <1>6. CASE Finished \/ UNCHANGED vars
    <2>1. UNCHANGED vars
      BY <1>6 DEF Finished
    <2>2. AgentInv' /\ Loaded' = Loaded /\ file' = file
      BY <2>1, AgentUntouched DEF vars, poolVars
    <2>3. HistoriesFollow
      BY <2>1, <2>2, NothingHappens DEF vars
    <2> QED  BY <2>1, <2>2, <2>3, LossKeepsClients
             DEF RestInv, vars, busVars, poolVars
  <1> QED  BY <1>1, <1>2, <1>3, <1>4, <1>5, <1>6 DEF Next

LEMMA RestInit == Init => RestInv
  <1> SUFFICES ASSUME Init PROVE RestInv
    OBVIOUS
  <1>1. AgentInv
    <2>1. StorageInv
      BY InitialFileAssumption, EmptyWellFormed
      DEF Init, StorageInit, StorageInv, WellFormed
    <2>2. LifeTypeOK
      <3>1. 0 \in 0 .. MaxTroubles
        BY TroublesAssumption
      <3> QED  BY <3>1 DEF Init, LifeInit, LifeTypeOK, Phases
    <2> QED  BY <2>1, <2>2 DEF Init, StorageInit, AgentInv, FileCurrent
  <1>2. \A k \in Calls : call[k] = NotMade /\ kept[k] = {} /\ met[k] = {}
    BY DEF Init
  <1>3. ShapesInv
    <2>1. ASSUME NEW k \in Calls PROVE CallOK(k)
      BY <1>2 DEF CallOK, NotMade, Done
    <2> QED  BY <2>1 DEF Init, ShapesInv
  <1>4. ApartInv /\ RemovedInv
    BY <1>2 DEF Init, ApartInv, RemovedInv, Done, NotMade
  <1>5. ListsInv
    BY <1>2 DEF Init, ListsInv, CallAccounted, Awaits, Done, NotMade
  <1> QED  BY <1>1, <1>3, <1>4, <1>5 DEF RestInv, ClientsInv

LEMMA RestInvariant == Spec => []RestInv
  <1>1. Init => RestInv
    BY RestInit
  <1> QED  BY <1>1, RestInductive, PTL DEF Spec

\* Every variable keeps its type, and there are jobs only in a process that
\* has its pool.
THEOREM RestTypeCorrect == Spec => []TypeOK
  <1>1. RestInv => TypeOK
    BY DEF RestInv, AgentInv, ClientsInv, ShapesInv, CallOK, TypeOK,
           StorageInv, StorageTypeOK, WellFormed
  <1>2. Spec => []RestInv
    BY RestInvariant
  <1> QED  BY <1>1, <1>2, PTL

\* A call that succeeds was given the answer to its own request, whatever
\* answers of other calls it was handed.
THEOREM RestAnswerIsOwn == Spec => []AnswerIsOwn
  <1>1. RestInv => AnswerIsOwn
    <2> SUFFICES ASSUME RestInv, NEW k \in Calls, Done(k), NEW a \in call[k].out
                 PROVE  Fits(request[k], a)
      BY DEF AnswerIsOwn
    <2>1. AnswerFits(k, 2, call[k].out)
      BY DEF RestInv, ClientsInv, ShapesInv, CallOK
    <2> QED  BY <2>1 DEF AnswerFits, Lists, Fits
  <1>2. Spec => []RestInv
    BY RestInvariant
  <1> QED  BY <1>1, <1>2, PTL

\* A list that succeeds misses no group that was there all along and has none
\* that never was.
THEOREM RestListIsComplete == Spec => []ListIsComplete
  <1>1. RestInv => ListIsComplete
    BY DEF RestInv, ClientsInv, ListsInv, CallAccounted, ListIsComplete, OutIds,
           Done
  <1>2. Spec => []RestInv
    BY RestInvariant
  <1> QED  BY <1>1, <1>2, PTL

\* What a client was told is removed stays away, across restarts and whatever
\* other writes fail, and its id is given to no other group.
THEOREM RestRemovedStaysGone == Spec => []RemovedStaysGone
  <1>1. RestInv => RemovedStaysGone
    BY DEF RestInv, ClientsInv, RemovedInv, RemovalTrue, Gone, GoneFrom,
           RemovedStaysGone
  <1>2. Spec => []RestInv
    BY RestInvariant
  <1> QED  BY <1>1, <1>2, PTL

-----------------------------------------------------------------------------
(* The calls see a registry *)

\* What the registry sees of the calls.
AskedIds == {request[k].id : k \in {c \in Calls : /\ request[c].op = "REMOVE"
                                                  /\ call[c].at # "new"}}
GoodReplies == {q \in replies : Creates(q.corr.by) /\ q.status = "ok"}
PromisedGroups == UNION {Told(r.corr.by, r.out) : r \in GoodReplies}
ConfirmedGroups == UNION {Told(k, call[k].out) :
                            k \in {c \in Calls : Creates(c) /\ Done(c)}}

\* The views are those of the refinement mapping.
LEMMA Views ==
    /\ Registry!registry = <<Loaded.lastId, Ids(Loaded), AskedIds,
                             PromisedGroups, ConfirmedGroups>>
    /\ Registry!Served = {p.client : p \in PromisedGroups \union ConfirmedGroups}
  BY DEF Registry!registry, Registry!Served, AskedIds, GoodReplies,
         PromisedGroups, ConfirmedGroups

LEMMA PromisedMember ==
    \A p : p \in PromisedGroups <=>
              \E r \in replies : \E g \in r.out :
                 /\ Creates(r.corr.by) /\ r.status = "ok"
                 /\ p = [client |-> r.corr.by, id |-> g.id]
  BY DEF PromisedGroups, GoodReplies, Told

LEMMA ConfirmedMember ==
    \A p : p \in ConfirmedGroups <=>
              \E k \in Calls : \E g \in call[k].out :
                 /\ Creates(k) /\ Done(k)
                 /\ p = [client |-> k, id |-> g.id]
  BY DEF ConfirmedGroups, Told

LEMMA SameResults ==
    ASSUME request' = request,
           \A k \in Calls : /\ Done(k)' = Done(k)
                            /\ Done(k) => call'[k].out = call[k].out
    PROVE  ConfirmedGroups' = ConfirmedGroups
  <1>1. \A p : p \in ConfirmedGroups' <=>
                  \E k \in Calls : \E g \in call'[k].out :
                     /\ Creates(k)' /\ Done(k)'
                     /\ p = [client |-> k, id |-> g.id]
    BY DEF ConfirmedGroups, Told
  <1>2. \A k : Creates(k)' = Creates(k)
    BY DEF Creates
  <1>3. \A p : p \in ConfirmedGroups' <=> p \in ConfirmedGroups
    BY <1>1, <1>2, ConfirmedMember
  <1> QED  BY <1>3

\* A step that leaves the groups and the calls' results alone may lose
\* replies.
LEMMA Unseen ==
    ASSUME Loaded'.lastId = Loaded.lastId, Ids(Loaded)' = Ids(Loaded),
           request' = request, ConfirmedGroups' = ConfirmedGroups,
           AskedIds' = AskedIds,
           \A r \in replies' : \/ r \in replies
                               \/ r.status # "ok"
                               \/ ~Creates(r.corr.by)
    PROVE  Registry!Next
  <1>1. \A k : Creates(k)' = Creates(k)
    BY DEF Creates
  <1>2. \A p : p \in PromisedGroups' <=>
                  \E r \in replies' : \E g \in r.out :
                     /\ Creates(r.corr.by)' /\ r.status = "ok"
                     /\ p = [client |-> r.corr.by, id |-> g.id]
    BY DEF PromisedGroups, GoodReplies, Told
  <1>3. \A p : p \in PromisedGroups' => p \in PromisedGroups
    BY <1>1, <1>2, PromisedMember
  <1>4. Registry!Forget
    BY <1>3 DEF Registry!Forget, AskedIds, GoodReplies, PromisedGroups,
                ConfirmedGroups
  <1> QED  BY <1>4 DEF Registry!Next

\* The same, when no call moves.
LEMMA UnseenByCalls ==
    ASSUME Loaded'.lastId = Loaded.lastId, Ids(Loaded)' = Ids(Loaded),
           UNCHANGED <<request, call>>,
           \A r \in replies' : \/ r \in replies
                               \/ r.status # "ok"
                               \/ ~Creates(r.corr.by)
    PROVE  Registry!Next
  <1>1. AskedIds' = AskedIds
    BY DEF AskedIds
  <1>2. ConfirmedGroups' = ConfirmedGroups
    BY SameResults DEF Done
  <1> QED  BY <1>1, <1>2, Unseen

LEMMA QuietEnd ==
    ASSUME Loaded'.lastId = Loaded.lastId, Ids(Loaded)' = Ids(Loaded),
           UNCHANGED <<request, call>>, NEW j \in jobs, NEW status, NEW out,
           End(j, status, out),
           status # "ok" \/ ~Creates(j.msg.corr.by)
    PROVE  Registry!Next
  <1>1. \A r \in replies' : \/ r \in replies
                            \/ r.status = status /\ r.corr = j.msg.corr
    BY DEF End
  <1> QED  BY <1>1, UnseenByCalls

\* Storing a new group is the registry's Create, storing one that has its id
\* is nothing to it.
LEMMA SaveGroupSeen ==
    ASSUME "write" \notin Faults, RestInv, NEW j \in jobs, SaveGroup(j)
    PROVE  Registry!Next
  <1> DEFINE k == j.msg.corr.by
             g == j.msg.arg
  <1>1. /\ k \in Calls /\ j.msg.corr.n = 1 /\ request \in Scenarios
        /\ request[k].op \in {"CREATE", "UPDATE"}
        /\ request[k].group = g /\ g \in Group
    BY JobFacts, RequestFacts DEF RestInv, SaveGroup, JobOK
  <1>2. WellFormed(Loaded) /\ Loaded' = AfterSave(Loaded, g)
    BY LoadedWellFormed, WrittenLoaded
    DEF RestInv, AgentInv, SaveGroup, NotWritten
  <1>3. request' = request /\ call' = call
    BY DEF SaveGroup, Noted
  <1>4. PICK s : s = Saved(Loaded, g)
    OBVIOUS
  <1>5. End(j, "ok", {s})
    BY <1>4 DEF SaveGroup, NotWritten, RestInv, AgentInv
  <1>6. CASE g.id # NoId
    <2>1. ~Creates(k)
      BY <1>1, <1>6 DEF Creates
    <2>2. Loaded'.lastId = Loaded.lastId /\ Ids(Loaded)' = Ids(Loaded)
      BY <1>1, <1>2, <1>6, SaveIds
    <2> QED  BY <1>3, <1>5, <2>1, <2>2, QuietEnd
  <1>7. CASE g.id = NoId
    <2>1. Creates(k) /\ ~Lists(k)
      BY <1>1, <1>7 DEF Creates, Lists
    <2>2. /\ Loaded'.lastId = Loaded.lastId + 1
          /\ Ids(Loaded)' = Ids(Loaded) \union {Loaded'.lastId}
          /\ s.id = Loaded'.lastId
      BY <1>1, <1>2, <1>4, <1>7, SaveIds
    <2>3. PICK new : new = [client |-> k, id |-> s.id]
      OBVIOUS
    <2>4. call[k].n \in Nat /\ call[k].n =< 1 /\ Used(j.msg.corr)
      BY <2>1, CallType, JobFacts DEF CallOK, RestInv, JobOK, MessageOK
    <2>5. call[k].n = 1 /\ j.msg.corr = Uuid(k, 1)
      BY <1>1, <2>4 DEF Used, Uuid
    <2>6. \A p \in PromisedGroups \union ConfirmedGroups : p.client # k
      <3>1. ASSUME NEW r \in replies, r.corr.by = k PROVE FALSE
        <4>1. Used(r.corr)
          BY DEF RestInv, ClientsInv, ShapesInv, ReplyOK
        <4>2. r.corr = Uuid(k, 1)
          BY <2>5, <3>1, <4>1 DEF Used, Uuid
        <4> QED  BY <2>5, <4>2 DEF RestInv, ClientsInv, ApartInv
      <3>2. ~Done(k)
        BY <1>1, <2>5 DEF RestInv, ClientsInv, ApartInv
      <3>3. \A p \in PromisedGroups : p.client # k
        BY <3>1, PromisedMember
      <3>4. \A p \in ConfirmedGroups : p.client # k
        BY <3>2, ConfirmedMember
      <3> QED  BY <3>3, <3>4
    <2>7. PromisedGroups' \in {PromisedGroups, PromisedGroups \union {new}}
      <3> DEFINE r == [corr |-> j.msg.corr, status |-> "ok", out |-> {s}]
      <3>1. replies' = replies \/ replies' = replies \union {r}
        BY <1>5 DEF End
      <3>2. /\ r.corr.by = k /\ r.status = "ok" /\ r.out = {s}
        OBVIOUS
      <3> HIDE DEF r
      <3>3. \A b : Creates(b)' = Creates(b)
        BY <1>3 DEF Creates
      <3>4. \A p : p \in PromisedGroups' <=>
                      \E q \in replies' : \E a \in q.out :
                         /\ Creates(q.corr.by)' /\ q.status = "ok"
                         /\ p = [client |-> q.corr.by, id |-> a.id]
        BY DEF PromisedGroups, GoodReplies, Told
      <3>5. CASE replies' = replies
        <4>1. \A p : p \in PromisedGroups' <=> p \in PromisedGroups
          BY <3>3, <3>4, <3>5, PromisedMember
        <4> QED  BY <4>1
      <3>6. CASE replies' = replies \union {r}
        <4>1. \A p : p \in PromisedGroups'
                        <=> p \in PromisedGroups \/ p = new
          BY <2>1, <2>3, <3>2, <3>3, <3>4, <3>6, PromisedMember
        <4> QED  BY <4>1
      <3> QED  BY <3>1, <3>5, <3>6
    <2>8. ConfirmedGroups' = ConfirmedGroups
      BY <1>3, SameResults DEF Done
    <2>9. AskedIds' = AskedIds
      BY <1>3 DEF AskedIds
    <2>10. k \notin {p.client : p \in PromisedGroups \union ConfirmedGroups}
      BY <2>6
    <2>11. Registry!Create(k)
      BY <2>2, <2>3, <2>7, <2>8, <2>9, <2>10
      DEF Registry!Create, Registry!Served, AskedIds, GoodReplies,
          PromisedGroups, ConfirmedGroups
    <2> QED  BY <1>1, <2>11 DEF Registry!Next
  <1> QED  BY <1>6, <1>7

LEMMA RemoveGroupSeen ==
    ASSUME "write" \notin Faults, RestInv, NEW j \in jobs, RemoveGroup(j)
    PROVE  Registry!Next
  <1> DEFINE k == j.msg.corr.by
             id == j.msg.arg
             line(ok) == [id |-> id, ok |-> ok]
  <1>1. /\ k \in Calls /\ j.msg.corr.n = 1 /\ request[k].op = "REMOVE"
        /\ request[k].id = id
    BY JobFacts, RequestFacts DEF RestInv, RemoveGroup
  <1>2. ~Creates(k)
    BY <1>1 DEF Creates
  <1>3. CASE /\ id \in Ids(Loaded)
             /\ Written(AfterRemove(Loaded, id)) /\ Noted(AfterRemove(Loaded, id))
             /\ End(j, "ok", {line(TRUE)})
    <2>1. WellFormed(Loaded) /\ Loaded' = AfterRemove(Loaded, id)
      BY <1>3, LoadedWellFormed, WrittenLoaded DEF RestInv, AgentInv
    <2>2. /\ Loaded'.lastId = Loaded.lastId
          /\ Ids(Loaded)' = Ids(Loaded) \ {id}
      BY <2>1, RemoveIds
    <2>3. request' = request /\ call' = call
      BY <1>3 DEF Noted
    <2>4. id \in AskedIds
      <3>1. call[k].at # "new"
        BY <1>1, CallType, JobFacts
        DEF RestInv, JobOK, MessageOK, Used, CallOK
      <3> QED  BY <1>1, <3>1 DEF AskedIds
    <2>5. AskedIds' = AskedIds
      BY <2>3 DEF AskedIds
    <2>6. ConfirmedGroups' = ConfirmedGroups
      BY <2>3, SameResults DEF Done
    <2>7. PromisedGroups' = PromisedGroups
      <3>1. \A r \in replies' : r \in replies \/ r.corr.by = k
        BY <1>3 DEF End
      <3>2. replies \subseteq replies' /\ \A b : Creates(b)' = Creates(b)
        BY <1>3, <2>3 DEF End, Creates
      <3>3. \A p : p \in PromisedGroups' <=>
                      \E q \in replies' : \E a \in q.out :
                         /\ Creates(q.corr.by)' /\ q.status = "ok"
                         /\ p = [client |-> q.corr.by, id |-> a.id]
        BY DEF PromisedGroups, GoodReplies, Told
      <3>4. \A p : p \in PromisedGroups' <=> p \in PromisedGroups
        BY <1>2, <3>1, <3>2, <3>3, PromisedMember
      <3> QED  BY <3>4
    <2>8. Registry!Remove(id)
      BY <1>3, <2>2, <2>4, <2>5, <2>6, <2>7
      DEF Registry!Remove, AskedIds, GoodReplies, PromisedGroups, ConfirmedGroups
    <2> QED  BY <1>3, <2>8 DEF Registry!Next
  <1>4. CASE Query /\ UNCHANGED clientVars /\ End(j, "ok", {line(FALSE)})
    <2>1. Loaded' = Loaded /\ request' = request /\ call' = call
      BY <1>4, QueryLoaded DEF clientVars
    <2> HIDE DEF line
    <2> QED  BY <1>2, <1>4, <2>1, QuietEnd DEF Ids
  <1> QED  BY <1>3, <1>4 DEF RemoveGroup, NotWritten, RestInv, AgentInv

LEMMA JobStepSeen ==
    ASSUME "write" \notin Faults, RestInv, NEW j \in jobs, JobStep(j)
    PROVE  Registry!Next
  <1> DEFINE k == j.msg.corr.by
             n == j.msg.corr.n
  <1>1. CASE CheckName(j)
    <2>1. Loaded' = Loaded /\ request' = request /\ call' = call
      BY <1>1, QueryLoaded, SameStorage DEF CheckName, clientVars
    <2>2. CASE End(j, "error", {})
      BY <2>1, <2>2, QuietEnd DEF Ids
    <2>3. CASE MoveTo(j, "checked")
      BY <2>1, <2>3, UnseenByCalls DEF Ids, busVars, MoveTo
    <2> QED  BY <1>1, <2>2, <2>3 DEF CheckName
  <1>2. CASE ReadGroup(j)
    <2>1. Loaded' = Loaded /\ request' = request /\ call' = call
      BY <1>2, QueryLoaded DEF ReadGroup, clientVars
    <2>2. ~Creates(k)
      BY <1>2, JobFacts DEF RestInv, ReadGroup, Creates, Lists
    <2>3. PICK st, out : End(j, st, out)
      BY <1>2 DEF ReadGroup
    <2> QED  BY <2>1, <2>2, <2>3, QuietEnd DEF Ids
  <1>3. CASE ListGroups(j)
    <2>1. Loaded' = Loaded /\ request' = request /\ call' = call
      BY <1>3, QueryLoaded DEF ListGroups, clientVars
    <2>2. ~Creates(k)
      BY <1>3, JobFacts DEF RestInv, ListGroups, Creates
    <2>3. PICK out : End(j, "ok", out)
      BY <1>3 DEF ListGroups
    <2> QED  BY <2>1, <2>2, <2>3, QuietEnd DEF Ids
  <1>4. CASE LockThrows(j) \/ FallAsleep(j)
    <2>1. Loaded' = Loaded
      BY <1>4, SameStorage DEF LockThrows, FallAsleep
    <2> QED  BY <1>4, <2>1, UnseenByCalls
             DEF LockThrows, FallAsleep, MoveTo, Ids, clientVars, busVars
  <1> QED  BY <1>1, <1>2, <1>3, <1>4, SaveGroupSeen, RemoveGroupSeen DEF JobStep

LEMMA MakeSeen ==
    ASSUME RestInv, NEW k \in Calls, Make(k)
    PROVE  Registry!Next
  <1>1. /\ call[k].at = "new" /\ call'[k].at = "waiting"
        /\ request' = request /\ replies' = replies /\ Loaded' = Loaded
        /\ \A b \in Calls : b # k => call'[b] = call[b]
    BY CallType, SameStorage DEF RestInv, Make, Send
  <1>2. ConfirmedGroups' = ConfirmedGroups
    BY <1>1, SameResults DEF Done
  <1>3. PromisedGroups' = PromisedGroups
    BY <1>1 DEF PromisedGroups, GoodReplies, Told, Creates
  <1>4. AskedIds \subseteq AskedIds'
    BY <1>1 DEF AskedIds
  <1>5. Registry!AskRemoval
    BY <1>1, <1>2, <1>3, <1>4
    DEF Registry!AskRemoval, Ids, AskedIds, GoodReplies, PromisedGroups,
        ConfirmedGroups
  <1> QED  BY <1>5 DEF Registry!Next

\* A call that was waiting goes on waiting or fails, or it has not created.
LEMMA CallMovesUnseen ==
    ASSUME ClientsInv, NEW k \in Calls, call[k].at = "waiting", NEW c,
           call' = [call EXCEPT ![k] = c], c.at # "new",
           c.status # "ok" \/ ~Creates(k),
           request' = request, Loaded' = Loaded, replies' \subseteq replies
    PROVE  Registry!Next
  <1>1. call'[k] = c /\ \A b \in Calls : b # k => call'[b] = call[b]
    BY CallType
  <1>2. AskedIds' = AskedIds
    BY <1>1 DEF AskedIds
  <1>3. \A b : Creates(b)' = Creates(b)
    BY DEF Creates
  <1>4. \A b \in Calls : Creates(b) => /\ Done(b)' = Done(b)
                                       /\ Done(b) => call'[b].out = call[b].out
    BY <1>1 DEF Done
  <1>5. \A p : p \in ConfirmedGroups' <=>
                  \E b \in Calls : \E g \in call'[b].out :
                     /\ Creates(b)' /\ Done(b)'
                     /\ p = [client |-> b, id |-> g.id]
    BY DEF ConfirmedGroups, Told
  <1>6. \A p : p \in ConfirmedGroups' <=> p \in ConfirmedGroups
    BY <1>3, <1>4, <1>5, ConfirmedMember
  <1>7. ConfirmedGroups' = ConfirmedGroups
    BY <1>6
  <1> QED  BY <1>2, <1>7, Unseen DEF Ids

LEMMA FailureSeen ==
    ASSUME ClientsInv, NEW k \in Calls, call[k].at = "waiting", Fails(k),
           request' = request, Loaded' = Loaded, replies' \subseteq replies
    PROVE  Registry!Next
  <1> DEFINE c == [call[k] EXCEPT !.at = "over", !.status = "error"]
  <1>1. /\ call' = [call EXCEPT ![k] = c]
        /\ c.at = "over" /\ c.status = "error"
    BY CallType DEF Fails
  <1> HIDE DEF c
  <1> QED  BY <1>1, CallMovesUnseen

\* A creator that is told of its group is the registry's Confirm.
LEMMA ConfirmSeen ==
    ASSUME ClientsInv, NEW k \in Calls, NEW r, Answered(k, r), Creates(k),
           Succeeds(k, r.out)
    PROVE  Registry!Next
  <1>1. /\ r.corr.by = k /\ r.status = "ok" /\ r \in replies
        /\ replies' = replies \ {r} /\ request' = request
        /\ call[k].at = "waiting" /\ ~Lists(k) /\ Loaded' = Loaded
    BY DEF Answered, Uuid, Creates, Lists
  <1>2. PICK g : r.out = {g}
    BY <1>1, AnswerFacts DEF AnswerFits
  <1>3. PICK p : p = [client |-> k, id |-> g.id]
    OBVIOUS
  <1>4. /\ call'[k].at = "over" /\ call'[k].status = "ok"
        /\ call'[k].out = r.out
        /\ \A b \in Calls : b # k => call'[b] = call[b]
    BY CallType DEF Succeeds
  <1>5. \A b : Creates(b)' = Creates(b)
    BY <1>1 DEF Creates
  <1>6. \A s \in replies : s.corr.by = k => s = r
    <2> SUFFICES ASSUME NEW s \in replies, s.corr.by = k PROVE s.corr = r.corr
      BY <1>1 DEF ClientsInv, ApartInv
    <2>1. Used(s.corr) /\ Used(r.corr) /\ call[k].n =< 1 /\ call[k].n \in Nat
      BY <1>1, CallType DEF ClientsInv, ShapesInv, ReplyOK, CallOK
    <2> QED  BY <1>1, <2>1 DEF Used
  <1>7. p \in PromisedGroups
    BY <1>1, <1>2, <1>3, PromisedMember
  <1>8. PromisedGroups' = PromisedGroups \ {p}
    <2>1. \A q : q \in PromisedGroups' <=>
                    \E s \in replies' : \E a \in s.out :
                       /\ Creates(s.corr.by)' /\ s.status = "ok"
                       /\ q = [client |-> s.corr.by, id |-> a.id]
      BY DEF PromisedGroups, GoodReplies, Told
    <2>2. \A q : q \in PromisedGroups' => q \in PromisedGroups /\ q # p
      BY <1>1, <1>3, <1>5, <1>6, <2>1, PromisedMember
    <2>3. \A q : q \in PromisedGroups /\ q # p => q \in PromisedGroups'
      BY <1>1, <1>2, <1>3, <1>5, <2>1, PromisedMember
    <2> QED  BY <2>2, <2>3
  <1>9. ConfirmedGroups' = ConfirmedGroups \union {p}
    <2>1. \A q : q \in ConfirmedGroups' <=>
                    \E b \in Calls : \E a \in call'[b].out :
                       /\ Creates(b)' /\ Done(b)'
                       /\ q = [client |-> b, id |-> a.id]
      BY DEF ConfirmedGroups, Told
    <2>2. /\ ~Done(k) /\ Done(k)'
          /\ \A b \in Calls : b # k => Done(b)' = Done(b)
      BY <1>1, <1>4 DEF Done
    <2>3. \A q : q \in ConfirmedGroups' <=> q \in ConfirmedGroups \/ q = p
      BY <1>2, <1>3, <1>4, <1>5, <2>1, <2>2, ConfirmedMember
    <2> QED  BY <2>3
  <1>10. AskedIds' = AskedIds
    BY <1>1, <1>4 DEF AskedIds
  <1>11. Registry!Confirm(p)
    BY <1>1, <1>7, <1>8, <1>9, <1>10
    DEF Registry!Confirm, Ids, AskedIds, GoodReplies, PromisedGroups,
        ConfirmedGroups
  <1> QED  BY <1>7, <1>11
           DEF Registry!Next, PromisedGroups, GoodReplies

LEMMA HandOverSeen ==
    ASSUME RestInv, NEW k \in Calls, NEW r \in replies, HandOver(k, r)
    PROVE  Registry!Next
  <1>1. /\ ClientsInv /\ Loaded' = Loaded /\ file' = file
        /\ request' = request
        /\ call[k].at = "waiting" /\ replies' = replies \ {r}
    BY SameStorage DEF RestInv, HandOver
  <1>2. CASE call' = call
    BY <1>1, <1>2, UnseenByCalls DEF Ids
  <1>3. CASE Fails(k)
    BY <1>1, <1>3, FailureSeen
  <1>4. CASE /\ r.corr = Uuid(k, call[k].n) /\ r.status = "ok" /\ ~Lists(k)
             /\ Succeeds(k, r.out)
    <2>1. CASE Creates(k)
      <3>1. Answered(k, r)
        BY <1>1, <1>4 DEF Answered, HandOver, poolVars
      <3> QED  BY <1>1, <1>4, <2>1, <3>1, ConfirmSeen
    <2>2. CASE ~Creates(k)
      <3> DEFINE c == [call[k] EXCEPT !.at = "over", !.status = "ok",
                                      !.out = r.out]
      <3>1. call' = [call EXCEPT ![k] = c] /\ c.at = "over"
        BY <1>1, <1>4, CallType DEF Succeeds
      <3> HIDE DEF c
      <3> QED  BY <1>1, <2>2, <3>1, CallMovesUnseen
    <2> QED  BY <2>1, <2>2
  <1>5. CASE /\ r.corr = Uuid(k, call[k].n) /\ r.status = "ok" /\ Lists(k)
             /\ AskNext(k, Collected(call[k], r))
    <2>1. ~Creates(k)
      BY <1>5 DEF Creates, Lists
    <2>2. Answered(k, r)
      BY <1>1, <1>5 DEF Answered, HandOver, poolVars
    <2>3. PICK d : d = Collected(call[k], r)
      OBVIOUS
    <2>4. d \in [at : {"waiting"}, n : {call[k].n}, todo : SUBSET Nat,
                 out : {d.out}, status : {"none"}]
      BY <1>1, <1>5, <2>2, <2>3, CollectedFacts
    <2>5. CASE Succeeds(k, d.out)
      <3> DEFINE c == [call[k] EXCEPT !.at = "over", !.status = "ok",
                                      !.out = d.out]
      <3>1. call' = [call EXCEPT ![k] = c] /\ c.at = "over"
        BY <1>1, <2>5, CallType DEF Succeeds
      <3> HIDE DEF c
      <3> QED  BY <1>1, <2>1, <3>1, CallMovesUnseen
    <2>6. ASSUME NEW id, Send(k, "READ", id, [d EXCEPT !.todo = @ \ {id}])
          PROVE  Registry!Next
      <3> DEFINE e == [d EXCEPT !.todo = @ \ {id}]
                 c == [e EXCEPT !.at = "waiting", !.n = @ + 1]
      <3>1. call' = [call EXCEPT ![k] = c]
        BY <2>6 DEF Send
      <3>2. c.at = "waiting"
        BY <2>4
      <3> HIDE DEF c
      <3> QED  BY <1>1, <2>1, <3>1, <3>2, CallMovesUnseen
    <2> QED  BY <1>5, <2>3, <2>5, <2>6 DEF AskNext
  <1> QED  BY <1>2, <1>3, <1>4, <1>5 DEF HandOver, Answer

LEMMA StepSeen ==
    ASSUME "write" \notin Faults
    PROVE  RestInv /\ [Next]_vars => [Registry!Next]_(Registry!registry)
  <1> SUFFICES ASSUME RestInv, [Next]_vars PROVE Registry!Next
    OBVIOUS
  <1>1. ASSUME NEW k \in Calls, Make(k) \/ GiveUp(k) PROVE Registry!Next
    <2>1. CASE GiveUp(k)
      BY <2>1, SameStorage, FailureSeen DEF GiveUp, RestInv, busVars
    <2> QED  BY <1>1, <2>1, MakeSeen
  <1>2. ASSUME NEW k \in Calls, NEW r \in replies, HandOver(k, r)
        PROVE  Registry!Next
    BY <1>2, HandOverSeen
  <1>3. ASSUME NEW m \in mailbox, Receive(m) PROVE Registry!Next
    <2>1. Loaded' = Loaded
      <3>1. CASE Exit /\ ProcessGone
        BY <3>1, LifeKeepsAgent DEF RestInv
      <3> QED  BY <1>3, <3>1, SameStorage DEF Receive
    <2> QED  BY <1>3, <2>1, UnseenByCalls
             DEF Receive, clientVars, ProcessGone, Noted, Ids
  <1>4. ASSUME NEW j \in jobs, JobStep(j) PROVE Registry!Next
    BY <1>4, JobStepSeen
  <1>5. CASE MainRuns \/ Signalled \/ Shutdown \/ Exits \/ Killed
    <2>1. Loaded' = Loaded
      BY <1>5, LifeKeepsAgent DEF RestInv
    <2>2. UNCHANGED <<request, call>> /\ UNCHANGED busVars
      BY <1>5 DEF MainRuns, Signalled, Shutdown, Exits, Killed, ProcessGone,
                  OutsideProcess, clientVars, Noted
    <2> QED  BY <2>1, <2>2, UnseenByCalls DEF busVars, Ids
  <1>6. CASE Finished \/ UNCHANGED vars
    <2>1. UNCHANGED vars
      BY <1>6 DEF Finished
    <2> QED  BY <2>1, SameStorage, UnseenByCalls
             DEF vars, clientVars, busVars, Ids
  <1> QED  BY <1>1, <1>2, <1>3, <1>4, <1>5, <1>6 DEF Next

LEMMA InitSeen == Init => Registry!Init
  <1> SUFFICES ASSUME Init PROVE Registry!Init
    OBVIOUS
  <1>1. Loaded.lastId \in Nat /\ Ids(Loaded) \subseteq 1 .. Loaded.lastId
    <2>1. WellFormed(Loaded)
      BY RestInit, LoadedWellFormed DEF RestInv, AgentInv
    <2> QED  BY <2>1 DEF WellFormed, DbObj, UniqueIds, Ids
  <1>2. \A k \in Calls : call[k].at = "new" /\ ~Done(k)
    BY DEF Init, NotMade, Done
  <1>3. AskedIds = {} /\ PromisedGroups = {} /\ ConfirmedGroups = {}
    BY <1>2, PromisedMember, ConfirmedMember DEF Init, AskedIds
  <1> QED  BY <1>1, <1>3
           DEF Registry!Init, AskedIds, GoodReplies, PromisedGroups,
               ConfirmedGroups

\* HTTP clients see a registry that does each change at once and forgets
\* none, although calls give up, answers are lost and misdirected, and the
\* agent is stopped, killed and started again.
THEOREM RestCallsSeeRegistry ==
    ASSUME "write" \notin Faults
    PROVE  Spec => CallsSeeRegistry
  <1>1. Init => Registry!Init
    BY InitSeen
  <1>2. Spec => []RestInv
    BY RestInvariant
  <1> QED  BY <1>1, <1>2, StepSeen, PTL
           DEF Spec, CallsSeeRegistry, Registry!Spec

=============================================================================
