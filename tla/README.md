# A TLA+ model of fty-automatic-group

The agent keeps *groups*: a name and rules that select assets.  Clients create,
update, remove, read and list groups over a message bus, ask which assets a
group selects, and the SRR service saves, restores and resets all of them.
This directory models the agent's own logic, checks it with TLC on small
instances and proves the core of it with TLAPS for all instances.

Paths below are relative to the root of the repository; `lib/` stands for
`server/src/lib/`.

## 1. The system

| Part | State | Operations | Correct when |
|---|---|---|---|
| Storage lock, `lib/mutex.cpp` | access mode, reader count (16 bits), a mutex and a condition variable, all process-wide statics; an exclusive `flock` per writer | `lock`, `unlock` for READ and WRITE | writers exclude writers and readers, nobody sleeps on an open lock, the lock opens again after every use |
| Group storage, `lib/storage.cpp` | the last id, the list of groups, whether the file was loaded; the YAML file, written in place | `byName`, `byId`, `ids`, `names`, `save`, `remove`, `removeByName`, `clear`, each under the storage's own mutex | ids identify groups, are never given twice, and survive a restart with their groups |
| Group jobs, `lib/jobs/*.cpp`, `lib/task.h` | one job per request on a thread of the pool | check the payload, (check the name,) lock, change, publish, unlock, reply | names are unique, events follow the changes, a list is of one moment, what was confirmed is stored, every request is answered |
| Resolve, `lib/jobs/resolve.cpp` | a recursion over rules; SQL text; two cached lists of link types | one query per condition, links by `byId`, one statement at the end | the assets selected are those the rules describe |
| Rules, `common/group.cpp` | none | `Group::check`, conversions | rules that are stored can be resolved |
| Save, restore, reset, `lib/jobs/srr*` | none of their own: sequences of other jobs | `save`, `restore`, `reset` | a backup has what was there, a restore brings it back, a reset leaves nothing |
| Server, `lib/server.cpp`, `server/src/main.cpp` | bus subscriptions, thread pool, whether it was asked to stop | dispatch by subject, start, stop, reload | every request becomes one job; the agent serves again after whatever ended it; a stop ends |
| Message bus wrapper, `common/message-bus.cpp` | a connection and a mutex | `send` (with a timeout of 10000), `publish`, `reply`, `subscribe` | an answer goes to the request it belongs to |
| REST handlers, `rest/src/*.cpp` | none | one HTTP call is one bus request; the list is one plus one per group | the HTTP answer is the job's, a list is complete, a call ends |
| Daemon, configuration, `lib/daemon.cpp`, `lib/config.cpp` | the configuration; signal handlers | daemonise, reload on SIGHUP, stop on SIGINT | a signal at any moment leaves an agent that serves or is started again |

How they interact.  `Server::process` and `Server::srrProcess` run on the bus's
thread and only push jobs into the pool.  A job calls the storage between
`lock()` and the end of a `lock_guard`; create and update look the name up
*before* that.  An event is published inside the lock, the reply is sent after
it.  Resolve takes no lock.  An SRR request runs list, read and create jobs one
after the other on its own thread, and reset a list followed by removals; each
takes the lock for itself.  The asset database is read only.  An HTTP call
connects to the bus for itself, but under the one name all calls share, sends a
request and waits for its answer; its thread knows nothing of the agent's
process, which systemd starts again whenever it ends.

What is hard here: the lock is written by hand from a mutex, a condition
variable, a counter and an `flock`, and steps outside its mutex; checks are made
before the lock; several storage calls make one operation; the file is written
in place, and the process may die at any moment; a failed `lock` or `unlock` may
leave the lock closed for good; only `job::Error` is caught; links between
groups may form a circle; negative conditions and links are composed as SQL
text; REST clients time out while their job goes on; and the process is stopped
with jobs running and messages arriving.  `PROJECT.json` lists each of these
hazards with its line and the property that watches it.

## 2. Modules

| Module | Models | Notes |
|---|---|---|
| `WriterLock` | what writers rely on: one holder, admitted after asking | abstract specification |
| `StorageMutex` | `lib/mutex.cpp` | `pc` is where a thread is between two releases of the mutex; implements `WriterLock` |
| `Storage` | `lib/storage.cpp`, with a file that is written whole or not at all | `db`, `inited`, `file`; every call is one step; `Written` and `NotWritten` are the two outcomes of `Impl::save` |
| `StorageFile` | `lib/storage.cpp`, with the order of the list and writes that stop halfway | implements `Storage` while no write does |
| `GroupJobs` | `lib/jobs/{create,update,remove,read,list}.cpp`, `lib/task.h`, `Server::process` | EXTENDS `Storage`, composes `StorageMutex` as `M`; `stage` is how far each worker is |
| `GroupLists` | `GroupJobs` with a note on the lock | EXTENDS `GroupJobs`; `overlapped` says that the lock was opened on a reader |
| `GroupRegistry` | what clients rely on: ids given once, groups that stay until someone asks for their removal | abstract specification, implemented by `GroupJobs` and `RestClients` |
| `Server` | `server/src/main.cpp`, start and stop of `lib/server.cpp`, signals of `lib/daemon.cpp`, systemd | `phase` is how far `main()` is |
| `RestClients` | `rest/src/`, `common/message-bus.cpp`, and the agent as they see it | EXTENDS `Storage` and `Server`, composes them with the calls, the messages and the jobs |
| `AssetQueries` | the queries of `lib/jobs/resolve.cpp` | operators over a constant asset database |
| `Resolve` | the walk of `groupSql`, `Resolve::run` | EXTENDS `Storage`; the stack of recursive calls beside jobs that change groups |
| `RuleMeaning` | nothing: the reference | what rules say of one element, by recursion over the rules |
| `Srr` | `lib/jobs/srr.cpp`, `lib/jobs/srr/` | EXTENDS `Storage`; the sequences of jobs beside other clients |
| `StorageMutexProofs`, `StorageProofs`, `StorageFileProofs`, `GroupJobsProofs`, `GroupRegistryProofs`, `ResolveProofs`, `SrrProofs`, `RestClientsProofs` | | the theorems |
| `MCStorageFile`, `MCGroupJobs`, `MCGroupLists`, `MCResolve`, `MCSrr`, `MCRestClients` | | the instances for TLC |

Definitions marked `MUTANT` are wrong variants of the definition that follows
them; no specification uses them.  Each shows that the property it belongs to
can fail.

### How state and actions correspond to the code

*StorageMutex.*  What `lock()` and `unlock()` do under `m_mxCurrentAccess` is
one step.  Two things happen outside it and have steps of their own: the two
`notify_all()` calls (`NotifyEntered`, `NotifyReleased`) and, in a READ
`lock()`, `m_activeReaders++` (`CountReader`).  The decrement and the test in
`unlock()` are one step: the increment of another thread between them gives the
outcome of its coming first.  `flock` says whose descriptor holds the file;
`Orphan` is one that is left behind when `flock(LOCK_UN)` fails.  A `lock()`
that throws is never followed by `unlock()`, because all callers use
`lock_guard`.

*Storage.*  `Loaded` is what any call finds: memory, or the file if nothing was
loaded.  `init()` sets its flag before it reads and its callers ignore its
error, so an unreadable file is an empty database, and so is one that could not
be read at that moment (`LoadFails`).  A save that cannot be written stays in
memory.

*StorageFile.*  The same calls on the list itself: a group that is appended
gets the last id plus one and keeps its place, so the list is a function from
places to groups, and `byId` and `save` take the lowest place that matches.
`Torn` is what a file reads as of which only the beginning was written.  `DbObj`
writes the last id first and then the groups, each with its id, its name and its
rules; a file that ends inside a number has a number with fewer digits
(`CutNumbers`), so of `id: 12` there may be left `id: 1`, and one that ends
before a name has a group without one (`CutGroups`).

*GroupJobs.*  `Take` is the step from the bus to the end of the payload check;
`CheckName` is the look-up before the lock; `LockStep`, `UnlockStep` and
`Escape` are the lock's; `SaveGroup`, `RemoveGroup`, `ReadGroup`, `ListIds` and
`ListGroup` are the storage calls of the handlers; `Notify` and `Reply` the bus
calls.  A removal takes its ids in turn, each with its event.

*GroupLists.*  Each step is one of `GroupJobs`; `overlapped` becomes true when a
reader that leaves takes the count to zero under one that `lock()` has let in,
and false when nobody is inside any more.

*Resolve.*  The rules of a group, a tree in the code, are a table here: rules
inside rules are named by their place in it (`IsRules`).  A frame of `stack` is
one call of `groupSql`: the place of its rules, the index of the condition it
looks at and the elements its SQL selects so far.  `Link` is `byGroupId`: one
`Storage::byId` and a recursive call.  A call that finds no stack left is the
end of the agent (`Overflow`).  `cause` is what the text of an error is about,
and `flaws` what is wrong with the SQL built so far, which shows when it is
executed: at once for a location, at the end (`Execute`) for all else.
`PassesCheck` is `Group::check` on structured rules, whose recursion is a
quantifier over the table, and other jobs save only what it accepts.

*GroupRegistry.*  `promised` are the groups that were made and whose creators are
still to be told.  In `GroupJobs` they are the groups of jobs that have saved and
not yet replied, in `RestClients` those in replies that are on their way; a lost
reply, a lost job and a restart are `Forget`, or a `Create` nobody is told of.

*Server.*  `phase` names the stretches of `main()` between which a signal or a
message makes a difference.  From `InstallHandlers` on SIGINT is `Server::stop`,
once; before and after it ends the process, as SIGTERM does at any time (`Die`).
The pool is destroyed before the bus: in `leaving` messages still reach
`Server::process`.

*RestClients.*  `Make`, `HandOver` and `GiveUp` are `MessageBus::send` seen from
the call; `Receive` is `Server::process`; the jobs' steps are those of
`GroupJobs`, with the checks of the group, the lock and the storage in one step
where nothing else can tell them apart.  `closed` says that a `lock()` has
thrown or an `unlock()` failed and the mode stays WRITE: whoever comes to his
`lock()` then falls `asleep`, and `ThreadPool::stop` waits for him.  A message
that comes when the pool is gone is lost or ends the process.  `n` counts the
requests of a call, so `Uuid(k, n)` is the correlation id of one request.
`HandOver` gives a reply to any call that waits, since all connect as
`automatic_group_rest`; a call drops what is not its own. `kept` and `met`
record what a list must and may show.

*Srr.*  `todo`, `queue` and `payload` are what the job has to read or remove, has
to restore, and has done; `create` in `op` is the moment in `utils::create`
between the look-up of the name and the save.  `closed` is as in `RestClients`;
all that needs the lock waits while it is.  `Decoded` are the groups that may
come out of a payload, and `restore` does not ask whether they are all.  A reset
may report FAILED after its removals, because it looks for each id in a line of
the reply (`lib/jobs/srr/utils.cpp:81`) and the library throws if it is not there.

### Abstractions

- Names and rules are model values, but in `Resolve`, where rules have their
  structure.  A text is the set of its words, which is as much of `LIKE` as the
  operators are used for.  In `GroupJobs` `Group::check` refuses one value,
  `BadRules`.
- The asset database is constant and is one that the other agents make
  (`DatabaseAssumption`): containers are the only locations, a virtual machine
  has one host, an asset one name and one subtype.
- Rules may ask what their SQL does not mean, and the code does not refuse it.
  `PlainlyAsked` leaves out the three forms: a link that excludes comes first
  (the run `resolve_first_isnot`); DOESNOTCONTAIN on a location (see below); IS
  NOT of a location that nothing is in, for which `byLocation` selects nothing
  instead of everything (`lib/jobs/resolve.cpp:230`).
- A value of a link is the number it is read as, or `NoNumber`, which the
  conversion reads as the id of no group or refuses by an exception; a text with a
  quote in it has the word `Quote`, and the SQL with it fails or selects anything.
- Links between groups may be any, those in a circle too, and `MaxDepth` calls
  fill the stack.  Rules nested that deep without a circle would as well; the
  instance has none.
- All modules but `StorageFile` take a file to be written whole or not at all,
  and all but it and `Storage` one that can be read.  What else a torn file does
  to them follows from what `StorageFile` says is left of it.
- `Srr` and `RestClients` have of the lock what outlasts a job, that it may be left
  closed, and leave out how it works.  Inside a section they let in what the
  lock keeps out, except that nobody writes beside a reset; list is one step.
- The SRR service asks one thing at a time: a second SRR request comes when the
  first has ended.  What it could do beside the first, create and remove, other
  clients do.
- In `RestClients` a job's last step and its reply are one step: a reply is on its
  way for as long as it likes.  Events are left out.  The SRR service, which is
  another client, is in `Srr`.
- `HandOver` and `Progress` stand for libraries that are not in the repository:
  that the bus may give a reply to any connection of a name, and that
  `ThreadPool::stop` lets running jobs end and may drop queued ones, is the
  weakest their use here allows.
- A stop that is fired before `wait()` is reached may be kept or lost.
- A resolve answers with the group whose assets it has; what they are is in
  `Resolve`.
- A request is delivered at most once; requests with an unknown subject, which
  `Server::process` drops, are left out.
- Logging, texts of errors and the serialisation are left out.

## 3. What TLC checks

| Run | Instance | Shows |
|---|---|---|
| `mutex_pass` | 3 threads, no failing call, fairness | `QuiescentIsOpen`: the lock is open when nobody is in it; `SomebodyEnters`: no deadlock of condition variable and modes |
| `mutex_faults` | 3 threads, `open`, `flock`, `close` fail, restarts | `WriterExclusion`, `ReadersCounted`, `ReadModeHasReader`, `NoLostWakeup`, and the refinement `ImplementsWriterLock` |
| `storage_file` | 2 names, ids up to 3 in base 2, writes that stop halfway, failing loads and writes, crashes | `IdsBelowLast`: no file has a group above its last id, so the next id is nobody's; `NoCallDuplicates`: no call makes two groups with one id |
| `jobs_pass` | 2 workers, 2 readers, 3 writers and a refused request, no faults, fairness | `SubscribersFollow`; `ListIsCurrent` until the lock is opened on a reader; `EveryRequestAnswered`, but for a request whose `lock()` throws |
| `jobs_crash` | 2 workers, 5 requests, crashes, failing bus and lock | `CreatedIdsDiffer`, `ConfirmedGroupsStay`, `IdsUnique`, `IdsNeverReused`, `CrashLosesNothing`, and the refinement `ImplementsRegistry` |
| `rest` | 3 HTTP calls in 3 combinations, 2 signals or crashes, failing lock, fairness | `AnswerIsOwn`, `ListIsComplete`, `RemovedStaysGone`, the refinement `CallsSeeRegistry`; `CallsEnd`; `ServesAgain` and `StopEnds`, but for jobs asleep in a closed lock |
| `resolve` | 8 assets, 3 groups, 300 inputs, one change by another job, which may close a circle of links | `AnswerIsMeaning`, `CheckedRulesResolve`, `ResolveEnds` |
| `srr` | 2 groups, 2 foreign payloads and one garbled, 2 changes by others, 3 requests, every fault | `BackupIsFaithful`, `RestoreIsExact`, `ResetRemovesAll`, `SrrEnds` |

The type invariant of each module is checked in its first run; that of `GroupJobs`
includes the one of `Storage`.

Four properties say *unless*, because without it the code does not have them:

- `EveryRequestAnswered` excepts a request whose `lock()` throws.  No system call
  need fail for that: after the overlap of `mutex_overlap` a second writer may
  find the `flock` held (`FlockFails`), and nobody catches its exception.
- `ListIsCurrent` excepts the time after that overlap, when a removal may run
  inside the second of two lists.
- `ResolveEnds` excepts links in a circle, which the recursion follows until
  its stack is full.  `Group::check` does not refuse them, and one update can
  make a group link to itself.
- `CheckedRulesResolve` excepts values.  `Group::check` asks for one and takes any:
  a link to what is no number, and a quote in a text, pass it and do not resolve.

And `SrrEnds`, `StopEnds` and `ServesAgain` except a closed lock.

Runs that show a disagreement between the code and what the repository says:

| Run | Property | What happens |
|---|---|---|
| `mutex_overlap` | `ReaderWriterExclusion` | A reader is admitted, another leaves before the first is counted, the mode opens, and a writer enters beside the reader. |
| `jobs_same_name` | `NamesUnique` | Two creations of one name both pass the look-up before the lock. |
| `jobs_update_removed` | `ReturnedIsStored` | An update of a group removed meanwhile is confirmed and announced, and stores nothing. |
| `resolve_first_isnot` | `AnswerIsMeaning` | "group ISNOT g" as the first condition selects the members of g. |

The same models show consequences that have no run of their own:

- With a failing `open`, `flock` or `close`, `QuiescentIsOpen` does not hold:
  `lock()` sets the mode to WRITE before it opens the file and does not reset
  it, `unlock()` returns before the reset, and no later `lock()` ever returns.
  No request that needs the lock has an answer then, a stop of the agent never
  ends because the pool waits for the jobs asleep, and it is not started again
  until somebody kills it.
- Of a torn file there may be left no group at all, with the last id 0 or without
  its last digits; or the first groups; or these and one more without a name,
  with other rules, or with the id of another group.  What follows are ids
  that are given twice (after a cut last id), two groups of one id of which
  `byId` and `save` find the first and `remove` drops both, and an update that
  changes the wrong one.  An id above the last id is not among them, since the
  last id is the first thing in the file: that is `IdsBelowLast`.
- A file that cannot be read at the first call is written over by the next save.
- A restore of a payload that cannot be decoded restores the beginning of it, or
  nothing, and reports SUCCESS.
- A creation that carries an unknown id stores nothing and is confirmed, for
  the same reason as the update.
- `GET` of the list fails as a whole when a group is removed between the list
  of ids and its turn.
- `DELETE` is 204 when the group was not there, and when its removal could not
  be written; in the second case the group is back after a restart.
  `RemovedStaysGone` is about removals whose line says so.  An id whose group
  could not be written is given again after a restart, so the calls see the
  registry with a file that can be written only, as `rest` has it.
- `GET` of an id of more than 16 bits may show another group, or that of id 0;
  `AnswerIsOwn` says nothing of such ids.
- An edit with id 0 creates a group, which is why both specifications count it
  among the requests that do.
- A reload changes the path the lock uses and not the path of the storage.
- DOESNOTCONTAIN on a location selects what is in the excluded room if the room
  is itself in a container with another name.  `AllLeaves` leaves this out.
- A reset whose removals cannot be written reports SUCCESS and its groups are
  back after a restart, so `ResetRemovesAll` is about the groups in memory.

### Bounds

- `MaxId` (3): ids given by the storage.  Reuse, gaps and torn files need two
  groups and one removal.  `Radix` (2) stands for ten: with it the ids 2 and 3
  have two digits (`Digits`) and lose one to become the id 1.
- `MaxDepth` (12): calls of `groupSql` there is stack for.  The deepest walk
  without a circle needs fewer, so only circles overflow.
- `MaxChanges` (1), `MaxMoves` (2), `MaxRequests` (3): how often other jobs
  change groups during a walk or the SRR job's life, and how many SRR requests
  there are.  One change gives a walk two versions of a group that it may read
  twice; three requests are save, reset, restore.
- `MaxTroubles` (2): SIGINT, SIGTERM, SIGHUP, failures to start and crashes in
  all.  Two are a stop and what may happen during it, or a second life that
  ends while a message of the first is still on the bus.
- The combinations of three calls: a list beside a creation and a removal; an
  edit and a removal of one group, and a group that the agent refuses; the
  assets of a group, an id that does not fit, and a creation.  They have every
  kind of job.  `IdMod` (4) stands for 65536, and 5 is an id that does not fit.
- `CounterMod` (4) stands for 65536: more than the threads, as in the code.
- Two workers are enough for any pair of jobs to interleave, and with two
  requests that read and two that write for the overlap and the failing
  `flock` after it; the lock has three threads, since its races need a reader
  that leaves, one that enters and a writer.  The overlap comes about in
  `jobs_pass`: without their *unless*, `ListIsCurrent` and
  `EveryRequestAnswered` are violated there.
- `IdBound` is the only state constraint; all other bounds are guards, or the
  finite set of requests.

### Fairness

`FairSpec` of each module says that a thread that can run keeps running and
finishes the job it has begun.  The pool's threads do nothing else.  In
`GroupJobs` fairness is per worker.  In `RestClients` the process runs, is
started again and ends its jobs, and a call that waits gives up in the end,
which is the timeout of `MessageBus::send`.  A job that is asleep in a closed lock
has no step that fairness could promise; that a message is received or a
reply handed over is not promised.  Not promised anywhere: that a client asks,
that the condition variable wakes spuriously (`M!SpuriousWake` is left out of
`Progress`, since such a step leads back to the wait), that a crash or another
client's change comes.  `CHECK_DEADLOCK FALSE` is said in `mutex_faults` only:
after a failed call the lock really is closed for good.  Runs with an end have
an explicit `Finished` step.

## 4. What is proved

All proofs are checked by TLAPS from nothing, for any set of threads, workers,
names, rules and requests.

*The lock* (`StorageMutexProofs`).  The inductive invariant says where the
thread that holds the `flock` is, that the reader count is the cardinality of
the threads reading, that a mode READ has a reader in some stage, and that a
thread asleep on an open lock has somebody who will notify.  `NoLostWakeup` is
not inductive without the last two: whether the mode may be READ depends on
who was counted.  From it: `TypeCorrect`, `WritersExclude`,
`ReadersAreCounted`, `ReadModeIsOwned`, `WakeupsAreNotLost`.
`QuiescentLockIsOpen` assumes that `open` and `unlock` never fail.
`WriteImplementsWriterLock` maps each step to a step of `WriterLock` or a
stutter; the holder is the holder of the `flock`, not the mode, because the
overlap of `mutex_overlap` makes the mode say nothing about writers.

*The storage* (`StorageProofs`).  `WellFormed` (typed, ids distinct and at most
the last id) of memory and file is inductive under every fault.  From it:
`StorageTypeCorrect`, `StorageIdsUnique`.  With a file that can be read and
written, memory and file agree once loaded (`FileCurrent`); from it
`StorageIdsNeverReused` and `StorageSurvivesCrash`.

*The file* (`StorageFileProofs`).  `WellFormed` cannot be inductive when a file
may be torn, since two groups of one id may be left.  What is inductive says of
each place that it and the id of its group are at most the last id: a cut only
makes ids smaller, whatever the base, and drops the last id only with all the
groups. From it `FileTypeCorrect` and `FileIdsBelowLast`, and
`FileNoCallDuplicates`: what is appended has an id above all others, and a save
of a known id leaves the ids as they are.  Without torn files each group has the
id of its place, so the first match is the only one, and each call is the one of
`Storage` (`FileImplementsStorage`).

*The jobs* (`GroupJobsProofs`).  `JobsUseMutex` shows that every step of a job
is a step of the lock's specification or leaves it alone, so
`JobsWritersExclude` follows from the lock's theorem without looking at the
jobs.  `JobsTypeCorrect` and `JobsIdsUnique` hold under every fault; the
invariant adds to the types that the ids of the groups are well formed and
that a worker in a stage has the job that belongs to it.

*The registry* (`GroupRegistryProofs`).  Every id given is at most the last and
given to one creator, and its group is stored or was asked away; promised groups
are in the invariant because they are confirmed later.  From it
`RegistryIdsGivenOnce` and `RegistryGroupsStay`, which say nothing of jobs.

*What the jobs promise* (`GroupJobsProofs`). `JobsImplementRegistry` maps each
step of a job to one of the registry: a save to `Create`, a removal to `Remove`,
a reply to `Confirm`, a lost reply and a crash to `Forget`. The mapping needs
`FileCurrent` (so a crash forgets no group), that a request is with one worker
at most and nobody has answered it (so a `Create` is the first for its client),
and that what a removal still has to do was in its request (so it was asked
for). `JobsCreatedIdsDiffer` and `JobsConfirmedGroupsStay` then are the
registry's theorems, seen through the mapping; `JobsIdsNeverReused` follows from
the same steps, and `JobsSurviveCrash` from `FileCurrent`. All assume that
writes neither fail nor tear; a lock that cannot be taken or released, lost
replies and crashes are allowed.

*The events* (`GroupJobsProofs`). `JobsSubscribersFollow` rests on the lock's
theorem and on where the lock has the worker of each stage (`JobsSound`): a job
that has changed a group is the only one in a WRITE section until its event is
out, so what is stored is what subscribers know and, at most, that event. What
they know is a recursion over the events; the invariant says that its equation
has one solution, and each event keeps that so, which is the induction done
along the behaviour. Assumed are writes, a bus and a process that do not fail,
and that creations come without an id and updates with one (`ProperIds`): the
code announces others all the same.

*The lists* (`GroupJobsProofs`). `JobsListIsCurrent` holds for any requests,
with any number of readers among them, and whatever fails, until the lock is
opened on a reader. The invariant adds to `JobsSound` that, until then, whoever
is inside has the mode it asked for: a reader that resets the mode under another
is what `overlapped` notes, and a failing `open` or `close` only leaves the mode
at WRITE. So while a job lists, no other is in the section where groups change.

*Resolve* (`ResolveProofs`).  All four hold for any asset database, rules and
links, in circles or not, and for any changes by other jobs during the walk.
`ResolveTypeCorrect`: the walk stays inside rules the job may meet.
`CheckedRulesAreResolved`: every call on the stack is for rules that passed the
check, since the storage has no others; so an error about rules means the client
brought them, and one about a value that some rules the job has met have a value
that is no number or has a quote.  `QueriesMean` compares each query with what
its condition says of one asset, field by field: where the negation stands,
which rows a join drops, which places `byLocation` collects.
`AnswersAreMeanings` puts these together. `Selected`, what it compares with, is
a recursion over rules and links, on which these provers cannot do induction;
the proof does it along the walk instead. The equation of the recursion has a
solution for the databases seen at the end, by the theorem of Knaster and
Tarski: turned around for `may`, it is monotone. For any databases that include
those seen, and any solution for them, the invariant says of each call that what
it has selected so far lies between what its first conditions must and may
select.  The property is about rules without odd values, whose links have formed
no circle. Assumed are `DatabaseAssumption` and rules that are `PlainlyAsked`;
TLC confirms both of the instance of `resolve` (`PlainInputs`).

*Save, restore, reset* (`SrrProofs`).  While a save runs, each group that has
stayed is still to be read, or was read as it is; while a reset runs alone, what
is stored is still to be removed; while a restore runs alone, the groups are
those of the payload so far, their number is its length, and with those to come
they make up what was decoded.  `SrrBackupIsFaithful`, `SrrResetRemovesAll` and
`SrrRestoreIsExact` hold under every fault, for any number of changes by other
clients.

*The HTTP calls* (`RestClientsProofs`). The invariant follows each request on
its way: as a message, a job or a reply it is in one place, belongs to a call
that has sent it and is what that call asked or, later, what fits it. From it
`RestAnswerIsOwn`, whatever replies a call is handed. `RestRemovedStaysGone`
adds that a removed id is gone from memory and file and at most the last one
given in both, so no later save can give it. `RestListIsComplete` adds that a
group that was there all along is in what a list has, in what it will ask for,
or in the request or reply under way. `RestCallsSeeRegistry` maps a save to
`Create`, a removal to `Remove`, the answer a call accepts to `Confirm` and a
lost or misdirected one to `Forget`; a creation is its call's first because its
request is nowhere else. A failing lock, crashes, stops and late jobs are
included; failing writes, too, but for `RestCallsSeeRegistry`, which assumes a
database that can be written.

Assumptions: the named `ASSUME`s on constants, which TLC evaluates in the runs
of the same modules: finitely many threads, fewer than the counter's modulus;
typed requests, payloads, rules and files, as the conversions of the code produce
them, and an asset database as the other agents keep it.

Checked by TLC only: liveness (`SomebodyEnters`, `EveryRequestAnswered`,
`ResolveEnds`, `SrrEnds`, `CallsEnd`, `ServesAgain`, `StopEnds`), which is out of
the prover's reach.  Every other property of a passing run is a theorem.

## 5. What is not modelled

- What a reload changes (the values of the configuration), daemonisation, and
  what may be called inside a signal handler.
- Permissions, audit and the arguments that end an HTTP call before it sends.
- Leaks of descriptors by failed calls, and the cache of link types.
- What a torn file or one that could not be read does to jobs, events and clients.
- In SRR requests, features other than automatic-groups, which are only
  answered as unsupported; and links between restored groups, whose ids change.
- Serialisation, message conversion, logging, packaging and tests.

## 6. Plan

1. Done: `WriterLock`, `StorageMutex`, `Storage`, `StorageFile`, `GroupJobs`,
   `GroupLists`, `AssetQueries`, `Resolve`, `RuleMeaning`, `Srr`, and the proofs
   above.
2. Done: `GroupRegistry`, implemented by `GroupJobs` and `RestClients`; the
   clients with timeout, late and misdirected answers, repeated requests and the
   REST list; the server's life; `Group::check` on structured rules.
3. The path that lock and storage disagree about after a reload; links across a
   restore; a changing asset database.
4. Done: the theorems on `GroupRegistry`, the jobs, their events and lists,
   `Resolve` and the meaning of its answers, `Srr` and the calls.
