# SECONDO in TLA+: databases, catalog, large objects, queries and Pregel

SECONDO is an extensible database system. A client sends commands to a server
process of its own; all server processes work on the same Berkeley DB
environment, and a registrar process keeps them from erasing each other's
databases. This directory models the path from a command to what is durable:
the sessions and the registrar, the catalog of types and objects with its
overlay in memory, and the files and transactions of the storage manager; the
large objects (Flobs) that tuples refer to and the caches in front of them; the
evaluation of a query as streams of tuples through an operator tree; and the
Pregel algebra, which runs such queries on many servers in supersteps; and from two
algebras that bring tuples from elsewhere, the prefetcher of Cassandra and the lock
between retrieving and restructuring of the KeyValueStore.

Paths are relative to `src/secondo/`. `PROJECT.json` holds the exact lines that
each definition stands for, the runs, the mutants and the hazards.

## 1. The system

| component | state | operations |
|---|---|---|
| Registrar (`ClientServer/SecondoRegistrar.cpp`), one process | multimap database -> user of registrations, map database -> user of locks | REGISTER, UNREGISTER, LOCK, UNLOCK; one command of one connection at a time |
| Database sessions (`StorageManager/bdbEnvironment.cpp`, `smiEnvironment.cpp`, `QueryProcessor/SecondoSystem.cpp`), one process per client | table of databases and directories on disk (shared); name, handles and `dbOpened` of the open database | create, open, close, erase database |
| SecondoCatalog (`QueryProcessor/SecondoCatalog.cpp`) | three files: types, objects, values; the maps `types` and `objects` of the pending changes | insert and delete types; create, insert, update, clone, modify, rename, delete, kill objects; CleanUp |
| Commands (`QueryProcessor/SecondoInterfaceTTY.cpp`, `SecondoSystem.cpp`) | `activeTransaction` | type, create, let, update, delete, kill, changename, query, letnt, querynt, begin/commit/abort transaction, open/close database |
| Storage manager (`StorageManager/bdbEnvironment.cpp`, `bdbFile.cpp`) | per database: a sequence of file ids, the file catalog and its index, the files; per process: `usrTxn`, `txnStarted`, `txnMustAbort`, `bdbFilesToCatalog`, `bdbFilesToDrop` | create, open, drop files; begin, commit, abort; UpdateCatalog, EraseFiles; recovery at start-up |
| Keyed files, records, iterators (`StorageManager/bdb*File.cpp`, `bdbRecord.cpp`) | Berkeley DB handles and cursors | read, insert, update, delete, append |
| Native Flobs (`Tools/Flob/NativeFlobCache.h`, `FlobManager.cpp`, `Flob.h`), one per process | a file of records; slots of them in an LRU list and a hash table, with dirty bits; the stack of destroyed Flobs | create, from a block, resize, read, write, copy, destroy, end of command |
| Flobs of stored tuples (`Algebras/Relation-C++/RelationPersistent.cpp`, `Tools/Flob/PersistentFlobCache.cpp`) | per relation a tuple file and a Flob file; per process a cache by file and record number | append, update, delete tuples; clear; read; open and close the database |
| Query processor (`QueryProcessor/QueryProcessor.cpp`) | an operator tree, argument vectors of functions, local information of operators, the cancel flag | annotate, Eval, Open, Request, Close, Destroy, switchTransaction |
| Monitor, listener, server, checkpoint (`ClientServer`) | process ids, running flags | start-up, shutdown, accept and spawn, checkpoints |
| Client-server protocol (`SecondoServer.cpp`, `SecondoInterfaceCS.cpp`, `SocketIO.cpp`) | one TCP connection per client | one request, one answer |
| Pregel (`Algebras/Pregel`), a master and its workers | per worker an inbox and, for every other worker and the master, a message server: thread, socket, two queues by the parity of the superstep, monitor; the superstep | initPregelMessages, initPregelMessagesWorker, startPregel, clearPregelMessages; read, count, collect, join |
| Cassandra prefetcher (`Algebras/Cassandra`) | a bounded queue of tuples, the statements to execute, producer threads, flags for shutdown | fetch rows, insert, take, close early |
| KeyValueStore restructuring (`Algebras/KeyValueStore`), a master and its servers | per server a lock that counts retrieving queries, with the time of its last use | open, end or close kvsRetrieve; restructure, distribute, clean up |
| CStream, DBService algebras | queues per client thread; tables of nodes and replicas | distribute, replicate |
| About 140 other algebras, parsers, nested lists, optimizer, user interfaces | sequential data, or none | |

How they interact. A command runs between `StartCommand` and `FinishCommand` of
the interface. It calls the catalog, which changes its overlay; `FinishCommand`
(outside of a block) or `commit transaction` calls
`SecondoSystem::CommitTransaction`, which lets `CleanUp` write the overlay to the
files and then commits `usrTxn`. The files of dropped objects are removed after
that, by `EraseFiles`. Opening, closing and erasing a database also talks to the
registrar, over a connection for each command, and clears the Flob caches. A
`query` is a tree that `EvalP` evaluates and `Destroy` takes down; its operators
call each other through the query processor only, by OPEN, REQUEST and CLOSE. On
a Pregel worker each superstep evaluates the tree of a function once; what it
reads (messageFeed) and sends (messageDistribute) goes through the broker.

What is hard, and what correctness means:

- *Sessions.* Processes interleave at every access to shared state, may die
  anywhere, and the registrar never hears of it. Correct: nobody erases a
  database that another session uses; a lock has a holder and is released.
- *Catalog.* The same name may be in the file and in the overlay, with a state
  that says which; numbers of value records travel between both; results of
  failing writes are ignored. Correct: the overlay always fits the files, value
  records have one owner, what is durable can be opened again, a type in use is
  not deleted.
- *Commands.* A commit joins two layers, may turn into a rollback, and a command
  may fail half way. Correct: a command outside of a block is durable when it
  ends, a block is atomic, and the whole is a store with one durable and one
  visible state.
- *Storage manager.* Removal is not transactional and happens after the commit;
  ids are given in transactions of their own; several processes share the file
  catalog. Correct: what a stored object or a name refers to exists, ids are
  unique, nothing is left behind except by a crash.
- *Flobs.* Slots are evicted, saved late, cut off and read back; records are used
  again; a stored Flob is cached under a number that the file may give again, by
  processes that are not told. Correct: every Flob is an array of what was written
  to it; a process reads the stored content; Flobs belong to one tuple each, and
  no others are left in the file.
- *Queries.* A value mapping is entered and left at every tuple, its stream may be
  closed early by its consumer, opened again for another outer tuple, or cut by
  the user. Correct: the messages come in the order OPEN, REQUEST, CLOSE; the
  result is the meaning of the tree, or a prefix of it after a cancel; each tuple
  is deleted once and never used afterwards.
- *Prefetching.* Producers and consumer share one condition variable, and the
  stream may be closed at any tuple. Correct: no wake-up is lost, the end means that
  all has been delivered, and nobody uses the prefetcher after it is deleted.
- *Restructuring.* Queries on servers hold a lock of the master, which cannot wait
  for them for ever. Correct: who is not given up is never cleaned away under, a
  restructuring ends, refused queries come in afterwards.
- *Pregel.* Workers overtake each other by one superstep, and their messages mix
  with those of the round before. Correct: a message is read once, in the
  superstep after its own; the barrier holds; all workers end after the same
  superstep, before the limit only when no message is left; every round ends.

## 2. Modules

    Registrar  <-  DatabaseSessions  <-  LockProofs
    SecondoCatalog  <-  SecondoCommands  <-  SecondoCommandsProofs
    CatalogStore (abstract)  =INSTANCE=>  SecondoCommands
    SmiTransaction  <-  SmiTransactionProofs
    FlobStore (abstract)     =INSTANCE=>  NativeFlobs  <-  FlobProofs
    TupleFlobs  <-  FlobProofs
    StreamQuery  <-  StreamQueryProofs
    StreamQuery  <-  StreamAnswer (reference definition)
    StreamQueryProofs, StreamAnswer  <-  StreamAnswerProofs
    Supersteps (abstract)    =INSTANCE=>  PregelBroker  <-  PregelBrokerProofs
    TuplePrefetcher  <-  TuplePrefetcherProofs
    RestructureLock  <-  LockProofs
    MC...: instances for TLC

**Registrar.** `dbRegister` counts the pairs of the multimap, `dbLocks` is the map
of locks. A command that is answered with 0 is an action `Exec...`; the conditions
of the answer -1 are the predicates `...Refused`. The registrar serves one
connection at a time, hence a command is one step.

**DatabaseSessions.** Each session has a program counter over the accesses to
shared state that the database operations make, in the order of the code:

- open/create: `LookUpDatabase` (`OpenDatabase`, `CreateDatabase`), the files
  (`InitializeDatabase`), the table (`InsertDatabase`, create only), the registrar
  (`RegisterDatabase`), `SecondoCatalog::Open` (`OpenCatalog`);
- close: `CloseDatabase`, which unregisters whether or not it was registered;
- erase: `EraseLookUp`, `LockDatabase`, `DeleteDatabase`, `RemoveFiles`,
  `UnlockDatabase`.

`InitializeDatabaseFails` and `RemoveFilesFails` are the error paths; `Crash` ends a
process anywhere and leaves the registrar as it is. `granted` is a history
variable: the registrar's answer, which the code does not look at.

**SecondoCatalog.** `files` are the three files of the catalog, `types` and `objects`
the two maps of the class. A value is a model value; a value record has a number
in `RecordIds`. `CleanUpFiles(failed)` is `CleanUp( false )` as one function from
files and overlay to files: the first iteration (`UndefinedRecord`,
`DroppedRecords`), then the second (`DefinedRecord`, `SavedValue`), with the set
`failed` of objects whose `AppendRecord` fails. Writes that the code attempts on
keys that do not fit are skipped, as in the code. `RenameObject` on an object of
the file is two steps, because outside of a block each write is durable alone.

**SecondoCommands.** `committed` is what the last commit left; the files are written
within `usrTxn` if it runs, otherwise at once (`Write`). `CommitTransaction` is
either `CommitSucceeds` or, when the transaction was chosen to resolve a deadlock,
`CommitRollsBack`. `SwitchTransaction`, the commit that an operator asks for inside of a
query, has the same two outcomes (`FilesCommitted`, `FilesRolledBack`), and a new
transaction runs afterwards. Every command is an action, `FinishCommand` another, so that
a crash can fall between them. Situations in which the code departs from its
documentation are named in `Situations` and enabled by `Irregular`.

**CatalogStore.** The abstract store: two durable and two visible variables;
commands change what is visible, `Commit` and `Rollback` relate the two.
`SecondoCommands` implements it with `durable... <- committed` and `visible... <-`
the overlay over the files (`ImplementsStore`).

**SmiTransaction.** Several processes on one environment. `existing` are the files
on disk that are committed or were created without a transaction; `usrTxn[s]`
holds what a transaction has created, stored and taken away; `held` are files of
values in memory; `used` are the files of stored objects. `CommitTransaction` and
`EraseFiles` are two steps, with everything else, a crash included, in between.
`strays` remembers what the last crash left behind.

**NativeFlobs.** `flob` holds the objects, `nativeFlobFile` the records,
`nativeFlobCache` the slots with their mark `changed`, `lru` their order. The
functions of the cache (`getDataFromSlot`, `putDataToFlobSlot`, `resizeSlot`,
`erase`, `reduce`) are operators from one state of file, cache, list and buffer to
the next, composed as in the code; each operation of a Flob is one action.
A cell that nobody has written is `Garbage`; `written` remembers the others.

**FlobStore.** The abstract store: an array per Flob, in which a resize keeps the
cells that remain, a write replaces its range, and a read delivers what was
written. `NativeFlobs` implements it with the content of a Flob defined as what
block, cache and file give together (`ImplementsFlobStore`).

**TupleFlobs.** Each database holds one relation: a sequence of tuples and a
sequence of Flobs, both numbered by the library (external: numbers that are
rolled back or truncated are given again). `committed` is the last committed
state, `writer` the transaction that has changed it and whose locks keep others
out (`MayAccess`, external). `cache[p]` is the persistent cache of process `p`; as in
the code nothing tells it of a change.

**StreamQuery.** `plan` is the tree as a sequence of nodes. `stack` holds the calls
of `Eval` that have not returned: node, message and the place in the value
mapping where it goes on. An action is what a value mapping does between two
calls: `Push` calls, `Return` returns. `heap` counts the references of each tuple.
Functions of filter, head and cancel look at one attribute of their own tuple and
one of the outer tuple of the loopjoin they are in, through `argument`, the
argument vector that loopjoin sets. `UserCancels` may happen at any time;
`Destroy` closes what is open, node by node. `streams` is a history variable for
the protocol, `misused` one for the tuples. `IsTree` says what a tree is: sons below
their fathers, each with one father, the scope of a node the loopjoin in whose
function it is.

**StreamAnswer.** `Meaning`, the reference definition of what a tree yields: a
recursive function over the nodes, that gives for each attribute of the tuple of its
scope (`Attributes`) the values of the node's stream, by what each operator promises
(`Promised`); and `AnswerOrPrefix`. It says nothing of streams that are opened or
closed, tuples in memory or local information.

**Supersteps.** What Pregel promises: `Begin` only when all others have finished
the superstep before, `Compute` reads the messages of the last superstep and
posts those of this one, `Supply` and `Clear` come between computations.

**PregelBroker.** Per worker the query thread (`BeginSuperstep`, `Compute`, `Join`;
`BeginInit`, `Distribute` for messages made on the workers), the receiver thread
(`SetMonitor`, `StartReading` for one server after the other, as `startNewRound`
does) and a thread per server (`ReadData`, `ReadMark`, `AwaitMonitor`, `HandleMark`,
`HandleInitDone`). A message in an inbox or a queue is counted under the parity of
its superstep and where it came from; `Mail` reads off these places, and the
sockets, which superstep a message belongs to, and is the refinement mapping to
`Supersteps`. `monitors[w]` counts the Monitor objects of worker `w`, so that a server
that still holds an old one is seen.

**TuplePrefetcher.** A producer is between statements (`GetNextResult`), between rows
(`Fetch`) or about to insert (`InsertToQueue`); the operator gets a tuple
(`GetNextTuple`), joins the threads or is closed, which drains the queue (`Deliver`
with `closing`). A stretch under the mutex is one step; sleepers are in `asleep` and may
wake for no reason. The code starts one producer; the class, and the module, allow
for more. A tuple is the number of its statement, so that `delivered` can be compared
with `rows`.

**RestructureLock.** One server, its lock at the master, the queries on it and the
threads that clean it. Time is the flag `expired`, set when nobody got the lock for
30 seconds. A request for the lock may fail (`TryLockFails`): the answer -1 cancels the
query, an answer lost within the server is taken for a refusal. `lock` releases its mutex to sleep, so a thread is in `start`, `sleep` or
`clean`. `givenUp` is a history variable: the queries that retrieved when `lock` stopped
waiting.

## 3. Runs

| run | instance | distinct states | shows |
|---|---|---|---|
| `sessions_safety` | 3 sessions, 3 users, 1 database, 1 failure, 1 crash | 762956 | `LockExcludesRegistration`, `GrantedExcludesErasing`, `OneEraser` |
| `sessions_live` | the same without failures and crashes, `FairSpec` | 56870 | `LockHasHolder`, `LockReleased` |
| `catalog_safety` | 2 objects, 1 type, 1 value, 2 value records; no irregular situation | 232803 | `OneOwnerPerRecord`, `DefinedHasValue`, `OutsideBlockDurable`, `BlockIsAtomic`, `ImplementsStore` |
| `catalog_irregular` | the same with letnt/querynt and changename outside of a block, begin while closed, switchTransaction | 339979 | `OverlayMatchesFiles`, `NoDanglingTypes` |
| `smi_safety` | 2 sessions (symmetric), 1 database, 1 name, 5 file ids | 117678 | `UsedFilesExist`, `FileCatalogBacked`, `OpenedIsCatalogued`, `DistinctFiles`, `NoStrayFiles` |
| `native_flobs` | 2 Flobs, slots of 2 cells, a cache of 3 cells, sizes up to 3, 1 value | 102703 | `CacheConsistent`, `ImplementsFlobStore` |
| `tuple_flobs` | 2 processes, 2 databases, 1 large attribute, 2 Flob records, caches of 1; no irregular situation | 228308 | `CachedIsStored`, `TuplesHaveFlobs`, `OneOwnerPerFlob`, `NoGarbage` |
| `stream_query` | 1262 operator trees of two levels, a user who may cancel, `FairSpec` | 285529 | type, `RequestsOpened`, `AnswerOrPrefix`, `NothingLeft`, `QueryEnds` |
| `pregel` | 2 workers and the master, 2 supersteps, 1 supply of messages, `FairSpec`; no irregular situation | 209194 | `EndTogether`, `Barrier`, `SilentEnd`, `ImplementsSupersteps`, `QueriesEnd` |
| `prefetcher` | 1 or 2 producers, up to 3 statements of up to 2 rows, a queue of 2, `FairSpec` | 337720 | `SleepersWait`, `EndMeansAll`, `DestroyedQuiet`, `RequestsEnd` |
| `restructure` | 3 queries, 2 leaked closes, `FairRestructureSpec`; with slow queries | 11472 | type, `CleaningExcludes`, `WaitsEnd` |
| `commit_updated` | 2 objects, 2 values | violated | `CommitEffective` |

The type invariants that section 4 proves (`TypeCorrect`) are not run again;
`CacheConsistent` contains that of `NativeFlobs`.

Why the bounds are enough. *Sessions*: the properties relate two sessions and one
database; the third session makes a stale or shared registrar entry visible to
one that neither made it nor waits for it, and databases do not interact in the
registrar. One failure and one crash are independent of each other. *Catalog*: two
objects are what rename, record sharing and a type used by another object need;
a second value adds no branch, because the code never compares values;
`RecordIds` has one number per object, and `RecordsLeft` keeps an instance from
running out of numbers. Sequences of commands, blocks and crashes are unbounded.
*Files*: 5 ids let two sessions open the catalog (1 id), store, drop and re-create
files, with rolled-back ids in between; the depth of the search is 39 steps, and
the proofs remove the bound on sessions, databases, names and ids for three of
the properties. *Native Flobs*: a Flob of three cells has two slots, the second of
them partial; a cache of three cells holds one full slot and a partial one, so
that accesses to the other Flob evict; two Flobs are what copying and the reuse of
records need. One value is enough, because a cell that was never written, or was
written for an earlier owner of the record, reads as `Garbage`. *Tuple Flobs*: two
processes and two databases make a cache stale by another process, by a rollback or
by another database's Flob of the same number; with one large attribute an update
is always a complete one (partial updates need two, section 5). *Queries*: two
levels put every operator above and below every other one, the inner stream of
loopjoin included; relations of no and of two tuples give empty and continued
streams; the functions accept none, one or both, depending on the outer tuple.
*Pregel*: two supersteps use both parities and let a worker be one superstep ahead;
with two workers a monitor waits for one mark, as the server of the master gets
none. More marks per monitor, hence more workers, are in the proof of the barrier.
`MaxSent = 2` includes a message to oneself and one to the other worker in the same
computation.
*Prefetcher*: the second producer and a queue of two let one producer sleep while
another one ends, and the queue be empty, full and in between; three statements
leave one that neither has begun. *Restructuring*: a query that was given up, one
that retrieves afterwards and one that waits are three; the two threads are used
only for a server in two entries (section 5).

Fairness. `FairSpec` of the sessions is weak fairness of each session's own steps
while an operation runs: an operating system process goes on until it waits for
its client. There is none for the commands, so a client may keep a database open
for ever. Failures and crashes are excluded from that run, because the code
itself does not release the lock after them (section 5). In `PregelBroker` each
query thread, receiver thread and server thread is weakly fair: they are threads of
running processes, and at each moment a thread has one thing to do. The commands of
the master are not fair. The same holds for the producers and for the operator of
`TuplePrefetcher` once it has been called. In `RestructureLock` the master goes on and
time passes; a refused query is strongly fair, as it tries twice a second, the
master restructures at most every 30 seconds, and a request is not lost each time it
is made (`TryLockFails`). No query has to end. In `StreamQuery`
the evaluation, which is one thread, goes on; the user need not cancel.

CHECK_DEADLOCK is off where the system stops: the Pregel runs when the bounds on
commands are used up, `stream_query` when the query has ended, the prefetcher when it
is deleted.

Every property has a mutant in `PROJECT.json`: a definition changed as a slip in
that code would change it (a missing test, removal at once instead of postponed,
a lost update of the file catalog, ...), under which TLC finds the property
violated.

## 4. Proofs

Everything here is for all values of the constants, checked by TLAPS.

`LockProofs`, on `DatabaseSessions`, for any databases, users and sessions
- `TypeCorrect`.
- `ExclusionCorrect`: `LockExcludesRegistration` and `OneEraser` always. `OneEraser`
  is not inductive: it lacks that an eraser holds the lock (`EraserHoldsLock`),
  without which LOCK could be granted while somebody erases. `Exclusion` is the
  conjunction; one lemma shows that steps which leave the locks alone keep it.
  `ErasersExclude` states the second half by itself.
- `LocksHaveHolders`: with `NoFaults` (`MaxFailures` and `MaxCrashes` are 0), for any
  number of sessions, `LockHasHolder`. Every step keeps the holders (`HolderStep`);
  the two steps that do not, a failing removal of files and a crash, cannot happen.
- `RegistrationProtects`: with `DistinctUsers`, `GrantedExcludesErasing`. The
  strengthening is `GrantedIsRegistered`: a granted session still has its entry.
  A shared user name breaks exactly this.

`LockProofs`, on `RestructureLock`, for any number of queries and threads (the other lock of
the system, in the same module)
- `RestructureTypeCorrect`: `LockTypeOK`, for every choice of `Irregular`. The counter is bounded by
  the queries that hold the lock or hang, and the closes that leaked (`TypeInv`).
- `CleaningCorrect`: `CleaningExcludes`, if a server has one thread and a query that was
  given up ends before another one gets the lock (`Regular`). The counter is never
  less than the number of queries that the master has to wait for, except after
  `unlock`, which gives up those that are left.

`SecondoCommandsProofs`
- `TypeCorrect`, for every choice of `Irregular`; the substance is that
  `CleanUpFiles` of an overlay is a catalog again, with distinct new records.
- `OverlayCorrect`: without a changename of an updated object or to a deleted name,
  `OverlayMatchesFiles`; strengthened by `RenamingFits` (between its two writes a
  changename's new name has no entry).
- `OutsideBlockCorrect`: without letnt/querynt outside of a block,
  `OutsideBlockDurable`; `BlockCorrect`: without begin-while-closed and
  switchTransaction, `BlockIsAtomic`. Both follow from `SessionInv`: without a
  running transaction the files are the committed ones (`Durable`), finished
  commands leave no transaction (`CommandsEnd`) and no entries (`NothingPending`), a
  changename runs alone, a block has a transaction.

and, without the two changenames that `OverlayCorrect` excludes, all of it resting on
`OverlayMatchesFiles`:
- `NoDanglingCorrect`: `NoDanglingTypes`. DeleteType looks at what the client sees and
  CleanUp writes what the overlay says, but a rollback, Close and a restart forget
  the overlay: so `TypesInv` asks for closed files, committed and current ones, and for
  visible entries of visible types, objects under deletion included.
- `OwnersCorrect`: `OneOwnerPerRecord`, even if records cannot be appended. `RecordsInv`
  says of the committed and of the current files that numbers are owned once, of
  every entry that its number is its object's (`EntriesOwn`), and of a changename
  between its two writes that it still knows its number (`RenamingOwns`).
- `DefinedCorrect`: if records can be appended, `DefinedHasValue`, from the same
  invariant. `CleanUpRecorded` and `CleanUpDefined` carry both through a `CleanUp`.
- `StoreCorrect`: the refinement, `ImplementsStore`, for any sets of names, values and
  records. It assumes that five of the situations are excluded (`StoreKept`: the
  two changenames above, one outside of a block, a block begun on a closed database,
  and an AppendRecord that fails); letnt and switchTransaction may occur anywhere.
  A `...Shows` lemma for each operation of the catalog says what it changes of
  `VisibleObjects`; the two that carry the argument are `KillShows` (the value record
  that goes is read through no other name, from `WellRecorded`) and `CleanUpShows`
  (what CleanUp writes is what was seen). The second follows an entry through both
  iterations (`WrittenShows`) and needs the invariants above: that it fits the file,
  and that the number it keeps leads to its value alone (`KeptShows`). `StoreStep` then has
  one case per action: commands are commands of the store (`Quiet`: usrTxn keeps the
  durable files), the second write of a changename is a stutter (`RenamingRuns`), and a
  transaction ends in `Commit` or `Rollback` (`ClearedStep`).

`SmiTransactionProofs`
- `TypeCorrect`; `IdsCorrect`: `DistinctFiles` for every choice of `Irregular`, from
  `Numbered` (every file known anywhere has an id the sequence has passed).
- `UsedFilesCorrect` and `FileCatalogCorrect`: `UsedFilesExist` and
  `FileCatalogBacked`, assuming that files are touched within transactions and that
  a transaction that met a deadlock is aborted (`Regular`). The invariant is
  `FilesInv`; its heart is `RemovalOK`: until the commit a requested removal concerns
  a file that this transaction has taken from an object, or one of its own that
  nothing refers to; between commit and `EraseFiles` nobody refers to it. With
  `RemovedOnce` (record locks: no two transactions take away the same object) and
  `NothingShared` (no file has both a name and an object) each action keeps it.
- `OpenedCorrect`: `OpenedIsCatalogued`, assuming that no transaction is committed after
  a deadlock and no two sessions open a database without files at once
  (`FirstOpenAlone`). The invariant adds that only one session at a time has names
  to enter into the file catalog (`RegistersAlone`), and what it has opened of them.
- `NoStraysCorrect`: `NoStrayFiles`, with `Regular` as well. A file is on disk because a
  transaction made it, so `Accounted` follows every created file until the commit:
  it is in a value, in a stored object, a name's, or its removal is requested; and
  every file taken from an object has its removal requested.

`FlobProofs`, on `NativeFlobs`, for any sizes of slots, cache and Flobs, any sets of Flobs and values,
and any sequence of operations
- `StoreCorrect`: the refinement, `ImplementsFlobStore`. The invariant `StoresArrays` says
  that there are an array of written cells (`data`) and a `size` for each record in use
  such that cache and file together hold them (`Consistent`). Its parts: `Listed`, the hash
  table, the LRU list and the counted size agree and the list names each entry once;
  `Stored`, an entry has the cells of its slot at the present size of its Flob (`Fits`),
  a written cell of a cached slot is in the entry, and it is in the file unless the
  entry is marked `changed` (`Holds`); `Good`, the limit is kept and the stack of
  destroyed Flobs has records that nobody uses; `FlobsOK`, each Flob has its own record or
  its block. `CacheConsistent` alone is not inductive: it says nothing of
  contents, and a slot that is evicted unmarked must already be in the file.
- Each function of the cache is a lemma of its own (`EvictStored`, `ReduceStored`,
  `PutStored`, `LoadStored`, ...: what was stored still is), and each operation of a
  Flob one more (`CreateStep`, `BlockStep`, `ResizeStep`, `WriteStep`, `ReadStep`,
  `CopyStep`, `DestroyStep`): it is a step of `FlobStore`. The functions are loops over slots,
  bytes or the list. `LoopRuns` takes the meaning of such a loop from a set for each
  index (the states that are correct there), and is proved with `Ascend`, induction for a
  set of numbers, which needs no operator as a parameter.
- `CacheCorrect`: `CacheConsistent`, from the same invariant (`StoresConsistent`).

`FlobProofs`, on `TupleFlobs`, for any processes, databases, attributes and records
- `TupleFlobsTypeCorrect`, `FlobsExist`, `FlobsHaveOneOwner`: the last two are `TuplesHaveFlobs`
  and `OneOwnerPerFlob` for every choice of `Irregular`. A rollback may bring back the
  committed relation, so the invariant `FlobsInv` says of it and of the current one
  that each is `RelationOK` and within the bound; the lemmas `AppendedOK`, `UpdatedOK`
  and `WithoutOK` say that saving, updating and deleting keep a relation so.
- `CachesCorrect`: without the three situations that keep a cache (`Regular`),
  `CachedIsStored`. A rollback changes what is stored while caches stay, so `CachesOK`
  adds: what a process has cached of a relation that it did not change itself is
  also what a rollback would bring back.
- `NoGarbageCorrect`: without partial updates, `NoGarbage`.

`PregelBrokerProofs`, for any finite set of workers
- `TypeCorrect`, from `TypeInv`: the bound on supersteps is a matter of the rounds that
  are left (`RoundsOK`).
- `BarrierKept`: without late INIT_DONE, `Barrier`. The invariant `BarrierInv` counts the
  marks: for every pair of workers, those one has sent are the monitors it has
  created, less the one it still computes for, and those not yet handled by the
  other are the difference to its own (`EndsOK`). `MonitorsOK` says which servers hold
  the current monitor, `CountersOK` that its counter is the number of other workers
  whose mark it has not seen, and `SocketsOK` that workers send no INIT_DONE, the
  master sends no marks, and its messages are read before a superstep begins.
- `EndTogetherCorrect`: without late INIT_DONE, `EndTogether`. That the workers leave the
  loop together is a matter of what they have counted, so `EndInv` adds the content of
  the marks to their number: the last mark on its way from a worker says whether it is
  busy in its current superstep (`LastsOK`); what a worker has counted so far is what
  those it counted had (`CountsOK`); a worker that goes on with the next superstep,
  or is ahead, has seen somebody busy, itself or another (`LoudOK`); supersteps, rounds
  and monitors count the same on all workers (`RanksOK`); and when one has answered,
  nobody will go on (`LeaveOK`). `SilentJoin` and `LastJoin` are the two ways to leave.
- `SilentEndCorrect`: if the master waits for the last INIT_DONE, and a function reads
  all its messages and sends only if it got some (`AllRead`), `SilentEnd`. `MailInv` is
  `EndInv` and what it says of where messages can be. A message in a socket belongs to
  a superstep of its sender by the number of marks behind it, was sent by a busy
  worker, and its own superstep number agrees (`DataOK`); the queue of a server has
  messages of the superstep of its worker until they are collected, and of the next
  one only if the sender is ahead (`QueuesOK`); the inbox of the superstep before has been
  read, and that of the current one was filled by busy workers (`InboxOK`); a worker is
  busy if it has messages to read (`BusyOK`); the master ends with INIT_DONE
  (`MastersOK`). When a worker finds everything empty, all workers are at the same
  monitor and nobody was busy (`SilentJoin`), so each of these places is empty.
  Each of the situations that `AllRead` excludes breaks it (section 5).
- `StepsCorrect`: with `AllRead` too, `ImplementsSupersteps`: every step of the broker is a step
  of `Supersteps` or changes nothing that `Box`, `superstep` and `Computing` show. The
  refinement mapping counts the messages of a superstep wherever they are, so
  `MailParts` splits `Mail` into inbox (`InInbox`), sockets (`Arriving`) and queues (`InQueue`,
  `Supplied` for those of the master), and a lemma for each action says what it moves: a
  send is one message more for each destination (`SendPosts`); `ReadData` moves
  one from a socket to a queue (`ReadDataStep`) and `Join` what is in the queues to the
  inbox (`CollectKeeps`), so that no sum changes; the places that are read as another
  superstep when a worker begins one are empty (`BeginStep`), as nothing on its way
  belongs to the superstep just read (`NothingLate`); `ClearStep` empties all. `StepsInv`
  is `MailInv` and that the number of a superstep that is computed is positive
  (`NumbersOK`).

`TuplePrefetcherProofs`, for any finite set of producers, any queue and any statements
- `TypeCorrect`, `SleepersCorrect` (`SleepersWait`): always. `TerminalsOK` is the part that
  matters: each thread has one Null, which is in its hands, in the queue, or counted.
- `DestroyedCorrect`: if the flags are initialised, `DestroyedQuiet`. When the last Null
  is counted no thread is left (`LastNull`), and only then is the prefetcher deleted.
- `EndCorrect`: if no fetch fails either, `EndMeansAll`. `RowsInv` counts the rows of each
  statement (to be fetched, in hand, in the queue, delivered; `RowsOK`), which one
  thread executes (`FetchersOK`); a Null anywhere means that no statement is left
  (`NoneLeft`), and the last tuple of all is a Null (`LastIsNull`), so that nothing is
  left in the queue after the last one.

`StreamQueryProofs`, for every set of operator trees, however deep and wide
- `ProtocolCorrect`: `RequestsOpened`. The invariant `ProtocolInv` (`ProtocolAlways`)
  follows the stack: a call waits for the one above it at a place of its value
  mapping at which that son was sent that message (`Waits`, `PathOK`), with local
  information and streams of the other sons that fit the place (`Running`); an
  operator off the stack is closed, or open or ended, and its sons are what its
  local information says (`Idle`, `QuietOK`); and `Destroy` comes to a node when it is
  closed, but for a head, which deletes its counter then. Two lemmas carry all cases,
  `CallStep` and `ReturnStep`: a value mapping may call a son, or return, when it shows
  what the invariant asks of its own node. The cancel needs no case of its own,
  because an open stream may be ended at any request.
- `NothingLeftCorrect`: `NothingLeft`, from `TupleInv` (`TuplesAlways`) as well. A tuple has one
  reference, and one owner: the product that has it as current tuple or in its buffer,
  the loopjoin whose function works on it, or the answer that was given and not yet
  taken (`Has`, `Given`, `OneHolder`). Between the call of the next outer tuple and its
  answer the loopjoin's `x` is `Stale`: the code has deleted the tuple and keeps the
  pointer. A function reads the argument that its loopjoin has set, so `ScopeOK` puts
  this loopjoin below it on the stack, at a place at which the argument is in memory.
- `TypeCorrect`: `StreamQueryTypeOK`, from both.

`StreamAnswerProofs`, for every set of operator trees, any relations and functions
- `AnswerCorrect`: `AnswerOrPrefix`, from `AnswerAlways`. The result alone says nothing of
  what is still to come, so the invariant has two ghosts for the nodes: `owed`, the values
  that a stream has yet to yield, and `outer`, the attribute of the tuple of its scope
  that it was opened for. `Exact` says that the result, and then what the root owes, is the
  meaning of the tree; and that each node owes what its local information, the tuples it
  holds and what its sons owe add up to (`Left`, by operator and place of its value
  mapping), with its sons opened for its own scope or for the tuple it passes to its
  function (`Link`). A query knows these ghosts until the user cancels (`Known`); after
  that it still does while a tuple is on its way to the caller (`Heeding`), and then no
  further tuple reaches the result (`Deaf`).
- As for the protocol two lemmas carry the steps, `CallExact` and `ReturnExact`; the value
  mappings show that what they owe is divided in the same way before and after
  (`FilterAnswers`, ..., `LoopjoinRequestAnswers`). That another node's tuples stay as they are
  is the point at which `TupleInv` is needed: a tuple has one owner.
- `Meaning` and the community modules' `FlattenSeq` are recursive functions. Their values are proved
  from their definitions by induction for a set of numbers (`Ascend`): `MeaningIs`, what a
  tree means is what its recursion says; `FlatFirst`, the first piece comes first; and
  `FilteredMore`, `UntilMore`, `FirstMore`, `LoopsMore`, `ProductsMore`: what one value more does.

Only model-checked: `LockReleased`, `QueryEnds`, `QueriesEnd`, `RequestsEnd` and
`WaitsEnd` (liveness under fairness, out of reach of the prover). Every invariant, every
action property and every refinement that the passing runs check is proved.

Assumptions on the environment: Berkeley DB transactions are atomic and durable
and recovery restores the last commit (Crash in `SecondoCommands` and
`SmiTransaction`, `TupleFlobs`); locks are held to the end of a transaction (guard of
`DropStored`, `MayAccess`); record numbers grow until they are truncated or rolled
back; the registrar is one sequential process; a socket delivers its messages in
order and does not fail.

## 5. Where code and documentation part

The run `commit_updated` shows one disagreement: a block that updates and then renames
an object commits neither; the line quoted is in `PROJECT.json`, "findings".

Others were met while modelling. They are violated when the constant named is
changed, and the passing runs exclude them:

| where | what happens | how to see it |
|---|---|---|
| `bdbEnvironment.cpp:1631` | the registrar's refusal is ignored, a database is opened while it is erased; `SecondoSMI.h:1219` | `OpenExcludesErasing` in `sessions_safety` |
| `bdbEnvironment.cpp:1784` | UNLOCK is not sent if a file cannot be removed; `SecondoSMI.h:1232` | `LockHasHolder` with `MaxFailures = 1` (or `MaxCrashes = 1`) |
| `bdbEnvironment.cpp:1714` | a refused session unregisters another one of the same user name | `GrantedExcludesErasing` with a `UserOf` that is not injective |
| `SecondoCatalog.cpp:1367` | changename to a name deleted in the block overwrites the note of the deletion, and the old object is back | `CommitEffective` with `Irregular = {"rename to deleted"}` |
| `SecondoInterfaceTTY.cpp:1513` | changename outside of a block deletes and inserts in two durable writes; `SecondoInterface.h:521` | `RenamedStaysDurable` with `{"rename outside"}` |
| `SecondoCatalog.cpp:3475` | a failed AppendRecord leaves an object marked as defined | `DefinedHasValue` with `{"save fails"}` |
| `SecondoCatalog.cpp:1290` | delete leaves the value record behind | `NoOrphanRecords` in `catalog_safety` |
| `SecondoInterfaceTTY.cpp:1532`, `1553` | letnt and querynt run no transaction; `SecondoInterface.h:521` | `OutsideBlockDurable` with `{"letnt"}` |
| `SecondoInterfaceTTY.cpp:907` | a block begun while no database is open is ended by opening one | `BlockIsAtomic` with `{"begin closed"}` |
| `QueryProcessor.cpp:4986` | switchTransaction commits the block; `StreamAlgebra.cpp:6606` does the same for `sync` | `BlockIsAtomic` with `{"switch"}` |
| `bdbEnvironment.cpp:1680` | a drop outside of a transaction removes a file of the next database | `UsedFilesExist` with two databases and `{"outside"}` |
| `bdbEnvironment.cpp:1877` | a commit after a deadlock is a rollback, and removes the files to which the rollback has restored references; `SecondoSMI.h:1107` | `UsedFilesExist` with `{"commit deadlocked"}` |
| `bdbEnvironment.cpp:1855` | of two first openers of a database one works on files without names; `SecondoSMI.h:1111` | `OpenedIsCatalogued` with `{"first open race"}` |
| `RelationPersistent.cpp:3013` | clear truncates the Flob file but not the caches: a new tuple shows an old Flob; `RelationAlgebra.cpp:4591` | `CachedIsStored` with `{"clear cached"}` |
| `FlobManager.cpp:676` | a Flob that was read and is rolled back stays cached under a number that is given again; the comment relies on the cache's own removal | `CachedIsStored` with `{"abort cached"}` |
| `SecondoInterfaceTTY.cpp:1118` | restore closes the database without clearCaches; `Flob.h:673` "required after opening or closing a database" | `CachedIsStored` with `{"close uncleared"}` |
| `RelationPersistent.cpp:1346` | an update saves the Flobs of unchanged attributes again and forgets the old ones; `RelationPersistent.cpp:1307` "no garbage left on the disk" | `NoGarbage` with `{"partial update"}`, `NrAttributes = 2`, `MaxRecords = 4` |
| `InitPregelMessages.cpp:111` | a superstep that begins before INIT_DONE is handled counts it as the end of a worker; `StartPregelWorker.cpp:202` | `SilentEnd`, `ImplementsSupersteps`, `EndTogether`, `Barrier` with `{"late init"}` |
| `StartPregelWorker.cpp:100` | "empty" is decided by the inbox before the computation: when a function does not read all its messages, or sends without having read any, the loop may end with messages left | `SilentEnd`, `ImplementsSupersteps` with `{"unread messages"}` or `{"unasked messages"}`; `EndTogether` and `Barrier` hold |
| `MessageServer.cpp:285` | the notification of setMonitor falls between the test of monitor and the wait of a server thread: the superstep never ends; `StartPregel.cpp:107` "always returns TRUE" | `QueriesEnd` with `{"missed notify"}` |
| `CassandraTuplePrefetcher.h:74` | the constructor for several statements initialises neither shutdown nor workdone: the stream may end before its first tuple, or be deleted under its producers; `CassandraTuplePrefetcher.h:100` | `EndMeansAll`, `DestroyedQuiet` with `{"uninitialized"}` |
| `CassandraResult.cpp:66` | a statement that times out or fails has no more rows; `CassandraTuplePrefetcher.h:100` | `EndMeansAll` in `prefetcher` with `{"fetch fails"}` |
| `OperatorsKeyValueStore.cpp:457` | CLOSE does not unlock: a closed query is counted as retrieving; `RestructureLock.h:105` | `CounterIsExact` in `restructure` |
| `RestructureLock.h:98` | unlock resets the counter, and a query that was given up counts against a newer one when it ends; `RestructureLock.h:105` | `CleaningExcludes` with `{"late end"}` |
| `DistributionTaskManager.cpp:289` | a server in two entries has two cleaning threads, and the first lets queries in; the second may then wait for ever | `CleaningExcludes`, `WaitsEnd` with `{"server twice"}` |
| `Connection.cpp:416` | updateRestructureLock sends no id (`KeyValueStore.cpp:827` reads one); the next request of the server is never answered | `outOfStep` in `restructure` |

## 6. Not modelled

- Locks between two sessions that use one open database: `SecondoCommands` has one
  client. `SmiTransaction` has several, but sees files, not records.
- `switchTransaction` in `SmiTransaction`: it commits without `EraseFiles`.
- derive, save, restore and the composed commands, which run the modelled ones or
  write text files; ListDatabases and other reads; MemCatalog.
- The pool of database handles, temporary files, cursors.
- Flobs: the modes for external files, partial writes of persistent Flobs (no
  caller makes one), the cache of whole files, the locks of the THREAD_SAFE build.
  `PersistentFlobCache::putDataToFlobSlot`, which only those writes reach, reads a
  slot from disk when it is written as a whole and not when in part (lines 512, 534),
  and sets `entry->tablePrev = entry` (538).
- Queries: how a tree is built from a list; progress messages, INIT and FINISH;
  functions that an operator evaluates for its caller (FUNMSG); tuple buffers on
  disk; exceptions in a value mapping, which EvalP catches before it calls Destroy.
- Pregel: set-up and tear-down of connections, status, sockets that fail, headers
  in parts, a negative number of rounds. `setMonitor` writes a `shared_ptr` that the
  server thread reads without a lock, and `handleInitDoneMessage` takes its locks
  one by one; each is one step here.
- Prefetcher: the cluster library; rows of metadata, which are skipped; flags
  that are not initialised, and fetches that fail (section 5).
- Restructuring: what is distributed and how; connections that fail while a query
  retrieves (one that fails before is `TryLockFails`); the clean-up itself, which is empty in the code.
- The other parts of section 1, and the algebras. The reason
  for each is in `PROJECT.json`, "components": planned, I/O only, or sequential data.

## 7. Plan

In this order; each item is a module with its instance, properties and mutants.

1. `SmiTransaction`: switchTransaction, and a second database within a bound that
   TLC can do.
2. Processes: monitor, listener, servers and registrar, with start-up and
   shutdown, above `DatabaseSessions`.
3. `SharedCatalog`: two overlays over one set of files under two-phase locking.
4. `DBServiceManager`: nodes, replicas and their persisted tables.
