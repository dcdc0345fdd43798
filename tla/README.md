# TLA+ models of simple-n-fast

This directory models *simple-n-fast*, a set of C++ libraries: the key-value store
`librdb`, the thread pool of `libcom`, sockets, TLS connections and the reactor of
`libnet`, the HTTP library and server `http`, the JSON library `libjson` and the loggers
of `liblog`. The models are checked with TLC on small instances, and the central results
about nine components - free disk pages, memory pages, cache, hash entry locks, open and
close, rebuild, thread pool, HTTP server and log manager - are proved with TLAPS for
instances of every size. `PROJECT.json`
lists components, runs, theorems, hazards and, for every definition that models code,
the lines it models.

## 1. The system

| Part | Source | What it does | Model |
|---|---|---|---|
| Database operations | `librdb/src/rdb.cpp`, `dbfiles.cpp`, `unwind.cpp` | `get`, `set`, `remove` on an index file (`.idx`, key pages in linked lists, one list for each hash entry) and a data file (`.db`, value pages); an undo stack takes back what a failed operation wrote | `RdbStore`, abstract `KeyValueStore` |
| Key record tree | `librdb/src/keyrec.cpp` | the keys of a key page as a balanced tree in an array of slots | `KeyRecords` |
| Free disk pages | `librdb/src/fdpmgr.cpp` | a stack of free page offsets for each file; that of the data file is mirrored in `.fdp` | `FreeDiskPageMgr`, `Stacks` |
| Memory pages | `librdb/src/pagemgr.cpp` | a pool of memory cut into pages | `PageMgr`, abstract `PageAllocator` |
| Cache | `librdb/src/cache.cpp` | least-recently-used list of the key pages in memory | `LRUCache` |
| Key page nodes | `librdb/src/hashtable.cpp`, `rdb.cpp`, `cache.cpp` | the list of nodes of a hash entry, whose pages the cache takes away | `KeyPageList` |
| Hash entry locks | `librdb/src/hashtable.cpp`, `rwlock.cpp` | a read-write lock for each entry in use, from a pool | `HashTable` |
| Open and close | `librdb/src/rdb.cpp` | `opened` and `opCount` keep `close` away from running operations | `RdbLifecycle` |
| Rebuild | `librdb/src/rdb.cpp` | files renamed to backups, keys set again in a new database | `RdbRebuild` |
| Thread pool | `libcom/include/thrdpool.h` | workers on a queue with a condition variable | `ThreadPool`, abstract `TaskQueue` |
| Reactor | `libnet/src/reactor.cpp` | one thread polls sockets and calls their handlers | `Reactor` |
| HTTP server | `http/src/server/server.cpp`, `handler.cpp` | accept, handshake, read and answer, on the reactor and the pool | `HttpServer` |
| Router | `http/src/server/router.cpp` | the tree of path segments that finds the handler of a request | `Router` |
| Message bodies | `http/src/common/transmit.cpp`, `body.cpp`, `libnet/src/nio.cpp` | bodies of known length and in chunks, over buffered reads | `Wire` |
| Start lines, messages | `http/src/common/scanner.cpp`, `request.cpp`, `response.cpp`, `message.cpp` and others | the scanner, request and response lines, the Via field | `Scanner`, `StartLine` |
| Header fields | `http/src/common/headers.cpp`, `hval.cpp` | lists of fields whose values are shared between copies | `Headers` |
| URIs | `http/src/common/uri.cpp` | parse, decode, print, merge | `Uri` |
| Sockets | `libnet/src/sock.cpp` | objects that own a descriptor, blocking mode, options | `Socket` |
| TLS connections | `libnet/src/cnxn.cpp` | ownership of SSL objects, choice of the context by server name, the retry loops | `Connection` |
| File logger | `liblog/src/flogger.cpp` | rotation by size and day, retention | `FileLogger` |
| Log manager | `liblog/src/logmgr.cpp` | loggers added and removed while threads log | `LogManager` |
| JSON texts | `libjson/src/lexer.cpp`, `parser.cpp`, `misc.cpp`, `json.cpp` | lexer, parser, escapes, printed form | `Json` |
| JSON values | `libjson/src/json.cpp`, `include/json.h` | a tagged union that owns its memory | `JsonValue` |

What is left out is in section 6.

How the parts of `librdb` interact. An operation counts itself in (`RdbLifecycle`),
hashes its key, locks the hash entry (`HashTable`), walks the entry's key pages
(`KeyPageList`), which the cache reads in and evicts (`LRUCache`) using memory from
the page manager (`PageMgr`), searches or changes the tree in a page (`KeyRecords`),
and takes or frees disk pages (`FreeDiskPageMgr`); the writes to the two files and
their undoing are `RdbStore`. Each module abstracts its neighbours to what it needs
of them, and says so in its header: `RdbStore` gives an operation its hash entry alone
(what `HashTable` proves of writers), treats the tree of a page as a function from keys to value
pages (what `KeyRecords` shows), takes pages from a stack (`FreeDiskPageMgr`), and
keeps all pages of an entry in memory (`LRUCache` and `KeyPageList` treat eviction).

How the parts of the server interact. The server's accept handlers sit in the reactor;
they give a new connection to the thread pool for its handshake, the task gives it to a
read handler in the reactor, and that to the pool again for the request. `HttpServer`
extends `Reactor` and has the two as one state machine; the pool in it is a set of tasks
that are run in any order, which is what `ThreadPool` is shown to implement of
`TaskQueue` (each accepted task is started once, or dropped by `stop`). A request is
then read through `Scanner`, `StartLine`, `Headers`, `Uri` and `Wire`, and
answered through `Router`; these are modelled as what they do to one message.

## 2. Modules

A definition has the name of the C++ function, variable or type it models where
there is one. What a mutex guards is one step; everything else that other threads, a
crash or a failing call could come between is a step of its own.

Some definitions are not used by any other: `RestUnpopped`, `RefillNever`,
`NextUndoLost`, `notify_none` and others, always just before the definition they
vary. They are seeded faults: each is a plausible mistake in the code of its
neighbour, with which one of the properties must fail. `PROJECT.json` ("mutants")
pairs them with the property that notices them.

Storage:

* **RdbStore.** `kfile`, `vfile` are the files, `page`, `list`, `offset` the memory,
  `kfree`, `vfree` the free stacks, `pc`, `req`, `ki`, `ustk` the locals of each
  thread. `set` is `SetBegin`, then either `SetOverwrite`, or `SetValue` followed by
  `SetIndex` (room in a page) or `SetNewPage` and `SetLink` (`addNewPage`). `remove`
  is `RemoveBegin`, `RemoveMark` (value page deleted), `RemoveUnindex` (key page
  written without the record), and for a page that became empty `RemoveDeletePage`,
  `RemoveUnlinkNext`, `RemoveUnlinkPrev`, `RemoveDropPage`; then `RemoveFreeValue`.
  Every write, and the `freePage` of the value file, has a failing counterpart, after
  which `execute` pops the undo stack (the key file's page manager has no file, so its
  `freePage` cannot fail). `failed`, `relinked`, `retried` and `cut` remember failed
  operations, key pages that an undo leads back to after they were freed, the use of
  either, and removes that a crash cut short.
  `open` scans the files as `populateHashTable` and `populateFreePages` do. The
  rigid variable `db` says which of several databases a behaviour is about: the keys
  in a page, the hash function, the operations used, crashes and failing writes.
  The ASSERTs of the code are values of `mode`: the process has aborted.
* **KeyValueStore** is what a restart may see of sets: one key changes at a time, to the
  value a set under way was given.
* **KeyRecords.** `kp` is the page. `put` and `remove` are recursive as in the code.
* **FreeDiskPageMgr.** `nextFreeOffset` is the stack, `fsize`, `file`, `torn` the
  `.fdp` file and its size as the manager believes it, `size`, `cut` and `flags` the page
  file: its pages, whether the last is there in whole, and what is on disk for each. A
  thread takes a page, writes it, drops it (marks it deleted) and frees it. A failing
  append may leave part of an entry (`torn`), a failing page write part of a page, and a
  failing read makes `init` return with the entries before it.
* **PageMgr / PageAllocator**: `get` and `free` with the addresses of the code, among
  which stale ones come to rest at the bottom of the stack; and what that implements.
* **LRUCache** keeps the real pointers (`head`, `tail`, `c_prev`, `c_next`). `free` is
  three steps: the read of `kpn_cnode` without the mutex (`Free`), the freeing of the cache
  node (`FreeCnode`) and that of the page (`FreePage`).
* **KeyPageList** keeps the real pointers of the nodes of one entry; page `p` stands
  for the one key it holds. A page is evicted between two operations (`Evict`) or by
  `addNewPage` itself (`LinkLast`).
* **HashTable.** `Lock` takes the table's mutex and finds a lock object, `rdlock` and
  `wrlock` are granted with the mutex still held, as in the code.
* **RdbLifecycle** has generations of objects in place of pointers, so that a use
  after `close` shows.
* **RdbRebuild.** A file is the set of keys in it; every rename, open, set and
  removal is a step, and may fail - the write of a value without anybody noticing.

Threads and the server:

* **ThreadPool / TaskQueue**: a worker that waits is notified or wakes spuriously,
  and evaluates the predicate again under the lock.
* **Reactor.** `m_handlers` has the handlers of each socket, `poll_vec` what the last
  `set_poll_vector` asked for, `revents` and `todo` what `poll` found and is still to
  be processed, `pipe` the bytes in the socket pair that wakes the loop. A turn of the loop is
  `Loop`, a `Poll...` action and one `ProcessNext` for each ready socket. Other
  threads add and remove handlers between those steps, handlers return or call back
  in them. `rpc = "stuck"` is a loop that waits for `m_lock`, which it holds itself.
* **HttpServer** extends `Reactor`: `main` is the thread that starts and stops the
  server, `hnd` the read handlers, `tasks` the pool: waiting in its queue, running
  (`"shaking"`, `"serving"`, which lasts until the client has sent something), or at the end
  of a request (`"free"`). `stop` drops those that wait and joins those that run. A pointer to a socket that
  was freed is `dangling`; its use sets `undefined`.
* **Wire.** The sender (this library, or a peer that keeps to the standard) writes a
  body to `wire`, where other messages may follow and which is cut or not; the reader
  takes any number of the characters that are there. A socket's reads time out, those of a
  TLS connection wait. `m_size` and `m_read` are the reader's counters.
* **Socket, Connection.** Objects and the kernel's descriptors or OpenSSL's objects,
  with every call of the system able to fail. `botched`, `lost`, `twice` record what the
  program cannot see of itself.
* **Router.** The tree is a sequence of segments with children; `handle` is the
  search with its stack of parameters, compared with `RoutesIn`, all routes of a path.

Logging:

* **FileLogger.** A file has a size and the second of its last write; a name is a date
  and a sequence number, or one of the two, as the configured name format has it. `tied` and `late` record two newest
  files of one second, and a record logged after one of a later day.
* **LogManager.** `log` on a manager without loggers takes a step for each access, as the code has
  no lock there.

Texts. Each module grows an input piece by piece, so that every text of a few pieces
is tried, and checks the code's reading and printing against each other or against a
reference definition:

* **Scanner** is a helper of **StartLine** (request, response, Via) and **Headers**
  (lists of fields on a heap of shared values).
* **Uri**: characters are one-letter classes; percent-encoding is real.
* **Json**: characters are byte codes, as escapes go through UTF-8 and UTF-16.
* **JsonValue**: `val` are the variables, `heap` what they own, `want` the tree that
  was assigned.

`MC...` modules are instances for TLC. The proofs are in `FreeDiskPageMgrProofs` and
`KeyFileProofs` (free disk pages), `StorageProofs` (memory pages, open and close, rebuild),
`CacheLemmas` and `CacheProofs` (cache), `SystemProofs` (hash entry locks, log manager),
`ThreadPoolProofs` and `HttpServerProofs`; section 4 goes through them.

## 3. Runs

`tlc -config X.cfg M` in this directory. Bounds are named in the modules.

`MCStorage`, `MCSystem`, `MCText` and `MCThreads` hold several parts that share no state.
The variable `part` is chosen in the initial state and never changes, so that a
behaviour is one of a single part, and the state space is the sum of theirs, not the
product. A property of such a run has the form `part = ... => ...` and gathers what is
said of that part.

| Run | Module, cfg | Bounds | What it shows |
|---|---|---|---|
| `fdp` | `MCFreeDiskPageMgr`, `FreeDiskPageMgr.cfg` | 2 threads, 4 pages; key file / value file with 2 failing operations / with 1 operation that fails, is cut short or is a failing read of `.fdp` | `TypeOK`, `NoDoubleAllocation`, `ReuseBeforeGrowth`, and for the key file `KeyFileLosesNoPage` |
| `storage` | `MCStorage`, `MCStorage.cfg` | tree: 5 keys, 5 slots; cache: 2 threads, 3 nodes, 5 cache nodes, 2 pages; list: 4 pages, 11 nodes; pool: 4 pages and part of a fifth; 3 threads and 3 opens; 3 keys, 2 rebuilds, 2 failures, 1 crash | `GetsLastPut`, `TreeSound`, `CacheSound`, `EveryPageFound`, `WorksOnLiveObjects`, `RebuildKeepsKeys`, `Allocates` (refinement of `PageAllocator`) |
| `store` | `MCRdbStore`, `RdbStore.cfg` | 2 threads, 3 keys, 3 pages in each file, 5 databases (below) | `ReadsLastWrite`, `FilesAgree`; with failing writes `FailureSparesOthers`; with crashes `AckedSurvives` and `CrashAtomic` (refinement of `KeyValueStore`) |
| `system` | `MCSystem`, `MCSystem.cfg` | locks: 3 threads, 2 entries, 2 locks; file logger: 2 threads, 3 records, 5 instants in days of 2 seconds and months of 2 days; manager: 2 threads, 2 loggers, 4 records; 2 sockets, 2 descriptors; 2 connections, 3 SSL objects, 2 contexts; router: 3 paths of up to 2 elements | `LocksSafe`, `LogFilesBounded`, `RotationKeepsRecords`, `LoggersAlive`, `SocketsSound`, `ModeRestored`, `ConnectionsSound`, `RoutesAsAdded` |
| `text` | `MCText`, `MCText.cfg` | URIs of 4 pieces of 14, merged with relative ones of 2; 2 lists with 2 names and values of 2 members; JSON of 5 pieces of 19; 2 values nested two deep, 4 pieces of memory; start lines of 4 pieces of 11 and the messages built from 8 URIs | `UrisReadBack`, `FieldsAsSet`, `ReceivedAsSent`, `JsonReadsBack`, `ValuesOwnMemory`, `LinesReadBack` |
| `threads` | `MCThreads`, `MCThreads.cfg` | 1 to 3 workers, 3 tasks; a reactor with 1 socket of 2 handlers; bodies of 2 pieces of up to 2 characters, 3 in all, and strings of up to 11 with `INT_MAX` 4 | `PoolSound`, `RunsTasks` (refinement of `TaskQueue`), `TaskEnds`, `StopsReturn`, `BodyRead`, `BodyEnds` |
| `server` | `HttpServer`, `HttpServer.cfg` | 2 listening sockets, 1 client descriptor that is used again, a socket pair of 3 bytes, `poll` without time-out | `OneOwner`, `FreedAfterAnswer`, `StopsIfSecured`, `EventuallyPolled` |
| `locks_granted` | `HashTable`, `HashTable_granted.cfg` | 2 threads, 1 entry | violated: see section 5 |
| `store_undo` | `MCRdbStore`, `RdbStore_undo.cfg` | as `store` | violated: see section 5 |
| `json` | `MCJson`, `MCJson.cfg` | strings of up to 7 pieces | violated: see section 5 |
| `handshake` | `Connection`, `Connection.cfg` | as in `system` | violated: see section 5 |
| `chunks` | `MCThreads`, `MCThreads_chunks.cfg` | as `threads` | violated: see section 5 |

**Why the bounds are enough.** Two threads are the least that race, and an operation
of `librdb` meets another one only over the shared stacks, the lock pool and the
cache, each of which has two or three elements to run out of. Three keys in one hash
entry with one key in a page give a chain with a first, a middle and a last page to
unlink; two keys in a page give pages that are full, half full and empty. Five slots
hold a tree in which each of the four rotations happens, at the root and below it.
Two rebuilds are what it takes to rebuild after a rebuild that was cut short. One client
descriptor is enough for a stale pointer to meet the next connection with the
same number, and a socket pair of three bytes fills up. Two chunks of up to two
characters, with `CHUNKSIZE` 1, have a chunk end before, at and after the end of a read; a
string of 11 characters is longer than the 10 after which a length wraps around to 0.
Three records over three days with two threads give rotations by size and by day, a
record that comes late, a day with the number of one of another month, and more files
than are kept. A path of two elements is
the shortest with which the router backs out of a segment.

**The databases of `store`** are: two keys in a page and two hash entries, with two
operations in which a write fails; one key in a page and one entry, a chain of pages, with
one; values that are overwritten; sets of two threads with crashes; and sets and removes on
a chain of pages with crashes.

**What the bounds leave out.** In `RdbStore` a behaviour is followed until the key of a
failed operation, or an entry whose chain the undo led back to a freed page, is used again,
and a database in which a write failed or a remove was cut short is not opened again: both
are known to lose data (section 5), so no property could be stated there. (A failing undo
aborts the process and is not counted.) In `KeyPageList` a remove evicts no page itself. In
`FreeDiskPageMgr` short writes and failing reads come one to a behaviour: after a failing
read a second failure does let a page be handed out twice. In `HttpServer` two clients at
the same time are not followed: what they share is the pool and the reactor; and once a
freed object was used, no more connections are accepted or requests answered. In `Wire` a
file changes by one character, extensions come with single chunks, and a TLS reader or a
forwarded body has one piece. `JsonValue` stops a behaviour where the code would read freed
memory or has lost some.

**Deadlock** is not checked where the system really may stop: the database is blocked
or aborted, the pool, the reactor or the server was stopped, the model stops where the
code would read freed memory, or a text or a count has reached its bound. It
is checked in `fdp`.

**Fairness** is assumed of the threads of the program and of nothing else: not of
clients, peers, signals, calls of `submit` or `stop`, failing calls or spurious
wakeups.

* `ThreadPool`: weak fairness of each worker and of the thread in `stop`. The operating
  system runs every runnable thread, the lock is held for a few instructions only, and
  a task ends.
* `Reactor`, in `threads`: weak fairness of the loop, of `poll` returning when
  its time-out has passed or the socket pair can be read, of processing what was found, and of the thread
  in `stop`. `poll` has a time-out there.
* `HttpServer`: the same of the loop, of handlers, of the end of a request and of the
  thread that stops the server; `poll` waits without limit and has to return only when there
  is something in the socket pair. `EventuallyPolled` and `StopsIfSecured` thus rest on the
  wake-up and not on a client that happens to call. Handshakes and requests have no
  fairness: over TLS they wait for the client without a time-out (`handler.cpp:26`,
  `cnxn.h:64`), and with all workers so occupied no other task starts.
* `Wire`: weak fairness of the reader's steps that are enabled. A socket's time-out makes a
  read return; a read from a TLS connection has none and is enabled only when there is
  something to read.
* `HashTable!FairSpec`: weak fairness of each thread inside a lock call or an
  operation: an operation ends.

**Symmetry** is used in `store` (threads, the two keys that every hash function treats
alike), `storage` (threads and nodes of the cache), `system` (connections, contexts; the
threads that log and the socket objects, which are the same model values) and `text` (the
variables of JSON values and the lists of fields, the same values again). No part treats
one of these values differently from another, and no behaviour has two of the parts that
share them. None of these runs checks a liveness property.

## 4. Proofs

TLAPS proves the following for every value of the constants, that is for any number of
threads, pages, keys, sockets and so on, and of failures and crashes where there are any.
Each safety result is `Spec => []Inv` along the same line: an inductive invariant that
the initial states satisfy, that every action preserves (one lemma for each action or
group of actions) and that implies the property. What follows says why the property is not
inductive by itself and what was added.

* **Free disk pages** (`FreeDiskPageMgrProofs`): `NeverDoubleAllocated`, `TypeCorrect` and
  the action property `ReusedBeforeGrowth`, all provided that failing appends write nothing
  and reads of the `.fdp` file do not fail (`WholeFile`). `NoDoubleAllocation` says nothing
  about the entry at the bottom of the stack, which `GetFresh` hands out. `IInv` adds
  `Watermark` (the bottom entry is above every page in use or in somebody's hands,
  and every other entry is below it), `HeldIsLive` (a page in use is marked live, so that
  the scan after a crash does not find it free), `OneInHand` (a thread has at most one
  page taken or dropped) and `FileOK` (the `.fdp` file has as many whole entries as the
  manager believes). `AbortsOnlyAfterFault` has no proviso: with short writes, page files
  that end within a page and failing reads, the ASSERTs on the offset given to `free` fail
  only after some disk operation did. Its invariant is that without a failure no file is
  torn or cut and the process has not aborted.
* **The key file** (`KeyFileProofs`): `KeyFileKeepsPages`. `KeyInv` adds to `NoLostPage`
  that a page marked live is in use: what a closed database knows of its pages is on
  disk alone, and the scan must find every other page.
* **Memory pages** (`StorageProofs`): `ImplementsAllocator`, the refinement of
  `PageAllocator`. `PoolInv` has two phases: while the pool still grows (`Growing`), the
  bottom of the stack is the first page never handed out; once it has grown (`Grown`), the
  stack has at most one stale address more than there are free pages, and it is at
  the bottom, where `numOfFreePages > 0` keeps `get` from it.
* **Open and close** (`StorageProofs`): `OperationsKeepObjects`. `LifeInv` adds that
  `opCount` is the number of operations in progress, and that as long as there is one the
  database is open with the hash table that its guard has.
* **Rebuild** (`StorageProofs`): `RebuildLosesNoKey`. `RebuildInv` says at each stage
  of `rebuild` where the keys are: those of a file still to be renamed in the file, of the
  others in their backups, those copied in the new file, those moved back in the file
  again (`Stages`, `Moving`, `Back`); and after a crash in one or the other (`Somewhere`).
  The exceptions are those of `RebuildKeepsKeys`.
* **Cache** (`CacheLemmas`, `CacheProofs`): `CacheIsSound`. `CacheInv` has a part that
  always holds (`Base`: the pages are counted, and no two threads work on one node) and a
  part that holds until the list is upset: the cached nodes form a doubly linked list from
  `head` to `tail`, in the order of their use (`Queue`); a node with a cache node is in it or
  about to be added (`Held`); the cache node that a thread makes or has read to free it is
  its own (`Making`, `Freeing`). `CacheLemmas` says what moving to the front, adding and
  taking out do to such a list.
* **Hash entry locks** (`SystemProofs`): `LocksAlwaysSafe`, with its parts
  `EntriesExclusive` and `PooledLocksUnused`. `IInv` relates the threads inside an entry to
  the grants of the lock object behind it (`GrantsMatch`), the grants to `RWLock::cnt`
  (`CountMatches`), and says that an entry somebody waits for or is inside of has a lock
  (`LockThere`) and that only the thread with the mutex waits (`Waiting`).
* **Log manager** (`SystemProofs`): `LoggersStayAlive`. `ManagerInv` adds that a removed
  logger is not registered and its number not given again (`Removed`), and that without an
  upset all threads are in the same branch of `log`, so that none deletes a default logger
  (`Quiet`).
* **Thread pool** (`ThreadPoolProofs`): `PoolIsSound` and `PoolRunsTasks`, the refinement of
  `TaskQueue`. `IInv` adds that what was started, followed by the queue, is what was accepted
  (`Order`), what has become of each task (`Fates`), and that the queue is valid until
  `stop` invalidates it (`Valid`).
* **HTTP server** (`HttpServerProofs`): `ConnectionsOwned` and `OnlyAnswersFree`. `IInv`
  says who owns a socket: a live owner has an open socket (`OwnersOpen`), of the tasks to run
  and the handler one owns it (`OneToRun`), a handshake is over before there is a request
  (`HandshakeAlone`), nothing is lost (`NoneLost`); and before the first answer nothing
  dangles (`Unanswered`).

**Assumptions** are those of the modules, named `...Assumption`: bounds are natural
numbers, `Null` and `None` are no elements of the sets they are used with, the sets of threads, nodes
and workers that are counted are finite, the two listening sockets are among the sockets. Where a
module is used as a part of a run, they are the hypothesis of the theorem and `MCStorage` and
`MCSystem` assume them of their constants, so that TLC evaluates them.

**Only model-checked** are: free disk pages with short writes or failing reads of the
`.fdp` file; `RdbStore`, whose files, memory and threads are related by close to thirty actions;
sockets, connections and the file logger; and all liveness properties, which are outside the
prover's reach. So is induction over recursive definitions, on which what is said of
`KeyRecords`, `KeyPageList`, `Router`, the texts and `Wire` rests.

## 5. Where the code disagrees with what it says

Five disagreements are kept as runs:

* `locks_granted`: `HashTable::rdlock` and `wrlock` (`hashtable.cpp:71`) wait for the
  entry's lock with `HashTable::mutex` in their hands, which the holder needs to
  unlock. "Librdb is thread-safe" (`librdb/README.md:3`), but two threads on one key,
  one of them writing, stop the database.
* `store_undo`: `KeyFile::writeFlags` (`dbfiles.cpp:217`) writes an `int` over
  `kp_flags` and the key count behind it. When a remove that emptied a page fails
  later, the undo "restoring flags" (`unwind.cpp:83`) leaves a page with no keys
  on disk; the next `open` takes it for free.
* `json`: a string is unescaped by the lexer and again when it is assigned to the
  token's value (`lexer.cpp:244`, `json.h:274`), although "strings are always stored in
  memory in their raw, un-escaped form" (`libjson/README.md:6`).
* `handshake`: `connection::handshake` (`cnxn.cpp:485`) leaves its loop when the wait
  before a retry times out, and returns; it should throw if "the TLS handshake fails"
  (`cnxn.cpp:460`).
* `chunks`: `has_next` of a chunked body (`body.cpp:409`) does not reset `m_read`, the
  "data read (for the current chunk if chunked)" (`body.cpp:349`), so that a second chunk
  is skipped or read in part.

Others met while modelling limit what the passing properties say, each at the place
where a condition in the property names it.

In `librdb` and `libcom`:

* `balanceTree` (`keyrec.cpp:211`) has no case for a heavier child that is even, which
  only removals cause; hence `PutsKeepBalance` is about puts only, and balance factors
  beyond the "[-2, 2]" of `keyrec.cpp:94` are reached.
* `KeyRecords::remove` of a key with two subtrees frees another slot than `get`
  found, and the ASSERT at `rdb.cpp:893` fails; hence the exception in
  `ReportsSlotFound` and at most two keys in a page in `RdbStore`.
* `LRUCache::touch` (`cache.cpp:276`) leaves `tail` at the last element it moves to
  the front, and `LRUCache::free` (`cache.cpp:297`) reads the cache node before it takes the
  mutex, so that an eviction in between frees it as well: hence `~Upset` in
  `EvictsLeastRecent` and `NodesLinked`. `LRUCache::free` does not count down `num`, and an
  eviction may take the page another thread works on.
* `LRUCache::update` (`cache.cpp:236`) clears the links of a node that is in a list.
  Lookups survive it (`EveryPageFound`), removals do not: hence `~cut`.
* `get`, `set` and `remove` do not look at `opened` (`rdb.cpp:624`), hence `~misused`
  in `WorksOnLiveObjects`; and they count themselves out before the lock guard unlocks
  (`rdb.cpp:664`), so a `close` in between deletes the table that is then unlocked.
* `rebuild` after a crash in `rebuild` renames incomplete files over the backups, and
  leaves the new database open when the backup cannot be opened (`rdb.cpp:1081`):
  hence `Intact` and the conditions of `NothingLost`. A value whose write fails is not
  noticed (`dbfiles.cpp:426`); `rebuild` goes on and removes the backups, and the key is lost.
* The undo stack frees the value page of a failed `set`, and the record stays in the
  key page in memory (`rdb.cpp:215`). Another key takes the page; then `remove` of the
  first key (`rdb.cpp:875`) marks it deleted, or `set` (`rdb.cpp:784`) overwrites it:
  neither looks at whose page it is. A remove whose `freePage` of the value page fails
  (`rdb.cpp:988`) has freed its key page, and the undo leads the chain to it again. Hence
  `~retried` in `FailureSparesOthers`; without that condition TLC finds the other key lost.
* `ValueFile::write` (`dbfiles.cpp:426`) returns `E_ok` on failure. The key of a failed
  set or remove may be unreadable afterwards, or abort the process; the properties
  after a failure are about the other keys.
* A remove cut short by a crash leaves a record that leads to a deleted value page
  (`rdb.cpp:875`), and one cut short after it marked the first page of a chain deleted and
  before the next one became the first (`rdb.cpp:953`) loses all keys of the entry: hence
  the exceptions in `AckedSurvives`, and `CrashAtomic` is about sets.
* `FreeDiskPageMgr::get` (`fdpmgr.cpp:166`) undoes the stack and not the `.fdp` file.
  `populateFreePages` frees offset -1 when the `.fdp` file holds only part of an
  entry or its first read fails (`rdb.cpp:123`); a page file that ends within a page makes
  the next open fail the ASSERT at `fdpmgr.cpp:191`. Hence `faults > 0` in
  `FreedOffsetIsValid`. After a read that failed in the middle `init` returns `E_ok` with
  the entries before it (`fdpmgr.cpp:103`).
* `thread_pool` computes `hardware_concurrency() - 1` in `size_t` (`thrdpool.h:159`),
  which wraps for 0; the run uses 1, 3 and 4.

In `libnet`, `http`, `liblog` and `libjson`:

* Handlers are called with the reactor's lock held (`reactor.cpp:103`); one that calls
  `add_handler`, as the accept handler does for a connection without TLS, waits for
  itself. Hence `plain` in `OneOwner` and `StopsIfSecured`. A write to a full socket pair
  blocks as well, hence `pipe = MaxPipe`. `stop` joins workers that wait for a silent TLS
  client without a time-out (`server.cpp:179`): hence the last alternative of
  `StopsIfSecured`.
* The log line after `erase` reads the erased entry (`reactor.cpp:119`): when it was the
  last, the model may crash. Time-outs of handlers are looked at only after `poll` found some
  socket ready, so none is promised.
* `process_request` registers a handler with a pointer to the socket that its own
  `unique_ptr` frees (`handler.cpp:182`): hence `answered` in `FreedAfterAnswer`, and
  `undefined` in the others.
* A search that backs out of a segment pops a parameter by the kind of the wrong
  segment, as the recursive call has changed `seg` (`router.cpp:178`): hence `Straight`
  in `ParamsOfRoute`. A regular expression spelled like a literal is taken for
  it: hence the exception in `LiteralsWin`.
* `send_body` writes nothing after the size of a chunk, where the standard and the
  readers have CRLF (`transmit.cpp:52`), so `ReadsPrefix` is about lengths and about
  single chunks of other implementations; the stream reader drops a character after each read
  (`scanner.cpp:387`), so `DoneMeansAll` is about streams of up to `CHUNKSIZE`. `send_data`
  narrows a length to `int` (`transmit.cpp:26`) and reports success for a part of the
  data: hence `INT_MAX` in `SentAsAnnounced`. A read from a TLS connection never times out
  (`cnxn.cpp:527`): `BodyEnds` is about messages sent in whole there.
* `scanner::unget` does nothing at the end of a line, so a last word of one character is
  lost: hence `Unreadable`. A copy of a list of fields shares its values
  (`headers.h:44`): hence `shared`. `update(name, base_value *)` adds a field under the name
  as spelled (`headers.cpp:277`), where nothing finds it when it has capitals: hence
  `Findable` in `FieldsAsSet`. A URI without a path leaves two spaces in a request
  line, and a Via member without a comment takes in the next one: hence `Readable` and
  `ReadableVias`.
* A colon that was percent-encoded is printed as it is, and characters outside ASCII
  print wrong: hence `Ambiguous`. `uri_path::merge` (`uri.cpp:590`) takes one segment
  too many from a base that ends in a slash or in dots, and decodes twice: hence the
  conditions of `MergesAsSpecified`.
* `socket::connect` (`sock.cpp:916`) passes over an error other than "in progress" on a
  non-blocking socket; no property says that a returned connect is connected. Assignment to an open
  object, and `accept` or `socketpair` whose constructor throws, lose a descriptor; a
  failed `close` keeps it: hence `lost` and `botched`. A `getsockopt` that fails in `connect`
  (`sock.cpp:939`) throws before the blocking mode is put back: hence `"sockopt"` in
  `ModeRestored`. Time-outs of up to a second leave
  the seconds uninitialized (`sock.cpp:564`).
* A copy assignment of a connection that throws leaves a deleted SSL object behind
  (`cnxn.cpp:302`), and the server-name callback may find that the connection it was set
  for was moved or destroyed (`cnxn.cpp:24`): hence `botched`.
* The default logger is used and deleted without a lock (`logmgr.cpp:250`), against
  "Thread safety." (`liblog/README.md:6`): hence `upset` in `LoggersAlive`. A
  file logger that resumes one of two newest files of the same second, or gets a record
  of the day before, may let a file grow: hence `tied` and `late`. Daily rotation compares the
  day of the month (`flogger.h:165`): hence `SameDayOfMonth` in `LandsInItsDay`.
* JSON: the integer 0, `[]`, `{}` and an exponent of zeros are refused, an array or
  object that ends after a comma is accepted, an integer that does not fit throws
  `std::out_of_range`. A real that prints without a point reads as an integer. Hence
  `ReadsBack`.
* JSON values: `x = x["k"]` reads what it has deleted, `x["k"] = std::move(x)` loses the
  memory, a string that is refused leaves a null pointer under the type string. Hence
  `broken` and `leaked`.

## 6. What is not modelled

Not modelled at all:

* Addresses and hosts, files and directories (`libnet`, `libcom`): wrappers of system
  calls without state of their own. Their callers' models have what they need of them:
  truncation in `FreeDiskPageMgr`, renaming in `RdbRebuild`, directories in `FileLogger`.
* The TLS wrapper (`libsslwrapper`): each function is one of OpenSSL; `Connection` has
  any outcome OpenSSL distinguishes.
* The daemon (`jdaemon`): system calls and JNI calls in a row, whose effect is the
  operating system's and the Java VM's.
* Prime numbers (`librdb`): a pure function that sizes the hash table; the models take any
  number of entries.
* Common utilities (command line, configuration, plugins, dates), the test framework and
  the database driver: conversions, I/O and interactive tools.
* The Windows parts of everything.

Left out of parts that are modelled:

* `librdb`: reads of files never fail in `RdbStore`; crashes are of the process, so what
  was written stays written; the data race of two readers that extend one list of nodes;
  the sizing of the page pool; `setKeyPageSize` and `setHashTableSize`.
* Thread pool and server: a second concurrent `stop`; several clients at once.
* The buffer of `nio`, which `Wire` abstracts to reads of any number of characters;
  trailers, which the code does not read.
* Header fields with dates and with host and port, which take the paths of the others.
* `bind`, `listen`, `shutdown` and the address queries of sockets, which leave the object
  as it is; verification of certificates and host names.
* The formatting of log records and the configuration of loggers.
