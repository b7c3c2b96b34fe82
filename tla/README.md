# A verification project for FirnLibs

FirnLibs is a C++ utility library: a thread pool, a polled networking layer on
top of it, a wrapper for SQLite, and helpers for cryptography, files, strings
and MP3 playback. This directory holds TLA+ models of its stateful parts, the
TLC instances that check them, and TLAPS proofs, for every size of instance, of the safety
properties those instances check.
Paths are relative to `src/`.

## 1. Inventory

| Part | State | Operations | Talks to |
|---|---|---|---|
| Thread pool, `threading/threadpool.*` | `queue`, `finishing`, `threadList` with a stop signal per thread, three mutexes, one condition variable | constructor, `SetThreadCount`, `Push`, `FinishUp`, destructor; `RunnerFunc` on every worker | runs `std::function`s, which may `Push` again |
| Job queue, `threading/queue.hpp` | a list under its own mutex | `Push`, `Pop`, `CanPop`, `Size` | the pool |
| `GuardedVar`, `threading/guardedvar.hpp` | a value and a recursive mutex; a `Token` is the lock | `Get`, assignment through the token | pool, clients, listeners, SQLite |
| Client, `networking/client.*` | `identifier`, `fd`, limbo, `sharedThis`, the callbacks | `Commence`, `Connect`, `Send`, destructor; data, error and cleanup lambdas | the poll dancer, the pool |
| Listener, `networking/listener.*` | `identifier`, `sharedThis`, the callbacks | `Listen`, `Stop`, destructor; client, error and cleanup lambdas | the poll dancer, the pool |
| Poll dancer, `networking/networking.*` | the maps `listeners` and `clients`, a pipe, the identifier counter | `Listen`, `ConnectTCP`, `Signal*`, `Cleanup`; `PollDancer` with `HandleListener`, `HandleClient`, `HandlePipe` | kernel sockets; pushes every callback on the pool |
| SQLite wrapper, `sqlite/sqlite.*` | `db`, `statementMap`, the last error | `LoadDB`, `Prepare`, `Unprepare`, `PreparedExecute`, `UnpreparedExecute`, `Cleanup` | the SQLite library; row callbacks of the program |
| `Prepvar`, `sqlite/prepvar.cpp` | `type`, `data`, `size`: a tagged value on the heap | constructors, copy, `operator=`, `GetValue`, `Cleanup`, destructor | SQLite wrapper |
| AES frame, `crypto/aes.*` | key and IV | `EncryptData`, `DecryptData` | Crypto++, zip |
| Files, strings | none | `CleanPath`, `HasExtension`, `ForEachFile`; `Split`, `Replace`, `Trim` | the file system |
| MP3 stream, `mp3/mp3stream.*` | the decoder, the current track, a recursive mutex | `PlayTrack`, `onGetData` | SFML's thread, mpg123 |
| Winsock emulation, `networking/VCNetworking.*` (Windows builds only) | `fdVec`: type, handle, event object and `sendReady` of each descriptor; a pipe as a vector and an event | `pipe`, `socket`, `poll`, `close`, `ioctl`, `read`, `write`, `listen`, `accept`, `send`, `connect` | Winsock; called by the poll dancer and the program's threads |
| zip, conversions, metadata, system, C# | none | calls of other libraries | |

What is hard here, and untested (the repository has no tests):

* **Interleavings.** `Push` does not own the mutex of the condition variable it
  notifies; a stop signal is written without it; `GetIdentifier` increments a
  counter without a lock from several threads; two threads unprepare one statement.
* **Lifetimes across threads.** A client may be destroyed by a thread of the program, or
  by its own callback on a worker, while the dancer still pushes callbacks of it. The
  design rests on a shared `GuardedVar`, a copy of the pointer to it on the heap, and
  the order of the queue.
* **Names that are reused.** Descriptors, identifiers kept in a narrower type,
  statement pointers.
* **Failure half way.** A send that takes part of the buffers, an accept that
  fails, a poll interrupted by a signal, a callback that throws out of an
  execution, a connection that does not open.
* **Events that come once.** On Windows the dancer sleeps on event objects; an event that
  is reset too early is lost, one that stays set over nothing is taken for an end.
* **Unlocked members.** `Listener::Listen` tests and stores `identifier` outside the
  mutex that `Stop` and the error callback hold.
* **Waiting.** Joins under a mutex the joined thread needs, two locks in two
  orders, wake-ups that are lost or reach the wrong sleeper.

`PROJECT.json` lists the hazards one by one with their lines. What makes each
component correct is stated beside its properties in section 3.

## 2. Modules

| Module | Models | Composes with |
|---|---|---|
| `JobPool` | what the pool promises: FIFO, each accepted job taken by one worker, once | |
| `Threadpool` | the pool at the granularity of its locks | implements `JobPool` |
| `ThreadpoolProofs` | theorems about `Threadpool` | extends it |
| `Client`, `ClientProofs` | lifetime of clients against the jobs of their connections; theorems | instantiates `JobPool` as its pool |
| `Connections` | what the networking promises of each connection: a channel that sends the oldest first, and its callbacks | |
| `Networking`, `NetworkingProofs` | the dancer, its maps, the pipe, descriptors and identifiers; theorems | jobs as sequences of what was pushed; implements `Connections` |
| `Listener` | one listener object, its identifier and its jobs | instantiates `JobPool` as its pool |
| `ListenerProofs` | theorems about `Listener` | extends it |
| `VCNetworking`, `VCNetworkingProofs` | poll, pipe and sockets made of Winsock events; theorems | under the dancer's loop; the same dancer as `Networking`, at the level of its system calls |
| `Sqlite`, `SqliteProofs` | one connection, its statements, re-entrant and concurrent calls; theorems | |
| `Prepvar`, `PrepvarProofs` | the heap blocks of bound values; theorems | |
| `AesFrame`, `AesFrameProofs` | the arithmetic of the frame's size; theorems | |
| `Text` | `Split`, `Replace`, `Trim`, `CmpNoCase`, `HasExtension`, the loop of `CleanPath`, each with a definition of its result | |
| `MCHelpers` | TLC instance of `Prepvar`, `AesFrame` and `Text` | extends the first two, instantiates the third |
| `MC*` | the other TLC instances; `Listener` and `VCNetworking` are run as they are | |

`JobPool` is the joint of the project. `Threadpool` is shown to implement it,
by TLC on an instance and by TLAPS for every instance, and `Client` runs its
lambdas on it rather than on the threads, which keeps both small enough to check; so does
`Listener`. `Connections` is to the dancer what `JobPool` is to the pool: `Networking` is shown
to implement it, in both ways again.

How they correspond to the code:

* **`Threadpool`.** `pc[t]` names the statement thread `t` executes next; the
  mutexes are variables holding their owner. A section under a mutex that no
  other thread can disturb is one action (`WorkerTake`: lock, true predicate,
  pop, unlock). A false predicate is a step of its own, since `Push` and
  `SetThreadCount` change what it tested without the mutex: `WorkerIdle` and
  `WorkerWait` keep the gap apart in which a notification is lost.
  `SpuriousWakeup` is what the C++ standard lets `wait` do. `SetThreadCount`,
  shared by the constructor, the destructor and `FinishUp`, is one set of `Set*`
  actions; `frame[u]` remembers who called it and so which locks are given back.
* **`Client`.** `object` is the life of a `Client`, `content` and `owner` the
  `GuardedVar` behind `sharedThis`, `holder` the heap copy `sharedCpy`, `node` the
  entry in the dancer's map. The workers are any number, as the pool has one per processor
  (`networking.cpp:18`). A job goes `begin` → `lock` → `callback` or `delete`, the points
  between which another thread may act. `Send`, `Connect` and the destructor are called by
  threads of the program and from inside callbacks (`Home`), on the client of the callback or on
  another, and stop at the client's mutex (`stage`, `target`); `Commence` takes no lock.
  What `Send` writes to the pipe is in `Networking`. Only what of the dancer pushes
  jobs is here. An error job whose map entry has gone dereferences a dead
  iterator; it may do its work or nothing (`ErrorLost`). Two variables are history: `ownEnd`,
  the clients that the callback in progress destroys, and `overtaken`, those whose cleanup
  lambda had the mutex while another job of theirs had not had it yet.
* **`Networking`.** `open` is the kernel's descriptor table, `fdOf` and `ident`
  what the program keeps, `listeners` and `clients` the dancer's maps from
  descriptor to entry, `pipe` and `pipeData` the messages before and after
  `HandlePipe`. A round of the dancer is `Poll`, `HandlePipe`, one step per
  descriptor in `todo` (`Due` is the next one: `poll`'s array has the listeners first, each map
  in its order), then one step per message. The unlocked counter is read and
  written in two steps. `Kept` is the conversion of a 64-bit identifier through
  the `int` of a client or the `unsigned int` of a listener. `jobs` and `wire` are
  histories.
* **`Connections`.** A connection is new, open, lost, left or closed; the
  refinement mapping is `StateOf` (does the descriptor still lead to this socket, has
  the program still its client) and `BufferOf`: what was sent on a connection, be it in
  the pipe, in `pipeData` or in the `sendBufs` of its entry. `HandlePipe` and
  `ApplyQueueData` move data from one to the next and are stutters; `HandleClient` is
  `Exchange`, `ApplySocketRemove` is `End`, the end of the loop is `Shutdown`.
* **`Sqlite`.** Each thread has a stack of calls; a call that is in a callback may
  get another on top. The locks are not variables: `HoldsMap` and `HoldsDb` read
  them off the stacks. The library is external and modelled by what the code
  asks of it: a mutex per connection which `sqlite3_exec` keeps while it calls
  back, `sqlite3_close` refusing while statements are left, `sqlite3_bind`
  refusing on a statement that was not reset, pointers that are reused, a handle
  even for a connection that did not open. A freed pointer given to the library
  makes `life` undefined, and nothing is said of what follows.
* **`Listener`.** `identifier` is the member, `call[t]` how far each thread is in `Listen`
  or `Stop`, with the number `Networking::Listen` has returned to it and that is not stored
  yet. `Listen` is three steps without the mutex, `Stop` two under it. `orderly` is history: it
  falls when a `Listen` makes one of the three overlaps in which the code forgets a socket. An error job that
  has found its map entry erased does its work or nothing, as in `Client` (`Quiet`).
* **`VCNetworking`.** A call that owns `fdVec` throughout is one step. `poll` is four: it
  collects the handles, waits, is woken, and looks at the handles from the first that is
  signalled. `net[f]` is Winsock's side of a socket: the event object, the events recorded
  for the next enumeration, and those that will be recorded when they next hold. `waiting`,
  `peer` and `room` are the kernel and the other end. `dancer` holds the locals of
  `PollDancer`: what poll gave, how much `ioctl` announced, the messages to handle.
* **`Prepvar`.** A block of the heap remembers how it was allocated and its bytes; deleting
  it in another way, or reading it afterwards, would break `OneOwner`. The vector
  constructor copies as many bytes as the uninitialised `size` says, any of `Garbage`. Two
  variables are history: `given`, the value as the program gave it, a text with a NUL in it
  whole, and `lost`, the holders a self-assignment has emptied, and their copies.
* **`AesFrame`, `Text`.** Functions, translated loop by loop; `uint32_t` and `size_t` are
  remainders of `Word` and `SizeRange`. `AesFrame` has one variable, the size of the vector
  to encrypt, and TLC and TLAPS look at the two operators for every one. `Squeeze` is the loop of
  `CleanPath` with its end at a NUL, and `Fits` says whether the buffer `temp` has room for what it
  writes (`TempSize`, 0x1000 in the code): a longer path is undefined and nothing is said of it.

## 3. Runs

All passing runs explore the whole bounded state space. `TypeOK` is checked by a run only for
the pool; for clients, the dancer, the emulation and SQLite it is a theorem (section 4), and so is
`SentOnItsOwn` of the dancer, which `ImplementsConnections` contains. Deadlock is not an error
in any of them: a program that makes no more calls stops rightly, and what must go on
is stated as liveness.

### Thread pool

* **`pool_safety`** — 2 user threads, up to 3 workers, 2 jobs, thread counts 0, 1
  and 3, every method, pushes from inside jobs. Two user threads are the least for
  two calls to overlap; three workers give a shrink that closes two threads and
  keeps one, and a notification three sleepers to choose from; with two jobs a
  nested push competes with an outer one. Symmetric in all three. Checked:
  `ThreadAccounting` (every thread is in `threadList` or being joined, never both, and
  a listed thread has not left, so the stop signal that is written exists),
  `SetThreadCountExact`, `SlowFinishUpDrains`, `DestructionLeavesNoThread`,
  `ClosedForGood` (once finishing is set and the pushes under way are through, the
  queue only shrinks), `OnlyKnownDeadlocks` (among threads that wait for each other, or sleep
  though what they wait for has come, is a `FinishUp` that owns `mutex`, the destructor's thread
  with the token of `finishing`, or such a sleeper: a `SetThreadCount` alone may join for ever a
  worker that its stop notification did not reach, but no other locks and joins make a circle)
  and `ImplementsJobPool`.
* **`pool_liveness`** — 1 user thread, 2 workers, 2 jobs, counts 0 to 2. What progress
  there is whatever notifications are lost: an awake worker serves the queue
  (`AwakeWorkerServes`), a stopped one that is not asleep leaves
  (`StoppedWorkerLeaves`).
* **`pool_finish_up`** (violation of `FinishUpReturns`) — `FinishUp` joins under the
  mutex its workers need in order to wake up.

Two more things the model shows are stated as no property, since they happen by the code's
plain reading. A notification that falls between a worker's test and its wait
(`threadpool.cpp:76` and `102`) is lost and its job stays until the next `Push`: hence the
careful wording of `AwakeWorkerServes`. And `FinishUp` returns when the queue is empty,
while a worker may still run the last job, against `threadpool.hpp:33`.

*Fairness*: strong fairness per thread. The operating system runs every runnable
thread, and one that wants a mutex that is free again and again gets it in the end;
jobs return. No fairness is given to calls of the program or spurious wake-ups.

### Client

* **`client_safety`** — two accepted clients and one the program connects, two workers, one
  message per connection; shutdown at any moment. Two workers and two jobs per connection
  are the least for a cleanup job to overtake a callback, two accepted clients for a circle of
  callbacks. `Users` is empty: a callback of the connected client runs without a mutex and may
  make every call, like a thread of the program, and one worker in it and one in a callback of an
  accepted client make every pair of calls; a third thread would make the run too long.
  Checked: `SharedCopyOutlivesQueue` (until shutdown `sharedCpy` is there for every job in the
  queue, and it is deleted once), `GuardedVarOutlivesTokens` (who is about to use `sharedCpy`
  finds it, and the mutex outlives whoever waits for or owns it, unless the cleanup overtook a
  job), `AcceptedCopyAccounted` (until shutdown a destroyed client's copy has its removal in
  the pipe, at the dancer or in the pool), `AcceptedCallbacksGuarded`, and `OnlyCallbacksBlock`
  (a circle of waits is made only of callbacks that send on, connect or destroy another client
  than their own).
* **`client_overtake`** (violation of `SharedCopyOutlivesJobs`) — one accepted client, one
  thread, two workers. `client.hpp:38` says that FIFO and the mutex let all queued functions
  finish; the cleanup job is given to the second worker, has the mutex first, and deletes
  `sharedCpy` before the first worker dereferences it, as `client.cpp:79` suspects.
* **`client_connect_raw`** (violation of `ConnectedCallbacksGuarded`) — `Connect`
  passes the program's own callbacks on, and they run without the lock.

There is no liveness here: the removal that frees a copy is a job, and the pool does not
promise that a job is taken (a lost notification, above). Nor is the order of a
connection's callbacks a property: with two workers it is that of the mutex, not of the queue
(`networking.cpp:353`).

### Networking

* **`net_safety`** — a listener, an accepted and an outgoing connection (without an
  error callback) on two descriptors, so that one is always reused or missing; one
  call of `Send`; every failure and shutdown. `IdRange` 16 and `IntRange` 8 stand
  for 2^64 and 2^32, which three sockets do not exhaust, just as the real ones are not.
  Checked: `SocketAccounting` (a socket that was handed over is in one message, or in
  one map under its own descriptor, or closed), `CleanupOnceAndLast`, and, while identifiers
  are unique, `RemoveHitsItsOwn` and `ImplementsConnections`. That identifiers are unique is *not*
  checked: the unlocked counter can give one out twice, which is in the model.
* **`net_delivery`** — a listener and an accepted connection, two sends and one message:
  what goes out is in order and never twice though a send may stop in between
  (`SentInOrder`); a closed socket is closed in the end (`ClosedSocketsLeave`); and
  `ImplementsConnections` again, where messages come in and a send takes some of two buffers.

*Fairness*: weak for the dancer, a thread nothing blocks; that a `send` on its blocking
socket ends is an assumption (the code does block when a peer stops reading).

### SQLite

* **`sqlite_safety`** — two threads, two statements, two parameter vectors, two rows,
  calls nested two deep: enough for a statement pointer to be reused, for two threads to
  share a statement or execute one each, for a callback to execute its own statement, and
  for the next execution to find other parameters and a statement half way. Checked:
  `StatementsAccounted`, `FreedOnlyByTheProgram`, `RowsComplete`,
  `ReadyAfterExecution`, `NoCircularWait`. The exceptions these name
  are real: an explicit `Cleanup` keeps a dangling handle; an execution on a
  connection that failed to open makes a null text a string; a callback of
  `UnpreparedExecute` that prepares or unprepares takes two locks in the order opposite to
  `Unprepare`; a callback that throws leaves its statement half way.

### Listener

* **`listener`** — two user threads, two workers, two sockets in turn, one accepted client;
  `Listen`, `Stop` and the destructor from every thread and from inside callbacks, accepts
  that fail, a `Listen` that gets no socket. Two sockets are what it takes for a late error
  callback of the first to reset the identifier of the second, two workers for the jobs to
  overtake each other. Checked: `CallbacksGuarded`, in any order; `NoneForgotten` and the first
  half of `NothingLeftOpen` unless one of three overlaps has happened (`orderly`): two calls of
  `Listen` at once, a `Listen` before the last socket's error callback has begun, a `Listen`
  that stores its socket while a `Stop` is between its signal and its reset. In each the code
  does forget an open socket, because `Listen` does not lock (`listener.cpp:63-77`, against
  `listener.hpp:22`); every other order of `Listen`, `Stop`, failing accepts and callbacks, a
  `Stop` that comes between the steps of a `Listen` included, is covered. The second half of
  `NothingLeftOpen` holds of any program: a job a worker has begun ends.

*Fairness*: weak for calls that go on, for what the dancer is asked; strong for the
destructor and for the steps of a job in a worker's hand, which compete for the mutex. That a
queued job is taken is *not* assumed, and the program need not call anything.

### Winsock emulation

* **`winsock`** — a listener and one client (accepted or connected), a pipe of two
  messages, two units of data in a socket, one buffer to send. Two messages and two units
  are the least for something to arrive between `ioctl` and the read that empties the rest.
  Checked: `EndsAreReal` (input without data always is an end), `SleepsOnlyWhenIdle`,
  `ClientsAreServed`, `CloseIsASignal`. The last names the two cases in which closing the
  pipe is no signal: a dancer that is asleep, because the event is closed and not set; and a
  reset connection after a send that would have blocked, whose `errno` is never cleared, so
  that the dancer tries it for ever. `MaxHandles` (64 in Windows) is not exceeded here.

*Fairness*: weak for the dancer alone. Peers and the program need not do anything, and
nothing is assumed of a wait for a handle that is closed.

### Helpers

* **`helpers`** — three holders and three blocks, so that an assignment may find the heap
  full and a block is reused while another holder lives; texts of up to four characters of
  two or three letters (for paths a NUL as well), every flag, start and count; a path buffer of
  four characters, so that some of the paths do not fit; every frame size of a word of 256
  values, wrapped ones included. Checked: `OneOwner`, `HoldsWhatWasGiven`, `TextAgrees` (five
  statements, one for each function), `FramesHold`.

### Where the code and its comments disagree

Three disagreements have a run (`pool_finish_up`, `client_overtake`, `client_connect_raw`).
The others were met while modelling; each is an exception that a property names, or something
no property asserts, and none is claimed to be right:

* `FinishUp` returns while a worker may still run the last job (`threadpool.hpp:33`), and a
  lost notification leaves an accepted job in the queue (above).
* `Commence` takes no lock although `client.hpp:34` wants every method to.
* `Listen` takes no lock although `listener.hpp:22` wants every method to: the three overlaps.
* "Variables are copied when the holder is constructed" (`sqlite.hpp:49`): not from a vector,
  whose size is not passed on (`prepvar.cpp:9`); not a text with a NUL in it, which is cut there
  (`prepvar.cpp:90`); and a holder assigned to itself loses its value (`prepvar.cpp:135`).
  `HoldsWhatWasGiven` exempts exactly these.
* `CleanPath` "removes double and trailing /s" (`files.hpp:13`) as pairs: `a//b` becomes `ab`,
  `a///b` becomes `a/b`, and `/` becomes empty. `TextAgrees` says that no double slash and no
  slash at the end is left and that nothing else is touched; not that the names survive.
* `MaxMsgSize` is said to guarantee room (`aes.hpp:11`): for the last fifteen sizes it lets
  through, the frame's size wraps around to 0 and `EncryptData` writes behind an empty vector
  (`aes.cpp:47-58`). That is the theorem `LastFifteenOverflow`; `FramesHold` is about the others.
* `Replace` does nothing if the two texts differ in case only and case does not matter.

## 4. Proofs

`ThreadpoolProofs` proves, for any sets of users, workers and jobs and any
subset of the methods, from the named assumptions of `Threadpool` (the sets are disjoint,
the markers are in none of them, counts do not exceed the workers' names):

* `TypeCorrect`: `Spec => []TypeOK` (`Client`, `Networking`, `VCNetworking` and `Sqlite` have a
  theorem of this name as well), and `TypeInvariant`: `Spec => []TypeInv`. `TypeOK`
  is not inductive: to see that `PushPut` appends a job, and that `SetReturn` gives back
  a lock its thread owns, one has to know what a program counter implies. `PcInv` says
  it: a thread has an argument exactly between the call and the append, a worker has a job
  exactly while it runs it, the owner of `threadMutex` is the thread in `SetThreadCount`,
  and the notify loop is entered with something to notify. The step is proved action by
  action; `NotifyOneEffect` states once what a notification does to the counters.
* `PoolImplementsJobPool`: `Spec => ImplementsJobPool`. Besides `PcInv` it needs that a job
  about to be appended is new (two calls of `Push` never carry the same one, and none that the
  pool already knows). Every step is then an `Accept`, `Start` or `Complete` of
  `JobPool`, or changes none of its variables.
* `QueueClosesForGood`: `Spec => ClosedForGood`. `Closed` is stable: `finishing` is only taken
  back by the constructor, which has run (`FinishingStays`), and nobody passes the test of
  `Push` any more (`OnlyOpenPushPuts`).
* `ThreadsAccounted`: `Spec => []ThreadAccounting`, which is inductive beside the types: only
  the owner of `threadMutex` changes either list.
* `SetThreadCountLeavesItsCount`, `SlowFinishUpLeavesNoJob`, `NothingOutlivesTheDestructor`.
  What they need is how far the caller of `SetThreadCount` has come (`FrameInv`): the
  constructor and the destructor own the token of `finishing` and nobody else has it, only a
  `FinishUp` keeps `mutex` from one statement to the next, and between the loops and the joins
  `threadList` has the length that was asked for. With nothing left to join, `Live` is then
  the range of an injective list of that length (`NoneLeftNoneLive` for length 0).
* `NoOtherDeadlock`: `Spec => []OnlyKnownDeadlocks`. Suppose a set of threads wait for each
  other, nobody among them oversleeps, and neither of the two others is among them. Who waits
  for `threadMutex` waits for one that joins; who joins waits for a worker; a worker waits for `mutex`, or in a nested `Push` for the
  token. The owner of `mutex` is then a worker about to sleep, which waits for nobody, and that of
  the token the constructor, which joins nobody (`BuildInv`).

`ClientProofs` proves, for any clients, threads, workers and numbers of messages:

* `TypeCorrect`, with `StageInv`: what `stage` says of the job and the call a thread has.
* `OnlyCallbacksDeadlock`: `Spec => []OnlyCallbacksBlock`. `LockInv`: a mutex is owned by the
  thread that connects its client, which waits for nobody, or by the worker in a callback of it.
* `CallbacksAreGuarded`: `Spec => []AcceptedCallbacksGuarded`. `CallInv` says that a
  client is destroyed by one thread, which is not in another method of it, and that the client
  of a callback is there or was destroyed by that callback (`ownEnd`): the destructor waits
  for the lock, which by `LockInv` the worker has as long as it is in the callback.
* `SharedCopyOutlivesQueueAlways` and `GuardedVarOutlivesTokensAlways`. This is what is left of
  the argument of `client.cpp:77` when there are several workers. `NodeInv`: what is pushed has a
  map entry, and the cleanup job goes out with the entry's removal, hence one cleanup
  job at most and nothing behind it. `QueueInv`: the copy is there as long as the cleanup
  job is in the pool, and once that job has had the mutex no other job of the client goes
  through the copy, or the client is in `overtaken`.
* `AcceptedCopyAccountedAlways`: `Spec => []AcceptedCopyAccounted`. `AccountInv`: an
  accepted client has an entry as long as it has a copy, the removal of one that is gone has been
  asked for until the entry is erased, and from then on its cleanup job is in the pool.
`NetworkingProofs` proves, for any sockets, descriptors, ranges of identifiers and buffers:

* `GivenAwayOnce`: `Spec => []SocketAccounting`. `BaseInv` follows a socket from the
  kernel through the pipe to the maps: an open descriptor belongs to the socket that has it
  (`KernelInv`), a queue adds a socket once and one that is in no map yet (`QueueInv`), a map
  entry stands for the socket behind its descriptor, and every socket given away and open is
  in a queue or a map (`PlaceInv`), and between `accept` and the push of the client the dancer
  is at a listener that exists (`DancerInv`). Descriptors may be reused and identifiers
  collide: nothing here looks at an identifier.
* `CleanupComesOnceAndLast`: `Spec => []CleanupOnceAndLast`. `JobsInv` ties the last callback
  to the closing of the descriptor: there is none before.
* `SendsStayInOrder`: `Spec => []SentInOrder`. `OrderInv` orders all buffers at once: those in
  the pipe, those the dancer has read, those of an entry and those on the wire, each place
  holding lower numbers than the one before.
* `ConnectionCarriesItsOwn` and `RemovalHitsItsOwn`, from `FewSockets`: fewer sockets than an
  `int` has values, and a `uint64_t` at least twice as many. Identifiers count up
  from 1, so beyond 2^32 sockets those a client keeps in its `int` repeat, and nothing is claimed.
  The constants of the runs satisfy it. `NumberInv` bounds the counter, with the reads that
  overlap, by the sockets that have a number, so that nothing wraps around; a negative `int`
  turned into a 64-bit identifier is above all that were given out, and its message is for
  nobody (`OwnMessages`).
* `ConnectionsAreChannels`: `Spec => ImplementsConnections`, from `SmallIdentifiers`, which is
  `FewSockets` with half as many sockets: from 2^31 on the `int` of a client is negative and
  what it sends is for nobody, so the statement would be false. Beside
  `BaseInv`, `OrderInv` and those of the identifiers it needs `FirstInv`: in either queue data comes behind the Add of its socket,
  whence data that is applied always finds its entry while the connection is open
  (`EntryThere`). Each action has a lemma that names the abstract step it is (`SendIsStep`,
  `CloseSteps`, `HandleClientSteps`, `RemoveSteps`, `FinalSteps`, ...) or says that it is a
  stutter (`HiddenSteps`, `QueueDataSteps`). A step is claimed to be one of `Connections`
  only where identifiers are unique before it. They may cease to be, by the race on the
  counter, and nothing is claimed of what comes after.

`VCNetworkingProofs` proves, for any numbers of descriptors, messages, buffers and handles,
`NoEndIsImagined` (`Spec => []EndsAreReal`) and `NoEventIsLost`
(`Spec => []SleepsOnlyWhenIdle`). The invariant follows every event of a socket (`SocketOK`):
it is armed and does not hold, or recorded, or in the dancer's hands. `PipeInv` says that the
pipe's event is set exactly while there is data, `RoundInv` that what `poll` has seen is still
there when the dancer comes to it, because nobody else reads, and `MessageInv` that a message
names a descriptor that was handed over before. One might expect an event to be armed or
recorded but not both; the proof showed that it can be, for a `send` that
would block arms `FD_WRITE` again while an earlier one is still recorded. It does no harm: the
dancer tries once more than it has to.

`SqliteProofs` proves, for any threads, statements, parameters, rows and nesting, from
`SqliteAssumption`:

* `MapBeforeConnection`: `Spec => []NoCircularWait`. `StackInv` says that every call under the
  topmost one of a thread is inside a callback, and that the token and the connection are held
  by the calls of one thread at a time.
* `StatementMapAgreesWithLibrary`: `Spec => []StatementsAccounted`. `StmtInv` adds that what
  `Unprepare` has found stays on the list until it takes it off, because it holds the token.
* `NoFreedPointerIsUsed`: `Spec => []FreedOnlyByTheProgram`. `CarefulInv` is what a program that
  is not reckless keeps: a statement that is executed is on the list and in no `Unprepare`.
* `EveryRowIsPassedOn`: `Spec => []RowsComplete`. In `RowInv` an execution that still has the
  statement for itself has bound its own parameters and seen as many rows as were returned.
* `LastExecutionLeavesItReady`: `Spec => ReadyAfterExecution`, an action property, from all
  of these.

`ListenerProofs` proves, for any threads, workers, sockets and clients, from
`ListenerAssumption`:

* `ListenerCallbacksGuarded`: `Spec => []CallbacksGuarded`. The inductive invariant
  (`GuardInv`) adds that a thread in `Stop` owns the mutex, so that a callback which calls
  `Stop` neither loses it nor finds it taken, and that a listener being destroyed has no call.
* `ListenerNoneForgotten`: `Spec => []NoneForgotten`. What makes it inductive (`OrderInv`) is
  that beside a socket that listens all others are over, and that an error job which has not
  called back yet belongs to a socket the dancer has erased: together they say that an error
  callback, which resets `identifier` without looking, never resets that of another socket.
  `NextOver` shows that what is over stays so unless a `Listen` opens it.

`PrepvarProofs` proves `PrepvarOneOwner`: `Spec => []OneOwner` for any holders, blocks, bytes
and sizes, from `PrepvarAssumption` (`NoBlock` is not a block). The inductive invariant adds the types
that are needed and that a holder's block is a block; each method is then one of three
things: it frees what a holder owns, it gives a holder a free block, or both in this order.
`PrepvarKeepsItsValue` (`Spec => []HoldsWhatWasGiven`) rests on it: since a block has one owner,
what one holder deletes or allocates is no other's. `ValueInv` says that a block holds what
`FromData` makes of the value given, that no stored text has a NUL in it and that a blob has the
size of its block, so that a copy finds all of it; and that a holder in `lost` is empty.
`FirstNul` is what `strlen` finds.

`AesFrameProofs` proves, for any `Word` and `SizeRange` that are what `AesAssumption` says (a
multiple of the block of at least four blocks, not more than `size_t` has values; 2^32 and 2^64
are such): `FrameHoldsAlways`, that the frame has room for every size up to `LargestFitting`,
fifteen below `MaxMsgSize`; `LastFifteenOverflow`, that for the sizes above, which
`EncryptData` accepts, it is empty; and `DecryptsFramesAlways`, for every size. `FramesHoldAlways`
is what the run checks, `FramesHold`. The argument is where the rounding up first reaches the
modulus: at the multiple of 16 that `Word` is, hence for the last fifteen sizes only.

The assumptions are those the modules name, which TLC evaluates in every run, and the
hypotheses above (few sockets). Of the operators from the community modules the
proofs use the definitions; that a finite set of numbers has a least element (`MinFacts` in
`NetworkingProofs` and `VCNetworkingProofs`) follows from the well-foundedness of inclusion
between finite sets.

Only model-checked:

* liveness: `AwakeWorkerServes`, `StoppedWorkerLeaves`, `ClosedSocketsLeave`, `NothingLeftOpen`,
  `ClientsAreServed`, `CloseIsASignal`. Their fairness is about what is enabled, which the prover does not reason about;
* what the functions of `Text` compute, `TextAgrees`: they are recursive, and a proof is an
  induction over the text;
* the three violations, which are counterexamples.

## 5. Bounds and abstractions

Every bound is a constant: `Counts`, `MaxData`, `MaxSends`, `Fds`, `IdRange`,
`IntRange`, `Rows`, `MaxDepth`, `MaxListens`, `MaxClients`, `MaxBacklog`, `MaxFd`, `MaxIn`,
`MaxBufs`, `MaxPipe`, `MaxSize`, `MaxText`, `TempSize`. Left out on purpose:

* the bytes of messages, files and statements; the read buffer and the result of a failing
  read in `HandleClient`; a `send` that takes part of a single buffer;
* the memory callbacks own (what a refused `Push` leaks), the creation of the
  singleton, `GUARDEDVARDEBUG` output;
* data races on single words are modelled as indivisible reads and writes in any order, which
  is what the supported compilers emit for them;
* `dbFile` and the last error of the SQLite wrapper, which threads overwrite for each other;
* in the emulation: `setsockopt` and `bind` (passed through), `gethostbyname`, a `connect` that
  fails (its descriptor is not used again), a `send` that takes part of a buffer;
* `realpath` at the end of `CleanPath`, a path too long for its buffer, and letters beyond one
  that has a capital;
* the bytes behind a vector, which the vector constructor of `Prepvar` reads.

Not modelled: zip, conversions, metadata, system and C# helpers (calls of other
libraries, no state); `StringPrintf` and wide strings (formatting); `ForEachFile` and the
`stat` wrappers (the file system); the build files; and the MP3 stream, whose `onGetData`
and `PlayTrack` are bodies under one mutex around calls of mpg123 and SFML, the behaviour of
which a model would have to invent. Where it can go wrong is noted: the loop over tracks
that do not open, and a destructor that does not stop SFML's thread.

## 6. Plan

Done in this order: the pool and its abstraction, clients on top of the
abstraction, the dancer, the SQLite wrapper, the proofs about the pool, bound values with
their proof, the frame with its proof, the functions on text, listeners with their proofs,
the Winsock emulation, the proofs of the safety properties of all of them, and the
connection as a channel with the refinement. Every safety invariant and action property of the
runs but `TextAgrees` is a theorem. Next:

1. `VCNetworking` as an implementation of the system calls that `Networking` takes for
   granted, stated as a refinement.
2. The bytes of a connection: reads that fail, a `send` that takes part of one buffer.
