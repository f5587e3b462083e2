# A TLA+ model of the UIUC System Programming repository

The repository holds the programs of a course on system programming: small,
independent C programs and libraries, many of them concurrent. This directory
models them component by component. All paths below are relative to `src/`.

## Inventory

| component | source | state | operations | what makes it hard |
|---|---|---|---|---|
| queue | `critical_concurrency/queue.c` | linked list, size, max_size, mutex, one condition variable | create, destroy, push, pull | wakeups, limit, torn lists |
| barrier | `critical_concurrency/barrier.c` | count, round number, mutex, condition variable | init, destroy, wait | reuse, fast and slow threads, wrap |
| semamore | `critical_concurrency/semamore.c` | value, max_val, mutex, condition variable | init, wait, post, destroy | one signal per post, the maximum |
| libdrm | `deadlock_demolition/libdrm.c` | locked and owner of each drm, a global resource allocation graph | init, wait, post, destroy | unsynchronised shared state, deadlock |
| parmake | `parallel_make/parmake.c` | rule states, job queue, global lock | parse (external), cycle check, sort, workers | shared scan, failure, end of work |
| malloc | `malloc/alloc.c` | headers in memory, head, tail, the break | malloc, calloc, free, realloc | splitting, merging, overflow |
| cracker1, cracker2 | `password_cracker/` | queue of jobs; flags, password, counter under one lock; a barrier | start, crack | state reused for the next user |
| chat server, client | `charming_chatroom/` | clients[], clientsCount, mutex, one thread per client | accept, read, broadcast, leave, cleanup | descriptor reuse, SIGINT, slow clients |
| mapreduce | `mapreduce/mapreduce.c` | children, pipes, inherited descriptors | fork, wait, close | pipes that fill up, ends of input |
| nonstop server, client | `nonstop_networking/` | epoll set, state of each connection, files | GET, PUT, LIST, DELETE | partial requests, concurrent requests, short sends |
| mmu | `ideal_indirection/mmu.c` | page directories and tables, TLB, segments, current process | read, write, add and remove process | faults, frames that run out, switches |
| vector, sstring | `vector/` | array, size, capacity | insert, erase, reserve, resize, ... | growth, shifting, ownership |
| scheduler | `savvy_scheduler/libscheduler.c` | priority queue of jobs, times of each job, totals | new_job, quantum_expired, job_finished | comparers, preemption, bookkeeping of times |
| minixfs | `finding_filesystems/minixfs.c` | inodes, direct and indirect blocks, directory | create_inode, read, write | indirect blocks, room that runs out half-way |
| mini_memcheck | `mini_memcheck/mini_memcheck.c` | list of allocations, totals | malloc, calloc, realloc, free | stale pointers |
| shell | `shell/shell.c` | history with pids, children | run, background, lists, redirections, signals, exit | waiting for the wrong process |
| par_reduce, rendezvous | `teaching_threads/`, `critical_concurrency/rendezvous*.c` | per-thread results; two semaphores | reduce; main | small |
| dd, camelCaser, lookup, env, time, perilous_pointers, luscious_locks | | | | sequential I/O or formatting, not modelled |

How they interact: parmake and both crackers use the queue (their models take it
to be the atomic `FifoQueue` that `SyncQueue` is shown to implement); parmake,
libdrm and the scheduler use graph, set, vector and priority queue libraries of
the course that are not part of the repository and are taken from their uses. The
client and the server of nonstop networking share `common.c` and are modelled
together. The other programs are independent of each other and use the pthread
library or the kernel.

## Modules

Abstract specifications, which the detailed ones are shown to implement:

| module | promises | implemented by |
|---|---|---|
| `FifoQueue` | `Push` and `Pull` take effect at one point between call and return | `SyncQueue` |
| `Rendezvous` | arrivals and departures by rounds | `Barrier` |
| `AddressSpaces` | call by call: a process reads what it wrote last to the page it asks for, and every write is done | `Mmu` |
| `Files` | call by call: a read returns what was written last at the positions it asks for, a write puts its units where it says; failures change no contents, and no access inside of a file fails | `MinixFs` |
| `List` | a sequence of values; a call puts, changes or takes the one it names | `Vector` |

Components:

| module | models | correspondence |
|---|---|---|
| `SyncQueue` | `queue.c` | `Create` takes any of the limits of the model; one step per pthread call: `Lock` (also the return from `pthread_cond_wait`), `Wait` (release and sleep are one step), `Link`/`Unlink` (the code between the loop and the signal, on a heap of nodes), `Signal` (any one waiter), `Unlock`, `Spurious` |
| `Barrier` | `barrier.c` | `Complete` is the branch of the last thread with its broadcast, `Enter`/`Test`/`Relock` the other one; `times_used` wraps at `W` |
| `Semamore` | `semamore.c` | `Block`, `Take` and `Post` are the code under the mutex |
| `Drm` | `libdrm.c` | there is no mutex, so a step is one access of `drm->locked` or of the pointer to the graph, or one call into the graph; the cycle check is a search of many such calls, with the stack of its recursive calls, while others change the graph. `owner` is written and never read and is left out |
| `MakeGraph`, `ParMake` | `parmake.c` | `MakeGraph` has the cycle check and the sort with the sets they share; the main thread makes three steps (`Check`, `Sort`, `Start`); a step of a worker is one queue operation, one critical section, one end of commands or one rule of the scan |
| `Malloc` | `alloc.c` | headers at addresses; sizes are numbers modulo `W`; a stale `prev` is followed wherever it leads |
| `Cracker` | `cracker2.c` | a step is one critical section, one guess, or the opening of the barrier |
| `ChatServer` | `server.c` of the chat room | kernel descriptors (lowest free number), sockets with a bounded buffer, the main thread and one thread per slot; the size and the text of a message are two writes; SIGINT at any point |
| `MapReduce` | `mapreduce.c` | who holds the write end of which pipe, inheritance at fork, pipes of bounded size, failing forks and programs |
| `FileServer` | `server.c`, `client.c`, `common.c` of nonstop networking | a step of the server is one event of a connection that epoll reports, of a client one call on its socket; the sends of an answer (status, size, data) are steps of their own, between which only SIGINT can come; a connection passes the states of its `struct`; files are inodes behind a directory, so that a file can be removed while it is open; clients may die, sends may be short, SIGINT ends the server |
| `Mmu` | `mmu.c` | one step per call, each with the TLB look-up, the walk of the tables, the fault, the frames it asks for and the frames others lose to it |
| `MinixFs` | `minixfs.c` | one step per call, with every block and inode it takes on the way, also when the call fails after that |
| `Vector` | `vector.c` | one step per call; a slot is null, an object, or a pointer to an object that was destroyed |
| `MemCheck` | `mini_memcheck.c` | one step per call, on the list of allocations and the totals |
| `Scheduler` | `libscheduler.c` | arrivals, quanta and ends of jobs at any tick, also two quanta in one tick or one when the job is through; the six comparers are one order with a key per scheme |
| `Shell` | `shell.c` | a line is what it is parsed into; a step is one fork, one return of a wait, one command of a list, or a change of state of a child |

Instances: `MCLocks`, `MCParMake`, `MCPrograms`, `MCChatServer`, `MCFileServer` and
`MCLibraries`. Three of these hold components that have nothing to do with each
other: the initial state picks one, and the others stay as they are. What a
property says of a component is then what it says of that component alone; it is
a sum of state spaces, not a product. `Sums` has the partial sums in which the totals of
`Scheduler` and `MemCheck` are stated.

Proofs: `SyncQueue_proofs`, `Barrier_proofs`, `ChatServer_proofs` and `ParMake_proofs` are
about the module in their name, `Locks_proofs` about `Semamore` and `Drm`,
`Programs_proofs` about `Cracker`, `MapReduce` and `FileServer`, `Libraries_proofs` about
`Scheduler`, `Shell` and `MemCheck`, and `Storage_proofs` about `MinixFs`, `Vector`, `Malloc` and
`Mmu`.

Definitions marked *Fault* are slips of the kind a change of the code could
introduce. No specification uses them. Put in the place of the definition they
are a variant of, each makes one property fail; `PROJECT.json` says which.

## What the runs check

Eight runs pass and four refute a comment of the code.

**`queue`** (four threads, two values, queues without a limit and with a
limit of two): the list stays whole (`ListOK`), a puller of an unlimited queue
never sleeps next to a value with nobody on the way (`NoLostWakeup`), nor does
anybody else sleep who could go on (`NobodyForgotten`), stored values get pulled,
and the whole implements `FifoQueue`. `NobodyForgotten` depends on the bounds:
pushers and pullers share one condition variable, `pthread_cond_signal` may wake
the wrong kind, and with enough threads both kinds sleep at the same time and a
signal gets lost. With a limit k it holds for at most 2k threads that are at most
k + 2, and is proved for them; with one thread more TLC finds a state in which
everybody sleeps who could go on (3 threads for a limit of 1, 5 for 2, 6 for 3). That
2k threads were enough, as one reads of such queues, is not true from k = 3 on: six
threads get stuck at a limit of 3. The run has four threads, as many as its limit of two
admits. The programs of the repository only use unlimited queues, for
which `NoLostWakeup` is proved for any number of threads.

**`barrier`** (three threads, three rounds, `W` = 2, so that the round number
wraps; two values are enough, since a thread can be at most one round ahead):
nobody leaves a round early, every call comes back, and the barrier implements
`Rendezvous`.

**`locks`**, the semaphore (four threads, so that two can sleep while two post):
one signal per post is enough and a unit somebody waits for is taken.
The drms (two threads, two drms): no drm stays locked with nobody to unlock it,
refused requests leave no edge, destroyed drms leave the graph, and no call hangs.
The last holds because the cycle check follows edges in both directions and finds
a "cycle" in any graph with an edge: as long as the edge of the request is there, it is
refused and the waiting loop is not entered. All this is said of programs whose graph
was not `lost`: `drm_init` tests the global pointer and then sets it (lines 75-77), so
that two threads whose calls are the first ones may both make a graph, and the later one
takes the place of one that the other thread is using. A drm that was given has then no
edge any more, and `drm_post` returns 0 and leaves it locked; a third thread that has just
put its request for it into the old graph finds no cycle in the new one and spins for ever.
The model makes the step that loses the graph and stops there: without the exception
`GraphAndLocksAgree` fails at once and `CallsReturn` with three threads. The callers are assumed not to use a drm
before `drm_init` has returned it, or while it is destroyed. A search that comes to a drm
which was removed meanwhile is taken to find no neighbors there. `drm_refused` shows this against
the message at line 125. Without the second of these loops (the fault
`SecondLoopLeftOut`) threads hang, since waiting and holding are edges of the same
direction. `locked` is tested and set in two steps, so that two threads may take
the same drm; no property says otherwise. `semamore_post` refutes the comment at
`semm_post` (lines 39-41: it should block at the maximum; it returns and the post
is lost).

**`make`**: the cycle check and the sort on all graphs of three rules with all
lists of goals agree with what each rule `Needs`, which `MCParMake` compares with the
library's transitive closure on each of these graphs. Two workers on a makefile of four
rules with a diamond of dependencies, on all acyclic graphs of three rules (up to
renaming, with two lists of goals) and on one whose only goal was dropped, with
any set of files that exist beforehand and any outcome of the commands: each rule
runs once and after its dependencies, every goal is decided, the workers stop. Two
things a reader of the comments may not expect are part of the model and break no
property: a rule whose commands failed after they created its file counts as made
(line 166), and the second loop queues existing files without dependencies (line 259).

**`programs`**, cracker2 (two threads, two users, two guesses per part, any
set of guesses that match): threads never mix users, each summary is right and all
threads end. mapreduce (three mappers, pipes for two units): when the data fit into
the pipes everything ends, although mappers hold each other's inputs open,
and what was split is in the output; fork and exec may fail at any point. When the data
do not fit, nothing ends (line 96 waits for the splitters before anybody reads):
`PipelineEnds` does not speak of that.

**`chat`** (three clients, two slots, one message each, buffers of one message;
clients are symmetric): an accepted client always finds a slot although
the counter is read without the mutex; each thread has its descriptor to itself
until it closes it; a broadcast reaches everybody who is there, each text after its size; all see the same
order. All four are proved for any number of clients and slots. `chat_full` refutes
the comment that clients over the limit are shut down.

**`server`** (five sets of two or three clients on one file: a GET or another PUT
beside a PUT that takes two events, DELETE and LIST beside a PUT, a PUT with too
many data and a bad request, a PUT with too few and one that cannot open its file;
one client may die at any point, SIGINT may come at any point, also between two sends of
one answer): a PUT that was
answered with OK has stored its data unless another client opened, wrote or
removed the file (`PutIsStored`); a GET that the client accepts delivered the file
as it was when it was opened, unless the file was written meanwhile, a send was
cut short, or the answer ended after its status (`GetDeliversFile`; `Headless`: the
client does not notice that the size has not come, `client.c:79-83`, and takes the file to
be empty); clients other than those that GET come to an end
(`OthersAreServed`). `server_get` drops the exception of short sends and is
refuted: `sendall` starts again with the first byte of its buffer. Nothing is said of the
files of the server after SIGINT, which removes them; that `fwrite` or `fclose` fails since
the disk is full (lines 433, 462, where the results are not looked at) is not modelled.

**`libraries`**, one at a time, all sequences of calls within the bounds:

- *malloc*: the lists and sizes agree, blocks do not overlap (`HeapOK`). A split in
  the middle of the heap leaves a stale backward link (line 143), over which a
  later `free` may merge a block into one that is not its neighbour; the property
  speaks of everything up to that (`broken`).
- *mmu* (two processes, six frames, which are too few, a TLB of one entry): what a
  process reads from a page is what it wrote to that page last, call by call, and every write
  is done, whatever other processes do to the frames and to the TLB in between
  (`ImplementsAddressSpaces`), and every frame in use has one place that names it (`FramesAreOwn`).
- *minixfs* (two files, five data blocks, writes that start at block boundaries or inside
  of a block): each call does what named files do with its file, position and units
  (`ImplementsFiles`), no two
  places name one block and none is lost, also after calls that ran out of room
  (`BlocksAreOwn`). A write that starts inside a block goes to a wrong one (line
  235 adds the offset to a pointer to blocks); the model follows it there.
  `ImplementsFiles` speaks of everything up to the first such write that succeeds
  (`misplaced`), and `BlocksAreOwn` goes on until one goes where no block of data is (`torn`).
- *vector* (up to four elements): each call does to the elements
  what it does to a sequence (`ImplementsList`). An
  `insert` after an `erase` destroys the object behind the last element once more
  (line 242 after 257); nothing is said of what comes after (`doubled`).
- *mini_memcheck* (three addresses): the report at the end is right
  (`ReportIsRight`) up to the first block that `realloc` moves, whose metadata the
  code reads after they have been freed (line 98; `unlinked`). The product in `mini_calloc`
  is one size here: that it may wrap is left out.
- *scheduler* (three jobs that take one or two ticks, six schemes; before tick `MaxTime`
  jobs arrive and quanta expire at any time, also twice in a tick and for a job that is
  through, later at any time between): `TotalsAreRight` compares the totals with the ticks
  that really passed, and `RightJobRuns` says of all six schemes that a quantum which is
  over gives the processor to a job that nobody left in the queue precedes, the evicted
  job included, by those ticks. A turn that ends in the tick in which it began counts: the
  job has been answered (lines 166-168), and goes to the back under RR.
- *shell* (six lines, three forks, three entries): `WaitsAreEven` says that each
  wait takes one child, `LeftBehind` what may survive the shell. `wait(NULL)` of a
  redirection may take a background process for its own (line 312), and `exit`
  forgets processes of lines that were typed twice (line 35): both are in the model and
  break neither property. `WaitsAreEven` only counts, and `LeftBehind` permits what is left of
  repeated lines and says nothing of an exit after a failing fork (line 210).

Bounds: `Bound` (queue: nodes of an unlimited queue; semamore: posts not yet
waited for), `Limits`, `Rounds`, `Makefiles` and `Built`, `Limit` (the break),
`Users`, `Count`, `Messages`, `Room`, `MaxData`, `Workloads` and `Mortals`,
`Requests`, `WriteStarts`, `WriteSizes`, `ReadStarts`, `MaxSize`, `MaxRequested`,
`MaxInvalid`, `MaxTime`, `MaxForks`, `MaxHistory`. They cut off how often something
is repeated, not what can happen: each lets every condition of the code be true
and false, limits be reached, and two actors meet at every point. With three
slots the chat server has too many states to be explored completely; that is what
the proofs are for.

Deadlock is an error in `queue`, `barrier`, `locks` and `make`. It is not in
`programs` (a parent of `mapreduce` may wait for ever when the data do not fit into
the pipes), `chat` and `server` (the process may have exited), and `libraries`
(the heap may be in the state nothing is predicted about, a scheduler may have
run all its jobs, the shell exits).

## Fairness

Weak fairness of the steps of each thread or process: a runnable thread is
scheduled, and a free mutex is given to somebody. `Spurious` wakeups are allowed
and never required, and do not go on for ever. The callers of the barrier come as
often as they should. Clients of the chat server read what they are sent, but need
not write or hang up. Commands and programs end. Clients of the file server
go on until they are served or die; epoll is level triggered and reports a
connection that stays ready in the end, so that each connection is treated fairly,
not only the loop. In the runs that pick a component the fairness is that of the one
that runs. No strong fairness is used.

## Proofs

`tlapm` checks for all values of the constants:

- `SyncQueue_proofs`: `TypeCorrect`, `ListCorrect`, `MutexCorrect`,
  `CapacityCorrect`, `NoWakeupLost`, `NobodyIsForgotten`, `RefinesFifo`. Mutual exclusion and the
  limit are left to the proofs; no run repeats them. `ListOK` is inductive with
  the types and mutual exclusion: a thread between its test and its signal owns
  the mutex, so that the condition it has tested still holds. The refinement
  follows: `Link` appends the value of the new node and `Unlink` takes the first
  one, because `chain` lists the nodes of the heap in order; the other steps are
  calls, returns or stutters. `NobodyIsForgotten` has a hypothesis, `FewThreads`, which
  is the bound above and which the run meets; without it the property is false. Its
  invariant counts (`Balanced`): while only one kind of threads sleeps, as many of the
  kind are awake or about to be woken as there is for them, values or free places, or one
  is missing and then enough of the other kind are awake to bring the next signal; both
  kinds sleep only one thread each, all others being of one kind and awake (this is where
  the bound comes in: one more sleeper and a signal can go to the wrong one).
- `Barrier_proofs`: `TypeCorrect`, `CountCorrect`, `BarrierCorrect`,
  `RefinesRendezvous`. The inductive invariant says where each thread stands
  with respect to the last full round (`RoundInv`), and that `count` is the
  number of threads whose round is open; the wrap is harmless because `W` is at
  least two.
- `Locks_proofs`, semaphore: `TypeCorrect`, `UnitsNotStranded`: while somebody sleeps
  there are at least as many threads on their way as units. It counts threads
  with the library's facts about finite sets.
- `Locks_proofs`, drms: `GraphCorrect`. The graph and the fields agree whatever the
  cycle check answers: an edge is a drm that was given or that its thread asks for at
  this moment (`EdgesKnown`), and a thread that asks does not hold the drm already,
  because `drm_wait` has looked for its edge (`NotHeldYet`). `lost` is an
  exception of the statement, as in the run. Withdrawing a refused
  request therefore removes no edge of a drm that is held.
- `Programs_proofs`, cracker2: `TogetherAtOneUser`, `SummariesCorrect`. In round r the
  jobs taken from the queue are those of r full rounds and one for each thread that has
  left `pull` (`Round`), and all threads are before the first barrier, or all between
  the two. The job at the head of the queue is then that of user r + 1 and of the next
  part (`FilledAt`, which needs the arithmetic of `div` and `%`), or a NULL after the last.
  For the summaries the invariant keeps books (`Books`): what was hashed for the user of
  the round is `hash_count` and what the threads have not handed in yet, each thread's
  part is searched up to where it stands, and the flags say what was found.
- `Programs_proofs`, mapreduce: `OutputCorrect`. A worker that runs has the write end
  of its output, and the parent the ends that its later children need
  (`WorkersWrite`, `ParentWrites`): a reader sees the end of its input only when
  everybody who could still write has ended, so that whoever has ended has left
  nothing behind (`EndedIsDone`).
- `Programs_proofs`, nonstop networking: `ServerTypeCorrect`, `PutCorrect`, `GetCorrect`,
  for any clients, requests, sizes and deaths of clients. `ServerInv` has no part about two
  clients but that no two names share a file (`NamesApart`); what another client may do
  to a file is in the marks of the model (`owner`, `disturbed`, `clipped`). Of each client
  it says that the connection works for the request that was made, unless the client is
  dead (`Asked`). A PUT that owns its name has in the file, with what is still pending,
  all units up to `file_offset` (`Storing`), and nothing is pending once it was answered
  (`Stored`): this is where closing the file before the answer counts. What was sent of a
  GET that is neither disturbed nor clipped is a beginning of the file that was opened
  (`Reading`), also after it was closed (`Delivered`), up to any of its sends
  (`Closing`), so that a client that has the length it was told has the file. The theorem has
  the exception of the run: an answer of which only the status has come.
- `ChatServer_proofs`: `AcceptedCorrect`, `DescriptorsCorrect`, `BroadcastsCorrect`,
  `OrderCorrect`, all four properties of the run. `IInv`: a connection has one
  descriptor or is in the backlog, so that the kernel has a descriptor left; slots
  with a thread have a descriptor, and the counter counts them; only the main thread
  takes a slot, so that the room it has seen stays (`RoomLeft`). `BInv` adds that the
  writer has the mutex and that everybody before its counter has the message, and that a slot which serves still stands
  for the connection that got the size when the text is written (`SizeThenText`).
  `SInv` adds that each message is read once (`ReadOnce`) and that the message being
  written is the last one in whatever has it (`WrittenLast`): two messages can
  then not be in two orders.
- `ParMake_proofs`: `CheckCorrect` and `SortCorrect` are about the two algorithms, for
  any finite graph and any list of goals. The cycle check keeps, in order, exactly the
  goals that depend on no cycle, although all goals share `visited` and `stack`: what
  was visited and has left the stack is closed under dependencies and free of cycles
  (`Settled`); what is in the stack leads to the rules of the list that is being
  searched, or was left there by a search that met a cycle (`OnPath`). A goal that was
  visited earlier therefore depends on a cycle exactly when it is still in the stack.
  The sort comes to an end and lists the goals and each rule once, and when there is no
  cycle behind the goals, only rules that they depend on, each after all it depends on.
  `OrderCorrect` puts the two together for every state of `ParMake`.
  `RunOnceCorrect`, `DependenciesCorrect` and `GoalsCorrect` are the three invariants of
  the run, for any makefile, any set of files and any number of workers. `WorkInv`: a
  rule is in one place, of the queue or in the hands of a worker (`OnePlace`), where
  nothing is put again because its state has left 0; whatever is in one of these places
  has all of its dependencies (`Progress`); and once a worker has seen the stop rule no
  goal is undecided or behind it (`StopIsLast`), since it was put there with all goals
  decided.
- `Libraries_proofs`, scheduler: `TurnsAreRight`, `TotalsCorrect`. The times in the
  entry of a job say what really happened: those of a queued job count its ticks
  (`QueuedRight`), and the turn of the running job is what has passed since it started
  (`RunningRight`). For the turns, the key of each comparer orders jobs as the ticks do. For the totals,
  its arrival, its first start and now differ by what it has waited and run since (`PastRight`), and the totals are the sums over the jobs
  that have no entry any more (`Totals`).
- `Libraries_proofs`, shell: `NobodyLeftBehind`, `WaitsAreCounted`. Every process in the
  background is named in the history or hidden by a later line with the same text
  (`LastingNamed`), and `exit` kills what is named; the second theorem counts
  children of the foreground that nobody waited for, and the others whose status was
  taken.
- `Libraries_proofs`, mini_memcheck: `ReportCorrect`. The list names each block the
  program holds once and with its size (`Listed`), and what the totals differ by is the
  sum over the list, which an insertion at the head and the removal at any place
  change by one element.
- `Storage_proofs`, minixfs: `BlocksCorrect`. `DiskOK`: each block is named by one place
  of one inode, direct, indirect, or the block of indirect numbers, and the map of used
  blocks has exactly these. It holds between the steps of a call, too: blocks are
  added one at a time, and a call that runs out of room keeps what it has taken.
- `Storage_proofs`, minixfs: `FilesRefined`, the refinement of `Files`, on top of the same
  invariant. `FilesInv` adds that every position below the size of a file has a block
  (`FilledOK`), that a unit which is not zero is at such a position (`ZeroOK`: a file that
  grows over units nobody wrote reads as zero there), that names and inodes are one to one
  (`EntriesOK`), and that inodes not handed out are empty (`UnusedOK`). A call that runs out
  of room has only put blocks into empty places (`Keeps`), which changes no file; and an
  access inside of a file finds all its blocks, so that it is not refused. Line 235 sends a
  write that starts inside a block to another block, which may be one of another file:
  the theorem is about everything before the first write of this kind that succeeds
  (`misplaced`), and all others are bound to their file, position and units.
- `Storage_proofs`, vector: `VectorRefines`, the refinement of `List`. `VectorInv` says
  that the array has `capacity` slots and that `size` is within it; then each call, with its
  position and its value, is that call on the list (`VPromised`). Growth finds a capacity (`NewCapacityFits`: doubling passes
  any number), insert and erase move the elements behind by one (`InsertIs`, `DropIs`).
- `Storage_proofs`, malloc: `HeapCorrect`. `Linked`: the list is that of all headers, in
  the order of their addresses, each block ends before the next, and no `prev` leads
  forward; `Owned`: the blocks in use are those the program was given, and large
  enough. First fit returns a free block that fits, or nothing (`FirstFitOK`). The
  theorem has a hypothesis on the requests, `RequestsAreModerate`: none comes within a
  header and the alignment of half of `size_t`. It is needed: line 125 wraps for a
  request near `SIZE_MAX`, and the block that is returned is too small. The run meets it.
- `Storage_proofs`, mmu: `FramesCorrect`. `KernelOK`: there is a set of frames that are
  tables, such that directories, tables and pages are different frames, each named by
  one place, those in use are exactly these, what is not in use is clear, and the owner
  that the kernel has noted for a frame is the entry that names it. In the course of
  a call there are frames that were asked for and are in no place yet (`extra`). The
  TLB has to be part of it (`TlbOK`): an access over a translation of another process
  would put its page into a table that is no longer one.
- `Storage_proofs`, mmu: `MmuRefines`, the refinement of `AddressSpaces`, on top of the
  same invariant. `PagesSaved` is the part of it that speaks of contents: a frame that is no
  page is clear, a page that is not dirty is what its swap file says, and an entry of a
  frame that is no table has neither a swap file nor a dirty bit. So a frame that the
  kernel takes back loses nothing, and a frame that becomes a table or a page brings
  nothing along. The lemmas say of each part of a call that it keeps the value of every
  entry (`SameValues`) and so the contents of all processes (`SameContents`): what the
  kernel does when it is asked for a frame (`AskGives`), a new table (`TabledOK`), a page that
  is read back (`PresentKeeps`), a process that goes (`RemovedOK`). Only a store changes
  one page of one process (`WriteOK`), since no two places lead to one entry. A load or a
  store of the mmu is the `Load` or `Store` of its own process, page and value, so that no
  write is lost and nothing of another process is read.

Induction over data is not available to these provers, since it would have an operator
for its parameter. Its place is taken by least numbers: `<` is well-founded on the
naturals, which the library proves without one (`WFMin`, `NatLessThanWellFounded`), so
that a set of naturals that is not empty has a least one, and a set that has 0 and with
each k - 1 also k has all (`UpTo`). Loops are recursive functions of the number of
their turns; `UpTo` gives both that such a function exists and what it keeps. A
search of a graph, which has no such number, is the least set of results that is closed
under the rules of the search (`Derived` for the sort, `Hunted` for the cycle check in
`ParMake_proofs`), and what is proved of it is proved of a closed set.

Assumed: only the named assumptions of the modules (finitely many threads, rules,
processes and frames; at least one worker of parmake; that the special values are none
of the ordinary ones; that a line is its text; `MaxVal` and `InitVal` as `semm_init` is
called; sizes of headers and of the first request to `sbrk` that the alignment divides, and
a break that stays below half of `size_t`; processes numbered from 0, as `mmu_delete` counts
them; requests of the file server with the fields of `Cli_Request`; no more inodes than a
directory has room for, since `minixfs.c:106-122` does not test that), and the hypotheses
`FewThreads` and `RequestsAreModerate`. The proofs cover the safety
part of each specification; they do not use fairness.

Only model-checked:

- liveness, everywhere;
- what the cycle check of `Drm` answers: that it refuses requests without a
  deadlock is shown by `drm_refused`, and `GraphCorrect` holds whatever it answers.
  Every other safety or action property of a passing run is a theorem.

## Divergences met on the way

`PROJECT.json` lists four that a run shows: a post at `max_val`
(`semamore_post`), the cycle check of libdrm (`drm_refused`), clients over the limit
of the chat room (`chat_full`), short sends (`server_get`). Others are part of
the models, which follow the code, and are named here:

- `deadlock_demolition/libdrm.c:75`: two first calls of `drm_init` may make two graphs, the
  second of which replaces one that is in use (`lost`).
- `finding_filesystems/minixfs.c:235`: a write that starts inside a block goes to
  another block (`misplaced`, `torn`).
- `vector/vector.c:242`: `insert` after `erase` destroys an object twice (`doubled`).
- `mini_memcheck/mini_memcheck.c:98`: after a `realloc` that moves the block the list
  keeps the old address and freed metadata are read (`unlinked`).
- `malloc/alloc.c:143`: a split leaves a stale backward link (`broken`).
- `shell/shell.c:312`, `35`, `392`: `wait(NULL)` takes any child, `modify_pid` finds the
  first entry with the same text, and `#n` past the end of the history runs what
  is behind it.
- `nonstop_networking/client.c:79-83`: an answer that ends before its size is taken for an
  empty file (`Headless`): `recvall` returns a `size_t`, which is never below zero.
- `nonstop_networking/server.c:69`, `270`, `324`: the cleanup goes over what the last
  `epoll_wait` has left in its array; a GET of a file that became shorter never ends;
  a connection that ends before it sends anything is parsed from an uninitialised
  buffer.
- `charming_chatroom/server.c:197`: a thread closes its descriptor before it resets
  its slot. The kernel may give the number to a new client, which is then written to
  through the old slot: with three slots before it has one of its own in the turn
  of the broadcast, or twice, and may get a text whose size went to the old client
  (lines 153, 155; `headless`). `BroadcastReachesAll` therefore speaks of slots whose
  threads have not closed.

## Not modelled

Failure of `malloc` where the code assumes success; `RoundUp` that wraps
(`malloc/alloc.c:125`: requests are far from `SIZE_MAX`; with one that wraps, a
block that is too small is returned); `semm_destroy`; writes of the file server to a full
disk (`nonstop_networking/server.c:433`, `462`); short reads and writes in
the chat room; descriptors that run out in parmake; `chmod`, `chown` and the clocks of
minixfs; headers of nonstop requests that come in pieces; accesses of the mmu that
cross a page, which its callers assert away; parsing and printing everywhere. A chat
client that never reads blocks the writer with the mutex
(`charming_chatroom/server.c:155`): the code has no timeout, and nothing is claimed for it.

Components listed as `not_modelled` in `PROJECT.json` are pure I/O or formatting
(`dd`, `camelCaser`, `lookup`, `env`, `time`, sstring, the chat client), exercises
without state (`perilous_pointers`, `luscious_locks`), or have no shared state
beyond a component that is modelled (`cracker1`, `queue_test`, `par_reduce`,
`rendezvous`).

## Plan

What is left, in this order:

1. `CrackerOne` and `ParReduce` with their joins, the `rendezvous` of quotes.
2. The chat room with messages in pieces, and its client.
