# dglib in TLA+

dglib is a C library for games and tools on Windows: threads, queues, memory, files, windows,
containers and strings. This directory holds TLA+ models of the parts of it in which order,
concurrency and long histories matter, the TLC runs that check them, and proofs of the properties
of some of them for every value of their parameters. Paths below are relative to `src/`; `l.` is a
line of the file named last.

Contents: [the system](#the-system) · [modules](#modules) · [runs](#runs) · [bounds](#bounds) ·
[fairness](#fairness) · [proofs](#proofs) · [what the code does](#what-the-code-does) ·
[assumptions](#assumptions) · [not modelled](#not-modelled) · [plan](#plan)

To repeat the checks: `tlc -config Mpmc.cfg MCMpmcQueue` (each run's module and configuration are
in `PROJECT.json`), and `tlapm MpmcQueueProofs.tla`.

## The system

`dglib_static` is a static library of containers and lock-free structures. `dglib` is a DLL on top
of it. `dg_initialize()` (`dglib/src/dg_main.c`) starts memory, system UI, file system, threads and
time, in this order, and gives up at the first failure without undoing the ones before.

| component | state | operations | what makes it hard |
|---|---|---|---|
| lock-free queue `dg_queue.c` 117-214, `dg_atomic.c` | two positions, a sequence number and an element per slot | `mpmc_queue_alloc/free`, `add_back`, `get_front`, `is_empty`, `is_full` | every access to shared memory interleaves; a position is drawn before the call knows whether it succeeds |
| interlocked queue `dg_queue.c` 216-344 | a ring, a mutex per end, a semaphore for slots and one for items | blocking and trying adds at both ends, gets at both ends | two mutexes over one ring; semaphores hold the permits; pointers into the ring are returned |
| thread pool `dg_threadpool.c` | the interlocked queue of tasks, `status`, `pfinish_sem`, worker threads | `tp_init`, `tp_task_add`, `tp_stop`, `tp_join`, `tp_deinit`, the workers' loop | shutdown against running workers and a full queue |
| memory pool `dg_mempool.c` | blocks, and the lock-free queue of the free ones | `mempool_alloc`, `mempool_free`, counts | inherits the failures of the queue and ignores their result |
| handle allocator `dg_handle.c` | a generation counter per slot | `ha_alloc_handle`, `ha_free_handle`, validity, look-up, iteration | stale handles, double frees, wrap-around |
| file system `dg_filesystem.c` | search paths under a mutex; open files and buffers in a handle table; a block per iteration over a directory | register and look up paths, open, close, read, write, seek, typed and string I/O; make, touch, remove, iterate | entries that overlap in memory, a mutex with many exits, stale handles, positions at the end; check-then-act on directories |
| system UI `dg_sys.c` | event ring with a mutex, window data, the array of keys; the cursor mode; a module per handle of a dynamic library | create and kill windows, user data, the window procedure, poll, wait, push; clipboard, cursor; load, ask, close libraries | messages handled inside calls and inside the system's own loop, events from other threads, a full ring; windows that die with their owner; a clipboard and a cursor shared with other programs |
| library start and end `dg_main.c` | a mutex each in system UI and file system, a TLS index, a window class | `dg_initialize`, `dg_deinitialize` | a failure in the middle, calls repeated in any order |
| threads `dg_thread.c` | a block per thread, found through thread-local storage | start and end the subsystem, create, attach, join, close, exit code | a block freed by the creator or by the thread itself, in either order |
| synchronisation `dg_sync.c` | one object of the operating system each | mutex, condition, semaphore, read-write lock | wrappers; used as external primitives by the others |
| linear allocator `dg_linalloc.c` | block, capacity, position | resize, allocate, reset | growth moves the block under earlier pointers; the position's arithmetic |
| hash map `dg_map.h`, tree map `dg_treemap.h` | a table of buckets; a red-black tree | set, get, erase, iterate and erase, bounds, rebuild | tombstones, collisions, rebuilt tables, rotations, erasing inside a loop; sequential |
| ring queue `dg_queue.c` 4-114, stack `dg_stack.c`, dynamic array `dg_darray.c`, list `dg_list.c` | sizes, indices, nodes | add and remove at the ends, insert, copy, move | wrap-around, growth, allocations that fail; sequential |
| bit vector `dg_bitvec.c` | cells of 32 bits | init, deinit, set, get | a size that fills no whole cell |
| strings `dg_string.c`, paths `dg_path.c` | a caller's buffer, or characters of their own with a length | copy, append, insert, replace, trim, convert; base, file name, one folder back | moves within one buffer, the last cell, characters of several bytes, separators at both ends; sequential |
| memory `dg_alloc.c`, time, random, CPU, terminal, text messages, byte order, data tables | a heap handle, a function pointer, a seed | thin wrappers | little |

How they meet: the memory pool drives the lock-free queue; the thread pool drives the interlocked
queue, threads and semaphores; the file system keeps its search paths and its streams in handle
tables of the handle allocator (its streams' blocks sit beside their generations); the window
procedure, called back by the system, pushes into the ring that `sysui_poll_events()` empties, and
other threads push too. There is no persistence and no network: nothing is recovered, and messages
are lost only where a ring or a table is full.

What makes each component correct, and where it is stated:

* Lock-free queue: no two copies meet in a slot, nothing is invented, doubled or torn, no call
  spins, it is bounded, its size queries tell the truth at rest (`MpmcQueue`); in short it is a
  bounded store (`ItemStore`).
* Interlocked queue: its operations look like single steps on a bounded deque (`BoundedDeque`),
  the two ends never collide, the permits balance, a refusal means full (`MtQueue`).
* Thread pool: an accepted task runs once, shutdown ends and frees nothing in use (`ThreadPool`).
* Memory pool: every block is in one place, the counts are right (`MemPool`); what it and the
  interlocked queue obtain is given back, wherever their start failed (`QueueMemory`).
* Handle allocator: handles stay valid until freed and never after, slots do not leak, iteration
  meets every slot in use (`HandleAlloc`).
* Maps: what was put in is found, in one place, and nothing else; searches end; loops meet every
  element, also while they erase (`HashMap`, `TreeMap`).
* Sequences: their ends and their order are those of the sequence that was put in (`RingQueue`,
  `Stack`, `DArray`, `List`); a bit is what it was last set to (`BitVec`). Linear allocator: hunks are apart and inside the block (`LinAlloc`).
* File system: an id and a handle lead to the path last stored, until a neighbour is written over
  the entry; a handle works on its own object, positions stay inside, values read back
  (`SearchPaths`, `Streams`). One exit of the registry keeps its
  mutex (l. 104), which the model does too.
* Directories: what `fs_mkdir()` returns is so, an iteration gives every entry once (`Directories`).
* Threads: a block belongs to one side at a time, a joined thread has ended (`Thread`).
* Strings and paths: buffers, strings and paths are what the sequence of their calls should make of
  them, inside their bounds (`Text`, `Paths`); conversions lose and cut no character (`Utf`).
* System UI: the ring is a bounded queue between threads; what events tell agrees with windows and
  keys, whatever a full ring refuses; a window's last event is its last; events arrive
  (`SysEvents`). A window has data of its own (`Windows`), clipboard and cursor are given back
  (`Desktop`), symbols can be called while their library is loaded (`DynLibs`).
* Start and end: each part has what it works with, and nothing is left behind (`Library`).

## Modules

| module | models | state | actions |
|---|---|---|---|
| `ItemStore` | what a bounded shared queue promises (abstract) | accepted and delivered items | `Put`, `Take`, `Recreate` |
| `MpmcQueue` | `dg_mtqueue_mpmc_t` | the queue's fields; `pc`, `pos`, `elem` are the locals of each thread; `put`, `got` history | one per access to shared memory |
| `MpmcQueueProofs` | | | theorems about `MpmcQueue` |
| `BoundedDeque` | a deque of bounded length (abstract) | the deque, what each thread has taken | `PushBack`, `PushFront`, `PopBack`, `PopFront`, `Drop` |
| `MtQueue` | `dg_mtqueue_t` | ring, semaphores, mutexes; each thread's call | wait, lock, work, unlock, post, and the use of the returned pointer |
| `MtQueueProofs` | | | theorems about `MtQueue` |
| `ThreadPool` | `dg_threadpool_t`, over `Q == INSTANCE MtQueue` | status, finish semaphore, the workers' and the owner's place | `tp_init` worker by worker with its failures, `tp_task_add`, `tp_stop`, `tp_join`, the end of `tp_deinit`, the workers' loop |
| `ThreadPoolProofs` | | | theorems about `ThreadPool`, on top of `MtQueueProofs`, and about `Thread` |
| `MemPool` | `dg_mempool_t`, over `Q == INSTANCE MpmcQueue` | who holds each block, which were lost | `mempool_alloc`, `mempool_free` around the steps of the queue |
| `MemPoolProofs` | | | theorems about `MemPool`, on top of `MpmcQueueProofs` |
| `HandleAlloc` | `dg_handle_alloc_t` | generations; handles held and freed (history) | `alloc_handle`, `free_handle`; `get_first_handle`, `get_next_handle` as operators |
| `HandleAllocProofs` | | | theorems about `HandleAlloc` |
| `SearchPaths` | the registry of search paths | its memory, two words a block, so that overlapping entries overlap; the mutex | `fs_add_search_path` by outcome, `fs_get_path_id`, `fs_get_path_by_id` |
| `Streams` | files and buffers, over `H == INSTANCE HandleAlloc` | a block per handle, the objects' bytes | open, close, read, write, typed and string I/O, seek, `fs_ftomem`, `fs_memtof` |
| `FileSystem` | `SearchPaths` and `Streams`, joined in `fs_open_file` | | |
| `Directories` | `fs_mkdir`, `fs_touch`, `fs_remove`, `fs_dir_*` | the tree of directories, each thread's call and iteration, what `fs_mkdir()` told (history) | one per call of the operating system |
| `FileSystemProofs` | | | theorems about `SearchPaths`, `Streams` and `Directories` |
| `Thread` | `dg_thread.c` | memory and thread-local storage, each thread's place in `win32_thread_proc()`, handles | creation in two steps, the steps of a thread, attach, join, close, exit code, start and end of the subsystem |
| `HashMap` | `DG_MAP_IMPL` | buckets and the two counters | set, erase, erase at an iterator, compact, reserve, clear, destroy; get and iteration as operators |
| `TreeMap` | `DG_TMAP_IMPL` | nodes with child and parent links and colors | insert, erase, clear; get, bounds and iteration as operators |
| `RingQueue`, `Stack` | `dg_queue_t`, `dg_stack_t` | the ring and its fields | both ends, allocation and release, growth |
| `DArray`, `List` | `dg_darray_t`, `dg_list_t` | memory, size and capacity; nodes and their links | every function |
| `BitVec` | `dg_dbitvec_t` | the cells; the bits last set (history) | every function |
| `QueueMemory` | the memory of `dg_mempool_t` and `dg_mtqueue_t` | what each field leads to, how many objects exist for it | start, by what failed, and end |
| `LinAlloc` | `dg_hunkalloc_t` | the allocator's fields; hunks handed out (history) | every function |
| `Text` | a caller's buffer and `dg_string_t` | cells of the buffer, and what is behind it; `pstring` and `length`; the string expected (history) | every function that changes, compares or searches one |
| `Paths` | `dg_path_t` | `pstring` and `size`; the names expected (history) | copy, append, slashes, one folder back, free; base and file name as operators |
| `Utf` | `ansi_to_wide()` and `wide_to_ansi()` where the system is not Windows | the string that is converted | it grows by one unit |
| `MCSequences` | the sequences, the hash map, the bit vector, the strings, the paths, `QueueMemory` and `LinAlloc`, one at a time: `which` chooses | all of theirs | theirs |
| `ContainerProofs` | | | theorems about `MCSequences` |
| `MCContainers` | `MCSequences` beside `HandleAlloc`, the tree map and the conversions, in the same way | all of theirs | theirs |
| `SysEvents` | event ring, window procedure, poll and wait | ring and mutex, windows, keys, what the client has learnt and what was refused (history) | one per message, the push in two steps, poll, wait |
| `Windows` | the data of windows | the word of each window, the blocks and what is in them | creation with and without memory, user data, death with the windows that are owned |
| `Desktop` | clipboard and cursor mode | the call and where it is, global memory, what the clipboard holds and who has it open; mode, confinement, foreground, the counter of `ShowCursor()` | the steps of each call, and the other programs |
| `DynLibs` | `sys_dl…()` | how often each library is loaded, the library of each handle | open, close, ask, `sys_dlloadproc` |
| `Library` | `dg_main.c` with what its parts ask of the system | the globals, the objects that exist, the part that comes next | one per part, with its failures |
| `SystemProofs` | | | theorems about `SysEvents` and the four modules above |

`MCThreads` puts `Thread` beside `ThreadPool`, `MCFileSystem` puts `Directories` beside
`FileSystem`, and `MCSysEvents` puts the rest of `dg_sys.c` and `dg_main.c` beside `SysEvents`, in
the same way (`part`). The other `MC…` modules add only what TLC needs:
symmetry, and sets for constants. The sequential
containers carry a history variable `content`, the map or sequence their caller expects, and each
action changes both. The history is what the headers say of the call. Where a function does something
else, the history says what is left of it: elements that a growing stack tears off are `Junk` in it, an
array is `Lost` from a call on that `dg_darray.h` contradicts or that reaches outside of its memory, and
`outside` is the linear allocator's. Nothing is said of what is `Junk` or `Lost`.

Granularity. In `MpmcQueue` a step is one access to shared memory; `dg_atomic.c` makes each atomic
one a full barrier (`Interlocked…` on Windows), so interleaving them is faithful. In `MtQueue` the
statements under a lock are one step, because `head` is touched under `head_mtx` only and `tail`
under `tail_mtx` only; the read of `tail` after the unlock in `mtqueue_get_back()` is a step of its
own. `count` is changed by both ends with interlocked instructions. In `SysEvents` and
`SearchPaths` a call takes the mutex in one step and finishes in later ones, so the check sees what
the mutex is for: the mutant that does not wait for it breaks the properties.

Definitions whose comment begins with "Mutation of" are plausible bugs of the definition after
them. Nothing uses them: `PROJECT.json` pairs each with a property that detects it.

## Runs

| run | question | answer |
|---|---|---|
| `Mpmc` | Is the lock-free queue exclusive, exact, bounded and free of spinning, does it implement `ItemStore`, and does every call return? | yes (for `Capacity` 2) |
| `Mt` | Do the interlocked queue's four adds and two gets implement `BoundedDeque` whatever interleaves, and are refusals justified? | yes |
| `PoolSafety` | Can `tp_deinit()`, alone or after `tp_stop()` and `tp_join()`, also of a pool whose `tp_init()` failed, free the pool under a worker? Is a thread's block ever lost, shared or freed twice, and has a joined thread ended? | no; no, and yes |
| `PoolLive` | Does every accepted task run once, and does shutdown end, with room in the queue? | yes, if no thread failed to start |
| `PoolStaleTask` | The same "run once" with a queue that fills up. | violated, a finding |
| `MemBlocks` | Is a block ever in two places, and are the counts right? | no; yes, unless a call has failed |
| `MemLoses` | "The queue stores indices of FREE blocks" (`dg_mempool.h` l. 41) | violated, a finding |
| `Containers` | One table at a time. Handles: stale and doubly freed ones, leaks. Maps: do searches end and find what is there, is the tree a red-black tree, do loops that erase meet everything? Sequences: order at both ends, through growth. Hunks: apart? Queues and pools: is what they obtained given back, also after half a start? Strings and paths: as their calls should leave them, and converted without loss? | yes, with the exceptions below |
| `HunkOutside` | "pointer to allocated memory or NULL on failure" (`dg_linalloc.h` l. 52, 101) | violated, a finding |
| `FileSystem` | Two threads register and override paths under short and long ids in overlapping entries: which names are kept? Then files and buffers are opened, closed twice, written, sought and read back. Two threads make and remove directories, one iterates: is what they are told so? | hold |
| `NamesOverlap` | An id that was added is found (`dg_filesystem.h` l. 109), with short ids | violated, a finding |
| `Events` | Sizing, typing and killing while another thread pushes: bounded queue, do events agree with the windows and arrive, and does a full ring cost no more than what it refuses? Beside it: does the library start and end whole, do windows own their data, is the desktop given back, can symbols be called? | yes |

`CHECK_DEADLOCK FALSE` stands where a run really may stop: the bounds on positions, turns and depth
are used up (`Mpmc`, `Mem*`, `Containers`, `FileSystem`, `NamesOverlap`); getters and workers wait at an empty queue and
adders at a full one for calls nobody has to make (`Mt`, `Pool*`); the pool has been freed
(`Pool*`); a search-path call has left the mutex locked (`FileSystem`, `NamesOverlap`). `Events` checks deadlock:
the client can always call again.

### The findings

* `PoolStaleTask`. `mtqueue_get_front()` returns a pointer into the ring after it has posted the
  slot as free (`dg_queue.c` l. 303-306). A worker reads its task through it, once to see that it
  is no marker and again to run it (`dg_threadpool.c` l. 15-23). With a full queue the next add
  overwrites the slot in between: one task is lost, the other runs twice, or a termination marker
  is called as a task. `PoolLive` shows that with as many slots as items this cannot happen, and the theorem
  `OnlyReuseRunsTwice` that nothing else makes it happen.
* `MemLoses`. A `mempool_alloc()` that finds the pool empty has spent a position of the free queue
  (`dg_queue.c` l. 182); later frees publish under positions nobody will draw, and an add that
  finds its slot occupied fails, which `mempool_free()` does not notice (`dg_mempool.c` l. 98).
  Blocks disappear from the pool for good.
* `NamesOverlap`. The table of search paths is made with blocks of `sizeof(dg_path_t)`, two words, and
  its entries have an id of two words and a path of two words (`dg_filesystem.c` l. 816, 20-24). So the
  path of an entry lies where the id of the next one is. When an entry that is not the last is
  overridden, the length of the new path is written over the id of the next entry, which is then not
  found: `fs_get_path_id()` gives `DG_INVALID_HANDLE`, and the id can be added once more.
* `HunkOutside`. `linalloc_hunk_alloc()` computes `next_pos = position + size` and then does
  `position += next_pos` (`dg_linalloc.c` l. 52, 67). Without `DGLA_AUTORESIZE` this wastes half of
  the block; with it the block grows by one and a half hunks while the position doubles, and the
  pointer that is returned lies outside of the block.

## Bounds

The bounds are chosen so that every hazard of `PROJECT.json` occurs, not only fits.

* `Mpmc`: three threads, so that two calls of one side and one of the other overlap; two slots and
  three positions a side, so that slots are used a second time and a call meets its predecessor in
  the slot; `WordSize` 256 so that the difference of two positions can be negative.
* `Mt`: three threads, two slots, three values. Both ends work at once, the ring is full and empty,
  adds wait, are refused and reuse slots. `PoolSafety` has two workers, two clients and an owner at a
  queue of two slots, with enough markers for two `tp_stop()` calls; `PoolLive` two workers, one
  client and room for all items; `PoolStaleTask` one slot, enough for the finding.
* `MemBlocks`: three threads, two blocks, and positions for seven allocations and five releases.
* `Containers`, handles: three slots of seven turns each, just below the wrap of a counter of eight
  values; the theorem's assumption `NoWrap` is the same inequality.
* `Containers`, hash map: eight keys whose hashes collide, chain and wrap around the end of the
  table, so that entries and tombstones could fill all eight buckets (with seven keys they could
  not); tables of 8 and 16 buckets where the code begins with 16, so that growth, reuse of
  tombstones and both rebuilds happen. One key has two values, for replacement.
* `Containers`, tree map: seven keys, three levels of nodes, enough for every case of the repairs
  on both sides. `HunkOutside` and the arena: blocks of 4 and 8 bytes that grow up to 12, three hunks.
* `Containers`, sequences: a ring of three slots; a stack that grows from 1 or 2 to 4 while it wraps;
  two arrays of up to three elements, each allocation succeeding or failing, and calls that trust the
  capacity after one that failed; a list of four nodes.
* `Containers`, the rest: every subset of the parts of a queue or a pool may be the one that fails;
  bit vectors of no, one and two cells of three bits, one of them half used.
* `FileSystem`: two threads, three ids, three entries, so that an entry has neighbours on both sides; one
  id is short, one fills both words that it overlaps and one is cut, and any of them is added, found and
  overridden, at any place and time; with three ids added the table is full only for an id that was
  spoilt and is added again, which happens. `NamesOverlap` has two short ids in two entries: an
  override is all it takes. A stored, an empty and a failed path; two handles of four turns, so each slot
  is reused; one buffer
  of two bytes and files of at most two, a `size_t` of eight values so that negative offsets wrap.
  `Registries` limits the registries under which files are opened to the one with a single stored
  path: under others the files only have other directories.
* `FileSystem`, directories: three paths, one inside the other, so that a parent can be a directory, a
  file or absent; two threads that change them, each call in its steps, or one that also iterates.
* `PoolSafety`, threads: two threads made, by the main thread or by one another, three blocks, so that
  a block is attached while both have theirs; two starts of the subsystem. `259` is the exit code of
  a thread that runs, and threads return 0, so that the two are told apart.
* `Containers`, strings: a buffer of five cells, limits of none, three and five, and sources that
  overlap with themselves, have spaces at the ends, both cases, and are longer than the buffer.
  Conversions: all strings of up to three of nine units, which are the last or first unit of each
  length of an encoding and both kinds of surrogates in every order, into buffers of every size.
  Paths: strings with either separator, several or none of them, at both ends, up to six characters.
* `PoolSafety` and `PoolLive` start the pool worker by worker, and each start may be the one that fails.
* `Events`: three slots for two events (one stays empty), so the ring wraps, fills and refuses; three
  events; two sizes, one key, one window, one other thread. Three windows, so that owners form a
  chain, over two blocks of two slots, so that blocks are missing and come again; two blocks for the
  clipboard; the counter of `ShowCursor()` from -1 to 1; three library files, one of which cannot be
  loaded, loaded up to three times by three handles; and four objects for the library's start, one
  more than it takes, so that a start that is repeated gets new ones or none. These sets and
  limits are constants (`Broken`, `Exported`, `MaxShow`, `MaxCount`, `SYSUI_MAX_USERDATA`), so that the theorems
  are about all of them.

## Fairness

`Mpmc` assumes weak fairness of every step inside a call: threads that run are scheduled, and the
queue has no waiting steps; nobody has to call. `PoolLive` assumes it of workers and clients inside
the pool and of the owner's steps after it has decided to shut down. Mutexes and semaphores are
taken by weakly fair steps: a semaphore's permit stays until someone takes it, and in the checked
properties no thread can be passed over for ever, because tasks and markers are finitely many.
The owner's first step (`Stop`) and the clients' calls are left to their choice. `Events` assumes
that the client keeps calling `sysui_poll_events()`, which is how the header wants it used, that
`PeekMessageA()` runs out of messages, and that a thread that is in a call of the ring ends it: the
mutex is held for a few instructions, and the events that others push are finitely many.
`EventsArrive` asks beyond that only that modal loops end (a user lets go of a window) and that the
client does not sleep in `sysui_wait_events()`. The other runs check safety and refinement and need
no fairness.

## Proofs

TLAPS proves the theorems from these assumptions on constants, which TLC evaluates in the runs:

| assumption | says |
|---|---|
| `MpmcAssumption` | the capacity is a power of two, as `mpmc_queue_alloc()` requires, and the positions drawn fit a `size_t` |
| `MtQueueAssumption` | a capacity above zero; `NoThread` and `Empty` are not a thread and a value |
| `MemPoolAssumption` | the first, and the blocks' own positions are among those drawn |
| `ThreadPoolAssumption` | finitely many threads, the second, and the owner's calls free only right after a join, as `tp_deinit()` has it |
| `ThreadAssumption` | the main thread was not created by the library, and `NULL` is no block |
| `HandleAssumption` | the size of the table fits an index |
| `SearchPathsAssumption` | what a first word holds besides an id does not read as one, no path is an id, and an id that is cut is a long one |
| `SequencesAssumption` | sizes are whole numbers, a ring, a cell and the reserve of an array at least 1; `NULL` is no node, no object and no block of elements |
| `HashAssumption` | finitely many keys, hashes that are whole numbers, a least capacity of 8 or more (the code has 16), entries told from the marks of empty buckets |
| `TextAssumption` | a buffer of at least one cell, limits up to its size, callers' strings are made of ASCII codes, and `NULL` is no block of characters |
| `PathAssumption` | no separator is a letter of a name, and callers' strings are made of letters and separators |
| `StreamsAssumption` | `HandleAssumption` of the table; buffers are no longer than the bound on files, values are sequences of bytes, offsets are whole numbers, buffers are no files |
| `FilesAssumption` | a name below a path that can be stored is a file |
| `TreeAssumption` | the thread that iterates is one; paths are sequences of names, none is empty, and with each its beginnings are there |
| `SysEventsAssumption` | a ring of at least one slot, window sizes to begin with, and `None` and `UI` are told from the rest |
| `RestAssumption` | `NULL` is none of the objects, blocks and windows, and there are finitely many windows |

Some theorems have a hypothesis of their own. `Capacity > 1` of the lock-free queue, and of the pool
on top of it, and `MaxTurns < GenSize` (`NoWrap`) of handles and streams are named where they occur
below: where they fail, the code fails. `SlotsKept` of `OnlyReuseRunsTwice` is about steps: it excludes
the one step of the finding `PoolStaleTask` and nothing else.

Induction over a state machine needs no library. Where a definition counts up to a number (the owners
of a window, the events still to come, the buckets of a table, the turns of a loop) its function is a `CHOOSE`, and that there is one is shown by
`SetInduction` (in `SystemProofs`, `HandleAllocProofs` and `ContainerProofs`): a set of numbers that has 0
and with each number the next has all of them, since a smallest missing one would have a predecessor.

*Lock-free queue* (`MpmcQueueProofs`), for every number of threads, every `Capacity > 1`, every
`MaxPos`: `TypeCorrect`, `SpinFree`, `CopiesAreExclusive`, `DeliveryIsExact`, `QueueIsBounded`,
`ImplementsItemStore`. None of these is inductive alone. `SlotInv` adds that calls under way on a
side hold different positions that have been drawn (`TicketsDrawn`), that what a call's check found
stays true while it uses its slot (`Turn`), and that no slot's number runs ahead of a position yet
to be drawn (`Ahead`). A slot's number is a baton: `SameSlot` says that two positions of one slot
differ by at least `Capacity`, so while one call holds the baton the number equals its position
(or the position plus one), every other call of the slot finds a smaller number and fails, and what
the release writes is at most what the next position of the slot waits for. With `Capacity = 1` the
argument fails where an add's `pos + 1` is the next add's position: hence `Capacity > 1`, see below.
`ItemInv` adds the history: a published slot holds the element put under its position (`Content`),
positions in the history are those of calls that have ended (`HistoryDrawn`). Boundedness is an
injection of the stored items into slots; for the refinement, an add that publishes finds its own
slot unoccupied, so the others leave room. TLC checks `ItemInv`,
which contains the type invariant and exact delivery, in `Mpmc`; `ItemsInvariant` is the theorem about
it. `SizeQueriesAreRight`: as long as no call has failed, the positions drawn are the elements put and
got, so their difference is the number of stored elements (`HistoryFinite`). That is at most the
capacity (`Occupancy`), so the wrap of a `size_t` changes nothing.

*Interlocked queue* (`MtQueueProofs`), for every finite set of threads and every capacity: `Balanced`,
`EndsStayApart`, `RefusalsJustified`, `ImplementsDeque`. `PermitsBalance` is inductive: the two
semaphores and the calls between a wait and a post always sum to the capacity, and `count` differs
from the posts by the calls that have counted and not posted, or the other way round (`Balance`).
That a post never exceeds its maximum follows from the sum, not from a guard. The ends are guarded
by different mutexes and yet both read `count`; what keeps them apart is `Exclusive` (who is at work
has the mutex of its end), `TailTold` (`tail` is `head + count`, though no thread that moves one
holds the mutex of the other) and that a call at work still owes its post: two calls at work leave
room for two more slots (`RoomForTwo`). The refinement maps the ring from `head` on to a sequence
of `count` elements; each of the four works is a push or a pop of it, all else a stutter or the drop
of the element that was taken.

*Memory pool* (`MemPoolProofs`), for every pool of more than one block: `NoBlockTwice` and `PoolCounts`. The pool's
queue starts full, so `ItemInv` of `MpmcQueueProofs` is shown of that start, and kept because every
step of the pool is one of the queue's or leaves it alone (`QueueKept`). `OnePlace` counts the places
of a block; `Places` says the same without counting and adds that two items in the queue, or two
calls that free, have different blocks. A block is delivered once because `put \ got` loses its item. The
counts compare a difference of positions with a number of blocks. While no add has failed every
position drawn has an element put or about to be put under it (`DrawnKept`), so in a pool at rest there
are as many elements as positions (`AllPublished`); and the elements not delivered are the
blocks nobody holds, one for each (`StoredAreFree`).

*Thread pool* (`ThreadPoolProofs`): `FreedWhenUnused` and `OnlyReuseRunsTwice`. The queue's `IInv` holds of the pool's queue
whatever the pool does (`StepInQueue`). `Counted` says that posts of the finish semaphore and the
waits `tp_join()` has counted are, together, at most the workers that have left; so when it has
counted as many as the array has entries, all that were started have left. `Planned` carries the
count over to the free that follows. A pool whose `tp_init()` failed is covered: it has more entries
than workers.A task runs once unless an add writes a slot that a worker still has a pointer to (`SlotsKept`): the
theorem is about the specification whose steps are the others. There what waits in the ring has not been
run and no worker has a pointer to it (`Waiting`), a worker's pointer is its own and its element has
not been run (`NotRunYet`), and what is carried by an add is nowhere else (`AddedOnce`). An add
writes a slot that nothing waits in (`AddTakesFree`, from `EndsApart`), a get takes the first one away
(`GetTakesFirst`). The workers use one end and the clients the other (`OneWay`).

*Threads* (`ThreadPoolProofs`), for every number of threads and blocks: `ThreadsAreAccounted`.
`HoldersApart` lists who may have a block: the thread that was made with it, while it runs, the one
that is making it, the main thread, and the blocks of main threads that an end of the subsystem left behind. It says that no two have the
same one and that exactly these blocks are live. `Orderly` says when a block changes hands: a thread
makes others only inside its start routine, one that has returned has freed its block, its exit code is
what its routine returned, and none is under way while the subsystem is ended. A join that tells a code
has waited for the end, hence `JoinedEnded`.

*Events* (`SystemProofs`), for every size of the ring and all sets of threads, windows, keys and sizes:
`RingIsFifo`, `EventsTellRight`, `DeathComesLast`. The next slot, which a push computes before it
writes, is still the one after `tail` because who is inside has the mutex (`Exclusive`); and the UI
thread never takes while a push of its own handler is under way. The steps of the window procedure
are shown once to leave the ring alone (`Outside`); the ring from `head` to `tail` is a sequence
(`PendingIs`) that a stored event prolongs by one, which a full ring would not bear (`Size - 1`).
What the client will know is `Told(seen, Pending)`, the events applied one after the other. One more
event is applied last (`ToldAppend`); taking one moves it from the pending events to what was seen,
and what will be known stays (`ToldTail`). The two properties hold between messages only, so `Agree`
adds the event that is being pushed: it says what the window or the key is now, and every other size
and key agrees with what will be known or is lost. A new window's size is known at once because no
event of it is pending (`Origins`, `ToldCreated`). That death comes last follows from `Last` and from
`Origins`: what the handler pushes is of a live window, and only the return of the push that told its
death ends it.

*Search paths* (`FileSystemProofs`), for every number of entries and threads and for ids of every
length: `EveryNameKept`. `NamesKept` is not inductive, because a call looks for the id in one step and
acts in a later one; `Found` says that what it found is still so, which holds because only the owner of
the mutex is inside (`Locked`). Of the registry, `Alone` says that one entry at most has the name of an
id, and only if the id was added; `Kept` that an id nothing was written over has an entry with the
path last stored under it; `Entered` is these two and that a handle that was given names such an
entry. What the two writes do to the neighbours is in `NewKeeps` (the id of a new entry lies on the
path of the one before, and spoils it if it is long) and `OverrideKeeps` (a new path lies on the id of
the next entry, and spoils that).

*Streams* (`FileSystemProofs`), for all handles, buffers, files, values and offsets, until a generation
wraps: `StreamsOwnObjects` and `StoredIsReadBack`. The table of streams is one of the handle allocator,
so its `GenerationInv` is part of `StreamInv`; `Own` says that the block of a held handle is of the
object it was opened on and that its position is inside a buffer; `Stored` that the bytes of each value
not overwritten since stand where they were written. A write is a content with a part overlaid
(`OverlayIs`), a read a part of it (`PartIs`), and the byte orders undo themselves (`ReverseTwice`), so
a value is read through any handle as it was written, one of 16 bits with zeros before it (`Widened`).

*Directories* (`FileSystemProofs`), for every number of threads and every set of paths closed under
parents: `MkdirTellsTrue` and `EntriesListedOnce`. What a recursive `fs_mkdir()` has passed is a
directory, unless a file is above it or someone removed it (`Passed`, `Lost`, `Blocked`); steps of
others that only add entries keep this (`GrowsKeeps`), and a removal makes the path lost
(`RemoveEntryKeeps`). `Listing` says of an iteration that what it gave and what is still to come are
apart and together all that was there at its beginning.

*Start and end* (`SystemProofs`), for every set of objects: `LibraryWhole`.
`PartsWhole` says little of the time inside a call, so `InCalls` adds which parts have been started
or ended when the next is reached, and that without a repeated `dg_initialize()` a part that is
started had nothing before. That a new object belongs to no other part follows because it was
not live and what the parts have is.

*Windows* (`SystemProofs`), for every finite set of windows and every number of slots:
`WindowsKeepData`. With a window die those it owns, and theirs: `OwnedClosed` shows that the windows
`DestroyWindow()` reaches are all whose owner is among them, because a chain of owners is not longer
than there are windows. So no live window keeps a dead owner, and the blocks that are freed are those of the
windows that die, each of one window.

*Desktop* and *dynamic libraries* (`SystemProofs`): `DesktopIsGivenBack` follows from which block a
call in progress has (`ClipboardInv`) and from what the cursor was confined to before the mode says so
(`CursorInv`). `SymbolsCallable` is an account: a library is loaded as often as handles refer to it
and loads were lost, and a handle that moves from one library to another moves one load
(`HandleMoves`).

*Handles* (`HandleAllocProofs`), for every table, as long as no counter wraps (`MaxTurns <
GenSize`): `Generation`, `HeldStayValid`, `StaleRefused`, `NoSlotLeaks`, `LoopMeetsBusy`. TLC checks the invariant in `Containers`. `GenerationInv` is inductive: the counter
equals the number of its moves, a freed handle carries a smaller number than its slot. A loop of
`ha_get_next_handle()` makes one call for each slot in use because its k-th call finds the slot that has k slots in
use up to it (`Found`): the index it leaves is one past that slot, where the next search begins. The handle
it leaves has the generation of the slot before its index; while no handle has been freed all slots in use
have the same one, and those in use are the first ones, so the loop still looks up all of them.

*Hash map* (`ContainerProofs`), for every hash function, every finite set of keys, every set of entries
and every least capacity from 8 on: `HashMapFinds`. The inductive invariant is `Sound`: the two counters are the
numbers of entries and of tombstones, and together less than the capacity, so that there is an empty bucket
(`OneEmpty`); every key that is set is in a bucket that its search reaches without an empty one on the way
(`Leads`), with its value, and no other bucket has it (`Finds`). A search thus ends at the key, or, if it
is not there, at an empty bucket (`StopsRight`). What is written on the way keeps this: an entry over an
empty bucket or a tombstone fills no way with an empty one, and a tombstone is not empty
(`LeadsStill`, `EntryHolds`, `TombHolds`). That a bucket stays empty after the next entry is where 85 %
of at least 8 buckets come in: what is below that share leaves two (`HashSets`), and a table that is full to
that share is doubled before. A table is rebuilt bucket after bucket: the new one is `Sound` for the
entries moved so far (`Refill`, `RehashIsSound`), and large enough for all. A loop that erases what it
meets does not move what is ahead of it (`WalksOn`), so after n turns it has met n entries, those before
its iterator (`Walks`), and it has ended when it has met as many as there were.

*Sequences* (`ContainerProofs`), for every capacity, every bound and every set of values, nodes and
names: `SequencesAreHeld`. Each container has an invariant of its own. The queue and the stack are both
rings: `Holds` says that the places from the head on, around the end, hold the sequence, and four
lemmas say what it takes to add or to drop an element at either end (`PutBack`, `PutFront`, `DropBack`,
`DropFront`), from where an index goes when it passes the end (`PlaceOf`). Of a stack that grows, what
stays within reach is what lies before the old end (`Left` in `Stack`). An array that is not `Lost` has
memory for its elements, which may be less than its capacity says after a growth that failed (`Good`):
a call first sees to the capacity (`EnsuredIs`), keeps what its caller expects only if it stays within
the memory (`WithinIs`), and then writes or moves elements (`PutIs`, `MovedIs`). For the list, `Linked` says
that the links of the k-th node are the nodes before and after it, and that no node is in it twice, so
a new node is linked in without touching the others (`Inserted`). A bit is known by its cell and its
place in it (`CellAndPlace`). *Memory* (`ContainerProofs`): `MemoryIsHeld`. Hunks end before the
position and a new one begins at or after it; and no field of a pool or of a queue has more objects than
the one it leads to, none outside of a start and its end.

*Paths* (`ContainerProofs`), for every set of letters and every set of strings that callers make paths of:
the part `KeepsNames` of `SequencesAreHeld`. `PathInv` says that a path is a text whose names are those it
should have. What the names of a text are is a matter of where they begin; `ListsAreOne` says that the
places have one order, so that the names of two texts joined are the names of the one and then those of
the other, provided no name goes across (`JoinNames`): `path_append()` puts a separator there when neither
side has one. Turned slashes change no name (`SameNames`), and a text is its base, its last name and
separators (`PartsOf`), which is what the file name and one folder back rest on (`BaseOf`).

*Strings* (`ContainerProofs`), for every size of a buffer, every limit up to it and all strings of callers,
however they are put one after the other: the parts `HoldsText` and `HoldsString` of `SequencesAreHeld`.
`Buffered` says that a block begins with a string and its NUL, that the NUL is within the buffer and
that the cells behind the buffer are as they were; each function has a lemma that says which string it
leaves (`CopyIs`, `ConcatIs`, `MapIs`, `RemoveIs`, `ReplaceIs`, `TrimIs`) or tells (`CompareIs`,
`ContainsIs`, `SpotsAre`, `CountIs`). `mem_move()` goes from cell to cell within one block, upwards or
downwards, and `MoveIs` shows that no cell is read after it was written (`AfterMoves`). A replacement is
a `Splice` of the string, in the block a move and a copy (`SpliceCells`); a round of `str_replace_string()`
treats a first part and leaves the rest (`Stands`, `RoundIs`), so that it agrees with the replacement of
occurrences in a string, round by round. Where a search finds something is where the string could be put
together again with what was sought (`SplitIs`). A `dg_string_t` that may be used has a block that
begins with its string (`StringInv`), or none and no character; `RoomIs` says what a block that was
made larger begins with. Loops are functions over their turns: two that start alike and whose turns
agree are the same (`SameLoops`), and `LoopExists` makes one from its turns.

Only model-checked: everything under fairness (`CallsReturn`, `AcceptedRuns`, `ShutdownReturns`,
`EventsArrive`), which is out of the prover's reach; and the tree map and the conversions
(`TreeHolds`, `TextsConvert`), whose definitions are recursive over data, which TLAPS does not read.
That `Events` does not stop is checked too.

## What the code does

Behaviour seen while modelling, beside the four findings. The models have it, except where "Not
modelled" says otherwise, and no property contradicts it: where a header or a test promises something
else, the item quotes the place, and the property is about the calls for which the promise holds.

* A failed call on the lock-free queue spends its position (`dg_queue.c` l. 162, 182): after a
  failed `get_front` the element put under that position is never delivered, and after a failed
  `add_back` the get that draws its position fails although the queue holds elements. This does not
  end there: the number of the slot stays behind, so that each later call that draws the slot, one a
  lap on each side, fails too (until a `size_t` wraps), and with every failure one slot less is in
  use. `is_empty` and `is_full` then compare positions, not contents:
  `SizeQueriesAgree` speaks of runs without failures, `ItemStore` promises no order.
* `is_power_of_two(1)` holds, so a capacity of 1 is accepted, and then the number an add publishes
  is the next add's permission: it overwrites the element while a get copies it.
* `mtqueue_get_back()` computes the pointer it returns from `tail` after the unlock (l. 281-283): it
  may be another thread's slot. `DequeSpec` is about the element the operation removes; the
  pointer is followed in `ThreadPool` only, which uses `mtqueue_get_front()`.
* `tp_stop()` adds its markers with the blocking add: with a full queue it waits for the workers,
  which leave their loop when they see the status. If all have left before there is room, it waits
  for ever (`dg_threadpool.c` l. 91); `PoolLive` gives the queue room. `tp_deinit()` after
  `tp_join()` waits for posts that have been consumed (l. 120). Accepted tasks that wait when the
  pool stops never run.
* The counts of the memory pool are off after a failed allocation (`CountsRight` excludes it).
* `mpmc_queue_alloc()` that gets one of its two arrays frees it and keeps the pointer, and one that
  refuses the capacity writes no pointer at all. `mempool_init()` then returns with the blocks
  allocated, and `mempool_deinit()`, which alone could free them, frees the queue's pointer too
  (`dg_mempool.c` l. 46, `dg_queue.c` l. 124, 132). What such a second `free()` does is undefined;
  in `QueueMemory` the program goes on without the blocks, or it is over: `MemoryHeld` speaks of what
  is left where it goes on.
  `mtqueue_alloc()` that fails leaves what it has made, and `tp_init()` does not call `mtqueue_free()`.
* `dt_get_num_functions()` tests the first entry again and again (`dg_dt.c` l. 8), so `dt_copy()` copies
  no table that has an entry.
* `ha_get_handle_by_index()` makes a handle for a free slot that `ha_is_valid_handle()` accepts, and
  freeing it marks the slot used. `ha_get_next_handle()` leaves an index one past the slot whose
  generation it returns, where `dg_handle.h` l. 163 says "updated to the next handle": the handle
  leads to the slot after the one that was found, if that has the same generation, and to nothing
  otherwise, and the first call finds the first slot once more. `EnumeratesBusy` says what holds of the
  loop in `fsi_search_path_by_id()`, which begins with `ha_get_first_handle()` and whose table frees no
  handle. A counter that wraps makes old handles valid again.
* `fs_memtof()` casts its `char` name to wide characters (`dg_filesystem.c` l. 755) and saves under
  another name (`MemoryToFile`).
* The entries of the search paths overlap (`dg_filesystem.c` l. 816, see the head of `SearchPaths` and
  the finding). An id of eight characters or more also overwrites the pointer of the previous path,
  which is then freed or read as a pointer; an id of sixteen or more is cut and never found, so that
  each add makes another entry. `fs_get_path_by_id()` returns with its mutex locked for a path that is
  empty (l. 104). `fs_add_search_path()` returns success when the table is full, where the header
  promises -1 (`dg_filesystem.h` l. 101).
* `fs_open_file()` and `fs_open_buffer()` return success and give no handle when the table is full
  (l. 541). A failed open keeps its handle (l. 539). A file opened with `FS_R | FS_W` cannot be
  read. Typed reads of 16 signed bits swap through `uint16_t` (l. 200-206, 394-400, `dg_bswap.h`
  l. 64-67), so a negative value comes back as a positive one: `Widened` in `Streams`, and `ReadsBack`
  promises the lower bytes only. At the end of a buffer typed reads succeed with bytes nobody wrote.
  `fs_read()` that reaches the end of a file returns `DGERR_PARTIAL_COMPLETE` (l. 193), where the
  repository's test expects success (`dglib_tests/main.c` l. 666, 697); over a buffer it returns success.
* `fs_mkdir()` asks for the directory before it creates it (`dg_filesystem.c` l. 1049): when another
  thread creates it first it returns `DGERR_INTERNAL_ERROR` although the directory is there, and with
  a separator at the end of the path it does so for every new directory in recursive mode. `fs_dir_open()` leaks its
  block when it fails (l. 880). `fs_stat()` passes its wide path to the narrow function
  (`GetFileAttributesExA`, l. 991), `fs_access()` returns the permitted modes where the header says 0.
  `fs_stor_open()` passes an array for an allocator (l. 1198): it never succeeds and leaks the key.
* The linear allocator of a thread's block, and blocks that `thread_attach_info()` made, are never
  freed (`dg_thread.c` l. 73, 249). A block attached before `deinitialize_threads()` cannot be found
  after it. `dg_initialize()` that failed in `initialize_threads()` fails again when it is repeated,
  because the file system is already initialized.
* `dg_initialize()` after `dg_deinitialize()` fails: the window class is never unregistered
  (`win32_remove_window_class()` has no caller), and cannot be registered again. A `dg_initialize()`
  that is repeated without a `dg_deinitialize()` replaces the mutex of the event ring, which is lost,
  and empties the ring (`dg_sys.c` l. 46-47), before it fails in the same place.
* `tp_init()` adds an entry for a thread before it makes the thread (`dg_threadpool.c` l. 63, 71): when
  that fails the entry stays and `tp_deinit()` waits for ever for one worker more than there are.
  The workers that run keep the pool, although the caller was told that there is none. The result of
  `semaphore_alloc()` is not looked at (l. 37), and a second `tp_deinit()` frees the semaphore again.
* `fs_read_string()` over a file that ends early returns `NULL`, with the position moved and no NUL
  written; over a buffer it returns what there was. With a length of at least `maxlen` it writes
  beyond the memory it was given (`dg_filesystem.c` l. 653). `fs_write_string()` to a full buffer
  writes what fits and returns `DGERR_PARTIAL_COMPLETE` (l. 377, 610).
* `dgstr_free()` keeps the pointer (`dg_string.c` l. 497), `dgstr_copy_from()` does not free what it
  replaces. `dgstr_insert_from()` moves a NUL that a string without characters does not have (l. 480).
  `str_split()` copies from the delimiter on (l. 219), `str_data()` writes one value per digit where
  the test expects packed ones (`dglib_tests/main.c` l. 503-515).
* In UTF-8 a second or third continuation byte below 0x40 is accepted, also the NUL of a string that
  ends inside a character, because the bytes are tested together (`dg_string.c` l. 579, 588;
  `Continued` in `Utf`). `Converts` is about bytes that `wide_to_ansi()` wrote.
* `path_copy()` copies half of the bytes and sets no size (`dg_path.c` l. 51-72); `path_get_base()` of a
  single name leaks what its destination had (l. 158); `path_remove_file_ext()` cuts at a dot in the
  name of a directory.
* A full event ring drops events, also the one that says that a window died (`dg_sys.c` l. 579).
  `sysui_wait_events()` sleeps although the ring holds events. Keys that are held when a window loses
  the focus stay pressed in `glob_keyarray`. Messages of the X buttons of a mouse are not handled.
* The slots for user data of a new window hold what the allocator left there (`dg_sys.c` l. 491).
  `sysui_window_get_title()` does its work only where the system is not Windows (l. 507).
* A text that `SetClipboardData()` refuses is lost, and the call reports success (l. 864). Infinite
  mode hides the cursor once more each time it is set, and the other mode raises the counter of
  `ShowCursor()` each time; `sys_is_cursor_visible()` says so at a counter of -1 too (l. 838). The
  window the cursor is confined to may have lost the foreground before `ClipCursor()` (l. 771-781).
* `sys_dlopen()` over a handle in use, and every `sys_dlloadproc()`, leave a library loaded that nobody
  can unload (l. 164, 958). `sys_dlenum()` divides the number of bytes by the wrong size (l. 234), writes
  beyond its array, and closing a handle it gave unloads a library of somebody else.
  `win32_dlinfo()` passes the size of a pointer for that of the name (l. 203).
* `str_replace_string()` and `str_chrcount()` return a length and a number of different characters
  where `dg_string.h` says replacements and characters counted (l. 142, 186). What
  `str_replace_string()` returns is left out of `Text`; the string it leaves is not.
* A stack that is full while its ring wraps keeps its elements in place when it grows (`dg_stack.c`
  l. 33): those behind the old end of the ring are not where the pops look for them. Their pops give
  what lies there; `Stack` expects nothing of these (`Junk`) and all of the others.
* `darray_remove_from()` removes one element, and overwrites another with the next, where
  `dg_darray.h` l. 116 says "Remove elements from index to end" (`dg_darray.c` l. 104-109): the two agree
  for the last index only. `darray_remove_from_fast()` returns at once unless the array is empty, and
  then counts its size down from 0 (l. 125). After a `realloc()` that fails the array keeps its elements
  and a raised capacity (l. 14), and a later call that trusts it writes beyond the memory;
  `darray_resize()` of an array that has capacity and no memory yet gives it a size without memory
  (l. 37). `darray_free()` keeps the size, `darray_copy()` of an empty array leaves the destination as it
  was. In `DArray` an array is `Lost` from such a call on. `darray_shrink_to_fit()` never shrinks.
* `queue_free()` keeps the count: a queue used again has elements nobody added. A list does not see
  nodes that `list_node_insert_before()` or `..._after()` link beyond its ends.
* `NAME_clear()` of the tree map climbs through nodes it has freed (`dg_treemap.h` l. 138).
  `NAME_erase_at()` of the hash map uses names that its macro does not define (`dg_map.h` l. 353).
* `linalloc_init()` after `linalloc_deinit()` succeeds without memory, because the capacity stays;
  with `DGLA_LESSRESIZE` the first call does so too, and a smaller capacity is taken without
  `realloc()`. A failing `realloc()` loses the block (l. 34).

## Assumptions

About clients, each stated at the module it concerns: nobody calls a pool that is being shut down,
nor a queue while its owner re-creates it; a block is freed once, by its holder; handles that are
freed were issued by the allocator (also stale ones); search paths are registered before files are
opened, and handles of search paths come from `fs_get_path_id()`; the stream table is used by one thread; thread handles are used until they are closed, and the threads subsystem ends when no thread runs;
strings are ended by a NUL inside their buffers, and the limits given are at most their sizes; a freed
`dg_string_t` is only copied into; windows, their data, the clipboard, the cursor mode
and handles of libraries are used by the thread that owns them, and window handles are not reused;
handles that `sys_dlenum()` gave are not closed; other threads push events that belong to no window. About the system:
mutexes, semaphores and critical sections do what Windows documents; a file's position and
content behave as `dg_filesystem.c` uses them; the window system sends any message at any time,
and nests its own loop while a window is sized. About the containers: hash functions,
comparisons and the hooks that free keys and values have no effects; the tree map's freed nodes are
as they were while `NAME_clear()` runs; indices given to arrays are inside them; `realloc()` may fail
in the array, the maps and the linear allocator.

## Not modelled

`PROJECT.json` lists every component with the reason. In short: thin wrappers over Windows calls
(synchronisation, memory, time, CPU, terminal, titles, native windows) keep no state of
their own; so do the queries of files. The storage functions cannot be
used at all, and `path_copy()` does not do what it is for; formatting and the copies
of wide strings are left out. Failures of `malloc` are modelled where the code has an exit that does
something (`tp_init()`, queues, pools, windows, search paths, threads, strings, paths, arrays, bit
vectors, maps), not in the
other initialisations, and memory that is read without the mutex that guards it (`fs_open_file()`
l. 520) is not: search paths are registered before files are opened.

## Plan

Done: the modules above. Next, in this order:

1. A registry of search paths that changes while files are opened (`dg_filesystem.c` l. 520).
2. Proofs: the tree map, its searches and repairs written without recursion, and the conversions.
