# A formal model of the kernel

This directory is a verification development for the kernel, its modules and libraries in `src/src`:
TLA+ modules translated from the code, TLC configurations that check them on small instances, and
TLAPS proofs for any size. `PROJECT.json` lists every part of the system, the lines each definition
stands for, the hazards of the code, the runs, the theorems and the findings.

## The system

A thread that must wait tests a condition under a lock, releases the lock and calls `event_await`; the
thread that makes the condition true calls `event_dispatch`. `event_await` has a second way out, the
event's `is_active` flag, which closes the window between the test and the wait. Everything that blocks
in the kernel (mutexes, timers, pipes, rings, notifications, the module loader, network clients,
drivers) is built on that pattern, above a spin lock and above objects that are counted by handles and
found by identifier. Beside these are allocators and on-disk structures, which are sequential under
one lock and hard for another reason: their linked lists, bitmaps and boundaries.

| Part | Source (`src/src/...`) | Module | Uses |
|--|--|--|--|
| reader/writer lock | `kernel/lock/rwlock.c` | `RWLock`, `AbstractRWLock` | atomic instructions |
| mutex | `kernel/lock/mutex.c` | `Mutex` | `RWLock`, events, handles |
| events, scheduler | `kernel/mp/event.c`, `thread.c`, `kernel/scheduler/scheduler.c` | `Scheduler` | run queues |
| run queues | `kernel/scheduler/load_balancer.c` | `LoadBalancer` | |
| processes, threads, groups | `kernel/mp/process.c`, `thread.c`, `thread_list.c`, `process_group.c`, `kernel/elf/elf.c` | `Process` | handles, scheduler |
| timers | `kernel/timer/timer.c` | `Timer` | tree, events |
| signals | `kernel/signal/signal.c` | `Signal` | events |
| handles | `kernel/handle/handle.c`, `handle.h` | `Handle` | tree, lock |
| access control lists | `kernel/acl/acl.c` | `Acl` | tree |
| resource manager | `kernel/resource/resource.c` | `Resource`, `AbstractPool` | tree |
| red-black tree | `kernel/tree/rb_tree.c` | `RBTree` | |
| ring, pipe, notifications | `kernel/ring`, `kernel/pipe`, `kernel/notification` | `Ring`, `Pipe`, `Notification` | events (`EventQueue`) |
| module loader | `kernel/module/module.c` | `ModuleLoader` | events, threads |
| physical memory | `kernel/memory/pmm.c` | `Pmm`, `PageReset` | |
| objects, page tables, memory maps | `kernel/memory/omm.c`, `vmm.c`, `kernel/mmap/mmap.c` | `Omm`, `Vmm`, `Mmap` | |
| nodes and descriptors | `kernel/vfs`, `kernel/fd`, `module/kfs2/fs.c` | `Vfs` | handles |
| KFS2 | `common/kfs2` | `Kfs2Bitmap`, `Kfs2Node`, `Kfs2Directory` | |
| compression | `common/compressor` | `Compressor` | |
| DHCP, DNS, ARP | `module/net_dhcp`, `net_dns`, `net_arp` | `Dhcp`, `Dns`, `Arp` | events, timers |
| NVMe, VirtIO, i82540 | `module/nvme`, `virtio`, `virtio_blk`, `i82540` | `Nvme`, `Virtio`, `I82540` | interrupts |
| accounts | `module/account_manager`, `kernel/id`, `kernel/config` | `Accounts` | files |
| heap of programs | `lib/sys/sys/heap/heap.c` | `Heap` | memory maps |
| line editor, serial terminal | `lib/readline`, `user/serial_terminal` | `Readline` | pipes |

## Modules

### Synchronisation

**`RWLock`** keeps the 32-bit word (`value`) and the place of each thread (`pc`) in the lock's
functions. Each atomic instruction is an action: the `fetch_or` that takes bit 0 (`TakeWrite`,
`TakeRead`, `JoinReaders`), the store that follows it (`SetWrite`, `SetReader`), the addition and
the subtraction of a reader and the final store. The word's width is the constant `WordSize`, and
additions wrap. The auxiliary variable `met` becomes true when a reader finds another reader in the
lock; from then on the word may say that the lock is free while it is held (see *Findings*), and the
exclusion properties are stated up to that moment. `AbstractRWLock` is the lock as its callers
think of it, and `ImplementsRWLock` the refinement.

**`Mutex`** composes the mutex with an instance of `RWLock` for its lock word (`LockStep`), its FIFO
of sleepers, and the count of its handle. Each system call is cut where the lock is taken and
released; `event_await` and `event_dispatch` are one step each. Its abstract specification is
`AbstractRWLock` without readers.

**`Scheduler`** has the threads' state, sequence number, saved-register flag and reference count;
the events' flag, list and lock; and the CPUs, each with the place of the kernel code it runs. Code
under `scheduler_pause` is not preempted, so its place belongs to the CPU. `event_dispatch` is cut
where it works without the thread's lock (`Pop`, `Check`, `Wake`, `Settle`, `Enqueue`, `Drop`), and
`_switch_thread` where it releases it (`Switch`, `Recheck`, `Requeue`, `Delete`, `Pick`, `Start`). The
history variable `overtaken` records that a thread was started before the CPU that left it looked at it
again (`Overtakes`).
The run queues are one set here; **`LoadBalancer`** is what that set is made of: queues with a lock
each, the bitmap that is read without one, and the index of every thread.

**`Process`** has the processes and threads with the counts of their handles, the thread lists, the
group and the directories. The destructor of a thread takes four steps (`Remove`, `Test`, `Announce`,
`ReleaseOwn`), because `thread_list_remove` looks at the head of the list after it released the lock.
`process_create` copies its creator's directory in one step and references it in another. `broken` records
that one of four races has happened: two last threads that leave a list together, a thread that is started
between the test of its state and its queueing, two changes of one directory, a change between the two steps
of `process_create`. The properties are stated up to that moment. Root, home and the standard descriptors
follow the working directory.

**`Timer`** has the tree keyed by deadlines, the lock of the tree and those of the timers, and
`timer_dispatch_timers` in its steps; a deadline that is already in the tree is lost as in the code.
**`Signal`** has the masks and pending sets of a process and its threads; what a call does under the locks of
the process and its thread list is one step, and the dispatch of the event that follows (`todo`) is
another. A new process has the mask and the pending set that its memory held before (`Stale`), since
`process_create` does not set them. **`EventQueue`** is an event as these modules need
it, a flag and a FIFO.

**`ModuleLoader`** has the modules, the thread that initialises each, and the callers of `module_load` and
`module_unload`; of an ELF file only the outcome of every check is kept (`Kind`).

### Objects

**`Handle`** has the count of each object, the tree of its type, the readers inside the descriptor's
lock, and how often the destructor has run. `handle_release` is four steps: the decrement, the
second look at the count, the check and removal under the lock, and the destructor.

**`Acl`** has the tree of permissions, the cache in front of it and the system calls, of which the one
that grants reads the caller's permissions in one call and passes them on in another. **`Resource`**
has the regions as a function from their first number, which is what `RBTree` shows the tree to be, and
refines **`AbstractPool`**. **`RBTree`** computes what each function does to pointers and colours; a
node is its key.

**`Accounts`** has the tables of users and groups, the database and its file. A save is cut into
the steps of `config.c` and `writer.c` (copy, resize, write, header), and a stop of the kernel may come between any
two, or in the middle of the write; the start that follows reads what is there. **`Readline`** has the editor's line, cursor, history and
completion (with the quoting of the words it offers), the screen as it is redrawn byte by byte, and what the
terminal sends to its child.

### Communication

**`Ring`** takes each access to `read_count` and `write_count` as a step, because a reader and a writer
share no lock; beyond the end of its buffer lies other memory, where a store is lost to the ring and a
load returns anything. **`Pipe`** takes each section of the pipe's lock as a step, and the wait as
another one. **`Notification`** has the list of containers with the counts of consumers that stand in
them, and the consumers' pointers, which follow the list without the dispatcher's lock.

**`Dhcp`**, **`Dns`** and **`Arp`** have the client's state and its threads; servers and network are
external and lose, repeat, delay and reorder messages. **`Nvme`**, **`Virtio`** and **`I82540`** have the
rings in memory that driver and device share, with their wrapping indices, phases and doorbells; the
device is external and answers late and, where it may, out of order.

### Memory and storage

**`Pmm`** is the buddy allocator with its linked lists and the search over regions, **`PageReset`** what
the pages hold (zeroes, a pattern, an owner's data) when `pmm_alloc` and the reset thread race.
**`Omm`** is the slab allocator with its three lists, **`Vmm`** the four levels of page tables with the
counts of their entries (and `PagemapDeinit`, which frees no table, as `vmm.c:64` returns at once), **`Mmap`** the regions of a process with the page faults of its threads, and
**`Heap`** the allocator of user programs with headers, lists and bitmap.

**`Vfs`** has the cached nodes with their references, the descriptors and iterators, and the entries, inodes
and inode counts of the disk. **`Kfs2Bitmap`** is the tree of bitmaps, which refines `AbstractPool`; **`Kfs2Node`** the storage
of files (in the inode, in blocks, in a table of blocks) through every change of size, with the words on
disk; **`Kfs2Directory`** the entries of a directory with their sizes, splits and holes. **`Compressor`**
is the search for matches, the stream and the decompressor that copies whole words.

The definitions marked *Faulty variant* are mistakes one could make in the code. Each property has one
or more that break it; they are used by no specification.

## Runs

Five runs check the properties. Each puts several components side by side: the variable `part` (in
`MCScheduler` the set of CPUs, `machine`) is chosen in the initial state and says which component the
behaviour is about, so that the run explores every one of them completely. Where a component has
fairness, the fairness of actions of different parts is stated in one formula, which comes to the
same since the actions of all other parts are disabled for ever.

| Run | Instance | Shows |
|--|--|--|
| `locks_and_queues` (`MCSync`) | lock: three readers, two of them writers, 5-bit word; mutex: three threads, two ask and delete; two timers, two updates; three queues, two CPUs; ring of two slots, three items; four modules, two callers | exclusion and the refinements of lock and mutex until readers meet, and progress; no call outlives a mutex; modules are counted, initialised after their dependencies, and their symbols known while their code may run; timer tree, run queues and ring are exact; nobody sleeps over work; what is queued, due or loadable is taken, fires or is loaded |
| `scheduler` (`MCScheduler`) | two threads, an event and the termination events, on two CPUs with single waits or one CPU with double ones; two processes with three thread structures | until a thread overtakes the CPU that leaves it: no thread lost or in two places, the unlocked test stays valid, a joiner runs again; processes, threads, group and directories are counted exactly and a process's event is active when its threads are gone |
| `objects` (`MCObjects`) | handles: three users, two objects; a list with an ordinary and a root process in one cache slot; signals of two threads, one sent and one left in memory; eight numbers; accounts with ids up to 4; lines of two typed characters, completed to four by a word in quotes, a history of two | exact counts, held is alive, nothing leaks; cache agrees and permissions have an origin; a signal is announced and has an origin, interrupts sleep and is kept while masked; the manager is a pool; a start finds a database that there was, and the last one after an undisturbed save; screen, history and what is sent are the line that was edited |
| `communication` (`MCComm`) | pipe: two readers, two writers, four bytes, five sent, close; two dispatchers, four notifications; two DHCP servers and addresses; two names, callers, ids; two ARP addresses; NVMe queue of four, two threads; two VirtIO queues; ring of four descriptors, six frames | order, no loss, no repetition, no sleep over work, delivery; the address in use is leased, one reply is applied; a lookup or command has its own answer; every call returns |
| `memory_and_storage` (`MCMemory`) | ten keys; two regions of eight pages; two pages with two callers and the reset thread; slabs of two to four objects; five pages of addresses; ten and eight bits in words of three; two files that fill six blocks; four names; two descriptors on a tree of two levels; tables of up to two entries; heap of two mappings; all inputs of eight bits | balanced tree; memory is tiled and filed; pages are as their owner may expect; translation and counts of tables; contents survive resizing; blocks have one owner; names are found; open files stay and unlinked ones go; decompression inverts compression and matches are the longest |

Why the bounds are enough. Three threads are what the lock needs for two readers to meet while a third
acquires; the mutex needs a holder, a sleeper and a third party. Two threads and two CPUs let a waker
and a sleeper run side by side; two sequence numbers let a container outlive its wait. Three thread
structures let a thread end while another is used again for a new one. Two slots and three items make
the ring full, empty and full again. The pipe's buffer is full and wraps. Two timers and updates collide,
overtake and are deleted during a dispatch. The queues of devices wrap at least once. Ten keys give trees
of four levels, where both repair loops go round more than once; the buddy allocator has blocks of three
sizes, so that splits and merges go two levels; files pass through all three kinds of storage in both
directions; two processes share one cache slot; both account tables run full. The word of the lock must
only be a multiple of 4 and at least 8 (the proofs show this), so that five bits stand for 32.

`CHECK_DEADLOCK FALSE` is set where the system may come to rest: objects, mutexes and timers that are
gone, bounds on items, bytes and updates that are used up, memory that ran out. `MCScheduler` checks for
deadlock.

### Findings

Seven runs check a statement of the repository that the code does not keep; `PROJECT.json` quotes
the lines.

* `mutex_readers_race`: `rwlock_release_read` finds itself the last reader and stores 0 in a later
  instruction. A reader that joins in between and leaves finds itself the last one too, and both store 0:
  the second store frees the lock inside the section of a writer that came after the first. Two queries for
  the holder of a mutex are enough to let two acquisitions pass each other, and an owner's `mutex_release`
  panics.
* `scheduler_two_events`: `event_await` on two events leaves the first event's container behind when
  the second is active. A dispatch that already took it queues a thread that is not waiting, and the
  destructor of a thread panics. (`CheckStillHolds` fails too on two CPUs when the two events of one wait
  are dispatched at the same time; with single waits, and on one CPU, both properties hold.)
* `handle_iterator_deadlock`: `handle_iter_next` may release the last reference under the read side of
  the lock whose write side the removal needs.
* `ring_wrap`: the indices are never reduced modulo the capacity.
* `mmap_double_fault`: the page fault handler does not look whether another thread's fault has mapped the
  page by now, and mapping it again panics.
* `vfs_create_reference`: creating a file takes one reference too many from its directory, so that an
  unlinked directory is freed below the file.
* `module_load_error`: a module that cannot be loaded leaves the threads that wait for it asleep.

### Fairness

* `RWLock`: weak fairness of a thread inside the lock's functions and critical sections. It is not
  preempted there (`scheduler_pause`), and every section is finite.
* `Scheduler`: weak fairness of kernel code; strong fairness of the timer interrupt, which
  `scheduler_resume` restarts with the time that was left; strong fairness of the choice of a queued
  thread. The last holds among threads of one run queue, which is a FIFO; the load balancer serves
  queues in strict order of priority, so a thread may wait for ever behind threads of a higher class.
  `LoadBalancer` therefore promises only that a queued thread is taken once no more are added.
* `Ring`, `Pipe`, `Notification`: a thread inside a call goes on, and the readers come back, as the
  network threads do. In the pipe it is strong: the lock and the event let a waiting reader in among
  others, and a reader does not peek for ever.
* `Timer`: the interrupt comes again on every CPU, a call in progress ends, and time goes on.
* `ModuleLoader`: the callers and the initialising threads run on.
* `Dns`, `Arp`: a caller runs on, and strong fairness of its timeout, since the timer fires whatever else
  wakes the caller. `Dhcp`: the client's threads and timers run; a message that is sent again and again
  is answered and received again and again (the network may lose any number, not all).
* `Nvme`, `Virtio`, `I82540`: the device goes on, its interrupts are taken, and threads that can run do. In `Nvme`
  a thread that spins for the lock gets it in the end (strong fairness).

### Assumptions

Each is a constant, a condition of a property or a choice of the instance; the reason is in the code.

* `overtaken` (`Scheduler`): until a thread overtakes the CPU that leaves it, that is, another CPU has woken,
  queued, picked and started it before the first takes its second look at the thread's state
  (`scheduler.c:59`). The first CPU then queues the thread again, and `NoThreadTwice` and
  `NoUnterminatedDelete` fail. With one CPU it cannot happen (`OneCpuIsExact`).
* `Quiet` (`Handle`): nobody looks for or iterates over objects during `handle_destroy`, which waits
  for a count of 1 and then overwrites it. Without it `HeldIsAlive` fails.
* `met` (`RWLock`, `Mutex`): until two readers meet. Modules other than these two take the spin lock's
  exclusion for granted. For locks whose read side only one thread uses this is theorem `MeetingNeedsTwo`;
  for the others it is an assumption.
* `broken` (`Process`): until one of its four races, after which a thread is queued twice, a process or a
  directory given back twice, or a directory used without a reference.
* One owner per timer (`Timer`): `timer_update` and `timer_delete` take the two locks in opposite orders
  (`timer.c:118` against `141`), so that two owners can block each other. A thread that goes to sleep between
  lines 184 and 186 of the dispatch (`late`) sleeps on; a timer whose deadline is taken (`timer.c:46`) is
  never in the tree.
* `Alone` (`ModuleLoader`): no two threads unload one module at a time, for `module_unload` tests and sets its
  state without a lock.
* `prompt` (`PageReset`): the reset thread, which looks at a block without a lock (`pmm.c:165`), is through with it
  before somebody takes it. Held up, it clears the pages of an owner; only a release build still hands out
  zeroed pages then. Callers ask for whole blocks.
* `strayed` (`Vmm`): until flags are adjusted where no page is mapped, which `elf.c:273` does as it gives a size
  in bytes where pages are counted. The counts of tables are wrong from then on.
* `full` (`Kfs2Node`): until a resize finds the disk full. `kfs2_bitmap_alloc` then returns 0, which is stored
  as if it were a block: block 0 is overwritten (`api.c:36`-`45`), and an access panics (`chunk.c:93`).
* `orphans` (`Vfs`): a directory may be unlinked with entries in it (`api.c:636`-`670` does not ask). Its inode and
  those below it are not freed; `NoLeak` excepts them.
* The last word of a bitmap (`Kfs2Bitmap`): when the count is one below a multiple of the word's bits,
  `format.c:40` sets one bit too many, and the pool that `ImplementsPool` names has one number more than
  there are items. When that holds of the number of words of a level, the additional bit leads to an
  empty word; the instances (10 and 8 items in words of 3 bits) leave that out.
* `AlignedShrink = FALSE` (`Kfs2Node`): no file that stays in blocks is shrunk to a multiple of
  the block size (`api.c:114`, `169`, `195`). `FirstBlock = 1`: block 0, which means "no block"
  (`chunk.c:93`), is taken by what the image builder stores first.
* Creations in the root (`Vfs`): `vfs_create_reference` shows what others do; `RootRefs` bounds how many references the
  root can lose.
* `paced` (`I82540`): delivery of all frames is promised when they come one by one; in a burst the driver
  looks at the cause register and the tail too early (`device.c:59`-`72`).
* `Nvme`: a submitter that finds the queue full spins with the lock in hand (`device.c:45`), because the test
  for room is the wrong way round (line 72); `RequestsEnd` excepts what waits behind it.
* `Virtio`: every queue has one user, as neither queues nor drivers take a lock, and the device has
  `EVENT_IDX` (without it the interrupts are off, `virtio.c:287`, and the wait sleeps for ever).
* `clean` (`Accounts`): the last account is found again when no two saves overlapped (`database.c:221`).
* `Heap`: one thread uses it, since it has no lock.
* `Readline`: the child's output and requests come between keys.

## Proofs

The theorems hold for every value of the constants that meets the assumption named with them
(`Setting`, `Orderly`, `Sized`), which says what the code says of its sizes, or restates one of the
assumptions above. Each proof shows that an inductive invariant holds initially and is kept by every
action, one step per action, and that it implies the properties.

### Locks

`RWLock`, for any sets of readers and writers and any `WordSize` of the assumption:

* `TypeCorrect`: the word keeps its width, by itself inductive.
* `OwnerInvariant`: exclusion is not inductive, since it does not say what the word is between
  the two instructions of an acquisition. `OwnerDeterminesWord` adds that: at most one thread owns
  the word, the word is the one its owner stored last, and 0 without an owner.
* `Exclusion` follows from the invariant; `Refinement` uses it to show that an acquisition finds the
  abstract lock free.
* `MeetingNeedsTwo`: with at most one reading thread, `met` stays false and all of this is
  unconditional.

`Mutex`, for any threads and queriers, above the lock word's instructions and not above an abstract lock:

* `InductiveInvariant`: where a thread is in the mutex's functions fits where it is in the lock's, the
  holder is the one thread that is past its acquisition, and the list of sleepers has no thread twice.
  It needs the invariant of the lock word for the mutex's instance of it.
* `Refinement`: the mutex implements an exclusive lock, and `ReleaseByHolder`: its owner's release does not
  panic, both until two queries meet. `ReleaseNeverPanics`: with one querier at most it never does.
* `SleepersListed`: who sleeps is on the event's list exactly once.
* `CallsKeepMutex`: for finitely many threads, no call in progress outlives the mutex. The invariant
  adds that the handle's count is the number of calls and of the creator's reference.

### Scheduler

`SchedulerInvariant` and `SchedulerProofs`, for any threads, any finite set of CPUs and any events, where a
thread waits for one event at a time, and up to the step in which a thread overtakes the CPU that leaves it
(`overtaken`). With double waits the first two fail (`scheduler_two_events`).

* `UnlockedTestIsSafe`: what `event_dispatch` found of a thread without its lock still holds when it acts
  on it (`CheckStillHolds`).
* `DestructorNeverPanics`: a thread's handle is not released for the last time before the thread has ended
  (`NoUnterminatedDelete`).
* `ThreadsStayInOnePlace`: a thread that has not ended is on one CPU, in a queue, with the dispatch that
  woke it, or asleep with a container on a list, and in no two of them.
* `OneCpuIsExact`: with one CPU no thread ever overtakes, so that no thread is lost or in two places without
  any condition.

None of these is inductive, and each needs the others. The invariant `IInv` says which states
a thread may be in at each place of the CPU that has it (`Runners`), that two CPUs have one thread only
when one of them switches away from it (`Apart`), that who wakes a thread is alone (`WakersAlone`), that
every container, on a list or already taken off it, is the only one of a wait that still goes on
(`ListsCurrent`, `ListsSingle`, `TakenCurrent`), that the count of a thread is the number of its
dispatchers and joiners and one for itself (`References`), that a joiner's reference keeps the
event it sleeps on (`ListsHeld`, `Deletions`), and where a thread of each state is (`Found`).
`SchedulerInvariant` states it, with the lemmas that reduce an update of a CPU's record, of a list or of a
count to facts about its fields, and shows that the steps that neither take nor give back a reference keep it;
`SchedulerProofs` has the steps that do, and the theorems.

### Objects

`HandleProofs`, for any finite set of users and any number of objects, provided that
`Quiet` is assumed or nobody calls `handle_destroy`:

* `ExactCounts`: the count of each object is the cardinality of the set of its holders. The
  invariant needs that an object outside the tree has no holders, that only such an object is
  destroyed, and that a destroyer about to overwrite the count is the only holder. The lemmas
  `GainHolder`, `LoseHolder` and `KeepHolders` say what a step does to the set of holders.
* `HeldAlive` follows.
* `NothingLeaks`: an object without holders is destroyed, or somebody who dropped its count to 0 is on
  the way to do it. The invariant adds who that is (`SomebodyLooks`), through the second look at the
  count, and that what left the tree has been or is being destroyed.

`Acl`, for any set of processes, any permissions and any size of the cache (`Sized`):

* `CacheIsNeverStale`: a cache slot that is in use belongs to a process of the tree that maps to it, and has its
  permissions. It is inductive together with the types; the lemmas `CachedAgrees` and `AclSetKeeps` are
  about what `acl_get` and `acl_set` leave behind, of which the second clears the slot of the process it
  changes.
* `PermissionsAreGranted`: what is held was brought into being by somebody. The invariant needs that what a
  call has read of its caller and is about to pass on (`PassedOnIsGranted`) was too, since the caller may
  lose it in between.

`ResourceProofs`, for any range that `resource_manager_create` accepts:

* `RegionsAlternate`: the regions cover the range, do not overlap, and used and free ones alternate. This
  is inductive only together: that a region may be joined with its neighbour without a look at the neighbour's
  kind is what alternation says. The lemma `Splice` shows that exchanging neighbouring regions for others that
  fill the same numbers leaves a partition; each branch of `resource_alloc` and `resource_dealloc` is one
  such exchange (`PutOne`, `PutTwo`, `PutThree`).
* `Refinement`: the manager implements `AbstractPool`: an allocation returns the smallest free number, or 0
  when there is none, and giving a number back frees that number alone.
* `DeletionIsComplete`: the loop of `resource_manager_delete` finds every region and leaves none.

### Only model-checked

* All liveness, which the prover does not do (`SpinnersProgress`, `JoinReturns`, `QueuesDrain`,
  `AllDelivered`, `RequestsEnd`).
* `RBTree`, `Pmm`, `Vfs`, `Kfs2Bitmap` and `Compressor`: their operators are recursive, and the prover has no
  induction over data. `Resource` and `Timer` use the tree as the function that `RBTree` shows it to be.
* `Scheduler` with waits for several events on one CPU: the theorems are about single waits.
* Every module that is not named above.

## Known limits

What the models contain or leave out without a property that says more.

* Handles: two releases can both see 0 before either removes the object, and the destructor runs twice
  (`handle.c:122`). In `handle_list.c` two closers give the creator's reference back twice.
* `mutex_acquire` and `pipe_close` can leave a thread asleep that nobody will wake; the properties are stated
  for what does hold. `mutex_delete` panics on a mutex that is held (`mutex.c:58`); the model goes on there.
* `Acl`: a permission that is withdrawn between the read and the grant is passed on all the same (`acl.c:177`);
  `NoPermissionFromNothing` allows it.
* `RBTree` inserts new keys only; `Timer`, the one user that may insert a key twice, has what the code
  does then.
* Memory is never exhausted where a module does not say so, and the memory order is sequentially consistent
  (the code uses `__ATOMIC_SEQ_CST`).
* `Signal`: a new process may have signals pending that nobody sent it (`Stale`). `1<<signal` is an `int` (`signal.c:66`); the properties are about numbers below 31.
  `SIGNAL_KILL` is not modelled (`scheduler.c:47` panics).
* `Process`: the pointers to the main thread, whose structure may be used again (`thread.c:237`), and to the
  parent (`process.c:332`) are not followed; `elf.c:464` uses a name after its node was given back.
* `Mmap`: fixed addresses, mapped files and changes of flags are left out; the region's file is read after the
  unlock (`mmap.c:332`), and translations are invalidated on the own CPU only.
* `Pmm`: a freed block is filled only as far as was asked for (`pmm.c:432`); a request that no region can
  satisfy searches for ever (326). The `prev_idx` of the next region's first descriptor is written without that
  region's lock, by a load and a store of the whole word (364, 368, 481); a call is one step in the model.
  `Omm`: a slab of one object is taken off a list it is not on (`omm.c:136`); slabs have two or more.
* `Vmm`: mapping a page below a large page takes that page for a table (`vmm.c:248`); not taken by the
  model. The tables of a page map are never freed with it: `_delete_pagemap_recursive` starts at the top
  level's address, which is not marked present (`vmm.c:64`, `214`); no property says that they are.
* `Vfs`: every call is one step, so the second look at a count (`node.h:160`) and the window between lookup and
  insertion (`node.c:136`) are not cut. An exclusive creation of what exists leaks a reference (`fd.c:208`).
* `Kfs2Directory`: the directory does not fill its block. The entry that gets the rest of a new block is made
  too large by its own size (`api.c:433`), which a full directory would meet.
* `Dhcp`: the timeout acts without the lock (158-166); a lease of one second renews at once. `Dns`:
  a response is matched by its id alone (126), and a name that is too long leaves its request (271). `Arp`: a lost
  request is not repeated for its entry (121-144).
* `ModuleLoader`: an unload in the initialisation is lost (`module.c:304`), a header that is broken leaves
  waiters (508), dependencies in a circle wait for each other.
* `Accounts`: a stop during a save leaves a file that is not accepted, and all accounts are gone.
* `Readline`: a line stays in the buffer until the next key, so that a change to direct I/O sends it again. A
  completion in a line whose last quote is open reads on behind the line (`readline.c:116`); the model has none.
  Cancelling a completion quotes the prefix anew, so that a last word with quotes is not what was typed.

## Not modelled

* Handle lists, containers, shared memory, keyring, drives: tables of handles whose life is that of `Handle`.
* Sockets: reading a datagram socket takes the lock its caller already holds, so that a model has no behaviour in
  which a packet is read; TCP is a stub. The ring below them is modelled.
* Bit lock, lock profiling, logging, device and process notifications: no state beyond what `RWLock` and
  `Notification` have, or debugging aids.
* AML, firmware tables, ELF relocation, configuration text, cryptography: functions of data formats,
  whose faults lie in values that a small instance does not keep.
* CPU set-up, interrupt tables, system call entry, PCI and USB enumeration, AHCI, serial ports, graphics and
  the other drivers: hardware registers and assembly, where there is no model of the other side to
  check against.
* Other user programs and libraries, the boot loader, tools, tests and the build: they reach the kernel through
  the modelled calls or run before or beside it.
