# A TLA+ development of JOS

JOS is the teaching kernel of MIT 6.828: a multiprocessor exokernel for x86 with user-level `fork()`, pipes,
a file server and a network server. `lab1` to `lab5` are earlier snapshots of the code in `lab6/jos`; the modules here
follow `lab6/jos`. Paths below are relative to it.

## Inventory

| Part | State | Operations | Interacts through | What is hard | What makes it correct |
|---|---|---|---|---|---|
| Environments, scheduler, lock (`kern/env.c`, `sched.c`, `trap.c`, `spinlock.c`) | `envs[]`, `env_free_list`, per-CPU `curenv` and `%cr3`, `kernel_lock` | traps, `sched_yield`, `env_alloc`, `env_run`, `env_destroy`, `sys_exofork`, `sys_env_set_status`, `sys_env_resume` | big kernel lock | several CPUs; a victim that still runs; work after `unlock_kernel()` | an environment is on one CPU, its slot is not freed under it, the free list is exact, runnable environments run |
| Pages and page tables (`kern/pmap.c`, page system calls) | page directories, page tables, `pp_ref`, `page_free_list` | `sys_page_alloc/map/unmap`, IPC page transfer, `env_setup_vm`, `env_free` | reference counts | failure in the middle, remapping, sharing, memory running out | counts are exact, a page has one role, fresh pages are private and zero |
| IPC (`kern/syscall.c`, `lib/ipc.c`) | `env_ipc_*` of the receiver | `sys_ipc_recv`, `sys_ipc_try_send`, the retry loop of `ipc_send` | status and page of the receiver | stale receiver state, senders that race | only a blocked receiver is woken; a page goes only where it was asked for |
| Pipes and descriptors (`lib/pipe.c`, `lib/fd.c`) | a shared page with `p_rpos`, `p_wpos`, `p_buf`; `pageref()` of two pages | read, write, close, dup, `_pipeisclosed` | shared memory without a lock | every load and store interleaves; two counts read at two instants | bytes in order; "closed" is true; end of file is the end; a blocked read returns |
| `fork()`, page faults (`lib/fork.c`, `pgfault.c`) | page permissions, exception stack | `duppage`, `pgfault` | page system calls, the page lent to the file server | the parent writes while it shares; faults in mid-fork | parent and child see separate memory; no write kills |
| File system (`fs/fs.c`, `fs/bc.c`) | bitmap, `struct File`s, blocks, each cached and on disk | block allocation, set size, read, write, flush, sync | block cache | a full disk in mid-request; loss of power between disk writes | no block in two files; files independent; flushed files survive, if the disk that is left is whole |
| File server (`fs/serv.c`, `lib/file.c`) | `opentab[]`, descriptor pages | `serve_open` ... `serve_sync` | IPC with clients | table entries freed by reference count, ids that wrap, requests filled in before others are served, clients that die | a descriptor and a request reach the file that was opened; a new descriptor is private; a request is answered |
| Snapshots (`sys_env_snapshot/resume`, `kern/kmalloc.c`) | saved pages, kernel heap | snapshot, resume, free | page allocator | errors half-way | a failed call leaves no trace |
| E1000 driver (`kern/e1000.c`) | two descriptor rings, packet buffers | transmit, receive | the device | ring full, wrap, the device runs between any two stores | both sides agree who owns a descriptor; packets whole, in order, once |
| User heap (`lib/malloc.c`) | `mptr`, a count in the last word of a page, `PTE_CONTINUED` | `malloc`, `free` | page system calls | ends of pages, the wrap at `mend`, memory running out, `fork()` | blocks do not overlap; pages are released with their last block |
| Network server (`net/*.c`, `net/lwip/jos/arch`) | request buffers, threads, semaphores, mailboxes | serve, input, output, timer | IPC, cooperative threads, a page shared with the input helper | `ipc_recv()` blocks every thread; lost wakeups; buffers running out | received requests are answered (TCP calls once the stack completes them), buffers return, packets stay as they were sent |
| Exercises (`hw1_shell`, `hw_multithreaded_programming`) | a hash table with bucket locks | put, get | threads | races | no key lost |

`PROJECT.json` lists every part
with the reason, and under "hazards" each thing in this code that is hard to test, with the properties that cover it.

## Modules

| Module | Models | Abstract specification | Proofs |
|---|---|---|---|
| `EnvSched` | environments, scheduler, lock, blocking side of IPC | | `EnvSchedProofs` |
| `PageMap` (`MCPageMap` for TLC) | pages, page tables, page system calls | `AddressSpace` | `PageMapProofs` |
| `Pipe` | pipes, descriptors, page sharing order of `fork()` | | `LibProofs` (part 1) |
| `FileSystem` (`MCFileSystem`) | files, block cache, loss of power | `FileStore` | `FileSystemProofs` |
| `FileServer` | file server, its clients, the IPC between them | | `FileServerProofs` |
| `CowFork` (`MCCowFork`) | copy-on-write `fork()`, page fault upcalls, the request page | `ForkMemory` | `CowForkProofs` |
| `Heap`, `HeapFork` | `malloc()` and `free()`; the same with `fork()` | | `LibProofs` (part 2, of `Heap`) |
| `E1000` | network driver and device | `NetLink` | `E1000Proofs` |
| `NetServer` | network server, its threads, helpers and clients | | `NetServerProofs` |

The modules meet at these points: `PageMap` shows that `pp_ref` counts mappings, which `Pipe`, `FileServer` and `CowFork` use
for `pageref()` and for freeing pages; `FileServer` and `NetServer` use the IPC of `EnvSched` (a send succeeds when the receiver is
blocked in `sys_ipc_recv()`); the output and input helpers of `NetServer` are the callers of `E1000`.

### EnvSched

`env_status`, `curenv`, `env_free_list` and so on are the variables of the code; `pc[c]` says where CPU `c` is.
A handler runs under the big kernel lock from `lock_kernel()` to `env_run()` or `sched_halt()`, so it is one action:
the system call and the scheduling that ends it. What happens outside the lock is separate: spinning for it (`lock_kernel`), a trap
out of user mode or out of `hlt` (`Trap`, `Interrupt`), and the part of `env_run()` after `unlock_kernel()` (`Leave`).
`env_runs` is kept only as "has it run since `env_alloc()`". Generations wrap after `MaxGen`. Kernel panics are not modelled: of the failures of
`sys_env_resume()` there is the one at its first page (`ResumeFailure`), after which the system goes on. At a later page the call frees
saved pages that it has mapped already, which `page_free()` answers with a panic; saved pages are not in the model, and that case is left out (see the hazards).

What user programs may do with `sys_env_set_status()` and `sys_env_destroy()` is what `lib/` and `user/` do: start a
child once, before it ran; destroy a child once, not while it waits in `sys_ipc_recv()`. The constant `Lapses` lifts these restrictions
one at a time: `"restart"`, `"redestroy"`, `"killreceiver"`.

### PageMap

A reference to a physical page sits in a slot: an environment's `env_pgdir`, a directory entry or a page table entry;
`at[s]` is the page there. Permission bits are left out, physical addresses are page names, and
the kernel's part of the address space is one page, that of `envs[]` at `UENVS = UTOP`. `sys_page_alloc` has three
outcomes: success, a page lost because `page_insert()` failed (`PageAllocLeak`), and the kernel stopped because
`page_alloc()` returned `NULL` (`PageAllocNull`). `AddressSpace` says what environments should see of all this. A page that is lost is put in the ghost `leaked`, which `FreeExact` excuses: the run shows that these are the only ones.

### Pipe

All of it is user code without locks, so each load, store or system call that others can observe is a step, in the order of the source.
`fd[e][i]` and `data[e][i]` are the two pages of descriptor `i`; `pageref()` counts mappings, which
`PageMap` shows `pp_ref` to be. `cpus` is the set of environments that are executing; `Switch` and `Dispatch` schedule,
and `moved` records that `env_runs` changed, which `_pipeisclosed()` looks at. One environment reads and one writes.

### FileSystem

`free`, `file` and `cache` are the bitmap, the `struct File`s and the blocks as the server sees them, `freeOnDisk`,
`fileOnDisk` and `disk` the same on disk. The dirty bit is not needed: writing a clean block writes what is there.
A request is one action, except where power could go between two disk writes with a result no other action has:
after the indirect block is allocated, between the data and the metadata of `file_flush()`, and inside `fs_sync()`.
`Crash` replaces the cache by the disk, and is possible at every instant. The code writes the indirect blocks in no order with the rest:
`file_truncate_blocks()` clears their entries in the cache only while the bitmap gives the data blocks away, and `flush_block(f)` can write a
pointer to an indirect block that has not been written itself. So power can leave a disk that contradicts itself. The ghost `damaged`
says that the server started from such a disk; what it does then (it panics in `bc_pgfault()` or `diskaddr()`, or takes the data of one file for another's)
is not followed, and until power goes again only `Crash` is enabled. Hence `CacheConsistent` is about servers that started from a whole disk, and `DiskConsistent` says
what a loss of power finds: the bitmap and the `struct File`s fit always, the indirect blocks if they are as in the cache (`TablesFlushed`). `FileSystemCrash.cfg`
shows two files that share a block after a loss of power. Sizes and offsets are in blocks, a request stays
in one block, a block's contents is the file that wrote to it last. The `struct File`s exist
from the start; `near` says which of them share a directory block. `fs_test()`, which the server runs at start, is left out.

`FileStore` is the promise: files do not affect one another, and a file that was flushed and not changed since
is the same after a loss of power, whatever that does to other files. On a damaged disk the promise reaches as far as what the next server finds at its start, not
to what its requests then do. It leaves open what a hole reads as.

### FileServer

`opentab[i]` and `fdpage[i]` are an entry of the table and the page with its `struct Fd`; `fds[c][n]` is the entry whose page
client `c` has at descriptor `n`, so `pageref()` is the number of such pairs, plus the server's own mapping (`Shared`).
`opened` exists only for the properties. An id is kept as its generation: `o_fileid` is `i + gen * MAXOPEN`, in 32 bits; `gen` wraps, and
its upper half gives an id that `serve_open()` takes for an error (`Negative`).

A client fills in a request (`open`, `FileCall`, `sync`), retries `ipc_send()` until the server is in `sys_ipc_recv()`, goes to
`ipc_recv()` itself, and returns; the server takes a request, handles it, retries the reply until the client is
in `sys_ipc_recv()`, and unmaps the request page. Each is an action, because others run in between. `serve_read()` and
`serve_write()` are two (`ServeFile`, `Advance`): the file offset is in the shared page, where `seek()` of another client stores to it
without the server. `read()`, `write()`, `fstat()` and `ftruncate()` are one operation, `"io"`; what they return and the contents of files are left out,
and `seek()` goes to the beginning only. `dup()` is to an unused descriptor (otherwise it starts with a `close()`), `fork()` shares all descriptors,
and `env_free` drops them without a message. With `Kill` a client may also be destroyed in the middle of a call, in which case the reply
makes the server panic.

### CowFork

`pt[e][va]` is a page table entry: a frame and one of four permissions. Pages keep their address through `fork()`
and `pgfault()`, so there is one page of each kind `fork()` tells apart: read-only text, the data page with `fsipcbuf`, a page with `PTE_SHARE`,
the stack; frames are numbered per address. Environments run on different CPUs, so each system call and each
access to memory is a step. `fork()` is the walk over the pages (`ForkPte` reads the entry, `ForkChild` and `ForkSelf` are the two `sys_page_map()`
of `duppage()`), then the exception stack and upcall (`ForkUpcall`), then the status. Meanwhile the parent's stack is
written by the calls `fork()` makes (`Write`, `Fault` on `"stack"`). `pgfault()` is four steps, or panics at the first when memory is
out (`FaultNoMem`), as `set_pgfault_handler()` does in a first `fork()` (`ForkNoHandler`); the state is `"nomem"`. `Isolated` exempts who panicked so: between the two
halves of `duppage()` the page stays writable, but nobody writes to it. `srv` is the file server as far as it
holds the client's page.

`ForkMemory` is the promise: a child is born with its parent's memory, with the stack of some moment since the `fork()` began,
and from then on nobody sees what another environment writes, but for the shared page.

### Heap

Addresses are bytes, computed modulo the size of the address space. `pt[p]` says whether a page is mapped and has `PTE_CONTINUED`, `ref[p]` is its last
word, and `Room` is what `sys_page_alloc()` can still give. `malloc()` has the outcomes of the code: too large, cut from the current page, the
`assert` of its own call of `free()`, or a run found by `Scan` (which fails, or lacks memory, or succeeds). The loop of the search is written as what it
comes to: the nearest free run from `mptr` on, before `mend` is met (`FirstPass`), else the first one from `mbegin` on (`SecondPass`). It may begin at `mend` itself, and then goes
on to the end of the address space, where `isfree()` adds up on 32 bits and looks at no page (`Wraps`), and to page 0. Two ghosts: `live` are the blocks in
use, `parted` the pages `mptr` left without a `free()` because it was at the first byte of a page: a block that is a multiple of a page
(after rounding) leaves its last page counted for ever. `HeapFork` adds that `duppage()` and `pgfault()` drop `PTE_CONTINUED`.

### E1000

`txmem` and `rxmem` are the arrays `tx_bufs` and `rx_bufs`, byte by byte, because they are declared `[size][number]`: the buffers of
neighbouring descriptors are `E1000_NUM_TXDESC` bytes apart and overlap for longer packets. `TxFill` and `TxTail`, and `RxCopy`, `RxClear` and `RxTail`, are the
stores the device can observe, in their order. The device (`DevSend`, `DevReceive`) is external: descriptors from head up to tail are its own.
`NetLink` is two queues of whole packets, and its refinement is checked for packets that fit between two buffers (64 bytes for sending, 128 for receiving). The same
queues with nothing but lengths in them (`PassesInOrder`) are implemented for packets of any length. `TxAgree` leaves out a ring that was filled completely
(`TDH` = `TDT`), which the device takes for an empty one.

### NetServer

Threads are cooperative: `cur` runs, all others are in `queue`, and a thread that waits is in it too. `th[t].pc` is the place of a thread, `wait` and
`val` the semaphore it waits on and the value it saw (`thread_wait()` compares both words of it), `wakeup` is `tc_wakeup`. A worker is named after its
request buffer. What the code does between two waits is one action; where it may wait for a semaphore, `SemBlock`, `WaitLeave` and
`WaitAgain` are the wait, and the action behind it is guarded by the counter (`Passes`). Of lwIP there is what passes through the port: a call is
a message to the tcpip thread and a wait for `op_completed`, `recv` waits for the socket's mailbox first, a packet is processed in the
thread that serves it and posted to a mailbox. `do_connect()`, `do_writemore()` and `do_close_internal()` may put a TCP call off (`TcpipLater`): the socket is then in
`later`, and the call is completed by a segment that arrives (`ServeSent`), by the poll timer of the tcpip thread (`TcpipPoll`), or by the loss of the connection, which
a reset or a timer finds (`ServeReset`, `TcpipAbort`). `err_tcp()` posts to the socket's mailbox before it signals, and waits there if the mailbox is full
(`ServeError`, `TcpipError`). `gone` are the sockets whose connection was lost. Contents, connection states, the choice of the socket, and whether and when a call
that was put off completes are nondeterministic. The timer of the tcpip thread may end its wait at any time.

`Answered` therefore says: a call that the server received is answered, or put off by the stack, unless the server panicked or the tcpip thread is stuck in `err_tcp()`
(`Stuck`). When a call was completed the claim holds for it again. That `err_tcp()` can stop the whole stack is what `NetServerLoss.cfg` shows.

Left out: lwIP's own timer threads of `net/serv.c` (they wake up, call the stack and wait again, as the tcpip
thread does), what is sent again and when, listening sockets and `accept`, freeing of sockets and mailboxes, a poll of a connection whose `err_tcp()` waits,
failure of `malloc()` in `thread_create()`, more than one socket per client, and requests of environments other than clients
and helpers or without an argument page.

## Runs

| Run | Bounds | Shows |
|---|---|---|
| `env_sched` | 2 CPUs, 3 slots, 2 boot environments, generations 0..1, fair | all safety properties of `EnvSched`; every runnable environment is scheduled once exits stop |
| `page_map` | 2 environments, 3 virtual pages over 2 page tables, 5 free pages | reference counts, roles, page table structure, `AddressSpace` implemented |
| `page_map_unwanted` | smaller | violated: a page nobody asked for replaces the mapping at `UTOP` |
| `pipe` | 1 CPU, 2 environments, one of them yet to be forked, 1-byte buffer, 2 bytes, fair | bytes arrive in order without a lock; "closed" is never wrong on one CPU; a blocked read returns |
| `file_system` | 2 files, one with 1 direct block, one that goes past the indirect block and past the largest size; 2 blocks, `NDIRECT = 1`, `NINDIRECT = 2` | no block in two files unless the server started from a damaged disk; what a loss of power at any instant finds; `FileStore` implemented |
| `file_system_holes` | the same | violated: a hole reads as what another file held |
| `file_server` | 2 clients, one of them yet to be forked, 2 files, 1 table entry, 2 descriptors each, 2 generations, offsets 0..1, fair | descriptors and requests reach the file that was opened; a new descriptor is private and at offset 0; a request that the server has taken is answered |
| `cow_fork` | 2 environments, 4 frames for each page, 2 values | isolation, no write kills for want of a handler, `ForkMemory` implemented |
| `heap` | 4 heap pages of 16 bytes, 3 physical pages, sizes on both sides of each limit, 3 blocks | blocks and counts never overlap, counts are exact, pages are released, a search that begins below `mend` fails only when there is no free run in the heap or no memory |
| `e1000` | 2 rings of 3 descriptors, packets of 3 bytes and one too long, 2 contents | driver and device agree on ownership but for a transmit ring filled completely, `NetLink` implemented, accepted packets are sent |
| `net` | 2 clients (one TCP), 3 buffers, mailboxes of 1 message, 2 yields, 2 packets, fair | buffers, packets, mailboxes and blocking as they should be; received calls are answered or put off by the stack, while it is not stuck |
| `net_core_shared` | the same | violated: two threads are inside the lwIP core |

The type invariants of `EnvSched`, `PageMap` and `FileServer`, and `KernelExclusive`, are theorems (below) and not checked again; those of `E1000`, `Heap` and
`CowFork` are stated and hold on the instances above, but are no question of their own. `RunningExact` is `BoundIsRunning` and `RunningIsBound`,
`PagesExact` is `CountsExact` and `RunsExact`.

Why the bounds are enough: with 3 slots and 2 CPUs a destroyed environment's slot is reused while both CPUs are
elsewhere, and generations wrap; 5 free pages are fewer than two full address spaces need, so every allocation fails
somewhere; a buffer of 1 byte is full and empty in turns and wraps with every byte; 2 blocks are taken by an indirect block and one data block, so the disk is
full in the middle of requests and blocks pass from one file to the other; 2 clients with 2 descriptors each can
hold the table entry, give it back and get it again, with ids that have wrapped, while the other client's request waits.
Two environments fork each other again and again, so that pages are copy-on-write twice over, and frames return. The heap fills, wraps at `mend`,
is refused memory, and every residue of a block's end against the count occurs. A ring of 3 fills, empties and wraps. With 3 buffers, 2 packets
and 2 clients the network server runs out of buffers. One message per mailbox makes posting wait at the second packet, a mailbox of the code's 32 at the 33rd; that a ring
of any size agrees with its semaphores is proved. `VIEW FrameView` in `CowFork.cfg` makes states that differ only in the numbers of frames one state: every
formula checked there, and every guard, looks at frames only through equality and through the lowest free one, a choice among frames nobody refers to.

These configurations are kept beside the runs. A larger instance that passes: `FileServerLarge.cfg` (2 table entries). Counterexamples, each for a hazard in `PROJECT.json`:

| Configuration | Violates | What it shows |
|---|---|---|
| `EnvSchedRestart`, `EnvSchedRedestroy` | `OneCPU` | what `sys_env_set_status()` and a second `sys_env_destroy()` do to an environment that runs |
| `EnvSchedStaleRecv` | `RecvingIsBlocked` | `env_ipc_recving` survives in a reused slot; `kern/syscall.c:530` promises `-E_IPC_NOT_RECV` |
| `EnvSchedCr3` | `Cr3Live` | the window between `unlock_kernel()` and `lcr3()` |
| `EnvSchedStarve` | `RunnableRuns` | an environment can starve if others keep exiting: `sched_yield()` restarts at slot 0 |
| `PageMapPanic` | `NoPanic` | `sys_page_alloc()` without memory |
| `PipeForkClosed` | `ClosedIsTrue` | a third environment in `fork()` has shared the descriptor pages, not yet the data pages |
| `PipeSmpClosed` | `ClosedIsTrue` | `env_runs` protects nothing on two CPUs |
| `PipeEof` | `EofIsEnd` | the last bytes are written between the two tests of `devpipe_read()` |
| `FileSystemCrash` | `NothingShared` | after a loss of power a server finds one block in two files: the indirect block on disk still names it |
| `FileServerKill` | `ServerLives` | a client destroyed while it waits stops the server |
| `FileServerWrap` | `AllocWorks` | an open fails although an entry is available, once the id has grown past 2^31 |
| `CowForkSync` | `SyncReaches` | `sync()` after `fork()` sends a copy-on-write page with `PTE_W` and panics |
| `HeapBeyond` | `BlocksInHeap` | a block begins at address 0, after a search that began at `mend`; `lib/malloc.c:8-9` says that `mbegin` to `mend` is scanned |
| `HeapWrap` | `FailsAsCommented` | the search from `mend` ends where `isfree()` wraps, and `malloc()` fails with room in the heap; `lib/malloc.c:91` and `:103` name other causes |
| `HeapFork` (module `HeapFork`) | `AllReleased` | the first pages of a run are never released after `fork()`; `lib/malloc.c:12-13` |
| `E1000Overlap` | `ReceivedIsWhole` | a packet longer than the distance of two buffers is overwritten by the next |
| `E1000Stall` | `FullPasses` | a completely filled transmit ring is taken for an empty one |
| `NetServerOverflow` | `NoOverflow` | packets for a full mailbox hold all buffers, and the server panics |
| `NetServerLoss` | `LossReleases` | `err_tcp()` waits for room in the socket's mailbox, which only the caller it should wake up would make |

### Fairness

`EnvSched`: each CPU keeps executing, and the APIC timer interrupts one that stays in user code or in `hlt` (weak
fairness of its steps); strong fairness of `Preempt` says that a timer interrupt is, again and again, what brings
a CPU into the kernel. The spin lock is not assumed to be fair.

`Pipe`: the scheduler returns to every environment and lets it make progress, and the timer does not cut every single
pass through `_pipeisclosed()`, which is a few loads long compared to a timer period.
`ReadReturns` also assumes that the others leave their descriptors alone from some time on.

`E1000`: the device sends while head and tail differ, and a call that was begun ends (the lock is held and nothing blocks).

`NetServer`: every environment is scheduled when it can go on: the server, the timer and output helpers, the copy of the input helper,
and a client that is about to wait in `ipc_recv()`. Whether a client or the input helper ever finds the server receiving
is left open, as in `FileServer`: `Answered` starts when the call was received. Nothing is assumed of segments, polls and losses of connections.

`FileServer`: the scheduler returns to the server and to each client in a call (weak fairness). Nothing says that a client
finds the server waiting when it tries to send: another client may be ahead of it each time, so `Answered` starts at the moment the request is taken.

Deadlock is checked in every run except `pipe` (all programs may end), `file_server` (all clients may exit), `heap` (all blocks in use, or an assertion failed) and `cow_fork` (an
environment may have panicked while the server serves nobody). In `net` the only state without another step is `panic()`, which has a step of its own.

## Proofs

Every state property of the runs that pass is proved for all values of the constants, and so are the two action properties and the refinements of `AddressSpace`,
`FileStore` and `ForkMemory`; of `NetLink`'s, the order of packets. What is left to TLC is the contents of packets, and liveness. Each module of proofs has an inductive invariant, stronger than the properties, one lemma per action that keeps it, and corollaries per property.

**`EnvSchedProofs`**, with `Lapses = {}` (the discipline of `lib/`; the runs kept beside show what happens otherwise). The properties are not inductive: `OneCPU` needs that
an environment on a CPU is `RUNNING` or `DYING` (`BoundIsRunning`), that CPUs between two environments have none (`UnboundIsIdle`),
that an environment on a CPU has run, so that nobody starts it (`BoundHasRun`), and that receivers are blocked
and have run (`RecvingHasRun`). Each handler ends in `sched_yield()`, `env_run()` or `sched_halt()`; `Ready` says what it
must leave behind, one lemma per way out shows that this gives the invariant back, one lemma per handler that it leaves `Ready`.
`DyingIsFinal` is the action property `DyingOnlyFreed`: a handler changes the status of the caller, of a receiver that is blocked, of a free slot or of
one that has not run, and a dying environment is none of these until its own CPU traps.

**`PageMapProofs`**: `RefExact`, `FreeExact`, `OneRole` and `Walkable` are inductive together, for all finite sets of
environments and pages. The lemmas `SlotSet` and `SlotCleared` say how the number of references to each page changes when one slot
does; `PutKeeps` and `PageInsertKeeps` build `page_insert()` from them, and each system call from those.
`Refinement`: `Spec` implements `AddressSpace`. A page from the free list has no reference (`FreeExact`, `RefExact`), hence nobody
sees it, which makes `sys_page_alloc()` a `Fresh` step; page tables are never user pages (`OneRole`), so a change of a table shows nowhere.

**`LibProofs`, part 1** (`Pipe`): `RingOK` relates `p_rpos`, `p_wpos` and the bytes between them to the places reader and writer are at: one that has tested and not yet
stored can rely on its test, because only the other one moves the other position, and in its favour. Two bytes less than `PIPEBUFSIZ` apart have
different places (`ModApart`), so a store hits no byte that is still to be read. `TypeCorrect` and `BytesArriveInOrder` hold for every number of environments and CPUs.
`ClosedAnswersAreTrue` has hypotheses: one CPU, finitely many environments, and no third environment to be born (`ForksApart`);
`PipeSmpClosed` and `PipeForkClosed` show that the claim is false without the first and the last. `PagesOK` says that a descriptor's data page
is mapped as long as its own page is, in the order of `dup()`, `close()` and `fork()`, hence the end is referred to no more often than the pipe; `SeenOK`
that what an unbroken pass through `_pipeisclosed()` has loaded is still so. If both counts agree, every reference to the data page belongs to the asking end.

**`LibProofs`, part 2** (`Heap`), for any size of the address space, of its pages and of the heap, any sizes asked for and any program below the heap.
`BlocksSound` and `PagesExact` are not inductive: `CountPage` finds a count by walking over marks, and what it finds after a step depends on all the marks before it.
`HeapInv` says instead where a count must be: `Last(b)` is the page of a block's last byte and the count behind it; `Laid`, that exactly the pages before it are
marked, none of them at or past `mend`; `Apart`, that different runs have different pages; `Open`, that the blocks in the page `mptr` is in end before `mptr`; `Counts`, each count is what
its users add up to (`Uses`); `Runs`, each mark belongs to a block. `BlockIsLaid` shows that the walk ends at `Last(b)`. The clauses take the values as
arguments, because a `malloc()` that starts a new page is two changes: `LeaveKeeps` drops the old page (by `DropKeeps`, which `free()` uses too) and `PlaceKeeps` puts a run
on pages that `ScanFinds` showed to be free. `CutKeeps` is the block cut from the open page. After a failed assertion the counts may be off by one, and nothing runs any more: blocks are still
sound then (`Layout`), which is why `HeapInv` keeps the two apart. `HeapSearchSeesHeap` is the action property; it is about searches that begin below `mend` (`ScanFrom < MEnd`), as `HeapWrap` fails from there on. That a search has a least result needs induction over the naturals; `LeastNat` gets it from the
library's fact that `<` on them is well-founded, whose theorem `WFMin` takes a set and a relation and no operator. `Text \cap (0 .. MBegin - 1) # {}`, a program below its heap, keeps a block at
address 0, which `free()` ignores, out of the heap's pages; the bound on `MaxMalloc` says that a run that begins in the heap does not wrap.

**`FileSystemProofs`**, for any number of files and blocks and loss of power at every instant. All claims but `DiskConsistent`'s first half and what a flushed file holds when the server
starts are about servers that started from a whole disk (`damaged` is false). `SmallFilesNeverDamaged` says when that is always so: if no file grows past its direct blocks, as then there is no indirect block to be out of date.
The cache is consistent by itself: a step gives a free block to one pointer (`ConsistentAdd`), takes the pointers behind the new end and frees their
blocks (`ConsistentDrop`), or changes no pointer. The disk is consistent because it is never ahead of the cache: a block that is free in the bitmap on disk is free in the cache
(`BitmapBehind`: `alloc_block()` flushes at once, `free_block()` does not), a pointer in a `struct File` on disk is null or as in the cache
(`PointersBehind`: truncation flushes the `struct File` before anything else can), and sizes agree (`SizeOnDisk`). So a set of pointers on disk
is a subset of those of the cache, and the bitmap too (`SubConsistent`); that is also why the server that starts after a `Crash` is consistent, if the indirect blocks fit as well.
`Refinement`: `Spec` implements `FileStore`. For it, a safe file has its data on disk (`Kept`): the first half of a flush has written what the second half
relies on (`FlushOK`), and no request for another file stores into its blocks (`BlockApart`). A file that extends by writing is a `Resize` if the request then fails or allocates its
indirect block first, and part of the `Write` otherwise; a read that allocates is a `Fill`.

**`FileServerProofs`**, with `Kill = FALSE`, for any number of clients, descriptors, entries, files and generations. `FdsExact` and
`NewDescriptor` are part of the inductive invariant; `RequestReaches` follows from it. `ServerOutlivesClients`
is the other side of `FileServerKill`: nothing but such a destruction makes the reply fail (`Serving`). What they need besides: a client in a call still has
the descriptor it named, so the entry cannot have been taken for another file and its id is still the one in the request, and
the descriptor an `open()` waits for is still unused (`CallExact`); the server works on the call of a client that waits (`Serving`);
the entry that goes with a reply is shared with nobody yet (`Granted`); a read or write that moved data started before the end of the
file (`Advancing`). Ids that wrap do no harm since no entry is taken while a descriptor or a request refers to it. The lemma `DescriptorsKeep` covers all the
steps that only copy or drop descriptors, `AllocKeeps` those that take an entry.

**`CowForkProofs`**, for any number of environments, frames and values. `Isolated` needs to know of each environment in `fork()` what its child has
already (`Given`, `Copies`: the same frames, and of the stack a frame with contents of some moment since the `fork()` began), of each in `pgfault()` that its new page is
nobody else's and, once copied, has the contents of the old one (`FaultOk`), and that the page the server holds is the waiting client's own (`Serving`). `Handled`
carries that whoever has copy-on-write pages, or gives them to a child, has set the upcall before. `Refinement`: `Spec` implements `ForkMemory`, where
a store of the program or of the server's reply is a `Write` or `WriteShared`, the first step of `fork()` is `Begin`, the last (`ForkStatus`) is the child's `Birth`, and everything between, each `sys_page_map()` of
`duppage()` and each step of `pgfault()`, changes nothing anybody sees. The one assumption on data, `NotBornIsNoMemory`, is that the mark for "no memory" is not a memory.

**`E1000Proofs`**, for rings of any size. `TxAgree` and `RxAgree` say which descriptors have `DD` set by their distance from head and tail on the ring;
`RingStep` has the arithmetic of a position that moves on, and `Taking` what `e1000_receive()` found before it clears `DD` and moves `RDT`.
`PacketsPassInOrder`: packets of any length go through both rings in order and once, and come out with the length they had. It says nothing of their bytes:
`tx_bufs` and `rx_bufs` are declared with their dimensions swapped, so packets longer than 64 or 128 bytes overwrite each other, which `E1000Overlap` shows.

**`NetServerProofs`**, for any number of clients, buffers, mailbox slots, yields and packets. `BuffersAreExact`: a buffer is in use exactly while the main loop
receives into it or a thread serves the request in it; besides, `BufInv` has the types of `cur`, `queue` and `mva` and that the server is in `recv` only with a buffer of its own.
`PacketStaysIntact`: the packet in the shared page is the one sent as long as it was not copied. The helper writes when it saw the
server receiving, so no packet may be waiting then. `OrderInv` says why: a thread that has not started is in front of the main loop in the
queue (it was created before the main loop yielded, and the queue is first in, first out), so when the main loop runs again there is none.
`DataInv` carries the number of the packet from the helper through `ipc` to the thread. `MailboxesAreExact` (`SyncInv`) is the ring against its two semaphores.
`BlocksOnlyWhenIdle` is that no wake-up is lost: a thread that waits and is not woken waits for a semaphore that is 0 with the value it saw (`SleepOK`), and every thread but the running one waits or is new (`PlaceOK`).
`TypeCorrect` bounds `op_completed`: a client has one call at a time (`OneCall`), so its semaphore is signalled once before it is waited for (`PostInv`). A call that was put off is not posted any more and not
signalled yet, so whatever completes it is the first to do so (`DoneOK`); `ConnOK` and `DeliverOK` say which sockets `err_tcp()` and a segment are for.

Assumptions are the named `ASSUME`s of the modules, which TLC evaluates in the runs, and the hypotheses above, which hold in the runs.

Only model-checked:

- liveness, here `RunnableRunsOnceStable`, `ReadReturns`, `AcceptedIsSent` and the two `Answered`: fairness and `ENABLED` are outside this prover;
- `ImplementsNetLink`, that packets no longer than the distance of two buffers keep their contents;
- everything with `Kill = TRUE` or `Lapses`, where the claims are false as the configurations above show.

## Not modelled

lwIP is third-party code and, with the snapshots `lab1` to `lab5` of what is in `lab6`, makes up nine tenths of the repository; neither is modelled, and of
lwIP there is only what `NetServer` needs. Consoles, the monitor, the boot code, formatting and the string library are device access or straight-line code.
User programs are the environments of the modules. Directories, the pages `sys_env_snapshot()` saves and `kmalloc()` (whose hazard is the error
paths), the TLB of other CPUs, `user_mem_check()`, `spawn()` and the hash table exercise could be modelled and are not yet.

## Plan

1. Directories in `FileSystem`: `walk_path()`, `file_create()`, `dir_alloc_file()`.
2. Proofs of the parts of 1 and 3 as they are added; `HeapFork` with the marks that `fork()` drops.
3. `Snapshot` with `kmalloc()`; `Tlb` over several CPUs; `user_mem_check()` as an operator against a reference; the hash table exercise.
