# The NeXTdimension board and its driver, in TLA+

The NeXTdimension is an i860 graphics board on the NuBus of a NeXT computer. The board runs
a small multi-process kernel of its own (`src/NextDimension-21/NDkernel/ND`), the host runs
a loadable Mach driver (`MachDriver`) and a user library (`libND`), and the PostScript
server on the host talks to its half on the board by Mach messages. Everything these parts
say to each other goes through a few kilobytes of shared memory per board: three circular
buffers with locks and flags, and a console mailbox. That shared memory, and the threads,
processes and interrupts on either side of it, are what half of these modules model. The
other half is what stands on it: the board's processes and its pager, the streams of marks
that the window server sends to the board to be drawn, and the ring of events that moves the
cursor. Paths below are relative to `src/NextDimension-21`.

## 1. Inventory

### The parts and what they share

```
   DPS task            other tasks, ND_Server
   libND NDmsg_send       |  Mach messages, debug_port
        |                 v
        |          server thread   reply thread      MachDriver, host
        |  lock 0     lock 1 |        |  ^  ^
        v                    v        v  |  |
      [        ToND         ]     [ReplyND] [FromND] [ND_CONIO mailbox]
                 |                    |       ^            ^    NuBus
                 v                    v       |            |
             Messages()  ------>  msg_rpc   msg_send    cn_putc/cn_getc
                 |  ports, readers                        hardclock
             processes of the board                    NDkernel, i860
```

| component | state it keeps | operations | met by |
|---|---|---|---|
| Lamport queue lock (`MachDriver/ND_locks.c`, `NDkernel/ND/locks.c`, `libND/msg_send.c`) | `Lock_x`, `Lock_y`, `Lock_b[]` of each queue | lock, spin lock, unlock, test | DPS task, server thread |
| Circular message buffers (`ND_msg_io.c`, `ND_reply.c`, `messages.c`, `msg_send.c`) | `Head`, `Tail`, the bytes | write, read, snoop, skip | both processors |
| Host-to-board path (`libND/msg_send.c`, `ND_msg_io.c`, `messages.c`) | the bytes on ToND, what each producer and `Messages()` are in the middle of | `NDmsg_send`, forwarding by the server thread, taking header and body | DPS task, server thread, board |
| Board message emulation (`messages.c`, `ports.c`) | list of ports; unclaimed messages and pending readers of each | `Messages()`, `msg_receive`, `port_allocate`, `port_deallocate` | all processes of the board |
| Service threads and interrupts (`ND_msg_io.c`, `ND_reply.c`, `ND_intr.c`, `clock.c`, `trap.c`) | `ND_INTR_PENDING`, the queue flags, the host interrupt register, the threads' sleeps | wait for room, wait for work, `ND_intr`, `ping_driver`, `hardclock` | two host threads, the interrupt, the board |
| Console mailbox (`cons.c`, `clock.c`, `ND_reply.c`, `ND_services.c`) | `ND_CONIO_MSG_ID`, two buffers, `debug_port` | put, get, exit, ping, acknowledge, answer | the board's process, clock and kdb, reply thread, debugger |
| Service calls (`messages.c` `msg_rpc`, `ND_reply.c`) | `service_msg_flag`, ReplyND | call, lock, send, execute, reply, receive, unlock | the board's processes, reply thread |
| Pager, page-out daemon (`pmap.c`, `vm_pager.c`, `vm_fault.c`, `vm_kern.c`, `vm_user.c`) | page table entries, the BUSY mark (wired and not valid), free frames, TLB | fault, page in and out, flush, release, allocate, deallocate, `PageOutDaemon` | all processes, host, clock |
| Scheduler (`switch.c`) | process table, wait channels, the search pointer | `Sleep`, `Wakeup`, `Switch`, spawn, destroy | all processes, interrupts |
| Resource maps (`kern_map.c`, `vm_kern.c`) | sorted fragments in an array, `FreePageCnt` | `rmalloc`, `rmfree`, `kmem_alloc`, `kmem_free` | all processes |
| Argument streams of marks (`argstream.c`, `markpack.c`, `remote.c`, `server.c`, `process.c`) | write buffer, messages, read position, mapped blocks | `as_write`, `as_flushmsg`, `as_read`, skip, clean up | window server, PostScript server on the board |
| Cursor queue (`cursor.c`, `ND_cursor.c`, `process.c`, `nd.c`) | ring of events, one shared image, saved pixels, frames | push, retrace, flush, display, remove, set, synchronise | host event system, window server, retrace interrupt, PostScript server |
| Attach, detach, ownership (`ND_services.c`, `ND_threads.c`, `ND_server.c`) | owner and debug ports, thread run flags | register, set owner, port death, start and stop, reset | host tasks, service threads |
| Port name translation (`ND_server.c`, `ND_Kern_services.c`) | list of port names under a read/write lock | look up, check in, delete on death | server and reply threads |

The rest (kernel debugger, bootstrap, C library, ROM, boot and code loading, hardware
mapping, PostScript rendering, diagnostics, the tool chain in `src/NDTools-4`) is listed in
`PROJECT.json` with the reason it is left out: sequential set-up, pixel arithmetic, vendored
code.

### What makes it hard

* **Two processors and no atomic read-modify-write.** The lock is Lamport's fast mutual
  exclusion with plain loads and stores; the buffers are read on one side while they are
  written on the other.
* **Three kinds of concurrency meet.** The board's processes are co-operative (they run
  until they call `Sleep`); its retrace interrupt comes 60 times a second, at any
  instruction; the host's kernel threads are not preempted but interrupts are taken outside
  `spl_ND`, and user tasks stop anywhere.
* **Hidden sleeps.** `kmalloc` sleeps when the core map is empty, in the middle of code that
  otherwise looks atomic.
* **One interrupt and one flag for two threads.** A wakeup meant for the reply thread is
  consumed by the server thread, and the other way round.
* **One word for three purposes.** The console mailbox also carries the "messages available"
  ping, which the clock interrupt may send at any time; and when a debugger has just
  connected, the clock interrupt enters the kernel debugger, which uses the mailbox itself,
  perhaps in the middle of a call.
* **A scheduler that can be interrupted.** `Switch` searches the process table as process 0
  with interrupts enabled: an entry may be woken behind its back.
* **Pages change hands while their owner sleeps.** A fault, a flush and the page-out daemon
  each mark a page, sleep in a call to the host, and go on with what they had before,
  although the memory may have been deallocated meanwhile; sleepers are woken by address,
  and the TLB goes on allowing writes to a page that is no longer valid.
* **Bounded tables that lose what does not fit.** Resource maps, the ring of cursor events,
  the process table.
* **Two readers of one ring.** Cursor events are taken by the retrace interrupt and by the
  PostScript server, and the window server's messages about the cursor take another way than
  the event system's events.
* **Checks far from uses.** Room is tested before the lock is taken; a reader's buffer size
  after it was overwritten; a flag before the sleep it announces.

### What makes each component correct

* Lock: mutual exclusion; a held lock never looks free; no deadlock.
* Buffer: a stream of bytes, each delivered once and in order; indices that coincide mean
  empty.
* Host-to-board path: no overrun; framing never lost; every message once.
* Board messages: nothing lost or given twice; order per port; no reader asleep while a
  message waits for it; a dead port releases its readers.
* Service threads: no lost wakeup; whatever is sent is taken; a sender waiting for room goes
  on unless others overtake it for ever, the server thread if it was heard before the board
  had emptied the queue.
* Console: each call reported once, in order, with its own answer; spin loops end.
* Service calls: own reply, one at a time, no sleeper forgotten.
* Pager: what was written last is found; frames neither lost nor shared; one transfer per
  page; whoever waits for a page is owed a wakeup; faults return.
* Processes and maps: an allocator of disjoint blocks that loses none; nobody sleeps for a
  block that could be had; one builder per entry; equals take turns.
* Argument streams: a mark is drawn with its own arguments, once and in turn; nothing is
  left waiting, nothing left mapped.
* Cursor: one cursor where the host says, never an old drawing brought back, every frame
  with the image asked for, every event taken.

## 2. Modules

State is named as in the C code where TLA+ allows it, an action bears the name of the
function or of the part of it that runs between two points where somebody else can come in.
`map` in `PROJECT.json` gives the lines of each definition. Definitions introduced by
"Mistake:" are plausible wrong versions of the definition that follows; nothing uses them:
exchanging one for the right one shows that a property notices.

| module | models | grain of one step |
|---|---|---|
| `LamportLock` | the lock algorithm, in the kernel's and libND's (`DpsProcs`) variants | one load or store of a shared word |
| `HostLock` | the same, with its two real users on the one host processor | the same; the kernel thread yields only where it calls `shortpause` or waits for a message |
| `ByteStream` | *abstract*: what a buffer promises, a bounded stream | one write or read |
| `NDQueue` | the routines that touch a buffer, one writer and one reader; implements `ByteStream` | one byte of a `bcopy`, one store of an index |
| `ToNDQueue` (`MCToNDQueue`) | both producers of ToND, the server thread's wait for room, the board's reader | test for room, copy under the lock, header, body |
| `ToNDQueueProofs` | theorems about `ToNDQueue` | |
| `NDMessages` (`MCNDMessages`) | `Messages()`, `msg_receive`, ports | what runs between two possible sleeps |
| `NDMessagesProofs` | theorems about `NDMessages` | |
| `HostDriver` | waits and wakeups of the service threads and the board | what runs between two places where the other processor or an interrupt matters |
| `SharedMemoryProofs` | theorems about `LamportLock`, `HostLock`, `NDQueue` and `HostDriver` | |
| `Console` | the mailbox, end to end, with kdb's use of it from `hardclock` | one access to the shared word |
| `ConsoleProofs` | theorems about `Console` | |
| `ServiceRpc` | `msg_rpc`, its interlock and the reply thread | what runs between two possible sleeps |
| `ServiceRpcProofs` | theorems about `ServiceRpc` | |
| `Pager` | faults, dirty traps, flushes, allocation and deallocation, page-out daemon, host's paging | what runs between two sleeps |
| `PagerProofs` | theorems about `Pager` | |
| `ResourceMap` | `rmalloc` and `rmfree` as operators on the sequence of fragments | |
| `Processes` | process table, `Switch`, spawning and ending, `kmem_alloc`, on a core map of `ResourceMap` | what runs between two sleeps; in the search of `Switch`, one entry looked at |
| `PageAllocator` | *abstract*: what a resource map promises | one block taken or given back |
| `ProcessesProofs` | theorems about `Processes` and `ResourceMap`; they implement `PageAllocator` | |
| `ArgStream` (`MCArgStream`) | packing, sending and unpacking of marks | one `as_write`, one `as_read` |
| `MarkChannel` | *abstract*: what the window server may expect of its marks | one mark made or settled |
| `Cursor` | the ring, the shared image, retrace, flush, the requests around drawing | one store the other side can see, one event, one request |
| `PSDriverProofs` | theorems about `ArgStream` and `Cursor`; `ArgStream` implements `MarkChannel` | |

How the modules lean on each other, each relying on what the one before shows:
`LamportLock`/`HostLock` show that the ToND lock excludes, so `ToNDQueue` takes the copy
under the lock as one step. `NDQueue` implements `ByteStream`, so `ToNDQueue` keeps the
bytes between tail and head as a sequence, and `NDMessages`, `HostDriver` and `ServiceRpc`
keep whole messages. `ServiceRpc` shows (`OneAtATime`) that the reply thread never waits for
room on ReplyND, so `HostDriver` leaves that wait out. `ToNDQueue` has the server thread's
wait with the one flag and the one wakeup that matter to it, and lets the reply thread clear
the flag and other interrupts come at any time; `HostDriver` has both threads' waits in
full. `HostDriver` shows that FromND is served, and `Console` needs of it only that the
reply thread keeps looking. What rests on a property that holds only under an assumption
(`NoOverrunAlone`, `OneAtATime`) inherits the assumption. Because an overrun destroys what
is on the queue in ways no message-level model can follow, the board of `ToNDQueue` stops at
one: its properties speak about the time up to it. `Pager`, `Processes` and `ArgStream` take
`Sleep` and a call to the host as the points where others run, which `Processes` models in
detail, and rely on `ServiceRpc` for the answer. `Processes` shows, and `ProcessesProofs`
proves, that `kmem_alloc` behaves as an allocator, so `Pager` keeps the free frames as a
set; `ArgStream` takes messages in order from `NDMessages`.

Correspondence, where it is not one to one:

* `LamportLock!pc` has a label for each load or store. `"retry"` is the second loop on
  `Lock_y` after a lost scan, `scan` is the loop index `j`.
* `NDQueue!Slot` and `Bump` are `bcopy` in two pieces and the update of an index: an index
  is wrapped only when a copy wraps, so it may stop at `MSGBUF_SIZE`. `wr` and `rd` are
  history: how much was ever written and consumed.
* `ToNDQueue`: `wait`, `asked` and `pending` are the server thread's place in its wait for
  room (`ND_msg_io.c:185-191`), the queue flag and `ND_INTR_PENDING`; `looping` says that
  `Messages()` has not yet found the queue empty. `asked` is set from the start
  (`ND_msg_io.c:54`). `late` is history: the thread asked when the board had already emptied
  the queue. `Complex` are the messages `valid_msg` may refuse (`ND_msg_io.c:176-179`);
  `dropped` is history.
* `NDMessages!tab` is the `msg_tab` on the stack of a process in `msg_receive`; `"alloc"`
  and `held` are the two places inside `kmalloc`. `hung` is the loop of `DeletePortFromList`
  that empties the wrong queue (`messages.c:357`) and then never ends. A port may be deleted
  while `kmalloc` sleeps: `Messages()` and `msg_receive` then go on to put the message or
  the reader on a queue whose head lies in the `PortList` that line 362 has freed (224,
  480). The message is `lost`, the reader is on no queue anybody will look at, and freed
  memory has been written (`astray`): what that does to others is not followed, the model
  stops there (`Running`).
* `HostDriver!spc` and `rpc` are the places where the two threads can be stopped; `softS`
  and `softR` are the wakeups `ND_intr` schedules as soft interrupts. A thread is in a
  pause, or the other one is not running. `bstate` is where each board process is in
  `msg_send`: out of it, asleep for room, or woken and not yet back at its test
  (`messages.c:397`), at which it may find that others have sent meanwhile. The queue need
  never be empty at a trap then, and the wakeup depends on that (`trap.c:659`).
* `Pager!pte` has the bits the code tests. A page's content is the number of writes made to
  it; `frame` and `work` are the local variables of a fault and of `pmap_clean` that live
  across a sleep. `tlb` are the pages the TLB lets be written without a trap, `stale` those
  written that way while in transit. `forgotten` are the sleepers `pmap_clean` did not wake
  when it unmarked their page. An access that faults is completed in the step that ends the
  fault: a fault does not reschedule on its way out. `hosted` is the memory allocated on the
  host. Memory may be given up while a page of it is in transit (`vm_user.c:64-82` has no
  check): `torn` are the pairs of a transfer and a page for which that has happened.
  `vm_deallocate` on the host is a service call, and so is the transfer; `msg_rpc`'s
  interlock lets one through at a time (`Unlocked`). A transfer whose turn comes after the
  memory is gone is refused by the host, which cannot wire it (`ND_Kern_services.c:265-273`,
  376-384), and the board panics (`pmap.c:681`, 707, 869, `vm_fault.c:66`). Only if the same
  addresses have been allocated again by then (`pmap_add_range`, `pmap.c:541-572`) does it
  go on, with the new owner's memory: old contents over new, a frame freed twice. `fate`
  says which of the two it was, "panic" or "collision", and nothing happens after it.
* `ResourceMap`: a map is the sequence of its nonempty entries; the array has one entry more
  for the header and one for the terminator (`Usable`).
* `Processes!act` is the call a process is in the middle of; `last` is `Switch`'s static
  `p`. Entry 0 sleeps for ever and is left out, so that the round of the search is one
  shorter. In `Switch` nobody runs (`P = Nobody`): the search is made as process 0 with
  interrupts enabled (`switch.c:355`, `cswitch.s:114-115`), one entry a step; `looked` is
  how many it has seen and `found` the best of them. `late` is history: the entries an
  interrupt has woken after the search had passed them. The state of a free entry is set
  back, where the code leaves what nobody reads.
* `ArgStream` counts words; a structure carries its number within its argument, so that two
  structures of an array can be told apart. `as` is the stream being written, `rd` the one
  being read; `got` is what `as_read` has returned. `"astray"` means that `as_read` follows
  memory beyond the message, where its behaviour is not defined and is not followed. It gets
  there after a block whose end it does not see, and when a continuation is not received:
  `as_new_message` asks for one with the size of the mark's first message
  (`argstream.c:271`); a larger one that already lies unclaimed is refused with
  `RCV_TOO_LARGE` (`NDkernel/ND/messages.c:457-471`), an error `mark_receive_msg` ignores
  (`process.c:263-266`) (`TooLarge`). One that comes when the reader is already waiting is
  given to it whatever its size. `Raise` is `os_raise` together with main's handler.
* `Cursor`: the cursor covers one place of the screen; a place has what was drawn last and
  perhaps an image over it; an image is the pair of the calls its data and mask come from.
  `ink`, `want`, `dropped`, `imageLost` are history. `waitCache` is one variable for all
  boards (`ND_cursor.c:36`). The screen, the ring and the frames are one board's;
  `SetElsewhere` is a call for another board, which fills the cache, and `NotSent` a call
  for this one that finds the frame there and sends nothing. `elsewhere` are the frames that
  are in the cache for that reason.
* `Console!rpc` follows the console part of the reply thread from the read of
  `ND_CONIO_MSG_ID` to the store of the acknowledgement, with `ND_intr` and the server
  thread free to come in between. `disturbed` records that hardclock used the word, or the
  server thread took the interrupt, or the debugger died. When it finds a debugger where
  there was none, `hardclock` enters kdb (`clock.c:73-85`), once for each time a debugger is
  connected; kdb says hello (`kdb_main.c:162`) and reads commands (246) with the same
  `cn_putc` and `cn_getc`: `level` says whose call the board is in, `saved` keeps where the
  process was, and `nested` that kdb came when the process had stored its character. A
  call's number is given when its character is stored (`Fill`), so that kdb between calls,
  or at the beginning of one, is just a caller like any other. Once it has run in the middle
  of a call, an acknowledgement or an answer too many may be about, and each later get be
  given the one before: the properties speak about the time until then. The kdb of a bus
  error (`trap.c:645`) is left out: nothing of the board goes on after it.

## 3. Runs

Every run must pass. A property whose name ends in *Sound* is a conjunction of named
invariants of its module, among them the type invariant.

| run | instance | states | what it shows |
|---|---|---|---|
| `lamport_lock` | locks 0, 1, 2; `MAX_LOCK_NUM` 3; kernel code | 70 000 | exclusion, visibility of a held lock, progress |
| `host_lock` | locks 0 (libND) and 1, one processor | 170 | the shipped combination excludes although libND's code alone does not; the only standstill is the task waiting for itself |
| `nd_queue` | 4 bytes, pieces of 1 to 3, stream of 10 | 6 200 | implements `ByteStream`; every test of raw indices is right |
| `tond` | 8 bytes, headers of 2, three messages each way, one of which `valid_msg` may refuse | 228 000 | overrun needs both producers to have found room at once; otherwise framing, single delivery, order (`QueueSound`); delivery, unless refused or the server thread stays stranded |
| `nd_messages` | 2 ports (one deletable), 2 readers, 4 messages, one too long, `kmalloc` sleeping anywhere | 149 000 | nothing given twice, and nothing lost but to a port deleted while `kmalloc` slept for it (`MessagesSound`); order and service of ports for which `kmalloc` did not sleep; release by port death |
| `host_driver` | 2 places to the board and 3 from it, 2 messages in, 2 processes that send for ever | 102 000 | no sleeper with an interrupt pending (`DriverSound`); everything sent is taken; a sender resumes unless overtaken for ever; a server thread waiting on a board with work left is woken unless the board sends for ever |
| `console` | 3 calls, kdb's included, all disturbances | 1 390 000 | reported once, in order (`PutsReported`), own answers, until kdb has run in the middle of a call; only disturbed calls hang |
| `service_rpc` | 3 processes, 5 calls, some refused | 44 000 | own reply, one at a time, return unless the interlock leaked |
| `pager` | 2 processes, 3 pages, 2 frames, batches of 2, 4 operations, memory given up and allocated at any time | 292 000 | until a transfer meets memory given up under it: frames and transit marks agree with who is at work (`PagesSound`); the latest write is kept; somebody is at work on a sleeper's page; a fault returns unless forgotten or nothing can be freed |
| `processes` | 3 entries, 3 pages, blocks of 2, 2 priorities, a map of 4 | 2 115 000 | refines `PageAllocator`; fragments merged and counted, one builder per entry (`TablesSound`); nobody sleeps for a block that fits; equals take turns, although interrupts come in the middle of the search |
| `arg_stream` | buffer of 16 words, 2 marks, up to 4 arguments of 5 kinds | 220 000 | refines `MarkChannel`; buffer bounds and mapped blocks (`StreamSound`); marks of plain structures survive unless a continuation is larger than the first message; every mark is settled |
| `cursor` | ring of 3, 2 frames, 2 places, 4 events, 1 drawing, 1 turn of the window server | 1 292 000 | screen and frames as asked (`ScreenSound`), unless an image was overtaken or went to another board; drawings kept; every event taken |

Further configurations are kept beside the runs as counterexamples on demand. Each is one
TLC call (`tlc -config X.cfg Module`), ends in the violation named, and delimits a property
that does hold. Those marked * contradict a sentence of the code, quoted below the table.

| configuration (module) | violates | shows |
|---|---|---|
| `ToNDOverrun` (`MCToNDQueue`) * | `NoOverrun` | both producers test for room before either holds the lock (`msg_send.c:58`, lock at 91; `ND_msg_io.c:185`, lock at 213) |
| `ToNDFraming` (`MCToNDQueue`) | `HeadersAreHeaders` | the driver rounds up the length it writes (`ND_msg_io.c:182`), `Messages()` does not; lengths must be aligned |
| `NDMessagesOrder` (`MCNDMessages`) * | `Sequential` | a reader arrives while `Messages()` sleeps in `kmalloc` with a message in hand, and is given the next one first (`messages.c:208`) |
| `NDMessagesStranded` (`MCNDMessages`) | `NoStrandedReader` | the reader asleep beside its message, after `kmalloc` slept |
| `NDMessagesHang` (`MCNDMessages`) | `DeletionReturns` | deleting a port with unclaimed messages |
| `NDMessagesLarge` (`MCNDMessages`) | `FitsReader` | the size test reads the header that has just been overwritten (`messages.c:185`) |
| `HostDriverLost` (`HostDriver`) * | `ServerResumes` | the board empties ToND between the server thread's test and its request for an interrupt (`ND_msg_io.c:185-191`) |
| `ConsoleHang` (`Console`) * | `CallReturns` | `hardclock` overwrites a request nobody has read yet (`clock.c:64`), and `cn_putc` spins for ever |
| `ServiceRpcLeak` (`ServiceRpc`) | `RpcReturns` | a refused request leaves the interlock taken (`messages.c:533`) |
| `ServiceRpcStale` (`ServiceRpc`) | `OwnReply` | a reply too large for its caller is the next caller's reply |
| `PagerForgotten` (`Pager`) | `NobodyForgotten` | `pmap_clean` wakes the waiters of a batch at the address its sweep has reached (`pmap.c:693`, 718) |
| `PagerSpins` (`Pager`) | `NeverSpins` | a scan from `VM_MIN_ADDRESS` passes its start unnoticed (`pmap.c:815-818`) and never ends while nothing can be freed |
| `PagerRemove` (`Pager`) | `NoCollision` | memory deallocated while one of its pages is in transit (`vm_user.c:77`) and allocated again before the transfer's turn (`pmap.c:541`) |
| `ProcessesLost` (`Processes`) | `EntriesComeBack` | an entry stays SIDL when the host refuses the stack (`switch.c:150`) |
| `ProcessesDying` (`Processes`) | `DyingKeepsStack` | the stack is freed before the sleep in `vm_deallocate` (`switch.c:205-207`) |
| `ProcessesFull` (`Processes`) * | `ImplementsAllocator` | with half as many entries as pages, header and terminator included, the last fragment is lost (`i860_init.c:235`, `kern_map.c:141`) |
| `ArgStreamAstray` (`MCArgStream`) | `NeverAstray` | after a block the end of the message is not seen (`argstream.c:305`, 329); a larger continuation is not received (271) |
| `ArgStreamDropped` (`MCArgStream`) * | `NothingDropped` | an array cut by the end of a message (`markpack.c:84`, 255) |
| `CursorOverwritten` (`Cursor`) | `WaitImageLoaded` | a second image overwrites the first before the retrace, and the frame counts as loaded for good (`ND_cursor.c:111`, 118) |

The sentences: `libND/msg_send.c:52` "Check for adequate free space on the queue";
`messages.c:6` "message delivery is guaranteed to be sequential"; `ND_msg_io.c:189` "Block
ND interrupts to avoid race condition"; `clock.c:57` "Make sure that the host doesn't get
stuck"; `i860_init.c:234` "Under worst case conditions, we need corepages/2 entries in the
coremap."; `argstream.c:295` "every read should align exactly"; `argstream.h:50-53` "this
will give robust error handling because if an error occurs during the parsing of an arg
stream, subsequent messages on that stream can easily be skipped".

Others differ from a run's cfg by a line or two: `LamportLock` with `Procs = {4, 6}`,
`MAX_LOCK_NUM = 6` loses `MutualExclusion`, because the scan stops before `MAX_LOCK_NUM`
(hence the assumption `AllScanned`), and with `DpsProcs = {0}`, because of libND's test
(`msg_send.c:173`) on a processor of its own (hence `NoDps`); `HostLock` does not have
`LockProgress`; `ToNDQueue` not `DpsSequential` (a message through Mach is overtaken by its
successor), nor `NotStranded`; `NDMessages` not `ReleasedByDeath`, nor `NoFreedList`
(`messages.c:224`, 480 after 362); `HostDriver` with `NIn = 0` not `NeverStarved`
(`trap.c:659` wakes a sender only when FromND is empty, which others can prevent); `Pager`
not `NoStaleWrite` (a page is written through the TLB while it is copied out, `pmap.c:671`,
864), nor `NeverPanics` (a transfer refused because its memory is gone); `Processes` not
`UrgentNoticed` (a process woken behind the search, while the search goes by an old
`curpri`, leaves `runrun` clear, `switch.c:355`); `ArgStream` not `NothingStays` (blocks in
the skipped rest of a dropped mark stay mapped, `server.c:107`, against the sentence of
`argstream.h` quoted above); `Console` not `ReportedOnceInOrder` (kdb in the middle of a
call), nor, without any ping, death or kdb (`DebugEnabled = FALSE`), `CallReturns` (the
server thread takes the console's interrupt); `Cursor` not `WaitFrameHere` (another board's
image is taken for this one's, `ND_cursor.c:36`), nor `WaitFrameSent`, nor `NeverTwice` (a
full ring drops the event that takes the cursor off, `ND_cursor.c:53`), nor, with `SyncLast
= FALSE`, `CursorWhereHostSays`, nor, with `SyncFirst = FALSE`, `DrawingKept` (a drawing is
lost to an event queued earlier).

### Bounds, and why they are enough

* Lock: two contenders and one late third are what the algorithm's argument is about
  (someone between the test of `Lock_y` and the test of `Lock_x` while another scans and a
  third overwrites `Lock_x`); the theorem covers any number.
* Buffer: with 4 bytes and pieces up to 3 every relation of index, piece and end of buffer
  occurs, with indices on, before and at `MSGBUF_SIZE`; a stream of 10 goes round more than
  twice. The theorems cover any size.
* ToND: 8 bytes hold two of the messages used, so that a second message meets a full queue
  and a third meets the detour. Header and body have separate waits. The message that may be
  refused is the middle one of its way, so that one goes before it and one after.
* Board messages: four messages alternate between two ports, so each port sees a message
  handed over, one kept, and one that meets the other reader.
* Driver: two places towards the board hold one message, so that the second meets a full
  queue; three from it hold two, so that one is left on the queue when the reply thread has
  forwarded one. Two senders are what it takes for one to overtake the other, and they send
  without end: nothing is settled by messages running out. Messages have one size: sizes are
  `NDQueue`'s matter.
* Console: a disturbed call, the call that suffers and the next one; kdb's calls count among
  the three, one inside another and one after.
* Pager: three pages on two frames make somebody wait for a frame; two processes and the
  daemon are enough for one to wait for a page another moves; a batch of two is full, with
  pages left over; four operations let a page be written, cleaned, taken away and read
  again, or its memory be given up and allocated again under a transfer. Counts of pages per
  call, 16 in the code, do not matter beyond "full or not".
* Processes: three entries let one build, one be built and one end, and the search pass one
  that is woken, with one chosen before and one still ahead; on three pages a block of two
  or a stack comes back below, above and between free pages; a map of 4 has room for the
  worst case. Everything else is unbounded: there is no operation count.
* Argument streams: 16 words hold two or three structures, so that a message ends inside an
  array, before and after a block, and exactly; an array of 18 words fits no message; a
  structure of 8 makes a continuation larger than its mark's first message. Two marks show
  what a dropped one does to its successor.
* Cursor: a ring of three holds two events, so that it is full, wraps and is emptied by
  either reader; one wait frame beside the regular one; one turn of the window server meets
  up to four events before and after it. A second turn starts from a synchronised screen, as
  the first does.
* Service calls: three processes give an owner, a woken and a sleeping one; five calls allow
  a refused one first and a full round after it.

Deadlock is checked in `lamport_lock` only: elsewhere a bounded number of messages or calls
ends the run, or, in `processes`, every process may sleep until an interrupt that need not
come; the cfg says so. The liveness properties of those modules say what must not stand
still.

### Fairness, and what in the code justifies it

* `LamportLock`: weak fairness of every process inside the lock: boards and host run
  independently. Nobody has to want the lock, and a holder leaves it.
* `HostLock`: the kernel thread's pauses are ended by `timeout`; the task runs whenever the
  kernel thread gives up the processor again and again (strong fairness of `KernelPaused /\
  Run(DPS)`): Mach schedules runnable tasks.
* `ToNDQueue`, `NDMessages`, `ServiceRpc`: weak fairness of each process that is awake. No
  sender and no caller is obliged to start. The server thread of `ToNDQueue` is not awake
  while it waits for room: it goes on only if the board, or some other interrupt, wakes it,
  and no other interrupt has to come.
* `HostDriver`: strong fairness of the two threads, each of which is enabled only while the
  other waits, which it does again and again; and of `ping_driver`, which spins for the
  interrupt register to be clear while `hardclock` sets it at most once a second; and of a
  sender of the board that was woken, whom `Switch` gives his turn in spite of others. No
  process has to send. Interrupts, the retrace trap and the soft interrupts are weakly fair.
* `Console`: strong fairness of the board's process for the same reason: it polls the word
  continuously, and the only thing that takes it away is a ping once a second. The debugger
  answers (`ND_Server` loops on its port); `getchar` may take long but is assumed to end.
  The debugger need not exist: `ND_SetDebug` and `ND_port_death` have no fairness. Nor has
  `hardclock`, nor the user's leaving kdb.
* `Pager`: strong fairness of each process's next step, because the daemon does not give up
  the processor while it scans and the clock may wake it again and again; `Switch` goes
  round (`TurnsGoRound`). The host answers or refuses, one call at a time, the daemon goes
  on, the clock ticks (weak). No process has to start an operation.
* `ArgStream`: a mark that was begun is finished, and the server goes on (weak).
* `Cursor`: retrace, server and a call that was begun go on (weak); the number of calls is
  bounded, so nobody can be kept from his step for ever.
* `Processes` has no liveness property: `TurnsGoRound` says in a step what fairness would
  need, that each time an equal is preferred the search comes nearer.

No counterexample above relies on fairness that is missing: those that are temporal
properties fail under these conditions.

## 4. Theorems

`SharedMemoryProofs`, locks (for every set of lock numbers):

* `LockTypeCorrect`: `LockSpec => []LockTypeOK`, for both variants of the code.
* `MutexCorrect`, `VisibleCorrect`: mutual exclusion and visibility of a held lock, assuming
  `AllScanned` (no user has the number `MAX_LOCK_NUM`, which the loop leaves out) and
  `NoDps`. Neither assumption can be dropped; the two configurations above show it. No code
  on a board takes the lock in this release, and the two users on the host are 0 and 1. The
  invariant separates the two ways into the critical section. `FastOwns`: who passed `Lock_x
  = self` still has `Lock_b` set, `Lock_y` is not undefined, and every rival on the way to
  the same test will fail it. `SlowOwns`: who came through the scan owns `Lock_y` and no
  rival is between the two tests. `Overtaken` is the heart: a contender that set its
  `Lock_b` behind the scan of q has seen `Lock_y` undefined after q's store to it, so
  `Lock_y` is no longer q's and q's scan fails. `Winner` says that nobody clears `Lock_y`
  behind the back of a process about to win. Mutual exclusion alone is far from inductive:
  it says nothing of processes inside the entry code.
* `HostMutexCorrect`: the two users on the host, `HostUsers`, exclude each other whichever
  of them runs libND's test and wherever the scan ends: `AllScanned` and `NoDps` are not
  needed, one processor is enough. The invariant says that the kernel thread never gets past
  the first test with a rival in its way, so it never clears `Lock_b` to scan
  (`KernelUncontested`), and that it turns back at that test from the task's store to
  `Lock_y` to its release (`TaskOwnsY`).

`SharedMemoryProofs`, buffers (for every buffer size, all sets of lengths, any stream
bound):

* `TypeCorrect`, `OccupancyCorrect` (`BYTES_ON_QUEUE` is exactly what is outstanding),
  `RawEqualCorrect` (raw indices are equal only when the queue is empty, although an index
  at `MSGBUF_SIZE` is the same byte as 0), `InOrderCorrect`.
* `QueueImplementsStream`: the refinement. The invariant ties the raw indices to the history
  (`Indices`) and says which stream byte lies in every slot between tail and the writer's
  progress (`Stored`); the lemmas on `Slot` and `Bump` are the modular arithmetic, and
  `SlotHead` shows that the writer's next slot is never one the reader still has to read. A
  copied byte is a stutter, publishing an index is the abstract write or read.

`SharedMemoryProofs`, service threads (for queues of any size, any number of messages):

* `DriverCorrect`: neither queue is written to when it is full, and a thread does not sleep
  with an interrupt pending that is not about to wake it. `RoomKept` says that the room the
  server thread found is still there when it copies, after a sleep and two further steps,
  because the board only takes; `SleeperIsWoken` ties `blocked` to the flags and the soft
  interrupts, each of which the other thread may take away.

`ServiceRpcProofs` (for any processes, any number of calls):

* `OwnReplyCorrect`, `OneAtATimeCorrect`, `WaiterCorrect`, assuming `RepliesFit`
  (`ServiceRpcStale.cfg` shows why). The invariant says that a process past the interlock is
  alone and holds it, that the packet of whoever waits for a reply is in exactly one of the
  three places it can be (`Outstanding`), and that otherwise all three are empty (`Quiet`).
  `WaiterIsWanted` is inductive beside it because the lock's new owner clears `WANTED` at a
  moment when the unlock has already woken every sleeper.

`ToNDQueueProofs` (for any messages, any lengths up to the assumption, any size of the
queue):

* `NoOverrunAloneCorrect`: an overrun needs both producers to have found room before either
  copied. `RoomKept` says it of the time between test and copy, where `NoOverrunAlone` says
  nothing: until `raced` is set, the room a producer found is still there, and only one of
  them has found any.
* `QueueSoundCorrect`: framing, single delivery and the order of each way, assuming
  `SizesAligned` (every length is a multiple of what the driver rounds up to;
  `ToNDFraming.cfg` shows what happens without). `Framed` says that what is on the queue is
  a sequence of whole messages, each header followed by its body and the board between the
  two or at a boundary; `Order` orders what was delivered, what is on the queue, what is in
  Mach and what is still to be sent, way by way.

`NDMessagesProofs` (for any ports, readers, messages and sizes):

* `MessagesSoundCorrect`: a message is in exactly one place, and is lost, or a freed list
  written to, only if its port was deleted while `kmalloc` slept for it. Up to such a write,
  that is: the model stops there. Counting alone is not inductive: `Accounted` also counts
  what has not been sent yet, `AtHome` puts each unclaimed message at its own port, and
  `Asleep` ties the message in hand to the sleep inside `kmalloc`. The lemmas say how often
  a message occurs in a sequence that has been appended to or whose head was taken.
* `AwakePortsServedCorrect`: order, and no reader asleep beside a message, of every port for
  which `kmalloc` did not sleep. `QueueLast` orders what is on the queue behind everything
  that was taken from it; `Served` says that a port has readers waiting or messages
  unclaimed, never both.

`ConsoleProofs` (for any number of calls):

* `PutsReportedCorrect`, `GetsOwnAnswerCorrect`, in spite of everything the ping of
  `hardclock`, the server thread and the debugger's death can do to the one shared word, and
  of kdb between calls or before a call has stored its character; until kdb has run in the
  middle of a call that has (`nested`), after which nothing is claimed of the calls that
  return, nor of the order. The invariant `Protocol` follows a request through its four
  places (the word, the latch of the reply thread, the debugger's inbox, the
  acknowledgement): `Stored` and `Latched` say that a request in the word or in the latch is
  the current call's, `Unreported` that nothing has been sent for it so far, `Asking` that
  the debugger is asked for one character at a time, `Done` what `ND_CONIO_IDLE` lets the
  board conclude. A request latched before the ping overwrites the word is the case that
  makes `Latched` allow `MESSAGE_AVAIL` beside it.

`PagerProofs` (for any processes, pages, frames, batches and number of operations, and
whatever memory is deallocated and allocated at whatever time). They speak of the time until
a transfer comes to its turn whose memory was given up under it. The code does not prevent
that, and there the board panics or, if the memory was allocated again, works on pages that
are somebody else's (`PagerRemove.cfg`), and the model stops:

* `PagesSoundCorrect`: no frame is lost or used twice, and exactly the pages in transit have
  one, and only one, at work on them, not counting those whose page was taken away (`torn`).
* `LatestKeptCorrect`: the program finds what it wrote last, but for writes through an
  outdated TLB entry.
* `SleeperIsOwedCorrect`: who sleeps for a page has somebody at work on it, even if its
  memory was given up, or has been forgotten by `pmap_clean`.

  The three hang together and are proved from one invariant, whose parts are also what a
  reader of `pmap.c` has to know: the mark and the other bits of an entry (`Entries`); whose
  a frame is (`Shares`); what a place in the code says of the local variables that live
  across a sleep (`Posts`); that a fault at work on a page has marked it and that the page
  has no frame then (`Faulted`), while a page being written to the host keeps its frame
  (`Paging`); that every mark has somebody who will take it off (`Marked`); where the latest
  contents are, for a page in memory, for a clean one, for one that has just been copied out
  or in (`Kept`). All of them concern the transfers that are not torn: of a torn one they
  say only that it still waits, for a frame or for the host, so that no local variable of it
  is used again before the model stops. `pmap_clean` completes one batch and marks the next
  without a pause, so these are stated of a page table and of calls that need not be those
  of a state (`SweepFinds`, `Sends`, `Ends`). The lemmas on `Min`, `Max` and `LowestOf` say
  that a batch is made of pages that are there.

`ProcessesProofs` (for any number of entries and pages, any block sizes and priorities),
assuming `[]RoomLeft`: the array of the core map is not full, or it is `Ample`, large enough
for a fragment in every other page (`WorstCaseFits`: then the assumption always holds). The
assumption cannot be dropped (`ProcessesFull.cfg`). `coremap_size` is half the number of
pages rounded up to whole pages of memory, less what those take (`i860_init.c:235-241`),
which is ample but for the few sizes of memory where the rounding leaves less than the two
entries of header and terminator:

* `ImplementsAllocatorCorrect`: the refinement. Each step of the processes takes one run of
  pages nobody has, gives one back, or stutters.
* `TablesSoundCorrect`, `NoSleepWhileFitsCorrect`: fragments merged and counted, one builder
  per entry, no sleeper who could go on.
* `TurnsGoRoundCorrect`: the action property, of a search that looks at one entry at a time
  while interrupts wake others. An entry that is woken after the search has passed it may
  lose this search to a less urgent one; with the next search it is an entry like any other
  (`late` is empty again). `StepsLess` is the arithmetic of the round: whoever the search
  finds first is between the one that ran last and everybody else; the invariant says of the
  entries looked at that none that is runnable and not late is better than what has been
  found.

  One invariant carries all four. `Fragments` says that the entries of the map are sorted
  with a gap between any two, and lie within the pages; `Owned` gives every page at most one
  owner among the map, the blocks and the trap stacks, and is what makes a block that comes
  back fit between two fragments (`Gap`); `Posts` and `Waiters` tie the process table to
  what each process is doing, so that a process waiting for pages is known to ask for more
  than any fragment has, and taking pages never changes that (`Taken`). The lemmas on
  `ResourceMap` say what `rmalloc` and `rmfree` do to the set of free pages in each of their
  cases (remove, shrink, grow up, grow down, combine, insert); `RoomSuffices` counts:
  fragment number i starts at page 2i-1 at the earliest, by the least counterexample.
  `RunFits` is why first fit fails only if no run is long enough. `IInvCorrect` is the
  invariant itself.

`PSDriverProofs`, argument streams (for any arguments, a buffer of any size in which half is
room for a request and for a block's address, any number of marks):

* `ArgStreamImplementsChannel`: the refinement, while the server has not gone astray; then
  the mark is never settled in the model, and of what the code does with it nothing is
  claimed. `CarryOut` settles the mark whose turn it is with its own arguments,
  `ReadMismatch` drops it; every other step but `NDMark` stutters.
* `StreamCorrect`: the client stays inside its buffer, its pointer and count agree, and when
  the server rests only blocks of messages it skipped are mapped.
* `PlainMarksSurviveCorrect`: only a mark with an array is dropped, and the server goes
  astray only in a mark with an array or a block, or before a message that is larger than
  the first of its mark.

  One invariant carries all three. `Client` says that the messages on their way and the one
  that `as_flushmsg` would make now are a `Stream`: each carries parts of one mark that
  follow each other (`Run`), and each goes on where the one before it ends (`Linked`), up to
  what the client writes next (`Ahead`). `Precedes` and `Expects` join that to the server:
  while it reads a mark, what comes goes on behind the last message it has received; while
  it rests, with the mark settled last, of which something may be left to skip, or the next.
  `Carries` is the step of the client, stated of a stream and messages that need not be
  those of a state, so that `as_write` can be taken apart into flush, copy and bookkeeping.
  `Offsets` counts the words before each part of a packet and `ReadAt` says that the reader
  is between two parts, has read whole arguments and knows how many words are left: then a
  read that has enough of them returns exactly its argument (`TakeWhole`), and one that has
  not meets an array cut by the end of a message (`TakeShort`). A block sent out of line is
  alone in its packet, so that no boundary cuts it. The lemmas say what appending a part, a
  packet or a message to a run, a message or a stream keeps, and what taking the first or
  the last away leaves.

`PSDriverProofs`, cursor (for a ring of any size, any frames, any places), assuming
`SyncFirst` and `SyncLast`: the window server calls `NDSyncCursor` before and after it
draws. The source of the window server is not in this repository; without either call a
drawing or the cursor is lost (section 3 says what `Cursor.cfg` finds then):

* `ScreenCorrect`: when all is carried out the one cursor is where the host says and every
  frame holds its image, but for dropped events, overtaken images and images not sent
  because another board has them.
* `DrawingKeptCorrect`: what was drawn is never lost by restoring what lay under the cursor,
  in any order of retrace interrupts, flushes and requests.

  The invariant says that what is still to be carried out is a path of places: it begins
  where the screen shows the cursor (`ScreenAt`), every event and every request finds the
  cursor as it must (`Legal`, `LegalMsg`), and it ends where the host believes the cursor to
  be (`Believed`), or at no place while the window server draws (`Expected`). `RingFirst`
  says which way comes first: the ring, until the opening `NDSyncCursor` has been served,
  and then the messages with the ring empty (`Turn`). `Inked` says that every place shows
  what was drawn there last, and `ScreenAt` that what was saved from under the cursor is no
  older. `ImageInv` follows the shared image: one event that sets an image is under way at a
  time, and names what the shared place holds, or an image has been lost.

The only unproved ingredients are the named assumptions on constants, which every TLC run
evaluates, and those quoted above. Before they were proved, TLC was asked whether the
inductive invariants hold on the instances of the runs; they do.

Every safety invariant and every action property of a run, and all three refinements, are
stated by a theorem. Model-checked only are the liveness properties, for which the prover
has no rule: `LockProgress`, `ProgressOrSelfWait`, `EverythingDelivered`,
`WaitingReaderServed`, `QueuedReleasedByDeath`, `FromNDServed`, `SenderResumes`,
`WaitingServerWoken`, `UndisturbedReturns`, `RpcReturnsUnlessLeaked`, `FaultReturns`,
`EveryMarkSettled` and `EventsTaken`. What the theorems say of a map that is not ample has
no run: with four pages it is full at once.

## 5. What is not modelled, inside the components above

* A reset of the queues and locks while somebody uses them (`ND_ResetMessageSystem`,
  `ND_msg_io.c:41`): it needs every user of the shared memory in one module; planned with
  attach and detach. So is the second writer of `Flags` (`ND_reply.c:107`,
  `messages.c:116`): the board writes it once, at its start.
* Translation of port names and out-of-line data: they change what a message says, not
  framing or order. What `valid_msg` looks at: whether it refuses a message is left open.
* The contents of service requests (`ND_Kern_*`).
* The reply buffer's address: `ND_reply.c:243` replaces the buffer while `msg`, used by the
  console code, keeps pointing to the old one. The hazard is listed without a property.
* Memory ordering: NuBus accesses are taken in program order; the pages are mapped uncached
  on the host, and on the board by its page tables.
* Messages longer than a buffer, which `msg_send` refuses.
* Pager: `vm_protect`, `vm_cacheable`, pages mapped from hardware, and the data cache, which
  is taken to be transparent (`flush()` is called where pages move). An access to memory
  after its deallocation. The calls to the host inside `vm_allocate` and `vm_deallocate`
  come before anything they change. What the board does after a panic or with memory that
  has become somebody else's.
* Kernel and user allocators on top of the core map (`kalloc.c`, `malloc.c`), but for the
  sleep of `kmalloc`.
* Argument streams: what is at the addresses `as_read` follows once it has left the message;
  the drawing itself; failure of `malloc` and `vm_allocate`.
* Console: what is sent and answered after kdb has run in the middle of a call is in the
  model and its run; no property says anything of it.
* Cursor: the screens of other boards, which share only `waitCache` with this one's; events
  before `ps_init` has mapped the frame buffer, which leave the screen alone; brightness,
  which is never queued; clipping and blending. The host's event system and the window
  server's order of calls are external: the model's window server takes the cursor,
  synchronises, draws, and synchronises before it lets go, and the runs show that both
  synchronisations are needed.
* Hardware: interrupt masks and registers appear as the bits the code tests.

## 6. Plan

Done in this order, because everything on the board depends on what comes first: lock,
buffer, host-to-board path, board messages, service threads, console, service calls; then
pager, processes and resource maps, argument streams, cursor.

Next, in the order of what can go wrong:

1. **Attach**: registration, owner, port death, starting and stopping of the service
   threads, `ND_ResetMessageSystem`, composed with the queue and lock state
   (`ND_services.c`, `ND_threads.c`, `ND_server.c`).
2. **Port names**: the list looked up under a read lock and unlinked under a write lock
   (`ND_server.c`), and the board's reply ports.
3. **Reply thread memory and out-of-line data** (`ND_reply.c`, `ipc_oob_data.c`), which uses
   the pager's mappings.
4. **Allocators** (`kalloc.c`, `malloc.c`) on the core map.
5. Of the PostScript driver, window records and the bitmap pool.

Theorems next: those of the components above. Of the modules there are, no safety property
is left without one; `RoomLeft`, `SizesAligned`, `RepliesFit`, `SyncFirst` and `SyncLast`
are the assumptions, and a list freed while `kmalloc` sleeps, kdb in the middle of a call,
memory given up under a transfer and a message larger than its mark's first the ends of what
the theorems say, that are worth removing, by changes to the code.
