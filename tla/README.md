# A verification of the ulysses kernel

Ulysses is a small x86 kernel in C++ (`src/src/`). It runs on one processor.
Concurrency comes from two places only: interrupts, which are taken wherever
the interrupt flag is set, and `switch_thread`, which a thread calls itself or
which the timer interrupt calls when it has woken a sleeper.

This directory holds TLA+ models of the kernel, the TLC configurations that
check them on small instances, and TLAPS proofs of the properties that matter
most. `PROJECT.json` maps each definition to the lines it translates.

## 1. The system

| part | state | operations | what is hard about it |
|---|---|---|---|
| Intrusive lists (`list.hpp`) | head, tail, count; one node per list *kind* in each element | append, prepend, unlink, iterate | the ready and the waiting queue share one node and one `linked` flag |
| Spin lock (`spinlock.hpp`, `scope.hpp`, `cpu.hpp`) | owner, depth, interrupt flag to restore | lock, unlock, nested use | the interrupt flag is saved in the lock itself |
| Scheduler (`scheduler.*`, `thread.*`) | ready and waiting queues, cleanup list, process table, state and registers of each thread | make_ready, sleep, start_io, io_wait, exit, fork, spawn_init, switch_thread, on_tick, on_idle | completion interrupts racing io_wait; fork publishing a child early; reaping |
| Timer (`timer.*`) | ticks (32 bits) | handle | wrap-around |
| Wait queues (`wait_queue.*`) | list of threads | wait, wake | a check made before the wait |
| Block I/O (`block_buffer.*`, `block_region.hpp`, `block.*`, `ata.*`) | buffer status, waiting thread, cache of regions, the ATA request | request, wait, fulfill, interrupt handler | one request slot, one waiter slot; interrupt before the wait |
| Terminal (`buffer.*`, `keyboard.cpp`, `character/console.cpp`) | keyboard and line buffers, wait queue | key interrupt, inject, read | buffers of fixed size filled by interrupts |
| Kernel heap (`kheap.*`, `ordered_array.*`) | blocks with headers and footers, index of holes | alloc, free, expand, contract | splitting, merging, growing at the end |
| Frames and paging (`paging.*`) | frame bitmap, page tables, mappings | alloc_frame, free_frame, get_page, clone, fault | sharing and freeing frames |
| Processes (`process.*`, `syscall.cpp`) | file table, heap break, mappings | open, close, dup, brk, exit | limits of the tables |
| Hash table (`hash_table.hpp`) | bins of entries | store, fetch, remove, grow | growing moves every entry |
| File systems (`fs.cpp`, `fs/devfs.cpp`, `fs/tmpfs.cpp`, `fs/ext2.cpp`, `fs/initrd.cpp`) | nodes, mounts | lookup, read, write | path resolution, block mapping arithmetic |
| Loaders (`elf.cpp`, `tar.cpp`) | none | map a program, unpack an archive | parsing and address arithmetic |
| Network (`rtl8139.cpp`, `eth.cpp`, `arp.cpp`) | receive ring, transmit descriptors | receive, transmit, interrupt | ring wrap-around |
| VGA console, PCI, RTC, PIT, descriptor tables, boot | device registers | initialisation, text output | device access only |
| lwIP, zlib, PCI database | vendored or generated | | not this kernel's code |

## 2. Modules and how they correspond to the code

`PROJECT.json` gives, for every definition that models code, the lines it
translates. Definitions named *Mutant* are deliberate errors: each replaces one
definition to show that a property notices it.

**RunQueue**: `prepend`, `append` and `unlink` as operators on sequences, the
form in which the scheduler uses its lists.

**Scheduler**: one CPU, its threads, and the timer and completion interrupts.
An action is the longest piece of code that runs with interrupts masked: a
section under `lock_`, or `switch_thread`. Interrupts are taken between two
actions where the flag allows it. `on_tick` is a loop and takes one step per
thread visited. `pc` says where a thread is between two sections of `fork`,
`sleep`, `io_wait`, `exit`. The tick counter counts modulo `TickMod` (2^32 in
the code); `due` remembers, for the properties only, what a sleeper asked for. A
thread object is reused after its process has been reaped. A thread in the hands
of a device (`io`) is the `waiting_task_` of a buffer, or on a wait queue
(`queued`), or was the `waiting_task_` of a buffer until a second reader took its
place (`displaced`); nobody makes a displaced thread ready again.

**IntrusiveList**: `sys::List` at the level of `head`, `tail`, `next`, `prev`
and `linked`, with two lists sharing the node of an element as the ready and
the waiting queue do, and with loops that unlink or move the element they stand
on. It is related to the sequences of RunQueue by `PointersRepresentQueues`.

**SpinLock**: `lock()` and `unlock()` in the pieces that an interrupt can fall
between (the store to `enable_interrupts_`, its test, `cli`, the
compare-and-swap), with nesting, handlers that take the lock, and thread switches.

**IoWait**: `start_io`, `io_wait` and `make_ready` statement by statement on top
of the lock's pieces. The theorem `LockCorrect` says when Scheduler's one-step
sections are justified; this module shows what happens when they are not.

**BlockIO**: the cache of regions, `block::Buffer`, the ATA driver with its one
request slot, its interrupt handler, and a drive modelled from how the driver
uses it (external). `Device::request` takes no lock, so its look in the cache, the
making of a buffer and its store into the cache are steps of their own, and one
region can get two buffers.

**Terminal**: the keyboard's buffer, `process_keyboard` at the end of every
interrupt, the line discipline of `ConsoleDevice`, and readers in `read_bytes`
and `WaitQueue::wait`. A statement of a reader or of `open` that touches shared
state is a step. Memory that `open` leaves uninitialised holds any characters.

**HashTable**: `store`, `remove`, `fetch`, `redistribute` and the iterator, next
to the map they stand for (`content`).

**Frames**: the frame bitmap, the boot mapping, page faults (two steps, since
they take no lock), `clone_directory` and `free_directory`.

The MC modules name the model values and symmetries that the configurations use.

## 3. What TLC checks

| run | instance | distinct states | properties |
|---|---|---|---|
| scheduler_safety | 3 threads, 3 process slots, symmetric | 873,946 | queues match states, no lost wake-up, nothing freed in use, pids not stolen, sleepers wake on time up to the wrap-around, the inductive invariant |
| scheduler_liveness | 2 threads, waiting on buffers | 53,314 | threads parked on a buffer that remembers them wake, idle gives way, exited processes are reaped |
| list_pointers | 4 elements, 2 lists | 1,892 | pointers are the queues; loops visit everything |
| lock | 3 threads, nesting | 10,012 | owner and depth; masked unless raced |
| block | 2 threads, 3 regions | 242,587 | back from `wait` means full, full means whole, the waiting thread is woken |
| terminal | 2 readers, buffers of 2, symmetric | 334,181 | keys in order, whole lines, parked is queued; for a thread that reads alone, no sleep on input and no empty read |
| hash_table | 5 keys, 4 to 16 bins | 3,182 | the table is the map, never a wrong value, load |
| frames | 3 address spaces, 2 pages each, 9 frames | 1,781,025 | linear boot map, frames owned |

Runs that end in a violation, each with the line it contradicts:

| run | what happens |
|---|---|
| scheduler_fork | the child of `fork` resumes in a frame its parent has left, or before one was saved (`scheduler.cpp:272`) |
| iowait_race | an interrupt in the window of `lock()` leaves `io_wait` unmasked, and a completed I/O is awaited (`scheduler.cpp:229`) |
| block_drive | a second thread's request, for another region or for the same one through a second buffer, meets the first one's transfer and an assertion of `request_lba` fails (`ata.cpp:317`) |
| frames_kernel | `free_frame` clears the bit of one of the kernel's frames, and not that of the frame it frees (`paging.cpp:208`) |

Terminal also reaches two states in which an assertion of the code stops the
kernel: `raw_buffer_` is never emptied, and a key between `console_driver::init`
and the first `open` finds it without memory (`character/console.cpp:16`). Its
properties hold up to there.

**Bounds.** Two threads are enough for every race between a thread and a
handler or between two threads; the third adds a bystander in a queue. Three
process slots make the table run full. The tick counter of scheduler_safety
is shorter than a sleep of three ticks that starts late in a turn, so alarms lie
before, at and beyond its wrap-around, and sleeps of no time are overtaken by it.
In scheduler_liveness threads wait on buffers only, since a wait queue promises
nothing by itself; its view of a state, `LiveState`, leaves out the history
variable `due` and the alarms of threads that are awake, which nothing reads
before `sleep` sets them again. Besides the region read at boot BlockIO has two,
so requests for different regions overlap; five buffers are as many as two
threads can make; a buffer of more than one sector makes handlers run several
times per request. Buffers of two characters fill up.
In HashTable five keys make the table of four grow and
shrink again, and three of them still share a bin of eight. In Frames, page size 4 and nine
frames let a frame number divide to 0 and to 1, and the last frame lies outside
the bitmap's whole words. Deadlock is not checked where an assertion of the code
stops the kernel (BlockIO, Terminal, Frames).

**Fairness.** Scheduler: kernel code that is on the CPU goes on between two
interrupts, handlers finish, and the interrupt controller holds a timer or
device interrupt until it is taken. The drive delivers what it was asked for, so
`set_full` comes for the thread that is still `waiting_task_`; nothing is assumed
for a displaced one, and nobody has to type, so `WaitQueue::wake` is not fair
either. (Where two requests overlap the kernel stops instead: block_drive.)
Strong fairness is needed because interrupts
are disabled and enabled again for ever. Nothing makes a program leave user mode,
so system calls are not fair. BlockIO: the drive delivers the sectors it was asked
for and its interrupt is taken.

**History variables and exemptions.** Some races are in the code and no comment
rules them out. The properties then say exactly what remains true: `raced`
(SpinLock, IoWait: an interrupt in the window of `lock()`; Frames: a fault
overtaken by another), `missed` (Terminal: input between the test and the queue)
and `crowded` (HashTable: three entries for one bin) mark the histories excepted.
`ParkedWakes` and `WaiterWoken` except a reader that the buffer has forgotten,
`SleepersOnTime` being early across the wrap-around of the counter and the wake-up
time 0, `FullMeansWhole` the buffer whose memory `detect_partitions` has freed, and
`KeysArriveInOrder` the bytes a second `open` loses. `IdleReaps` assumes that the
idle thread keeps running. The hazards in `PROJECT.json` say which of these no
property catches.

## 4. What is proved

All proofs hold for every value of the constants, under the named assumptions of
the modules (distinct null values, positive sizes).

* **Scheduler** (`Scheduler_frame_proofs`, `Scheduler_process_proofs`,
  `Scheduler_wait_proofs` and `Scheduler_switch_proofs` for the actions,
  `Scheduler_proofs` for the theorems): `SchedulerInvariant`, that `IndInv`
  always holds, and from it `QueuesCorrect`, `WakeupsKept`, `CleanupSafe` and
  `PidsKept`. The queue
  properties alone are not inductive: whether a wake-up can be lost depends on
  where in the kernel the thread is. `IndInv` therefore ties the place of each
  thread (`ThreadInv`) to its state, queue, process slot and the device that has
  it, does the same for a child under construction (`ForkInv`), for the
  interrupt being handled (`CpuInv`) and for the process table (`PidInv`). There
  is one lemma per action; what the steps of a thread's own code have in common
  is `OwnStepKeeps`.
* **IntrusiveList** (`IntrusiveList_proofs`): `ListsImplementQueues` and
  `LoopsVisitAll`. The inductive form `ListInv` adds that what a loop has still
  to visit is the end of its list.
* **SpinLock** (`SpinLock_proofs`): `LockCorrect`. The inductive form `LockInv`
  adds who may be inside a section and who must have interrupts masked.
* **RunQueue** (`RunQueue_proofs`): the lemmas about sequences they rest on.

Only model-checked: every liveness property (fairness is out of the prover's
reach), the scheduler's `SleepersOnTime`, IoWait, BlockIO, Terminal, HashTable and
Frames.

## 5. What is not modelled

The parts marked `not_modelled` in `PROJECT.json`: the kernel heap, external
lists at statement level, the file table, `brk` and memory mappings, block read
arithmetic, the file systems, the loaders, the network driver; and, for good,
text output, PCI enumeration, processor set-up, and vendored or generated code.
Within modelled parts: the models allocate without fail where the code calls
`kmalloc`; BlockIO's cache is a map
(HashTable says when it is one) and its `store` one step, so a switch inside
`store` or `redistribute`, which take no lock, is left out; Terminal has
`append` and `shift` of the wait queue as one step each, and `start_ += count`
too; Frames leaves out the frames that the heap takes.

## 6. Plan

1. `KHeap`: blocks, holes and the index; `alloc`, `free`, `expand`, `contract`.
2. `WaitQueue` at statement level: `ExternalList` against `shift` in an interrupt.
3. `ProcessFiles`: file table, `dup`, `close`, `brk`, mappings.
4. `BlockRead` and `Ext2Map`: the arithmetic of `read_bytes` and of indirect
   blocks against reference definitions.
5. `Rtl8139` (ring and descriptors), mounts and devfs, tmpfs.
6. Proofs: `BackMeansFull` of BlockIO, `FramesOwned` of Frames.
