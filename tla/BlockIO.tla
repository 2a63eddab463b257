-------------------------------- MODULE BlockIO --------------------------------
(***************************************************************************)
(* Reading a region of a disk: the cache of block::Device, block::Buffer,  *)
(* the ATA driver and its interrupt handler (block.cpp, block_buffer.cpp,  *)
(* ata.cpp), over the scheduler's start_io, io_wait and make_ready.        *)
(*                                                                         *)
(* Sections under a lock are single steps (module SpinLock says when they  *)
(* are).  Between two steps of a thread, the disk's interrupt may come and *)
(* the timer may switch to another ready thread.                           *)
(***************************************************************************)
EXTENDS Integers

CONSTANTS
  Thread,    \* the threads that read
  Idle,      \* idle_thread_, which also runs kmain
  Region,    \* the regions of the disk
  Boot,      \* region 0, where the partition table is
  Buffer,    \* the buffers there is memory for
  Sectors,   \* cSectorPerRegion
  None

ASSUME BlockIOAssumption ==
  /\ Idle \notin Thread /\ None \notin Thread \cup Buffer \cup Region
  /\ Boot \in Region /\ Sectors \in Nat \ {0}

VARIABLES
  cache,     \* Device::cache_
  range,     \* of each buffer; None before Buffer::for_size
  status,    \* Buffer::state_, the set of its flags
  data,      \* the sectors a buffer holds
  waiter,    \* Buffer::waiting_task_
  request,   \* ATAInterrupt::request_buffer_
  read,      \* ATAInterrupt::read_bytes_, in sectors
  disk,      \* the drive: what it transfers, and the status it shows
  irq,       \* "yes" while the drive asserts its interrupt
  state,     \* Thread::state_
  ready,     \* the elements of ready_queue_
  current,   \* PerCPU::thread()
  pc,        \* where each thread is
  want,      \* the region it reads
  buf,       \* and the buffer for it
  halted     \* the ASSERT that failed, or "no"

bufferVars == <<cache, range, status, data, waiter>>
diskVars == <<request, read, disk, irq>>
threadVars == <<state, ready, current>>
vars == <<bufferVars, diskVars, threadVars, pc, want, buf, halted>>

Runner == Thread \cup {Idle}

Full(b) == "eFull" \in status[b]

Junk == <<None, 0>>

Init ==
  /\ cache = [r \in Region |-> None] /\ range = [b \in Buffer |-> None]
  /\ status = [b \in Buffer |-> {}] /\ waiter = [b \in Buffer |-> None]
  /\ data = [b \in Buffer |-> [i \in 1 .. Sectors |-> Junk]]
  /\ request = None /\ read = 0 /\ irq \in {"no", "yes"}
  /\ disk = [phase |-> "idle", region |-> None, next |-> 1]
  /\ state = [t \in Runner |-> "eReady"] /\ ready = {} /\ current = Idle
  /\ pc = [t \in Runner |-> IF t = Idle THEN "boot" ELSE "user"]
  /\ want = [t \in Runner |-> Boot] /\ buf = [t \in Runner |-> None]
  /\ halted = "no"

Runs(t, place) == halted = "no" /\ current = t /\ pc[t] = place

Goto(t, place) == pc' = [pc EXCEPT ![t] = place]

-------------------------------------------------------------------------------
(* The drive.  It has the first sector of a command at once, as            *)
(* request_lba's ASSERT(success_p()) wants, and takes its time over the    *)
(* next ones.                                                              *)

\* request_lba: ASSERT(!drq_p()), the command, ASSERT(success_p())
RequestLba(r) ==
  IF disk.phase = "idle"
  THEN /\ disk' = [phase |-> "drq", region |-> r, next |-> 1] /\ irq' = "yes"
       /\ UNCHANGED halted
  ELSE /\ halted' = IF disk.phase = "drq" THEN "!drq_p()" ELSE "success_p()"
       /\ UNCHANGED <<disk, irq>>

\* The next sector has been read from the medium.
SectorReady ==
  /\ halted = "no" /\ disk.phase = "busy"
  /\ disk' = [disk EXCEPT !.phase = "drq"] /\ irq' = "yes"
  /\ UNCHANGED <<bufferVars, request, read, threadVars, pc, want, buf, halted>>

\* read_pio takes the sector the drive offers
AfterSector ==
  [disk EXCEPT !.phase = IF disk.next < Sectors THEN "busy" ELSE "idle",
               !.next = disk.next + 1]

-------------------------------------------------------------------------------
(* Device::request                                                         *)

\* cache_.fetch
Fetch(t, r) ==
  /\ Runs(t, IF t = Idle THEN "boot" ELSE "user") /\ (t = Idle => r = Boot)
  /\ want' = [want EXCEPT ![t] = r]
  /\ buf' = [buf EXCEPT ![t] = cache[r]]
  /\ Goto(t, IF cache[r] = None THEN "miss" ELSE "wait")
  /\ UNCHANGED <<bufferVars, diskVars, threadVars, halted>>

\* Buffer::for_size and set_range.  No property tells buffers apart, so any that
\* is free will do.
Create(t) ==
  LET b == CHOOSE b \in Buffer : range[b] = None IN
  /\ Runs(t, "miss") /\ \E free \in Buffer : range[free] = None
  /\ range' = [range EXCEPT ![b] = want[t]]
  /\ buf' = [buf EXCEPT ![t] = b]
  /\ Goto(t, "store")
  /\ UNCHANGED <<cache, status, data, waiter, diskVars, threadVars, want, halted>>

\* cache_.store, after another thread may have stored a buffer of its own
Store(t) ==
  /\ Runs(t, "store")
  /\ cache' = [cache EXCEPT ![want[t]] = buf[t]]
  /\ Goto(t, IF t = Idle THEN "busy" ELSE "wait")
  /\ UNCHANGED <<range, status, data, waiter, diskVars, threadVars, want, buf, halted>>

-------------------------------------------------------------------------------
(* block::Buffer                                                           *)

\* ATAInterrupt::add_request
AddRequest(b) == request' = b /\ read' = 0

\* Disk::fulfill
Fulfill(b) == AddRequest(b) /\ RequestLba(range[b])

\* Mutant: add_request does not reset read_bytes_.
FillKeepsCount(b) ==
  /\ status' = [status EXCEPT ![b] = @ \cup {"eRequested"}]
  /\ request' = b /\ UNCHANGED read
  /\ RequestLba(range[b])

\* Buffer::fill of a buffer that is not full
Fill(b) ==
  /\ status' = [status EXCEPT ![b] = @ \cup {"eRequested"}]
  /\ Fulfill(b)

\* Buffer::wait: start_io
StartIO(t) ==
  /\ Runs(t, "wait")
  /\ state' = [state EXCEPT ![t] = "eIOPending"]
  /\ Goto(t, "section")
  /\ UNCHANGED <<bufferVars, diskVars, ready, current, want, buf, halted>>

\* Its section.  A full buffer needs no wait.
WaitSection(t) ==
  /\ Runs(t, "section")
  /\ IF Full(buf[t])
     THEN Goto(t, "user") /\ UNCHANGED <<status, waiter, diskVars, halted>>
     ELSE /\ IF "eRequested" \in status[buf[t]]
             THEN UNCHANGED <<status, diskVars, halted>>
             ELSE Fill(buf[t])
          /\ waiter' = [waiter EXCEPT ![buf[t]] = t]
          /\ Goto(t, "iowait")
  /\ UNCHANGED <<cache, range, data, threadVars, want, buf>>

\* switch_thread takes a ready thread, or the idle thread when there is none.
SwitchFrom(queue) == IF queue = {} THEN current' = Idle ELSE current' \in queue

\* io_wait
IOWait(t) ==
  /\ Runs(t, "iowait")
  /\ Goto(t, "back")
  /\ IF state[t] # "eIOPending" THEN UNCHANGED threadVars
     ELSE /\ state' = [state EXCEPT ![t] = "eIOWait"]
          /\ ready' = ready \ {t}
          /\ SwitchFrom(ready \ {t})
  /\ UNCHANGED <<bufferVars, diskVars, want, buf, halted>>

\* We're back: ASSERT(full_p())
Back(t) ==
  /\ Runs(t, "back")
  /\ halted' = IF Full(buf[t]) THEN halted ELSE "full_p()"
  /\ Goto(t, "user")
  /\ UNCHANGED <<bufferVars, diskVars, threadVars, want, buf>>

\* detect_partitions: busy_wait
BusyFill ==
  /\ Runs(Idle, "busy") /\ status[buf[Idle]] = {}
  /\ Fill(buf[Idle])
  /\ UNCHANGED <<cache, range, data, waiter, threadVars, pc, want, buf>>

\* The loop of busy_wait has ended: the partition table is read, its memory is
\* freed, and kmain goes on to spawn the threads.
BusyDone ==
  /\ Runs(Idle, "busy") /\ Full(buf[Idle])
  /\ data' = [data EXCEPT ![buf[Idle]] = [i \in 1 .. Sectors |-> Junk]]
  /\ Goto(Idle, "idle")
  /\ ready' = Thread
  /\ UNCHANGED <<cache, range, status, waiter, diskVars, state, current, want, buf, halted>>

\* The idle loop, and a tick that has woken a sleeper: switch_thread
Switch ==
  /\ halted = "no" /\ ready # {}
  /\ SwitchFrom(ready) /\ current' # current
  /\ UNCHANGED <<bufferVars, diskVars, state, ready, pc, want, buf, halted>>

-------------------------------------------------------------------------------
\* Mutant: set_full does not ask whether anybody waits.
SetFullUnchecked(b) ==
  /\ status' = [status EXCEPT ![b] = @ \cup {"eFull"}]
  /\ state' = [state EXCEPT ![waiter[b]] = "eReady"]
  /\ ready' = ready \cup {waiter[b]}

\* Buffer::set_full and Scheduler::make_ready
SetFull(b) ==
  /\ status' = [status EXCEPT ![b] = @ \cup {"eFull"}]
  /\ IF waiter[b] = None THEN UNCHANGED <<state, ready>>
     ELSE /\ state' = [state EXCEPT ![waiter[b]] = "eReady"]
          /\ ready' = ready \cup {waiter[b]}

\* Mutant: the handler wakes the reader after every sector.
HandleWakesEarly ==
  LET b == request IN
  /\ halted = "no" /\ irq = "yes"
  /\ irq' = "no"
  /\ IF b = None \/ read >= Sectors
     THEN UNCHANGED <<status, data, request, read, disk, state, ready>>
     ELSE /\ data' = [data EXCEPT ![b][read + 1] = <<disk.region, disk.next>>]
          /\ disk' = AfterSector
          /\ read' = read + 1
          /\ IF read' < Sectors
             THEN /\ UNCHANGED <<status, request>>
                  /\ state' = [t \in Runner |-> IF t = waiter[b] THEN "eReady" ELSE state[t]]
                  /\ ready' = ready \cup ({waiter[b]} \ {None})
             ELSE SetFull(b) /\ request' = None
  /\ UNCHANGED <<cache, range, waiter, current, pc, want, buf, halted>>

\* Mutant: the handler puts every sector at the start of the buffer.
HandleNoOffset ==
  LET b == request IN
  /\ halted = "no" /\ irq = "yes"
  /\ irq' = "no"
  /\ IF b = None \/ read >= Sectors THEN UNCHANGED <<status, data, request, read, disk, state, ready>>
     ELSE /\ data' = [data EXCEPT ![b][1] = <<disk.region, disk.next>>]
          /\ disk' = AfterSector
          /\ read' = read + 1
          /\ IF read' < Sectors THEN UNCHANGED <<status, request, state, ready>>
             ELSE SetFull(b) /\ request' = None
  /\ UNCHANGED <<cache, range, waiter, current, pc, want, buf, halted>>

\* ATAInterrupt::handle.  An interrupt with no request is ignored.
Handle ==
  LET b == request IN
  /\ halted = "no" /\ irq = "yes"
  /\ irq' = "no"
  /\ IF b = None \/ read >= Sectors
     THEN UNCHANGED <<status, data, request, read, disk, state, ready>>
     ELSE /\ data' = [data EXCEPT ![b][read + 1] = <<disk.region, disk.next>>]
          /\ disk' = AfterSector
          /\ read' = read + 1
          /\ IF read' < Sectors THEN UNCHANGED <<status, request, state, ready>>
             ELSE SetFull(b) /\ request' = None
  /\ UNCHANGED <<cache, range, waiter, current, pc, want, buf, halted>>

Reads(t) ==
  \/ \E r \in Region : Fetch(t, r)
  \/ Create(t) \/ Store(t)
  \/ StartIO(t) \/ WaitSection(t) \/ IOWait(t) \/ Back(t)

Next ==
  \/ \E t \in Runner : Reads(t)
  \/ BusyFill \/ BusyDone \/ Switch \/ SectorReady \/ Handle

Spec == Init /\ [][Next]_vars

\* The drive delivers its sectors, and interrupts are not masked for ever.
FairSpec == Spec /\ WF_vars(SectorReady) /\ WF_vars(Handle)

-------------------------------------------------------------------------------
TypeOK ==
  /\ cache \in [Region -> Buffer \cup {None}] /\ range \in [Buffer -> Region \cup {None}]
  /\ status \in [Buffer -> SUBSET {"eFull", "eRequested"}]
  /\ data \in [Buffer -> [1 .. Sectors -> (Region \X (1 .. Sectors)) \cup {Junk}]]
  /\ waiter \in [Buffer -> Thread \cup {None}]
  /\ request \in Buffer \cup {None} /\ read \in 0 .. Sectors
  /\ disk \in [phase : {"idle", "busy", "drq"}, region : Region \cup {None}, next : 1 .. Sectors + 1]
  /\ irq \in {"no", "yes"}
  /\ state \in [Runner -> {"eReady", "eIOPending", "eIOWait"}]
  /\ ready \in SUBSET Thread /\ current \in Runner
  /\ pc \in [Runner -> {"boot", "busy", "idle", "user", "miss", "store", "wait", "section",
                     "iowait", "back"}]
  /\ want \in [Runner -> Region] /\ buf \in [Runner -> Buffer \cup {None}]
  /\ halted \in {"no", "!drq_p()", "success_p()", "full_p()"}

\* "We're back!": a thread that io_wait lets through, at once or after a switch,
\* finds its buffer full, so ASSERT(full_p()) (block_buffer.cpp:50) never fails.
BackMeansFull ==
  \A t \in Thread : pc[t] = "back" /\ state[t] # "eIOWait" => Full(buf[t])

\* A buffer that says eFull holds the sectors of its region, each in its place,
\* whoever asked for it and however the handler's interrupts were spread; but not
\* the one whose memory detect_partitions has freed, which stays in the cache.
FullMeansWhole ==
  \A b \in Buffer : Full(b) /\ ~(b = buf[Idle] /\ pc[Idle] = "idle") =>
    \A i \in 1 .. Sectors : data[b][i] = <<range[b], i>>

\* A thread parked on a buffer is made ready when the drive has delivered it, as
\* long as it is still the buffer's waiting_task_ (a second reader takes its
\* place there) and no assertion has stopped the kernel.
WaiterWoken ==
  \A t \in Thread :
    state[t] = "eIOWait" /\ waiter[buf[t]] = t
      ~> state[t] # "eIOWait" \/ waiter[buf[t]] # t \/ halted # "no"

\* ASSERT(!drq_p()) and ASSERT(success_p()) (ata.cpp:317, 331): when a request
\* is put to the drive, the drive is not in the middle of another.
DriveIdleOnRequest == halted \notin {"!drq_p()", "success_p()"}

===============================================================================
