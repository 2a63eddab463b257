------------------------------- MODULE Scheduler -------------------------------
(***************************************************************************)
(* The scheduler (scheduler.cpp, scheduler.hpp, thread.cpp, process.cpp)   *)
(* with the interrupts that enter it: the timer tick and the completion of *)
(* an I/O request.                                                         *)
(*                                                                         *)
(* There is one CPU.  An action is the longest piece of kernel code that   *)
(* runs with interrupts masked: a section under Scheduler::lock_, or       *)
(* switch_thread, which masks them itself.  Interrupts are taken between   *)
(* two actions, wherever InterruptsEnabled says so.  That a section is one *)
(* step holds unless an interrupt is taken in the window inside lock():    *)
(* SpinLock and IoWait look there.  Every process the kernel creates has   *)
(* one thread, so a thread also stands for its process.                    *)
(***************************************************************************)
EXTENDS RunQueue, FiniteSets

CONSTANTS Thread,        \* thread objects, without the idle thread
          Idle,          \* idle_thread_, of process 0
          None,          \* the null pointer
          MaxProcesses,  \* constants::cMaxProcesses
          TickMod,       \* timer.ticks and alarm_at count modulo this (2^32)
          SliceHz,       \* SLICE_HZ, ticks in a second
          Secs,          \* the arguments passed to sleep
          Waits          \* what threads wait on: "buffer" (Buffer), "queue" (WaitQueue)

ASSUME ConstantsAssumption ==
  /\ Idle \notin Thread /\ None \notin Thread /\ None # Idle
  /\ MaxProcesses \in Nat /\ MaxProcesses > 1
  /\ TickMod \in Nat \ {0} /\ SliceHz \in Nat /\ Secs \subseteq Int
  /\ Waits \subseteq {"buffer", "queue"}

VARIABLES
  ready,      \* ready_queue_
  waiting,    \* waiting_queue_
  state,      \* Thread::state_
  alarmAt,    \* Thread::alarm_at
  ticks,      \* timer.ticks
  current,    \* PerCPU::thread()
  pc,         \* where each thread is in the kernel ("user": outside it)
  regs,       \* Thread::regs: "zero" from the constructor, "own" saved by the
              \* thread itself, or the parent whose fork() frame was saved
  child,      \* the process being made by a thread inside fork()
  processes,  \* processes_, as the thread of each process
  cleanup,    \* cleanup_
  threads,    \* the threads that add_thread put on their process's threads_
  func,       \* threads that still run the function start_new_thread called
  io,         \* threads that wait() has handed to a device and that no
              \* make_ready has come back for
  queued,     \* those of io that are on the threads_ of a WaitQueue
  displaced,  \* those of io that were the waiting_task_ of a buffer until a
              \* second reader of it took their place: the buffer forgot them
  scan,       \* on_tick's iterator: what it has not visited yet
  woken,      \* the threads on_tick woke; its local `schedule' is woken # {}
  due,        \* history: when a sleeper asked to be woken, in ticks since timer.ticks
              \* was last 0
  cpu         \* "normal", "tick" while the timer interrupt is handled, "halted"
              \* once the kernel has stopped (kabort, or a wild jump)

queueVars == <<ready, waiting, cleanup>>
threadVars == <<state, alarmAt, due, pc, regs, child, threads, func>>
tickVars == <<scan, woken>>
ioVars == <<io, queued, displaced>>
vars == <<queueVars, threadVars, tickVars, ticks, current, processes, ioVars, cpu>>

AnyThread == Thread \cup {Idle}

State == {"eReady", "eWaiting", "eIOPending", "eIOWait", "eDead", "uninit"}

\* Where a thread is inside the kernel when it may be interrupted.
Location ==
  {"unborn", "embryo", "user", "forkCreated", "forkReady", "forkSaved",
   "ioStarted", "ioRequested", "ioParked", "asleep", "exiting",
   "exitingMasked", "returned", "gone",
   "boot", "idleLoop", "idleCleaned", "idleAwake", "idleHalted"}

Linked == Range(ready) \cup Range(waiting)

Init ==
  /\ ready = <<>> /\ waiting = <<>> /\ cleanup = <<>>
  /\ state = [t \in AnyThread |-> IF t = Idle THEN "eReady" ELSE "uninit"]
  /\ alarmAt = [t \in AnyThread |-> 0]
  /\ pc = [t \in AnyThread |-> IF t = Idle THEN "boot" ELSE "unborn"]
  /\ regs = [t \in AnyThread |-> "zero"]
  /\ child = [t \in AnyThread |-> None]
  /\ due = [t \in AnyThread |-> 0]
  /\ threads = {} /\ func = {} /\ io = {} /\ queued = {} /\ displaced = {}
  /\ ticks = 0 /\ current = Idle
  /\ processes = [p \in 0 .. MaxProcesses - 1 |-> IF p = 0 THEN Idle ELSE None]
  /\ scan = <<>> /\ woken = {} /\ cpu = "normal"

-------------------------------------------------------------------------------
(* Who runs, and when interrupts are taken.                                *)

\* A nested lock_ leaves enable_interrupts_ false, so sleep() (make_wait) and
\* the exit() of a thread that die() unlinks keep interrupts masked until
\* switch_thread.  The timer handler runs with interrupts masked.
InterruptsEnabled ==
  /\ cpu = "normal"
  /\ pc[current] \notin {"asleep", "exitingMasked"}

\* Thread t executes its own code.
Runs(t) == cpu = "normal" /\ current = t

At(t, where) == Runs(t) /\ pc[t] = where

Goto(t, where) == pc' = [pc EXCEPT ![t] = where]

\* Mutant: the loop around hlt is missing.
WakeCpuNot == UNCHANGED pc

\* hlt returns when an interrupt has been taken.
WakeCpu == IF pc[Idle] = "idleHalted" THEN Goto(Idle, "idleLoop") ELSE UNCHANGED pc

\* Scheduler::make_ready
MakeReady(t) ==
  /\ state' = [state EXCEPT ![t] = "eReady"]
  /\ ready' = PrependTo(ready, t, Linked)

\* Mutant: switch_thread unlinks the next thread and does not append it.
SwitchThreadNoAppend(rq, after) ==
  LET next == IF rq = <<>> THEN Idle ELSE Head(rq)
  IN  /\ ready' = IF next \in {current, Idle} THEN rq ELSE Unlink(rq, next)
      /\ current' = next
      /\ regs' = [regs EXCEPT ![current] = "own"]
      /\ cpu' = IF next = current \/ regs[next] # "zero" THEN "normal" ELSE "halted"
      /\ Goto(current, after)

\* Scheduler::switch_thread with ready queue rq.  The thread that calls it
\* continues at `after' when it runs again.  A thread whose registers were
\* never saved is resumed at address 0.
SwitchThread(rq, after) ==
  LET next == IF rq = <<>> THEN Idle ELSE Head(rq)
  IN  /\ ready' = IF next \in {current, Idle} THEN rq
                  ELSE AppendTo(Unlink(rq, next), next, {})
      /\ current' = next
      /\ regs' = [regs EXCEPT ![current] = "own"]
      /\ cpu' = IF next = current \/ regs[next] # "zero" THEN "normal" ELSE "halted"
      /\ Goto(current, after)

-------------------------------------------------------------------------------
(* Processes.                                                              *)

FreePids == {p \in DOMAIN processes : processes[p] = None}

\* Scheduler::new_pid: the lowest free slot of processes_
NewPid(p) == p \in FreePids /\ \A q \in FreePids : p <= q

\* Scheduler::spawn_init, called once by kmain, with interrupts masked
SpawnInit(t) ==
  /\ At(Idle, "boot") /\ pc[t] = "unborn"
  /\ processes' = [processes EXCEPT ![1] = t]
  /\ threads' = threads \cup {t} /\ func' = func \cup {t}
  /\ MakeReady(t)
  /\ regs' = [regs EXCEPT ![t] = "own"]
  /\ pc' = [pc EXCEPT ![t] = "user", ![Idle] = "idleLoop"]
  /\ UNCHANGED <<waiting, cleanup, alarmAt, due, child, tickVars, ticks, current, ioVars, cpu>>

\* The first section of Scheduler::fork: new_pid, or kabort when the table is
\* full.  Any unused thread object may be the child.
ForkCreate(t, c) ==
  /\ At(t, "user") /\ pc[c] = "unborn"
  /\ \/ /\ FreePids = {}
        /\ cpu' = "halted"
        /\ UNCHANGED <<processes, child, pc>>
     \/ /\ \E p \in FreePids : NewPid(p) /\ processes' = [processes EXCEPT ![p] = c]
        /\ child' = [child EXCEPT ![t] = c]
        /\ pc' = [pc EXCEPT ![t] = "forkCreated", ![c] = "embryo"]
        /\ UNCHANGED cpu
  /\ UNCHANGED <<queueVars, state, alarmAt, due, regs, threads, func, tickVars, ticks,
                 current, ioVars>>

\* fork: new_thread (whose constructor leaves state_ alone), then make_ready
ForkReady(t) ==
  /\ At(t, "forkCreated")
  /\ MakeReady(child[t])
  /\ Goto(t, "forkReady")
  /\ UNCHANGED <<waiting, cleanup, alarmAt, due, regs, child, threads, func, tickVars,
                 ticks, current, processes, ioVars, cpu>>

\* fork: save_registers into the child.  What is saved is this frame of the
\* parent's kernel stack.
ForkSave(t) ==
  /\ At(t, "forkReady")
  /\ regs' = [regs EXCEPT ![child[t]] = t]
  /\ pc' = [pc EXCEPT ![t] = "forkSaved", ![child[t]] = "user"]
  /\ UNCHANGED <<queueVars, state, alarmAt, due, child, threads, func, tickVars, ticks,
                 current, processes, ioVars, cpu>>

\* fork returns the pid of the child; its frame is gone
ForkReturn(t) ==
  /\ At(t, "forkSaved")
  /\ child' = [child EXCEPT ![t] = None]
  /\ Goto(t, "user")
  /\ UNCHANGED <<queueVars, state, alarmAt, due, regs, threads, func, tickVars, ticks,
                 current, processes, ioVars, cpu>>

\* exec replaces the program: the function start_new_thread called never returns
Exec(t) ==
  /\ At(t, "user") /\ t \in func
  /\ func' = func \ {t}
  /\ UNCHANGED <<queueVars, state, alarmAt, due, pc, regs, child, threads, tickVars,
                 ticks, current, processes, ioVars, cpu>>

\* start_new_thread after func() returned: the thread leaves the ready queue
StartNewThreadReturn(t) ==
  /\ At(t, "user") /\ t \in func
  /\ ready' = Unlink(ready, t)
  /\ Goto(t, "returned")
  /\ UNCHANGED <<waiting, cleanup, state, alarmAt, due, regs, child, threads, func,
                 tickVars, ticks, current, processes, ioVars, cpu>>

\* Mutant: exit does not unlink the thread.
ExitStaysReady(t) ==
  /\ At(t, "user")
  /\ cleanup' = PrependTo(cleanup, t, Range(cleanup))
  /\ state' = IF t \in threads THEN [state EXCEPT ![t] = "eDead"] ELSE state
  /\ Goto(t, IF t \in threads /\ state[t] = "eReady" THEN "exitingMasked"
             ELSE "exiting")
  /\ UNCHANGED <<ready, waiting, alarmAt, due, regs, child, threads, func, tickVars,
                 ticks, current, processes, ioVars, cpu>>

\* The section of Scheduler::exit.  Process::exit calls die() on the threads
\* add_thread registered, which unlinks again, nested, if the state is eReady.
Exit(t) ==
  /\ At(t, "user")
  /\ ready' = Unlink(ready, t)
  /\ cleanup' = PrependTo(cleanup, t, Range(cleanup))
  /\ state' = IF t \in threads THEN [state EXCEPT ![t] = "eDead"] ELSE state
  /\ Goto(t, IF t \in threads /\ state[t] = "eReady" THEN "exitingMasked"
             ELSE "exiting")
  /\ UNCHANGED <<waiting, alarmAt, due, regs, child, threads, func, tickVars, ticks,
                 current, processes, ioVars, cpu>>

\* What kfree of their processes makes of some threads: objects that can be
\* constructed again.
FreeThreads(freed) ==
  LET Reset(f, v) == [t \in AnyThread |-> IF t \in freed THEN v ELSE f[t]]
  IN  /\ state' = Reset(state, "uninit")
      /\ regs' = Reset(regs, "zero")
      /\ alarmAt' = Reset(alarmAt, 0)
      /\ pc' = [Reset(pc, "unborn") EXCEPT ![Idle] = "idleCleaned"]
      /\ threads' = threads \ freed /\ func' = func \ freed
      /\ UNCHANGED due

\* Mutant: cleanup() leaves processes_[pid] alone.
OnIdleKeepsSlot ==
  /\ At(Idle, "idleLoop")
  /\ cleanup' = <<>>
  /\ FreeThreads(Range(cleanup))
  /\ UNCHANGED <<ready, waiting, child, tickVars, ticks, current, processes, ioVars, cpu>>

\* Mutant: cleanup() frees every thread that has left, queued on cleanup_ or not.
OnIdleFreesAll ==
  LET freed == {t \in Thread : pc[t] = "gone"}
  IN  /\ At(Idle, "idleLoop")
      /\ cleanup' = <<>>
      /\ FreeThreads(freed)
      /\ processes' = [p \in DOMAIN processes |->
                         IF processes[p] \in freed THEN None ELSE processes[p]]
      /\ UNCHANGED <<ready, waiting, child, tickVars, ticks, current, ioVars, cpu>>

\* Mutant: on_idle does not call cleanup().
OnIdleNoCleanup ==
  /\ At(Idle, "idleLoop")
  /\ Goto(Idle, "idleCleaned")
  /\ UNCHANGED <<queueVars, state, alarmAt, due, regs, child, threads, func, tickVars,
                 ticks, current, processes, ioVars, cpu>>

\* Scheduler::on_idle's section: cleanup() empties cleanup_.
OnIdle ==
  LET freed == Range(cleanup)
  IN  /\ At(Idle, "idleLoop")
      /\ cleanup' = <<>>
      /\ FreeThreads(freed)
      /\ processes' = [p \in DOMAIN processes |->
                         IF processes[p] \in freed THEN None ELSE processes[p]]
      /\ UNCHANGED <<ready, waiting, child, tickVars, ticks, current, ioVars, cpu>>

-------------------------------------------------------------------------------
(* Giving up the CPU.                                                      *)

\* Scheduler::sleep: sleep_til, unlink, make_wait
Sleep(t, secs) ==
  /\ At(t, "user")
  /\ alarmAt' = [alarmAt EXCEPT ![t] = (ticks + secs * SliceHz) % TickMod]
  /\ due' = [due EXCEPT ![t] = ticks + secs * SliceHz]
  /\ ready' = Unlink(ready, t)
  /\ state' = [state EXCEPT ![t] = "eWaiting"]
  /\ waiting' = PrependTo(waiting, t, Range(Unlink(ready, t)) \cup Range(waiting))
  /\ Goto(t, "asleep")
  /\ UNCHANGED <<cleanup, regs, child, threads, func, tickVars, ticks, current,
                 processes, ioVars, cpu>>

\* Scheduler::start_io
StartIO(t) ==
  /\ At(t, "user")
  /\ state' = [state EXCEPT ![t] = "eIOPending"]
  /\ Goto(t, "ioStarted")
  /\ UNCHANGED <<queueVars, alarmAt, due, regs, child, threads, func, tickVars, ticks,
                 current, processes, ioVars, cpu>>

\* The threads that are the waiting_task_ of a buffer
Remembered == io \ (queued \cup displaced)

\* The caller of start_io hands the thread to a device: WaitQueue::wait appends it
\* to threads_, Buffer::wait makes it waiting_task_, of a buffer that had none or
\* in the place of the thread that was ...
RequestIO(t) ==
  /\ At(t, "ioStarted")
  /\ io' = io \cup {t}
  /\ \/ /\ "queue" \in Waits
        /\ queued' = queued \cup {t} /\ UNCHANGED displaced
     \/ /\ "buffer" \in Waits
        /\ displaced' \in {displaced} \cup {displaced \cup {u} : u \in Remembered}
        /\ UNCHANGED queued
  /\ Goto(t, "ioRequested")
  /\ UNCHANGED <<queueVars, state, alarmAt, due, regs, child, threads, func, tickVars,
                 ticks, current, processes, cpu>>

\* ... or finds the buffer full and returns, leaving eIOPending behind.
SkipIO(t) ==
  /\ At(t, "ioStarted")
  /\ Goto(t, "user")
  /\ UNCHANGED <<queueVars, state, alarmAt, due, regs, child, threads, func, tickVars,
                 ticks, current, processes, ioVars, cpu>>

\* Mutant: io_wait does not look at the state before it parks the thread.
IOWaitUnchecked(t) ==
  /\ At(t, "ioRequested")
  /\ state' = [state EXCEPT ![t] = "eIOWait"]
  /\ ready' = Unlink(ready, t)
  /\ Goto(t, "ioParked")
  /\ UNCHANGED <<waiting, cleanup, alarmAt, due, regs, child, threads, func, tickVars,
                 ticks, current, processes, ioVars, cpu>>

\* Mutant: io_wait parks the thread and leaves it on the ready queue.
IOWaitStaysReady(t) ==
  /\ At(t, "ioRequested")
  /\ IF state[t] # "eIOPending"
     THEN Goto(t, "user") /\ UNCHANGED state
     ELSE state' = [state EXCEPT ![t] = "eIOWait"] /\ Goto(t, "ioParked")
  /\ UNCHANGED <<queueVars, alarmAt, due, regs, child, threads, func, tickVars, ticks,
                 current, processes, ioVars, cpu>>

\* The section of Scheduler::io_wait: return if the I/O is already complete
IOWait(t) ==
  /\ At(t, "ioRequested")
  /\ IF state[t] # "eIOPending"
     THEN Goto(t, "user") /\ UNCHANGED <<state, ready>>
     ELSE /\ state' = [state EXCEPT ![t] = "eIOWait"]
          /\ ready' = Unlink(ready, t)
          /\ Goto(t, "ioParked")
  /\ UNCHANGED <<waiting, cleanup, alarmAt, due, regs, child, threads, func, tickVars,
                 ticks, current, processes, ioVars, cpu>>

\* Where a thread that called switch_thread goes on when it runs again.  yield
\* calls it straight from the pause system call.
AfterSwitch(where) ==
  CASE where \in {"exiting", "exitingMasked", "returned"} -> "gone"
    [] where = "idleCleaned" -> "idleAwake"
    [] OTHER -> "user"

\* switch_thread, called last by yield, sleep, io_wait, exit, start_new_thread
\* and on_idle
CallSwitch(t) ==
  /\ Runs(t)
  /\ pc[t] \in {"user", "asleep", "ioParked", "exiting", "exitingMasked",
                "returned", "idleCleaned"}
  /\ SwitchThread(ready, AfterSwitch(pc[t]))
  /\ UNCHANGED <<waiting, cleanup, state, alarmAt, due, child, threads, func, tickVars,
                 ticks, processes, ioVars>>

\* kmain's idle loop: enable_interrupts and halt after on_idle
IdleHalt ==
  /\ At(Idle, "idleAwake")
  /\ Goto(Idle, "idleHalted")
  /\ UNCHANGED <<queueVars, state, alarmAt, due, regs, child, threads, func, tickVars,
                 ticks, current, processes, ioVars, cpu>>

-------------------------------------------------------------------------------
(* Interrupts.                                                             *)

\* Mutant: the comparison is strict.
AlarmExpiredLate(t) ==
  state[t] = "eWaiting" /\ alarmAt[t] # 0 /\ alarmAt[t] < ticks

\* Thread::alarm_expired
AlarmExpired(t) ==
  state[t] = "eWaiting" /\ alarmAt[t] # 0 /\ alarmAt[t] <= ticks

\* A tick that takes ticks back to 0 moves the origin of due.  What was due a turn
\* ago or more stays where it is.
DueFrom(now) ==
  [t \in AnyThread |-> IF now = 0 /\ due[t] >= 0 /\ state[t] = "eWaiting"
                       THEN due[t] - TickMod ELSE due[t]]

\* Mutant: ticks does not wrap around.
TickNoWrap ==
  /\ InterruptsEnabled
  /\ ticks' = ticks + 1 /\ UNCHANGED due
  /\ cpu' = "tick" /\ scan' = waiting /\ woken' = {}
  /\ WakeCpu
  /\ UNCHANGED <<queueVars, state, alarmAt, regs, child, threads, func, current,
                 processes, ioVars>>

\* The timer interrupt: Timer::handle counts the tick and calls on_tick, which
\* starts to walk waiting_queue_
Tick ==
  /\ InterruptsEnabled
  /\ ticks' = (ticks + 1) % TickMod /\ due' = DueFrom(ticks')
  /\ cpu' = "tick" /\ scan' = waiting /\ woken' = {}
  /\ WakeCpu
  /\ UNCHANGED <<queueVars, state, alarmAt, regs, child, threads, func, current,
                 processes, ioVars>>

\* One turn of on_tick's loop.  The iterator has moved on before the thread is
\* unlinked.
TickVisit ==
  /\ cpu = "tick" /\ scan # <<>>
  /\ scan' = Tail(scan)
  /\ IF AlarmExpired(Head(scan))
     THEN LET t == Head(scan) IN
          /\ waiting' = Unlink(waiting, t)
          /\ state' = [state EXCEPT ![t] = "eReady"]
          /\ ready' = PrependTo(ready, t, Range(ready) \cup Range(Unlink(waiting, t)))
          /\ woken' = woken \cup {t} /\ due' = [due EXCEPT ![t] = 0]
     ELSE UNCHANGED <<waiting, state, ready, woken, due>>
  /\ UNCHANGED <<cleanup, alarmAt, pc, regs, child, threads, func, ticks,
                 current, processes, ioVars, cpu>>

\* The end of on_tick: a thread it woke preempts the interrupted one
TickDone ==
  /\ cpu = "tick" /\ scan = <<>>
  /\ woken' = {}
  /\ IF woken # {} THEN SwitchThread(ready, pc[current])
     ELSE cpu' = "normal" /\ UNCHANGED <<ready, current, regs, pc>>
  /\ UNCHANGED <<waiting, cleanup, state, alarmAt, due, child, threads, func, scan,
                 ticks, processes, ioVars>>

\* A device interrupt completes t's request: set_full or wake calls make_ready
IOComplete(t) ==
  /\ InterruptsEnabled /\ t \in io \ displaced
  /\ io' = io \ {t} /\ queued' = queued \ {t} /\ UNCHANGED displaced
  /\ MakeReady(t)
  /\ WakeCpu
  /\ UNCHANGED <<waiting, cleanup, alarmAt, due, regs, child, threads, func, tickVars,
                 ticks, current, processes, cpu>>

\* halt_loop, after kabort or a panic
Halted == cpu = "halted" /\ UNCHANGED vars

-------------------------------------------------------------------------------
KernelStep(t) ==
  \/ ForkReady(t) \/ ForkSave(t) \/ ForkReturn(t)
  \/ RequestIO(t) \/ SkipIO(t) \/ IOWait(t)

Syscall(t) ==
  \/ \E c \in Thread : ForkCreate(t, c)
  \/ Exec(t) \/ StartNewThreadReturn(t) \/ Exit(t)
  \/ \E secs \in Secs : Sleep(t, secs)
  \/ StartIO(t)

Next ==
  \/ \E t \in Thread : SpawnInit(t) \/ Syscall(t) \/ KernelStep(t) \/ IOComplete(t)
  \/ \E t \in AnyThread : CallSwitch(t)
  \/ OnIdle \/ IdleHalt
  \/ Tick \/ TickVisit \/ TickDone
  \/ Halted

Spec == Init /\ [][Next]_vars

-------------------------------------------------------------------------------
(* Properties.                                                             *)

TypeOK ==
  /\ ready \in Seq(Thread) /\ waiting \in Seq(Thread) /\ cleanup \in Seq(Thread)
  /\ state \in [AnyThread -> State]
  /\ alarmAt \in [AnyThread -> 0 .. TickMod - 1]
  /\ ticks \in 0 .. TickMod - 1
  /\ current \in AnyThread
  /\ pc \in [AnyThread -> Location]
  /\ regs \in [AnyThread -> Thread \cup {"zero", "own"}]
  /\ child \in [AnyThread -> Thread \cup {None}]
  /\ processes \in [0 .. MaxProcesses - 1 -> AnyThread \cup {None}]
  /\ due \in [AnyThread -> Int]
  /\ threads \in SUBSET Thread /\ func \in SUBSET Thread
  /\ io \in SUBSET Thread /\ queued \in SUBSET io /\ displaced \in SUBSET io
  /\ scan \in Seq(Thread) /\ woken \in SUBSET Thread
  /\ cpu \in {"normal", "tick", "halted"}

\* t has a thread object that make_ready has seen and that has not left for good.
Schedulable(t) ==
  /\ state[t] # "uninit"
  /\ pc[t] \notin {"exiting", "exitingMasked", "returned", "gone"}

\* The two run queues say exactly what state_ says: a thread is on the ready
\* queue if and only if it can run, on the waiting queue if and only if it
\* sleeps, and never twice.  make_ready, make_wait, sleep, io_wait, exit and
\* on_tick each change a queue and a state in separate statements, around the
\* one `linked' flag both queues share (list.hpp).
QueuesMatchStates ==
  /\ IsInjective(ready) /\ IsInjective(waiting)
  /\ \A t \in Thread :
       /\ t \in Range(ready) <=> Schedulable(t) /\ state[t] \in {"eReady", "eIOPending"}
       /\ t \in Range(waiting) <=> state[t] = "eWaiting"

\* A thread that runs its own code is on the ready queue, unless it has just
\* taken itself off to give up the CPU.  So the unlink() calls of sleep, io_wait
\* and exit always find the thread on the list they are called on: unlinking a
\* node of the other list would corrupt that list's head, tail and count.
RunningIsReady ==
  current \in Thread /\ pc[current] \notin
      {"asleep", "ioParked", "exiting", "exitingMasked", "returned"}
    => current \in Range(ready) \ Range(waiting)

\* No completion is lost: a thread parked by io_wait is one that was handed to a
\* device and whose completion has not come yet, although it may come at any point
\* between start_io and switch_thread.  Whether it still comes is another matter:
\* a buffer forgets its waiting thread when a second reader waits (ParkedWakes).
NoLostWakeup == \A t \in Thread : state[t] = "eIOWait" => t \in io

\* cleanup() frees no process that can still run: whatever is on a run queue, in
\* a device's hands or on the CPU has exactly one slot in processes_ and, unless
\* it is the running thread on its way out of exit(), is not on the cleanup list.
HasOnePid(t) == \E p \in DOMAIN processes :
                  \A q \in DOMAIN processes : processes[q] = t <=> q = p

NoUseAfterCleanup ==
  /\ \A t \in Range(ready) \cup Range(waiting) \cup io \cup {current} : HasOnePid(t)
  /\ Range(cleanup) \cap (Range(ready) \cup Range(waiting) \cup io) = {}
  /\ current \in Range(cleanup) => pc[current] \in {"exiting", "exitingMasked"}

\* A slot of processes_ goes from one process to another only through cleanup():
\* new_pid never hands out the pid of a process that has not been reaped.
FreedOnlyByCleanup ==
  \A p \in DOMAIN processes :
    processes[p] # None /\ processes'[p] # processes[p]
      => processes'[p] = None /\ processes[p] \in Range(cleanup)

PidsNotStolen == [][FreedOnlyByCleanup]_vars

\* "We are the child - by convention return 0" (fork, scheduler.cpp:272): when
\* switch_thread resumes a thread, the context it restores is one the thread
\* saved itself, or is the fork() frame of a parent still inside fork().
ResumesSavedContext ==
  [][current' # current =>
       LET r == regs[current'] IN
       \/ r = "own"
       \/ r \in Thread /\ pc[r] = "forkSaved"]_vars

-------------------------------------------------------------------------------
(* The inductive invariant behind the safety properties: what a thread's   *)
(* place in the kernel says about its state.                               *)

Runnable == {"eReady", "eIOPending"}

ThreadInv(t) ==
  /\ pc[t] \in Location \ {"boot", "idleLoop", "idleCleaned", "idleAwake", "idleHalted"}
  /\ pc[t] = "unborn" => state[t] = "uninit" /\ regs[t] = "zero"
  /\ state[t] = "uninit" => pc[t] \in {"unborn", "embryo"}
  /\ pc[t] = "embryo" => state[t] \in {"uninit", "eReady"} /\ regs[t] = "zero"
  /\ pc[t] = "user" => state[t] # "eDead" /\ (t = current => state[t] \in Runnable)
  /\ pc[t] \in {"forkCreated", "forkReady", "forkSaved"} => state[t] \in Runnable
  /\ pc[t] = "ioStarted" => state[t] = "eIOPending"
  /\ pc[t] = "ioRequested" => state[t] = "eReady" \/ (state[t] = "eIOPending" /\ t \in io)
  /\ pc[t] = "ioParked" => state[t] \in {"eReady", "eIOWait"}
  /\ pc[t] = "asleep" => state[t] = "eWaiting" /\ t = current
  /\ pc[t] = "exitingMasked" => t = current
  /\ pc[t] \in {"exiting", "exitingMasked", "returned", "gone"}
       => state[t] \in Runnable \cup {"eDead"}
  /\ state[t] = "eIOWait" => t \in io
  /\ t \in io => \/ state[t] = "eIOPending" /\ pc[t] = "ioRequested"
                 \/ state[t] = "eIOWait" /\ pc[t] \in {"ioParked", "user"}
  /\ t \in Range(cleanup) => pc[t] \in {"exiting", "exitingMasked", "gone"}

\* A thread between the first section of fork() and save_registers has a child
\* of its own that cannot run yet.
ForkInv(t) ==
  pc[t] \in {"forkCreated", "forkReady"} =>
    /\ child[t] \in Thread /\ pc[child[t]] = "embryo"
    /\ pc[t] = "forkReady" => state[child[t]] = "eReady"
    /\ \A u \in Thread : pc[u] \in {"forkCreated", "forkReady"} /\ child[u] = child[t] => u = t

CpuInv ==
  /\ pc[Idle] \in {"boot", "idleLoop", "idleCleaned", "idleAwake", "idleHalted"}
  /\ cpu = "tick" => pc[current] \notin {"asleep", "exitingMasked"}
  /\ cpu # "halted" => pc[current] \notin {"unborn", "embryo", "gone"}
  /\ IsInjective(cleanup)

\* The process table has one slot for every process there is.
PidInv ==
  /\ processes[0] = Idle
  /\ \A p, q \in DOMAIN processes : processes[p] = processes[q] /\ processes[p] # None => p = q
  /\ \A t \in Thread : pc[t] # "unborn" <=> \E p \in DOMAIN processes : processes[p] = t
  /\ pc[Idle] = "boot" => \A p \in DOMAIN processes \ {0} : processes[p] = None

IndInv ==
  /\ TypeOK /\ QueuesMatchStates /\ RunningIsReady /\ CpuInv /\ PidInv
  /\ \A t \in Thread : ThreadInv(t) /\ ForkInv(t)

\* sleep(n) lasts n seconds of ticks, up to what the wrap-around of timer.ticks does
\* to alarm_expired, which compares by order.  A thread whose wake-up time lies on
\* this side of it is woken by the handler of the tick it asked for, whose loop moves
\* threads off the list it walks, and by nothing before that.  One whose wake-up
\* time lies beyond it may wake early, one that the counter overtook may wake late,
\* but never later than a whole turn.  All this is held against `due', what the
\* caller asked for, and not against alarm_at.  A wake-up time that is a multiple
\* of TickMod is excepted: alarm_expired takes the alarm 0 for `no alarm', so such a
\* thread never wakes.
SleepersOnTime ==
  [][\A t \in Thread : state[t] = "eWaiting" /\ due[t] % TickMod # 0 =>
       /\ state'[t] # "eWaiting" /\ due[t] < TickMod => due[t] <= ticks
       /\ TickDone /\ due[t] > 0 => ticks < due[t]
       /\ TickDone => ticks < due[t] + TickMod]_vars

-------------------------------------------------------------------------------
(* Liveness.  Kernel code that is on the CPU goes on between two           *)
(* interrupts; the interrupt controller holds a timer or device interrupt  *)
(* until it is taken; a handler finishes; the drive delivers what it was   *)
(* asked for.  Nothing makes a program leave user mode, so system calls    *)
(* and yield are not fair, and nobody has to type, so WaitQueue::wake is   *)
(* not.                                                                    *)

IdleStep == OnIdle \/ CallSwitch(Idle) \/ IdleHalt

ThreadStep == \E t \in Thread : KernelStep(t) \/ (pc[t] # "user" /\ CallSwitch(t))

\* Buffer::set_full wakes waiting_task_, and no thread that was waiting_task_ before.
SetFull(t) == t \in Remembered /\ IOComplete(t)

Fairness ==
  /\ SF_vars(IdleStep) /\ SF_vars(ThreadStep)
  /\ SF_vars(Tick) /\ WF_vars(TickVisit \/ TickDone)
  /\ \A t \in Thread : SF_vars(SetFull(t))

FairSpec == Spec /\ Fairness

\* A thread parked by io_wait becomes runnable again, unless the buffer it waits for
\* has forgotten it for a second reader, or it waits for input, which may not come.
ParkedWakes ==
  \A t \in Thread :
    state[t] = "eIOWait"
      ~> state[t] # "eIOWait" \/ t \in queued \cup displaced \/ cpu = "halted"

\* The idle thread never sits in hlt on a non-empty ready queue for ever,
\* although a device interrupt can make a thread ready just before hlt.
IdleGivesWay == current = Idle /\ ready # <<>> ~> current # Idle \/ cpu = "halted"

\* If the idle thread keeps getting the CPU, every process that exited is reaped.
IdleReaps ==
  []<>(current = Idle) =>
    \A t \in Thread : t \in Range(cleanup) ~> t \notin Range(cleanup) \/ cpu = "halted"

===============================================================================
