-------------------------------- MODULE IoWait --------------------------------
(***************************************************************************)
(* start_io, io_wait and the completion interrupt (scheduler.cpp,          *)
(* wait_queue.cpp, scheduler.hpp) statement by statement, on top of the    *)
(* lock as module SpinLock has it.  Module Scheduler takes the sections of *)
(* this protocol as atomic; this one shows what an interrupt in the window *)
(* of lock() does to them.                                                 *)
(***************************************************************************)
EXTENDS SpinLock

CONSTANT Idle   \* idle_thread_

VARIABLES
  state,    \* Thread::state_
  ready,    \* the elements of ready_queue_
  device,   \* the threads a device will make ready
  prog      \* the next statement of each context

ioVars == <<state, ready, device>>
allVars == <<vars, ioVars, prog>>

\* Of a thread: "start" start_io is next, "started" its section is done, "wait"
\* io_wait is next, "park" its test said eIOPending, "parked" the section is done,
\* "finish" it returned early; "idle" of the idle thread.  Of a handler: "wake" or
\* "woken".
InitIO ==
  /\ Init /\ current = Idle
  /\ state = [t \in Thread |-> "eReady"] /\ ready = Thread \ {Idle} /\ device = {}
  /\ prog = [c \in Context |-> IF c = Code(Idle) THEN "idle"
                               ELSE IF c[2] = "code" THEN "start" ELSE "wake"]

\* c executes statement s, inside (1) or outside (0) its section.
Does(c, s, inside) == At(c, "out") /\ depth[c] = inside /\ prog[c] = s

Then(c, s) == prog' = [prog EXCEPT ![c] = s]

\* synchronized(lock_) before the statements that need it, and its end
Synchronized(c) ==
  /\ \/ /\ prog[c] \in {"start", "wait", "wake"}
        /\ LockTest(c) \/ LockLoad(c) \/ LockMask(c) \/ LockTake(c)
     \/ /\ prog[c] \in {"started", "parked", "finish", "woken"}
        /\ UnlockRelease(c) \/ UnlockUnmask(c)
  /\ UNCHANGED <<ioVars, prog>>

\* start_io: state_ = eIOPending
SetPending(c) ==
  /\ Does(c, "start", 1)
  /\ state' = [state EXCEPT ![current] = "eIOPending"]
  /\ Then(c, "started")
  /\ UNCHANGED <<vars, ready, device>>

\* Its caller gives the thread to the device
Request(c) ==
  /\ Does(c, "started", 0)
  /\ device' = device \cup {current}
  /\ Then(c, "wait")
  /\ UNCHANGED <<vars, state, ready>>

\* io_wait: if(state_ != eIOPending) return
TestPending(c) ==
  /\ Does(c, "wait", 1)
  /\ Then(c, IF state[current] # "eIOPending" THEN "finish" ELSE "park")
  /\ UNCHANGED <<vars, ioVars>>

\* io_wait: state_ = eIOWait; ready_queue_.unlink(current())
Park(c) ==
  /\ Does(c, "park", 1)
  /\ state' = [state EXCEPT ![current] = "eIOWait"] /\ ready' = ready \ {current}
  /\ Then(c, "parked")
  /\ UNCHANGED <<vars, device>>

\* io_wait returns early
Return(c) ==
  /\ Does(c, "finish", 0)
  /\ Then(c, "start")
  /\ UNCHANGED <<vars, ioVars>>

\* switch_thread picks a ready thread, or the idle thread when there is none
SwitchReady(c, next) ==
  /\ IF ready = {} THEN next = Idle ELSE next \in ready
  /\ Switch(c, next)
  /\ UNCHANGED ioVars

\* io_wait: switch_thread(), after which it returns
Leave(c, next) == Does(c, "parked", 0) /\ SwitchReady(c, next) /\ Then(c, "start")

\* The idle loop
IdleSwitch(c, next) == Does(c, "idle", 0) /\ SwitchReady(c, next) /\ UNCHANGED prog

\* A device interrupt comes, and its handler returns
Interrupt == Irq /\ device # {} /\ UNCHANGED <<ioVars, prog>>

InterruptReturn ==
  /\ prog[Handler(current)] = "woken" /\ Iret
  /\ Then(Handler(current), "wake")
  /\ UNCHANGED ioVars

\* make_ready, called by the handler
MakeReady(c, t) ==
  /\ Does(c, "wake", 1) /\ t \in device
  /\ state' = [state EXCEPT ![t] = "eReady"] /\ ready' = ready \cup {t}
  /\ device' = device \ {t}
  /\ Then(c, "woken")
  /\ UNCHANGED vars

\* isr_handler enables interrupts before a system call, the idle loop before hlt
EnableInterrupts ==
  /\ flag = "off" /\ prog[Code(current)] \in {"start", "idle"}
  /\ SetFlag("on")
  /\ UNCHANGED <<ioVars, prog>>

NextIO ==
  \/ \E c \in Context : \/ Synchronized(c) \/ SetPending(c) \/ Request(c)
                        \/ TestPending(c) \/ Park(c) \/ Return(c)
                        \/ \E t \in Thread : MakeReady(c, t) \/ Leave(c, t) \/ IdleSwitch(c, t)
  \/ Interrupt \/ InterruptReturn \/ EnableInterrupts

SpecIO == InitIO /\ [][NextIO]_allVars

-------------------------------------------------------------------------------
\* "Between the time of start_io and io_wait, the IO was completed! We don't even
\* need to wait." (scheduler.cpp:229): a thread never waits for an I/O that is
\* complete.  A wait that begins after the completion never ends.
CompletedIsNotAwaited == \A t \in Thread : state[t] = "eIOWait" => t \in device

===============================================================================
