------------------------------- MODULE SpinLock -------------------------------
(***************************************************************************)
(* SpinLock::lock and unlock (spinlock.hpp) on the one processor there is, *)
(* with an action for each piece of them an interrupt can separate.        *)
(*                                                                         *)
(* Code runs in a context: a thread's own code, or the interrupt handler   *)
(* on top of it.  A handler runs with interrupts masked, so there is at    *)
(* most one per thread, and it runs as the thread it interrupted:          *)
(* PerCPU::thread() is the same for both.                                  *)
(***************************************************************************)
EXTENDS Integers

CONSTANTS Thread,    \* the threads, the idle thread among them
          None,      \* the null pointer
          MaxDepth   \* how deep synchronized sections nest in one context

ASSUME SpinLockAssumption == None \notin Thread /\ MaxDepth \in Nat

VARIABLES
  locker,      \* locker_
  recursive,   \* recursive_
  field,       \* enable_interrupts_: "on" for true, "off" for false
  flag,        \* the interrupt flag of the processor
  current,     \* PerCPU::thread()
  pc,          \* where each context is in lock() or unlock()
  depth,       \* how many synchronized sections each context is inside
  saved,       \* st of a thread that is inside switch_thread
  raced        \* history: "yes" once an interrupt was taken between the store
               \* to enable_interrupts_ and the cli in lock()

lockVars == <<locker, recursive, field>>
vars == <<lockVars, flag, current, pc, depth, saved, raced>>

Code(t) == <<t, "code">>
Handler(t) == <<t, "handler">>
Context == Thread \X {"code", "handler"}

\* "out": in neither function.  "tested": the test of line 30 is next.  "mask": its
\* cli is next.  "swap": line 32 is next, or the loop of line 36.  "released": line
\* 61 is next.  "none": there is no such handler.
Place == {"out", "tested", "mask", "swap", "released", "none"}

Init ==
  /\ locker = None /\ recursive = 0 /\ field = "off" /\ flag = "off"
  /\ current \in Thread
  /\ pc = [c \in Context |-> IF c[2] = "code" THEN "out" ELSE "none"]
  /\ depth = [c \in Context |-> 0]
  /\ saved = [t \in Thread |-> "on"]
  /\ raced = "no"

\* The context that executes.
Running == IF pc[Handler(current)] = "none" THEN Code(current) ELSE Handler(current)

Active(c) == c = Running

At(c, place) == Active(c) /\ pc[c] = place

Goto(c, place) == pc' = [pc EXCEPT ![c] = place]

-------------------------------------------------------------------------------
(* lock()                                                                  *)

\* Mutant: lock() notes that interrupts are to be enabled whatever they are.
LockTestAlwaysOn(c) ==
  /\ At(c, "out") /\ depth[c] < MaxDepth
  /\ field' = "on"
  /\ Goto(c, "tested")
  /\ UNCHANGED <<locker, recursive, flag, current, depth, saved, raced>>

\* Line 28: enable_interrupts_ = cpu::interrupts_enabled_p()
LockTest(c) ==
  /\ At(c, "out") /\ depth[c] < MaxDepth
  /\ field' = flag
  /\ Goto(c, "tested")
  /\ UNCHANGED <<locker, recursive, flag, current, depth, saved, raced>>

\* Line 30: if(enable_interrupts_) ...
LockLoad(c) ==
  /\ At(c, "tested")
  /\ Goto(c, IF field = "on" THEN "mask" ELSE "swap")
  /\ UNCHANGED <<lockVars, flag, current, depth, saved, raced>>

\* ... cpu::disable_interrupts()
LockMask(c) ==
  /\ At(c, "mask")
  /\ flag' = "off"
  /\ Goto(c, "swap")
  /\ UNCHANGED <<lockVars, current, depth, saved, raced>>

\* Lines 32-38.  A context that finds another thread's lock spins: no step.
LockTake(c) ==
  /\ At(c, "swap") /\ locker \in {None, current}
  /\ locker' = current
  /\ recursive' = IF locker = None THEN recursive ELSE recursive + 1
  /\ depth' = [depth EXCEPT ![c] = @ + 1]
  /\ Goto(c, "out")
  /\ UNCHANGED <<field, flag, current, saved, raced>>

-------------------------------------------------------------------------------
(* unlock()                                                                *)

\* Mutant: unlock() decrements recursive_ and does not look at it.
UnlockReleaseCounts(c) ==
  /\ At(c, "out") /\ depth[c] > 0
  /\ recursive' = recursive - 1
  /\ locker' = IF recursive = 0 THEN None ELSE locker
  /\ depth' = [depth EXCEPT ![c] = @ - 1]
  /\ Goto(c, "released")
  /\ UNCHANGED <<field, flag, current, saved, raced>>

\* Mutant: unlock() ignores recursive_.
UnlockReleaseAll(c) ==
  /\ At(c, "out") /\ depth[c] > 0
  /\ locker' = None /\ UNCHANGED recursive
  /\ depth' = [depth EXCEPT ![c] = @ - 1]
  /\ Goto(c, "released")
  /\ UNCHANGED <<field, flag, current, saved, raced>>

\* Lines 52-59, after ASSERT(locker_ == cur)
UnlockRelease(c) ==
  /\ At(c, "out") /\ depth[c] > 0
  /\ IF recursive > 0 THEN recursive' = recursive - 1 /\ UNCHANGED locker
     ELSE locker' = None /\ UNCHANGED recursive
  /\ depth' = [depth EXCEPT ![c] = @ - 1]
  /\ Goto(c, "released")
  /\ UNCHANGED <<field, flag, current, saved, raced>>

\* Mutant: unlock() always enables interrupts.
UnlockUnmaskAlways(c) ==
  /\ At(c, "released")
  /\ flag' = "on"
  /\ Goto(c, "out")
  /\ UNCHANGED <<lockVars, current, depth, saved, raced>>

\* Line 61: if(enable_interrupts_) cpu::enable_interrupts().  One step: an interrupt
\* between the two finds interrupts enabled already and leaves them so.
UnlockUnmask(c) ==
  /\ At(c, "released")
  /\ flag' = IF field = "on" THEN "on" ELSE flag
  /\ Goto(c, "out")
  /\ UNCHANGED <<lockVars, current, depth, saved, raced>>

-------------------------------------------------------------------------------
(* The rest of the kernel, as far as it touches the interrupt flag.        *)

\* An interrupt: irq_common_stub calls irq_handler with interrupts masked
Irq ==
  /\ flag = "on" /\ Active(Code(current))
  /\ flag' = "off"
  /\ Goto(Handler(current), "out")
  /\ raced' = IF pc[Code(current)] \in {"tested", "mask"} THEN "yes" ELSE raced
  /\ UNCHANGED <<lockVars, current, depth, saved>>

\* iret, to code that had interrupts enabled
Iret ==
  /\ At(Handler(current), "out") /\ depth[Handler(current)] = 0
  /\ flag' = "on"
  /\ Goto(Handler(current), "none")
  /\ UNCHANGED <<lockVars, current, depth, saved, raced>>

\* isr_handler around a system call, start_new_thread, kmain's idle loop and
\* spawn_init set or clear the flag outside any section
SetFlag(value) ==
  /\ At(Code(current), "out") /\ depth[Code(current)] = 0
  /\ flag' = value
  /\ UNCHANGED <<lockVars, current, pc, depth, saved, raced>>

\* switch_thread, from a thread or at the end of on_tick: masks interrupts, takes
\* and releases the lock, and resumes another thread, which restores its own st
Switch(c, next) ==
  /\ At(c, "out") /\ depth[c] = 0 /\ locker \in {None, current}
  /\ field' = "off"
  /\ current' = next
  /\ saved' = [saved EXCEPT ![current] = flag]
  /\ flag' = IF next = current THEN flag ELSE saved[next]
  /\ UNCHANGED <<locker, recursive, pc, depth, raced>>

\* switch_thread when another thread has the lock: it spins, interrupts masked
SwitchSpins(c) ==
  /\ At(c, "out") /\ depth[c] = 0 /\ locker \notin {None, current}
  /\ field' = "off" /\ flag' = "off"
  /\ Goto(c, "swap")
  /\ UNCHANGED <<locker, recursive, current, depth, saved, raced>>

Next ==
  \/ \E c \in Context : \/ LockTest(c) \/ LockLoad(c) \/ LockMask(c) \/ LockTake(c)
                        \/ UnlockRelease(c) \/ UnlockUnmask(c)
                        \/ SwitchSpins(c) \/ \E next \in Thread : Switch(c, next)
  \/ Irq \/ Iret \/ SetFlag("on") \/ SetFlag("off")

Spec == Init /\ [][Next]_vars

-------------------------------------------------------------------------------
TypeOK ==
  /\ locker \in Thread \cup {None} /\ recursive \in Nat
  /\ field \in {"on", "off"} /\ flag \in {"on", "off"}
  /\ current \in Thread
  /\ pc \in [Context -> Place] /\ \A t \in Thread : pc[Code(t)] # "none"
  /\ depth \in [Context -> Nat]
  /\ saved \in [Thread -> {"on", "off"}]
  /\ raced \in {"no", "yes"}

\* The lock counts right, whatever interrupts do: recursive_ is one less than the
\* number of sections the locking thread and the handler on top of it are inside,
\* and no other thread is inside any.  So ASSERT(locker_ == cur) in unlock and
\* the ASSERT around its compare-and-swap hold (spinlock.hpp:47, 58).
DepthCounted ==
  /\ locker = None => recursive = 0
  /\ \A t \in Thread : depth[Code(t)] + depth[Handler(t)] =
                         IF locker = t THEN recursive + 1 ELSE 0

\* A section runs with interrupts masked from the compare-and-swap to the release
\* (module Scheduler takes this for granted), and no context ever spins, unless
\* an interrupt has come between the store of line 28 and the cli of line 30 of some
\* lock(): the handler's lock() then overwrote enable_interrupts_, so that line 30
\* did nothing, or that unlock() will leave interrupts masked.
MaskedUnlessRaced ==
  raced = "no" =>
    /\ locker \in {None, current}
    /\ locker # None => flag = "off"

\* The invariant behind both.  As long as no interrupt has come in the window,
\* only the running context is inside lock(), unlock() or a section; from the cli
\* on it has masked interrupts; and enable_interrupts_ is false wherever unlock()
\* must not unmask them: in a nested section, and in a handler.
Quiet(t) == pc[Code(t)] = "out" /\ depth[Code(t)] = 0

OthersOutside ==
  \A t \in Thread \ {current} :
    /\ Quiet(t) /\ pc[Handler(t)] \in {"none", "out"}
    /\ pc[Handler(t)] # "none" => saved[t] = "off"

RunningMasked ==
  /\ pc[Running] = "tested" => field = flag
  /\ pc[Running] = "mask" => field = "on"
  /\ pc[Running] \in {"swap", "released"} => flag = "off"
  /\ pc[Running] # "out" /\ locker # None => field = "off"

HandlerMasked ==
  pc[Handler(current)] # "none" =>
    /\ Quiet(current) /\ flag = "off"
    /\ pc[Handler(current)] # "out" \/ locker # None => field = "off"

Unraced ==
  /\ locker \in {None, current}
  /\ locker # None => flag = "off"
  /\ recursive > 0 => field = "off"
  /\ OthersOutside /\ RunningMasked /\ HandlerMasked

\* A handler that has returned is inside no section.
HandlersDone == \A t \in Thread : pc[Handler(t)] = "none" => depth[Handler(t)] = 0

LockInv == TypeOK /\ DepthCounted /\ HandlersDone /\ (raced = "no" => Unraced)

===============================================================================
