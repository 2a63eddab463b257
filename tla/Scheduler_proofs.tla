--------------------------- MODULE Scheduler_proofs ---------------------------
(***************************************************************************)
(* The safety properties of module Scheduler, for any number of threads,   *)
(* process slots and tick values. The modules this one extends show that   *)
(* every action keeps IndInv; so IndInv is inductive, and the properties   *)
(* follow from it.                                                         *)
(***************************************************************************)
EXTENDS Scheduler_switch_proofs

USE DEF AnyThread

\* The state kmain leaves to the idle loop.
LEMMA InitInv == Init => IndInv
<1> SUFFICES ASSUME Init PROVE IndInv
  OBVIOUS
<1> USE ConstantsAssumption DEF Init
<1>1. Range(<<>>) = {} /\ IsInjective(<<>>)
  BY DEF Range, IsInjective
<1>2. <<>> \in Seq(Thread)
  OBVIOUS
<1>3. TypeOK
  <2>1. 0 \in 0 .. TickMod - 1 /\ 0 \in 0 .. MaxProcesses - 1
    OBVIOUS
  <2>2. /\ state \in [AnyThread -> State] /\ pc \in [AnyThread -> Location]
        /\ regs \in [AnyThread -> Thread \cup {"zero", "own"}]
        /\ child \in [AnyThread -> Thread \cup {None}]
    BY DEF State, Location
  <2>3. /\ alarmAt \in [AnyThread -> 0 .. TickMod - 1] /\ ticks \in 0 .. TickMod - 1
        /\ processes \in [0 .. MaxProcesses - 1 -> AnyThread \cup {None}]
    BY <2>1
  <2> QED BY <1>2, <2>2, <2>3 DEF TypeOK
<1>4. QueuesMatchStates /\ RunningIsReady
  BY <1>1 DEF QueuesMatchStates, Schedulable, RunningIsReady
<1>5. CpuInv /\ PidInv
  BY <1>1 DEF CpuInv, PidInv
<1>6. ASSUME NEW t \in Thread PROVE ThreadInv(t) /\ ForkInv(t)
  BY <1>1 DEF ThreadInv, ForkInv, Location
<1> QED BY <1>3, <1>4, <1>5, <1>6 DEF IndInv

\* Every step of the kernel keeps the inductive invariant.
LEMMA NextKeeps == IndInv /\ [Next]_vars => IndInv'
<1> SUFFICES ASSUME IndInv, [Next]_vars PROVE IndInv'
  OBVIOUS
<1>1. CASE UNCHANGED vars
  <2>1. UNCHANGED <<ready, waiting, cleanup, state, alarmAt, due, pc, regs, child, threads, func,
                    scan, woken, ticks, current, processes, io, queued, displaced, cpu>>
    BY <1>1 DEF vars, queueVars, threadVars, tickVars, ioVars
  <2>2. /\ TypeOK /\ QueuesMatchStates /\ RunningIsReady /\ CpuInv /\ PidInv
        /\ \A u \in Thread : ThreadInv(u) /\ ForkInv(u)
    BY DEF IndInv
  <2>3. TypeOK' /\ RunningIsReady' /\ CpuInv' /\ PidInv'
    BY ZenonT(30), <2>1, <2>2, PidFrame DEF TypeOK, RunningIsReady, CpuInv
  <2>4. QueuesMatchStates'
    BY <2>1, <2>2 DEF QueuesMatchStates, Schedulable
  <2>5. \A u \in Thread : ThreadInv(u)' /\ ForkInv(u)'
    BY <2>1, <2>2, ThreadFrame, ForkFrame
  <2> QED BY <2>3, <2>4, <2>5 DEF IndInv
<1>2. ASSUME NEW t \in Thread, SpawnInit(t) \/ Syscall(t) \/ KernelStep(t) \/ IOComplete(t)
      PROVE  IndInv'
  <2>1. CASE Syscall(t)
    BY <2>1, ForkCreateKeeps, ExecKeeps, StartNewThreadReturnKeeps, ExitKeeps, SleepKeeps,
       StartIOKeeps DEF Syscall
  <2>2. CASE KernelStep(t)
    BY <2>2, ForkReadyKeeps, ForkSaveKeeps, ForkReturnKeeps, RequestIOKeeps, SkipIOKeeps,
       IOWaitKeeps DEF KernelStep
  <2> QED BY <1>2, <2>1, <2>2, SpawnInitKeeps, IOCompleteKeeps
<1>3. ASSUME NEW t \in AnyThread, CallSwitch(t) PROVE IndInv'
  BY <1>3, CallSwitchKeeps
<1>4. CASE OnIdle \/ IdleHalt \/ Tick \/ TickVisit \/ TickDone
  BY <1>4, OnIdleKeeps, IdleHaltKeeps, TickKeeps, TickVisitKeeps, TickDoneKeeps
<1>5. CASE Halted
  BY <1>1, <1>5 DEF Halted
<1> QED BY <1>1, <1>2, <1>3, <1>4, <1>5 DEF Next

\* IndInv holds in every reachable state of the kernel.
THEOREM SchedulerInvariant == Spec => []IndInv
BY InitInv, NextKeeps, PTL DEF Spec

\* The run queues always agree with the thread states, and the running thread is
\* where sleep, io_wait and exit expect it.
THEOREM QueuesCorrect == Spec => [](QueuesMatchStates /\ RunningIsReady)
<1>1. IndInv => QueuesMatchStates /\ RunningIsReady
  BY DEF IndInv
<1> QED BY <1>1, SchedulerInvariant, PTL

\* No completion interrupt between start_io and switch_thread is ever lost.
THEOREM WakeupsKept == Spec => []NoLostWakeup
<1>1. IndInv => NoLostWakeup
  BY DEF IndInv, ThreadInv, NoLostWakeup
<1> QED BY <1>1, SchedulerInvariant, PTL

\* cleanup() never frees a process that can still run.
THEOREM CleanupSafe == Spec => []NoUseAfterCleanup
<1>1. IndInv => NoUseAfterCleanup
  <2> SUFFICES ASSUME IndInv PROVE NoUseAfterCleanup
    OBVIOUS
  <2> USE ConstantsAssumption
  <2>1. TypeOK /\ QueuesMatchStates /\ RunningIsReady /\ CpuInv /\ PidInv
    BY DEF IndInv
  <2>2. \A u \in Thread : ThreadInv(u)
    BY DEF IndInv
  <2>3. /\ Range(ready) \subseteq Thread /\ Range(waiting) \subseteq Thread
        /\ Range(cleanup) \subseteq Thread /\ io \subseteq Thread
    BY <2>1, HeadInRange DEF TypeOK
  <2>4. \A u \in Range(ready) \cup Range(waiting) \cup io :
          pc[u] \notin {"unborn", "exiting", "exitingMasked", "returned", "gone"}
    BY <2>1, <2>2, <2>3 DEF QueuesMatchStates, Schedulable, ThreadInv, Runnable
  <2>5. current \in Thread => pc[current] \notin {"unborn", "gone"}
    BY <2>1, <2>2, <2>4 DEF RunningIsReady
  <2>6. \A u \in Thread : pc[u] # "unborn" => HasOnePid(u)
    BY <2>1 DEF PidInv, HasOnePid
  <2>7. HasOnePid(Idle)
    <3>1. 0 \in DOMAIN processes /\ processes[0] = Idle
      BY <2>1 DEF PidInv, TypeOK
    <3>2. \A q \in DOMAIN processes : processes[q] = Idle <=> q = 0
      BY <2>1, <3>1 DEF PidInv
    <3> QED BY <3>1, <3>2 DEF HasOnePid
  <2>8. \A u \in Range(ready) \cup Range(waiting) \cup io \cup {current} : HasOnePid(u)
    BY <2>1, <2>3, <2>4, <2>5, <2>6, <2>7 DEF TypeOK
  <2>9. \A u \in Range(cleanup) : pc[u] \in {"exiting", "exitingMasked", "gone"}
    BY <2>2, <2>3 DEF ThreadInv
  <2> QED BY <2>3, <2>4, <2>5, <2>8, <2>9 DEF NoUseAfterCleanup
<1> QED BY <1>1, SchedulerInvariant, PTL

\* new_pid never takes the slot of a process that cleanup() has not reaped.
THEOREM PidsKept == Spec => PidsNotStolen
<1>1. IndInv /\ [Next]_vars => [FreedOnlyByCleanup]_vars
  <2> SUFFICES ASSUME IndInv, Next PROVE FreedOnlyByCleanup
    OBVIOUS
  <2> USE ConstantsAssumption
  <2>0. TypeOK /\ PidInv
    BY DEF IndInv
  <2>1. ASSUME NEW t \in Thread, SpawnInit(t) PROVE FreedOnlyByCleanup
    <3>1. processes' = [processes EXCEPT ![1] = t] /\ pc[Idle] = "boot"
      BY <2>1 DEF SpawnInit, At
    <3>2. \A p \in DOMAIN processes : p # 0 => processes[p] = None
      BY <2>0, <3>1 DEF PidInv
    <3>3. \A p \in DOMAIN processes : processes'[p] # processes[p] => p = 1
      BY <2>0, <3>1 DEF TypeOK
    <3> QED BY <3>2, <3>3 DEF FreedOnlyByCleanup
  <2>2. ASSUME NEW t \in Thread, NEW c \in Thread, ForkCreate(t, c) PROVE FreedOnlyByCleanup
    <3>1. CASE UNCHANGED processes
      BY <3>1 DEF FreedOnlyByCleanup
    <3>2. ASSUME NEW n \in FreePids, processes' = [processes EXCEPT ![n] = c]
          PROVE  FreedOnlyByCleanup
      BY <2>0, <3>2 DEF FreedOnlyByCleanup, FreePids, TypeOK
    <3> QED BY <2>2, <3>1, <3>2 DEF ForkCreate
  <2>3. CASE OnIdle
    <3>1. \A p \in DOMAIN processes :
            processes'[p] = IF processes[p] \in Range(cleanup) THEN None ELSE processes[p]
      BY <2>3 DEF OnIdle
    <3> QED BY <3>1 DEF FreedOnlyByCleanup
  <2>4. CASE UNCHANGED processes
    BY <2>4 DEF FreedOnlyByCleanup
  <2>5. ASSUME NEW t \in Thread, Syscall(t) \/ KernelStep(t) \/ IOComplete(t),
               \A c \in Thread : ~ForkCreate(t, c)
        PROVE  UNCHANGED processes
    BY <2>5 DEF Syscall, KernelStep, Exec, StartNewThreadReturn, Exit, Sleep, StartIO,
       ForkReady, ForkSave, ForkReturn, RequestIO, SkipIO, IOWait, IOComplete
  <2>6. ASSUME NEW t \in AnyThread, CallSwitch(t) PROVE UNCHANGED processes
    BY <2>6 DEF CallSwitch
  <2>7. ASSUME IdleHalt \/ Tick \/ TickVisit \/ TickDone \/ Halted PROVE UNCHANGED processes
    BY <2>7 DEF IdleHalt, Tick, TickVisit, TickDone, Halted, vars
  <2> QED BY <2>1, <2>2, <2>3, <2>4, <2>5, <2>6, <2>7 DEF Next
<1> QED BY <1>1, SchedulerInvariant, PTL DEF Spec, PidsNotStolen

===============================================================================
