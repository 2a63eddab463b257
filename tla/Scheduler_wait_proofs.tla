------------------------ MODULE Scheduler_wait_proofs -------------------------
(***************************************************************************)
(* The operations by which a thread gives up the processor to wait         *)
(* (start_io and io_wait, sleep) and the idle thread's steps keep IndInv.  *)
(***************************************************************************)
EXTENDS Scheduler_process_proofs

USE DEF AnyThread

\* start_io.
LEMMA StartIOKeeps ==
  ASSUME IndInv, NEW t \in Thread, StartIO(t)
  PROVE  IndInv'
<1>0. TypeOK /\ QueuesMatchStates /\ RunningIsReady /\ CpuInv /\ PidInv
  BY DEF IndInv
<1>1. \A u \in Thread : ThreadInv(u) /\ ForkInv(u)
  BY DEF IndInv
<1> USE ConstantsAssumption
<1>2. /\ UNCHANGED <<ready, waiting, cleanup, alarmAt, due, regs, child, threads,
                     func, scan, woken, ticks, current, processes, io, queued,
                     displaced, cpu>>
      /\ current = t /\ cpu = "normal" /\ pc[t] = "user"
  BY DEF StartIO, At, Runs, queueVars, tickVars, ioVars
<1>3. /\ pc' = [pc EXCEPT ![t] = "ioStarted"] /\ "ioStarted" \in Location
      /\ pc' \in [AnyThread -> Location] /\ pc'[t] = "ioStarted"
      /\ \A u \in Thread \ {t} : pc'[u] = pc[u]
  <2>1. pc' = [pc EXCEPT ![t] = "ioStarted"] /\ "ioStarted" \in Location
    BY DEF StartIO, Goto, Location
  <2> QED BY Zenon, <1>0, <2>1, GotoProperties
<1>4. /\ state' \in [AnyThread -> State] /\ state'[t] = "eIOPending"
      /\ \A u \in Thread \ {t} : state'[u] = state[u]
  <2>1. state' = [state EXCEPT ![t] = "eIOPending"] /\ "eIOPending" \in State
    BY DEF StartIO, State
  <2> QED BY Zenon, <1>0, <2>1, SetStateProperties
<1>5. TypeOK'
  BY Zenon, <1>0, <1>2, <1>3, <1>4 DEF TypeOK
<1>6. state[t] \in Runnable /\ t \notin io /\ t \notin Range(cleanup)
  BY <1>1, <1>2 DEF ThreadInv, Runnable
<1>7. QueuesMatchStates' /\ RunningIsReady'
  BY <1>0, <1>2, <1>3, <1>4, <1>6
     DEF QueuesMatchStates, Schedulable, RunningIsReady, Runnable
<1>8. ThreadInv(t)'
  BY <1>2, <1>3, <1>4, <1>6 DEF ThreadInv, Location
<1>9. IsInjective(cleanup')
  BY <1>0, <1>2 DEF CpuInv
<1> QED BY Zenon, <1>2, <1>3, <1>4, <1>5, <1>7, <1>8, <1>9, OwnStepKeeps

\* The thread is handed to a device.
LEMMA RequestIOKeeps ==
  ASSUME IndInv, NEW t \in Thread, RequestIO(t)
  PROVE  IndInv'
<1>0. TypeOK /\ QueuesMatchStates /\ RunningIsReady /\ CpuInv /\ PidInv
  BY DEF IndInv
<1>1. \A u \in Thread : ThreadInv(u) /\ ForkInv(u)
  BY DEF IndInv
<1> USE ConstantsAssumption
<1>2. /\ UNCHANGED <<ready, waiting, cleanup, state, alarmAt, due, regs, child,
                     threads, func, scan, woken, ticks, current, processes, cpu>>
      /\ current = t /\ cpu = "normal" /\ pc[t] = "ioStarted" /\ io' = io \cup {t}
  BY DEF RequestIO, At, Runs, queueVars, tickVars
<1>3. /\ pc' = [pc EXCEPT ![t] = "ioRequested"] /\ "ioRequested" \in Location
      /\ pc' \in [AnyThread -> Location] /\ pc'[t] = "ioRequested"
      /\ \A u \in Thread \ {t} : pc'[u] = pc[u]
  <2>1. pc' = [pc EXCEPT ![t] = "ioRequested"] /\ "ioRequested" \in Location
    BY DEF RequestIO, Goto, Location
  <2> QED BY Zenon, <1>0, <2>1, GotoProperties
<1>4. io' \in SUBSET Thread /\ queued' \in SUBSET io' /\ displaced' \in SUBSET io'
  <2>1. queued' = queued \/ queued' = queued \cup {t}
    BY DEF RequestIO
  <2>2. displaced' = displaced \/ \E u \in Remembered : displaced' = displaced \cup {u}
    BY DEF RequestIO
  <2>3. io \in SUBSET Thread /\ queued \in SUBSET io /\ displaced \in SUBSET io
    BY <1>0 DEF TypeOK
  <2> QED BY <1>2, <2>1, <2>2, <2>3 DEF Remembered
<1>5. TypeOK'
  BY Zenon, <1>0, <1>2, <1>3, <1>4 DEF TypeOK
<1>6. QueuesMatchStates' /\ RunningIsReady'
  BY <1>0, <1>2, <1>3 DEF QueuesMatchStates, Schedulable, RunningIsReady
<1>7. ThreadInv(t)'
  <2>1. state[t] = "eIOPending" /\ t \notin Range(cleanup)
    BY <1>1, <1>2 DEF ThreadInv
  <2> QED BY <1>2, <1>3, <2>1 DEF ThreadInv, Location
<1>8. IsInjective(cleanup')
  BY <1>0, <1>2 DEF CpuInv
<1> QED BY Zenon, <1>2, <1>3, <1>5, <1>6, <1>7, <1>8, OwnStepKeeps

\* The buffer is already full.
LEMMA SkipIOKeeps ==
  ASSUME IndInv, NEW t \in Thread, SkipIO(t)
  PROVE  IndInv'
<1>0. TypeOK /\ QueuesMatchStates /\ RunningIsReady /\ CpuInv /\ PidInv
  BY DEF IndInv
<1>1. \A u \in Thread : ThreadInv(u) /\ ForkInv(u)
  BY DEF IndInv
<1> USE ConstantsAssumption
<1>2. /\ UNCHANGED <<ready, waiting, cleanup, state, alarmAt, due, regs, child,
                     threads, func, scan, woken, ticks, current, processes, io,
                     queued, displaced, cpu>>
      /\ current = t /\ cpu = "normal" /\ pc[t] = "ioStarted"
  BY DEF SkipIO, At, Runs, queueVars, tickVars, ioVars
<1>3. /\ pc' = [pc EXCEPT ![t] = "user"] /\ "user" \in Location
      /\ pc' \in [AnyThread -> Location] /\ pc'[t] = "user"
      /\ \A u \in Thread \ {t} : pc'[u] = pc[u]
  <2>1. pc' = [pc EXCEPT ![t] = "user"] /\ "user" \in Location
    BY DEF SkipIO, Goto, Location
  <2> QED BY Zenon, <1>0, <2>1, GotoProperties
<1>4. TypeOK'
  BY Zenon, <1>0, <1>2, <1>3 DEF TypeOK
<1>5. QueuesMatchStates' /\ RunningIsReady'
  BY <1>0, <1>2, <1>3 DEF QueuesMatchStates, Schedulable, RunningIsReady
<1>6. ThreadInv(t)'
  BY <1>1, <1>2, <1>3 DEF ThreadInv, Runnable, Location
<1>7. IsInjective(cleanup')
  BY <1>0, <1>2 DEF CpuInv
<1> QED BY Zenon, <1>2, <1>3, <1>4, <1>5, <1>6, <1>7, OwnStepKeeps

\* io_wait.
LEMMA IOWaitKeeps ==
  ASSUME IndInv, NEW t \in Thread, IOWait(t)
  PROVE  IndInv'
<1>0. TypeOK /\ QueuesMatchStates /\ RunningIsReady /\ CpuInv /\ PidInv
  BY DEF IndInv
<1>1. \A u \in Thread : ThreadInv(u) /\ ForkInv(u)
  BY DEF IndInv
<1> USE ConstantsAssumption
<1>2. /\ UNCHANGED <<waiting, cleanup, alarmAt, due, regs, child, threads, func,
                     scan, woken, ticks, current, processes, io, queued,
                     displaced, cpu>>
      /\ current = t /\ cpu = "normal" /\ pc[t] = "ioRequested"
  BY DEF IOWait, At, Runs, tickVars, ioVars
<1>3. t \notin Range(cleanup) /\ IsInjective(cleanup')
  BY <1>0, <1>1, <1>2 DEF ThreadInv, CpuInv
<1>4. CASE state[t] # "eIOPending"
  <2>1. pc' = [pc EXCEPT ![t] = "user"] /\ "user" \in Location
    BY <1>4 DEF IOWait, Goto, Location
  <2>2. /\ pc' \in [AnyThread -> Location] /\ pc'[t] = "user"
        /\ \A u \in Thread \ {t} : pc'[u] = pc[u]
    BY Zenon, <1>0, <2>1, GotoProperties
  <2>3. UNCHANGED <<state, ready>>
    BY <1>4 DEF IOWait
  <2>4. TypeOK'
    BY Zenon, <1>0, <1>2, <2>2, <2>3 DEF TypeOK
  <2>5. QueuesMatchStates' /\ RunningIsReady'
    BY <1>0, <1>2, <2>2, <2>3 DEF QueuesMatchStates, Schedulable, RunningIsReady
  <2>6. state[t] = "eReady" /\ t \notin io
    BY <1>1, <1>2, <1>4 DEF ThreadInv
  <2>7. ThreadInv(t)'
    BY <1>2, <1>3, <2>2, <2>3, <2>6 DEF ThreadInv, Runnable, Location
  <2> QED BY Zenon, <1>2, <1>3, <2>1, <2>3, <2>4, <2>5, <2>7, OwnStepKeeps
<1>5. CASE state[t] = "eIOPending"
  <2>1. pc' = [pc EXCEPT ![t] = "ioParked"] /\ "ioParked" \in Location
    BY <1>5 DEF IOWait, Goto, Location
  <2>2. /\ pc' \in [AnyThread -> Location] /\ pc'[t] = "ioParked"
        /\ \A u \in Thread \ {t} : pc'[u] = pc[u]
    BY Zenon, <1>0, <2>1, GotoProperties
  <2>3. /\ state' \in [AnyThread -> State] /\ state'[t] = "eIOWait"
        /\ \A u \in Thread \ {t} : state'[u] = state[u]
    <3>1. state' = [state EXCEPT ![t] = "eIOWait"] /\ "eIOWait" \in State
      BY <1>5 DEF IOWait, State
    <3> QED BY ZenonT(30), <1>0, <3>1, SetStateProperties
  <2>4. ready' \in Seq(Thread) /\ IsInjective(ready') /\ Range(ready') = Range(ready) \ {t}
    <3>1. ready' = Unlink(ready, t)
      BY <1>5 DEF IOWait
    <3> QED BY <1>0, <3>1, UnlinkReady
  <2>5. TypeOK'
    BY Zenon, <1>0, <1>2, <2>2, <2>3, <2>4 DEF TypeOK
  <2>6. QueuesMatchStates' /\ RunningIsReady'
    BY <1>0, <1>2, <1>5, <2>2, <2>3, <2>4 DEF QueuesMatchStates, Schedulable, RunningIsReady
  <2>7. t \in io
    BY <1>1, <1>2, <1>5 DEF ThreadInv
  <2>8. ThreadInv(t)'
    BY <1>2, <1>3, <2>2, <2>3, <2>7 DEF ThreadInv, Location
  <2> QED BY Zenon, <1>2, <1>3, <2>1, <2>3, <2>5, <2>6, <2>8, OwnStepKeeps
<1> QED BY <1>4, <1>5

\* sleep.
LEMMA SleepKeeps ==
  ASSUME IndInv, NEW t \in Thread, NEW secs \in Secs, Sleep(t, secs)
  PROVE  IndInv'
<1>0. TypeOK /\ QueuesMatchStates /\ RunningIsReady /\ CpuInv /\ PidInv
  BY DEF IndInv
<1>1. \A u \in Thread : ThreadInv(u) /\ ForkInv(u)
  BY DEF IndInv
<1> USE ConstantsAssumption
<1>2. /\ UNCHANGED <<cleanup, regs, child, threads, func, scan, woken, ticks,
                     current, processes, io, queued, displaced, cpu>>
      /\ current = t /\ cpu = "normal" /\ pc[t] = "user"
  BY DEF Sleep, At, Runs, tickVars, ioVars
<1>3. /\ pc' = [pc EXCEPT ![t] = "asleep"] /\ "asleep" \in Location
      /\ pc' \in [AnyThread -> Location] /\ pc'[t] = "asleep"
      /\ \A u \in Thread \ {t} : pc'[u] = pc[u]
  <2>1. pc' = [pc EXCEPT ![t] = "asleep"] /\ "asleep" \in Location
    BY DEF Sleep, Goto, Location
  <2> QED BY Zenon, <1>0, <2>1, GotoProperties
<1>4. /\ state' \in [AnyThread -> State] /\ state'[t] = "eWaiting"
      /\ \A u \in Thread \ {t} : state'[u] = state[u]
  <2>1. state' = [state EXCEPT ![t] = "eWaiting"] /\ "eWaiting" \in State
    BY DEF Sleep, State
  <2> QED BY Zenon, <1>0, <2>1, SetStateProperties
<1>5. /\ ready' \in Seq(Thread) /\ IsInjective(ready')
      /\ Range(ready') = Range(ready) \ {t}
  BY <1>0, UnlinkReady DEF Sleep
<1>6. t \notin Range(waiting)
  BY <1>0, <1>1 DEF Sleep, At, Runs, ThreadInv, Runnable, QueuesMatchStates
<1>7. /\ waiting' \in Seq(Thread) /\ IsInjective(waiting')
      /\ Range(waiting') = Range(waiting) \cup {t}
  <2> DEFINE linked == Range(Unlink(ready, t)) \cup Range(waiting)
  <2>1. t \notin linked
    BY <1>0, <1>6, UnlinkReady
  <2>2. waiting' = PrependTo(waiting, t, linked)
    BY DEF Sleep
  <2> HIDE DEF linked
  <2>3. waiting \in Seq(Thread) /\ IsInjective(waiting)
    BY <1>0 DEF TypeOK, QueuesMatchStates
  <2> QED BY <1>6, <2>1, <2>2, <2>3, PrependProperties
<1>8. alarmAt' \in [AnyThread -> 0 .. TickMod - 1] /\ due' \in [AnyThread -> Int]
  <2>1. secs \in Int /\ SliceHz \in Int /\ ticks \in Int /\ TickMod \in Nat \ {0}
    BY <1>0 DEF TypeOK
  <2>2. secs * SliceHz \in Int
    BY <2>1
  <2>3. (ticks + secs * SliceHz) % TickMod \in 0 .. TickMod - 1
    BY <2>1, <2>2
  <2>4. alarmAt' \in [AnyThread -> 0 .. TickMod - 1]
    BY SMTT(30), <1>0, <2>3 DEF Sleep, TypeOK
  <2>5. ticks + secs * SliceHz \in Int
    BY <2>1, <2>2
  <2> QED BY SMTT(30), <1>0, <2>4, <2>5 DEF Sleep, TypeOK
<1>9. TypeOK'
  BY Zenon, <1>0, <1>2, <1>3, <1>4, <1>5, <1>7, <1>8 DEF TypeOK
<1>10. QueuesMatchStates'
  BY <1>0, <1>2, <1>3, <1>4, <1>5, <1>7 DEF QueuesMatchStates, Schedulable
<1>11. RunningIsReady'
  BY <1>2, <1>3 DEF RunningIsReady
<1>12. ThreadInv(t)'
  <2>1. t \notin io /\ t \notin Range(cleanup)
    BY <1>1, <1>2 DEF ThreadInv, Runnable
  <2> QED BY <1>2, <1>3, <1>4, <2>1 DEF ThreadInv, Location
<1>13. IsInjective(cleanup')
  BY <1>0, <1>2 DEF CpuInv
<1> QED BY Zenon, <1>2, <1>3, <1>4, <1>9, <1>10, <1>11, <1>12, <1>13, OwnStepKeeps

\* on_idle frees the processes on the cleanup list.
LEMMA OnIdleKeeps ==
  ASSUME IndInv, OnIdle
  PROVE  IndInv'
<1>0. TypeOK /\ QueuesMatchStates /\ RunningIsReady /\ CpuInv /\ PidInv
  BY DEF IndInv
<1>1. \A u \in Thread : ThreadInv(u) /\ ForkInv(u)
  BY DEF IndInv
<1> USE ConstantsAssumption
<1>2. current = Idle /\ Idle \notin Range(cleanup)
  BY <1>0, HeadInRange DEF OnIdle, FreeThreads, At, Runs, TypeOK
<1>3. \A u \in Thread :
        /\ u \in Range(cleanup) => pc'[u] = "unborn" /\ state'[u] = "uninit" /\ regs'[u] = "zero"
        /\ u \notin Range(cleanup) =>
             pc'[u] = pc[u] /\ state'[u] = state[u] /\ regs'[u] = regs[u]
  BY <1>0 DEF OnIdle, FreeThreads, TypeOK
<1>4. pc'[Idle] = "idleCleaned"
  BY DEF OnIdle, FreeThreads
<1>5. Range(cleanup') = {} /\ IsInjective(cleanup')
  BY DEF OnIdle, FreeThreads, Range, IsInjective
<1>6. \A u \in Range(cleanup) :
        u \in Thread => u \notin io /\ state[u] \notin {"eWaiting", "uninit"}
                       /\ pc[u] \in {"exiting", "gone"}
  BY <1>0, <1>1, <1>2 DEF ThreadInv, Runnable
<1>7. TypeOK'
  <2>1. state' \in [AnyThread -> State] /\ regs' \in [AnyThread -> Thread \cup {"zero", "own"}]
    BY <1>0 DEF OnIdle, FreeThreads, TypeOK, State
  <2>2. alarmAt' \in [AnyThread -> 0 .. TickMod - 1]
    BY <1>0 DEF OnIdle, FreeThreads, TypeOK
  <2>3. pc' \in [AnyThread -> Location]
    BY <1>0 DEF OnIdle, FreeThreads, TypeOK, Location
  <2>4. processes' \in [0 .. MaxProcesses - 1 -> AnyThread \cup {None}]
    BY <1>0 DEF OnIdle, TypeOK
  <2>5. threads' \in SUBSET Thread /\ func' \in SUBSET Thread /\ due' = due
    BY <1>0 DEF OnIdle, FreeThreads, TypeOK
  <2>6. /\ UNCHANGED <<ready, waiting, child, scan, woken, ticks, current, io, queued,
                       displaced, cpu>>
        /\ cleanup' = <<>>
    BY DEF OnIdle, tickVars, ioVars
  <2> QED BY <1>0, <2>1, <2>2, <2>3, <2>4, <2>5, <2>6 DEF TypeOK
<1>8. QueuesMatchStates'
  BY <1>0, <1>1, <1>3, <1>6 DEF OnIdle, FreeThreads, QueuesMatchStates, Schedulable
<1>9. RunningIsReady'
  BY <1>2 DEF OnIdle, FreeThreads, RunningIsReady
<1>10. CpuInv'
  BY <1>2, <1>4, <1>5 DEF OnIdle, FreeThreads, CpuInv
<1>11. PidInv'
  BY <1>0, <1>2, <1>3, <1>4, <1>6 DEF OnIdle, FreeThreads, PidInv, TypeOK
<1>12. ASSUME NEW u \in Thread PROVE ThreadInv(u)'
  <2>1. CASE u \in Range(cleanup)
    BY ZenonT(30), <2>1, <1>1, <1>2, <1>3, <1>5, <1>6
       DEF OnIdle, FreeThreads, ioVars, ThreadInv, Location
  <2>2. CASE u \notin Range(cleanup)
    BY Zenon, <2>2, <1>1, <1>2, <1>3, <1>5, ThreadFrame DEF OnIdle, FreeThreads, ioVars
  <2> QED BY <2>1, <2>2
<1>13. \A u \in Thread : ForkInv(u)'
  BY <1>1, <1>3, <1>6, ForkFrame DEF OnIdle, FreeThreads
<1> QED BY <1>7, <1>8, <1>9, <1>10, <1>11, <1>12, <1>13 DEF IndInv

\* hlt.
LEMMA IdleHaltKeeps ==
  ASSUME IndInv, IdleHalt
  PROVE  IndInv'
<1>0. TypeOK /\ QueuesMatchStates /\ RunningIsReady /\ CpuInv /\ PidInv
  BY DEF IndInv
<1>1. \A u \in Thread : ThreadInv(u) /\ ForkInv(u)
  BY DEF IndInv
<1> USE ConstantsAssumption
<1>2. /\ UNCHANGED <<ready, waiting, cleanup, state, alarmAt, due, regs, child,
                     threads, func, scan, woken, ticks, current, processes, io,
                     queued, displaced, cpu>>
      /\ current = Idle
  BY DEF IdleHalt, At, Runs, queueVars, tickVars, ioVars
<1>3. /\ pc' \in [AnyThread -> Location] /\ pc'[Idle] = "idleHalted"
      /\ \A u \in Thread : pc'[u] = pc[u]
  <2>1. pc' = [pc EXCEPT ![Idle] = "idleHalted"] /\ "idleHalted" \in Location
    BY DEF IdleHalt, Goto, Location
  <2> QED BY ZenonT(30), <1>0, <2>1, GotoProperties
<1>4. TypeOK'
  BY Zenon, <1>0, <1>2, <1>3 DEF TypeOK
<1>5. QueuesMatchStates' /\ RunningIsReady'
  BY <1>0, <1>2, <1>3 DEF QueuesMatchStates, Schedulable, RunningIsReady
<1>6. CpuInv'
  BY <1>0, <1>2, <1>3 DEF CpuInv
<1>7. PidInv'
  BY <1>0, <1>2, <1>3, PidFrame
<1>8. ASSUME NEW u \in Thread PROVE ThreadInv(u)'
  BY <1>1, <1>2, <1>3, ThreadFrame
<1>9. \A u \in Thread : ForkInv(u)'
  BY <1>1, <1>2, <1>3, ForkFrame
<1> QED BY <1>4, <1>5, <1>6, <1>7, <1>8, <1>9 DEF IndInv

===============================================================================
