----------------------- MODULE Scheduler_switch_proofs ------------------------
(***************************************************************************)
(* switch_thread, on_tick and the completion interrupt keep IndInv.        *)
(***************************************************************************)
EXTENDS Scheduler_wait_proofs

USE DEF AnyThread

\* switch_thread, called by the running thread or at the end of on_tick.
LEMMA SwitchKeeps ==
  ASSUME IndInv, cpu # "halted", NEW after, SwitchThread(ready, after),
         UNCHANGED <<waiting, cleanup, state, alarmAt, due, child, threads, func, ticks,
                     processes, io, queued, displaced, scan>>,
         woken' \in SUBSET Thread,
         current = Idle => after \in {"boot", "idleLoop", "idleCleaned", "idleAwake", "idleHalted"}
                           /\ (after = "boot" => pc[Idle] = "boot"),
         current # Idle =>
           \/ after = "user" /\ pc[current] \in {"user", "asleep", "ioParked"}
           \/ after = "gone" /\ pc[current] \in {"exiting", "exitingMasked", "returned"}
           \/ after = pc[current] /\ after \notin {"asleep", "exitingMasked"}
  PROVE  IndInv'
<1>0. TypeOK /\ QueuesMatchStates /\ RunningIsReady /\ CpuInv /\ PidInv
  BY DEF IndInv
<1>1. \A u \in Thread : ThreadInv(u) /\ ForkInv(u)
  BY DEF IndInv
<1> USE ConstantsAssumption
<1>2. /\ ready' \in Seq(Thread) /\ IsInjective(ready')
      /\ Range(ready') = Range(ready)
      /\ current' \in Range(ready) \/ current' = Idle
      /\ cpu' = IF current' = current \/ regs[current'] # "zero" THEN "normal" ELSE "halted"
      /\ regs' = [regs EXCEPT ![current] = "own"]
      /\ pc' = [pc EXCEPT ![current] = after]
  BY <1>0, SwitchProperties
<1>3. Range(ready) \subseteq Thread
  BY <1>0, HeadInRange DEF TypeOK
<1>4. current' \in Thread =>
        /\ state[current'] \in Runnable
        /\ pc[current'] \notin {"exiting", "exitingMasked", "returned", "gone", "unborn"}
  BY <1>0, <1>1, <1>2 DEF QueuesMatchStates, Schedulable, Runnable, ThreadInv
<1>5. after \in Location
  BY <1>0 DEF TypeOK, Location
<1>6. \A u \in Thread : pc'[u] = "unborn" <=> pc[u] = "unborn"
  BY <1>0, <1>2 DEF CpuInv, TypeOK
<1>7. TypeOK'
  BY <1>0, <1>2, <1>3, <1>5 DEF TypeOK
<1>8. QueuesMatchStates'
  <2>1. ASSUME NEW u \in Thread, state[u] \in Runnable
        PROVE  Schedulable(u)' <=> Schedulable(u)
    BY <2>1, <1>0, <1>1, <1>2 DEF Schedulable, ThreadInv, Runnable, TypeOK
  <2> QED BY <2>1, <1>0, <1>2 DEF QueuesMatchStates, Runnable
<1>9. RunningIsReady'
  BY <1>0, <1>2, <1>4 DEF RunningIsReady, QueuesMatchStates, Runnable
<1>10. CpuInv'
  <2>1. pc'[Idle] \in {"boot", "idleLoop", "idleCleaned", "idleAwake", "idleHalted"}
    BY <1>0, <1>2 DEF CpuInv, TypeOK
  <2>2. cpu' # "halted" => pc'[current'] \notin {"unborn", "embryo", "gone"}
    <3>1. CASE current' = Idle
      BY <3>1, <2>1
    <3>2. CASE current' # Idle /\ current' = current
      BY <3>2, <1>0, <1>2, <1>3, <1>4 DEF CpuInv, TypeOK
    <3>3. CASE current' # Idle /\ current' # current
      BY <3>3, <1>0, <1>1, <1>2, <1>3, <1>4 DEF ThreadInv, TypeOK
    <3> QED BY <3>1, <3>2, <3>3
  <2> QED BY <2>1, <2>2, <1>0, <1>2 DEF CpuInv
<1>11. PidInv'
  BY <1>0, <1>2, <1>6, PidFrame DEF TypeOK
<1>12. ASSUME NEW u \in Thread PROVE ThreadInv(u)'
  <2>1. CASE u = current
    <3>1. /\ pc'[u] = after /\ regs'[u] = "own" /\ ThreadInv(u) /\ pc[u] \notin {"unborn", "embryo"}
          /\ UNCHANGED <<state, io, queued, displaced, cleanup>> /\ current # Idle
          /\ u = current' => state[u] \in Runnable
      BY <2>1, <1>0, <1>1, <1>2, <1>4 DEF TypeOK, CpuInv
    <3>2. CASE after = "user" /\ pc[u] \in {"user", "asleep", "ioParked"}
      BY <3>1, <3>2 DEF ThreadInv, Runnable, Location
    <3>3. CASE after = "gone" /\ pc[u] \in {"exiting", "exitingMasked", "returned"}
      BY <3>1, <3>3 DEF ThreadInv, Runnable, Location
    <3>4. CASE after = pc[u] /\ after \notin {"asleep", "exitingMasked"}
      BY <3>1, <3>4 DEF ThreadInv, Runnable, Location
    <3> QED BY <2>1, <3>1, <3>2, <3>3, <3>4
  <2>2. CASE u # current /\ u = current'
    BY <2>2, <1>0, <1>1, <1>2, <1>4 DEF ThreadInv, Runnable, Location, TypeOK
  <2>3. CASE u # current /\ u # current'
    BY <2>3, <1>0, <1>1, <1>2, ThreadFrame DEF TypeOK
  <2> QED BY <2>1, <2>2, <2>3
<1>13. \A u \in Thread : ForkInv(u)'
  BY <1>0, <1>1, <1>2, ForkFrame DEF TypeOK, CpuInv
<1> QED BY <1>7, <1>8, <1>9, <1>10, <1>11, <1>12, <1>13 DEF IndInv

\* switch_thread as the last call of yield, sleep, io_wait, exit,
\* start_new_thread and on_idle.
LEMMA CallSwitchKeeps ==
  ASSUME IndInv, NEW t \in AnyThread, CallSwitch(t)
  PROVE  IndInv'
<1>1. /\ cpu = "normal" /\ current = t /\ SwitchThread(ready, AfterSwitch(pc[t]))
      /\ UNCHANGED <<waiting, cleanup, state, alarmAt, due, child, threads, func, ticks,
                     processes, io, queued, displaced, scan>>
      /\ woken' = woken
  BY DEF CallSwitch, Runs, tickVars, ioVars
<1>2. woken' \in SUBSET Thread
  BY <1>1 DEF IndInv, TypeOK
<1>3. ASSUME current = Idle PROVE AfterSwitch(pc[t]) = "idleAwake"
  BY <1>3, <1>1 DEF CallSwitch, AfterSwitch, IndInv, CpuInv
<1>4. ASSUME current # Idle
      PROVE  \/ AfterSwitch(pc[t]) = "user" /\ pc[t] \in {"user", "asleep", "ioParked"}
             \/ AfterSwitch(pc[t]) = "gone"
                  /\ pc[t] \in {"exiting", "exitingMasked", "returned"}
  <2>1. t \in Thread /\ pc[t] # "idleCleaned"
    BY <1>1, <1>4 DEF IndInv, ThreadInv
  <2> QED BY <2>1 DEF CallSwitch, AfterSwitch
<1> HIDE DEF AfterSwitch
<1> QED BY <1>1, <1>2, <1>3, <1>4, SwitchKeeps

\* The timer interrupt.
LEMMA TickKeeps ==
  ASSUME IndInv, Tick
  PROVE  IndInv'
<1>0. TypeOK /\ QueuesMatchStates /\ RunningIsReady /\ CpuInv /\ PidInv
  BY DEF IndInv
<1>1. \A u \in Thread : ThreadInv(u) /\ ForkInv(u)
  BY DEF IndInv
<1> USE ConstantsAssumption
<1>2. (ticks + 1) % TickMod \in 0 .. TickMod - 1
  BY <1>0 DEF TypeOK
<1>3. /\ pc' \in [AnyThread -> Location] /\ \A u \in Thread : pc'[u] = pc[u]
      /\ pc'[Idle] = pc[Idle] \/ pc'[Idle] = "idleLoop"
      /\ current \in Thread => pc'[current] = pc[current]
  BY <1>0 DEF Tick, WakeCpu, Goto, TypeOK, Location
<1>4. pc[current] \notin {"asleep", "exitingMasked"}
  BY DEF Tick, InterruptsEnabled
<1>5. due' \in [AnyThread -> Int]
  <2>1. due' = [u \in AnyThread |-> IF ticks' = 0 /\ due[u] >= 0 /\ state[u] = "eWaiting"
                                    THEN due[u] - TickMod ELSE due[u]]
    BY DEF Tick, DueFrom
  <2> QED BY <2>1, <1>0 DEF TypeOK
<1>6. TypeOK'
  BY <1>0, <1>2, <1>3, <1>5 DEF Tick, queueVars, ioVars, TypeOK
<1>7. QueuesMatchStates'
  BY <1>0, <1>3 DEF Tick, queueVars, ioVars, QueuesMatchStates, Schedulable
<1>8. RunningIsReady'
  BY <1>0, <1>3 DEF Tick, queueVars, ioVars, RunningIsReady
<1>9. CpuInv'
  <2>1. current = Idle \/ current \in Thread
    BY <1>0 DEF TypeOK
  <2>2. cpu = "normal" /\ current' = current /\ cleanup' = cleanup
    BY DEF Tick, InterruptsEnabled, queueVars
  <2>3. pc[current] \notin {"unborn", "embryo", "gone"}
    BY <2>2, <1>0 DEF CpuInv
  <2>4. pc'[Idle] \in {"boot", "idleLoop", "idleCleaned", "idleAwake", "idleHalted"}
    BY <1>0, <1>3 DEF CpuInv
  <2>5. pc'[current] \notin {"asleep", "exitingMasked", "unborn", "embryo", "gone"}
    BY <2>1, <2>3, <2>4, <1>3, <1>4
  <2> QED BY <2>2, <2>4, <2>5, <1>0 DEF CpuInv
<1>10. PidInv'
  BY <1>0, <1>3, PidFrame DEF Tick
<1>11. ASSUME NEW u \in Thread PROVE ThreadInv(u)'
  BY <1>1, <1>3, ThreadFrame DEF Tick, queueVars, ioVars
<1>12. \A u \in Thread : ForkInv(u)'
  BY <1>1, <1>3, ForkFrame DEF Tick
<1> QED BY <1>6, <1>7, <1>8, <1>9, <1>10, <1>11, <1>12 DEF IndInv

\* One turn of the loop of on_tick.
LEMMA TickVisitKeeps ==
  ASSUME IndInv, TickVisit
  PROVE  IndInv'
<1>0. TypeOK /\ QueuesMatchStates /\ RunningIsReady /\ CpuInv /\ PidInv
  BY DEF IndInv
<1>1. \A u \in Thread : ThreadInv(u) /\ ForkInv(u)
  BY DEF IndInv
<1> USE ConstantsAssumption
<1> DEFINE h == Head(scan)
<1>2. /\ h \in Thread /\ scan' \in Seq(Thread)
      /\ UNCHANGED <<cleanup, alarmAt, pc, regs, child, threads, func, ticks,
                     current, processes, io, queued, displaced, cpu>>
  BY <1>0, HeadInRange DEF TickVisit, ioVars, TypeOK
<1>3. CASE AlarmExpired(h)
  <2> DEFINE rest == Unlink(waiting, h)
             linked == Range(ready) \cup Range(rest)
  <2>1. /\ waiting' = rest /\ state' = [state EXCEPT ![h] = "eReady"]
        /\ ready' = PrependTo(ready, h, linked) /\ woken' = woken \cup {h}
        /\ due' = [due EXCEPT ![h] = 0]
    BY <1>3 DEF TickVisit
  <2>2. state[h] = "eWaiting" /\ h \notin Range(ready)
    BY <1>0, <1>2, <1>3 DEF AlarmExpired, QueuesMatchStates
  <2>3. rest \in Seq(Thread) /\ IsInjective(rest) /\ Range(rest) = Range(waiting) \ {h}
    BY <1>0, UnlinkProperties DEF TypeOK, QueuesMatchStates
  <2>4. h \notin linked
    BY <2>2, <2>3
  <2> HIDE DEF rest, linked, h
  <2>5. /\ ready' \in Seq(Thread) /\ IsInjective(ready')
        /\ Range(ready') = Range(ready) \cup {h}
    <3>1. ready \in Seq(Thread) /\ IsInjective(ready)
      BY <1>0 DEF TypeOK, QueuesMatchStates
    <3> QED BY <3>1, <1>2, <2>1, <2>2, <2>4, PrependProperties
  <2>6. pc[h] = "user" /\ h # current
    BY <1>0, <1>1, <1>2, <2>2 DEF ThreadInv, Runnable, CpuInv, TickVisit, Location
  <2>7. TypeOK'
    <3>1. due \in [AnyThread -> Int]
      BY <1>0 DEF TypeOK
    <3>2. due' \in [AnyThread -> Int]
      <4>1. due' = [due EXCEPT ![h] = 0]
        BY <2>1
      <4>2. h \in AnyThread
        BY <1>2
      <4> QED BY <3>1, <4>1, <4>2
    <3> QED BY Zenon, <3>2, <1>0, <1>2, <2>1, <2>3, <2>5 DEF TypeOK, State
  <2>8. QueuesMatchStates'
    BY ZenonT(30), <1>0, <1>2, <2>1, <2>2, <2>3, <2>5, <2>6 DEF QueuesMatchStates, Schedulable, TypeOK
  <2>9. RunningIsReady'
    BY <1>0, <1>2, <2>1, <2>3, <2>5 DEF RunningIsReady
  <2>10. CpuInv' /\ PidInv'
    BY <1>0, <1>2, PidFrame DEF CpuInv
  <2>11. ASSUME NEW u \in Thread PROVE ThreadInv(u)'
    <3>1. CASE u = h
      BY ZenonT(30), <3>1, <1>0, <1>1, <1>2, <2>1, <2>2, <2>6 DEF ThreadInv, Runnable, TypeOK
    <3>2. CASE u # h
      BY <3>2, <1>0, <1>1, <1>2, <2>1, ThreadFrame DEF TypeOK
    <3> QED BY <3>1, <3>2
  <2>12. \A u \in Thread : ForkInv(u)'
    BY Zenon, <1>0, <1>1, <1>2, <2>1, <2>6, ForkFrame DEF TypeOK
  <2> QED BY <2>7, <2>8, <2>9, <2>10, <2>11, <2>12 DEF IndInv
<1>4. CASE ~AlarmExpired(h)
  <2>1. UNCHANGED <<waiting, state, ready, woken, due>>
    BY <1>4 DEF TickVisit
  <2>2. TypeOK' /\ QueuesMatchStates' /\ RunningIsReady' /\ CpuInv' /\ PidInv'
    BY ZenonT(30), <1>0, <1>2, <2>1, PidFrame
       DEF TypeOK, QueuesMatchStates, Schedulable, RunningIsReady, CpuInv
  <2>3. \A u \in Thread : ThreadInv(u)' /\ ForkInv(u)'
    BY Zenon, <1>1, <1>2, <2>1, ThreadFrame, ForkFrame
  <2> QED BY <2>2, <2>3 DEF IndInv
<1> QED BY <1>3, <1>4

\* The end of on_tick.
LEMMA TickDoneKeeps ==
  ASSUME IndInv, TickDone
  PROVE  IndInv'
<1>0. TypeOK /\ QueuesMatchStates /\ RunningIsReady /\ CpuInv /\ PidInv
  BY DEF IndInv
<1>1. \A u \in Thread : ThreadInv(u) /\ ForkInv(u)
  BY DEF IndInv
<1>2. /\ UNCHANGED <<waiting, cleanup, state, alarmAt, due, child, threads, func, scan, ticks,
                     processes, io, queued, displaced>>
      /\ cpu = "tick" /\ woken' = {}
  BY DEF TickDone, ioVars
<1>3. CASE woken # {}
  <2>1. SwitchThread(ready, pc[current])
    BY <1>3 DEF TickDone
  <2>2. pc[current] \notin {"asleep", "exitingMasked"}
    BY <1>0, <1>2 DEF CpuInv
  <2>3. current = Idle => pc[current] \in
          {"boot", "idleLoop", "idleCleaned", "idleAwake", "idleHalted"}
    BY <1>0 DEF CpuInv
  <2> QED BY <1>2, <2>1, <2>2, <2>3, SwitchKeeps
<1>4. CASE woken = {}
  <2>1. cpu' = "normal" /\ UNCHANGED <<ready, current, regs, pc>>
    BY <1>4 DEF TickDone
  <2>2. TypeOK' /\ QueuesMatchStates' /\ RunningIsReady' /\ CpuInv' /\ PidInv'
    BY <1>0, <1>2, <2>1, PidFrame
       DEF TypeOK, QueuesMatchStates, Schedulable, RunningIsReady, CpuInv
  <2>3. \A u \in Thread : ThreadInv(u)' /\ ForkInv(u)'
    BY Zenon, <1>1, <1>2, <2>1, ThreadFrame, ForkFrame
  <2> QED BY <2>2, <2>3 DEF IndInv
<1> QED BY <1>3, <1>4

\* The completion interrupt.
LEMMA IOCompleteKeeps ==
  ASSUME IndInv, NEW t \in Thread, IOComplete(t)
  PROVE  IndInv'
<1>0. TypeOK /\ QueuesMatchStates /\ RunningIsReady /\ CpuInv /\ PidInv
  BY DEF IndInv
<1>1. \A u \in Thread : ThreadInv(u) /\ ForkInv(u)
  BY DEF IndInv
<1> USE ConstantsAssumption
<1>2. t \notin Range(waiting)
  BY <1>0, <1>1 DEF IOComplete, ThreadInv, QueuesMatchStates
<1>3. /\ ready' \in Seq(Thread) /\ IsInjective(ready')
      /\ Range(ready') = Range(ready) \cup {t}
      /\ state' = [state EXCEPT ![t] = "eReady"]
  BY <1>0, <1>2, MakeReadyProperties DEF IOComplete
<1>4. /\ pc' \in [AnyThread -> Location] /\ \A u \in Thread : pc'[u] = pc[u]
      /\ pc'[Idle] = pc[Idle] \/ pc'[Idle] = "idleLoop"
  BY <1>0 DEF IOComplete, WakeCpu, Goto, TypeOK, Location
<1>5. UNCHANGED <<waiting, cleanup, alarmAt, due, regs, child, threads, func, scan, woken,
                  ticks, current, processes, cpu>>
  BY DEF IOComplete, tickVars, ioVars
<1>6. /\ t \in io \ displaced /\ cpu = "normal"
      /\ io' = io \ {t} /\ queued' = queued \ {t} /\ displaced' = displaced
  BY DEF IOComplete, InterruptsEnabled
<1>7. \/ state[t] = "eIOPending" /\ pc[t] = "ioRequested"
      \/ state[t] = "eIOWait" /\ pc[t] \in {"ioParked", "user"}
  BY <1>1, <1>6 DEF ThreadInv
<1>8. TypeOK'
  BY <1>0, <1>3, <1>4, <1>5, <1>6 DEF TypeOK, State
<1>9. QueuesMatchStates'
  BY SMTT(30), <1>0, <1>1, <1>2, <1>3, <1>4, <1>5, <1>7 DEF QueuesMatchStates, Schedulable, TypeOK
<1>10. RunningIsReady'
  BY <1>0, <1>3, <1>4, <1>5 DEF RunningIsReady
<1>11. CpuInv'
  <2>1. current = Idle \/ current \in Thread
    BY <1>0 DEF TypeOK
  <2> QED BY <2>1, <1>0, <1>4, <1>5, <1>6 DEF CpuInv
<1>12. PidInv'
  BY <1>0, <1>4, <1>5, PidFrame
<1>13. ASSUME NEW u \in Thread PROVE ThreadInv(u)'
  <2>1. CASE u = t
    BY <2>1, <1>0, <1>1, <1>3, <1>4, <1>5, <1>6, <1>7 DEF ThreadInv, Runnable, TypeOK
  <2>2. CASE u # t
    BY Zenon, <2>2, <1>0, <1>1, <1>3, <1>4, <1>5, <1>6, ThreadFrame DEF TypeOK
  <2> QED BY <2>1, <2>2
<1>14. \A u \in Thread : ForkInv(u)'
  BY <1>0, <1>1, <1>3, <1>4, <1>5, <1>7, ForkFrame DEF TypeOK
<1> QED BY <1>8, <1>9, <1>10, <1>11, <1>12, <1>13, <1>14 DEF IndInv

===============================================================================
