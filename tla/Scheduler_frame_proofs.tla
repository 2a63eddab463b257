------------------------ MODULE Scheduler_frame_proofs ------------------------
(***************************************************************************)
(* The inductive invariant of module Scheduler, for any number of threads, *)
(* process slots and tick values: what the operations on the run queues do *)
(* (with the lemmas of RunQueue_proofs), when the conjuncts of IndInv are  *)
(* undisturbed, and that the operations that make a process (spawn_init,   *)
(* the first section of fork) keep IndInv.                                 *)
(*                                                                         *)
(* For each action the proof first says what the action does to the        *)
(* variables, thread by thread, and then treats the conjuncts of IndInv    *)
(* one by one.                                                             *)
(***************************************************************************)
EXTENDS Scheduler, RunQueue_proofs

USE DEF AnyThread

\* Scheduler::make_ready of a thread that is not asleep puts it on the ready
\* queue, once, whether or not it was there.
LEMMA MakeReadyProperties ==
  ASSUME TypeOK, QueuesMatchStates, NEW t \in Thread, t \notin Range(waiting), MakeReady(t)
  PROVE  /\ ready' \in Seq(Thread) /\ IsInjective(ready')
         /\ Range(ready') = Range(ready) \cup {t}
         /\ state' = [state EXCEPT ![t] = "eReady"]
<1>1. ready \in Seq(Thread) /\ IsInjective(ready) /\ ready' = PrependTo(ready, t, Linked)
  BY DEF TypeOK, QueuesMatchStates, MakeReady
<1>2. CASE t \in Range(ready)
  BY <1>1, <1>2 DEF PrependTo, Linked, MakeReady
<1>3. CASE t \notin Range(ready)
  BY <1>1, <1>3, PrependProperties DEF Linked, MakeReady
<1> QED BY <1>2, <1>3

\* List::unlink of a thread on the ready queue.
LEMMA UnlinkReady ==
  ASSUME TypeOK, QueuesMatchStates, NEW t
  PROVE  /\ Unlink(ready, t) \in Seq(Thread) /\ IsInjective(Unlink(ready, t))
         /\ Range(Unlink(ready, t)) = Range(ready) \ {t}
BY UnlinkProperties DEF TypeOK, QueuesMatchStates

\* switch_thread reorders the ready queue and picks one of its threads, or the
\* idle thread when there is none.
LEMMA SwitchProperties ==
  ASSUME TypeOK, QueuesMatchStates, NEW after, SwitchThread(ready, after)
  PROVE  /\ ready' \in Seq(Thread) /\ IsInjective(ready')
         /\ Range(ready') = Range(ready)
         /\ current' \in Range(ready) \/ current' = Idle
         /\ cpu' = IF current' = current \/ regs[current'] # "zero" THEN "normal" ELSE "halted"
         /\ regs' = [regs EXCEPT ![current] = "own"]
         /\ pc' = [pc EXCEPT ![current] = after]
<1> DEFINE next == IF ready = <<>> THEN Idle ELSE Head(ready)
<1>1. ready \in Seq(Thread) /\ IsInjective(ready)
  BY DEF TypeOK, QueuesMatchStates
<1>2. next = Idle \/ (next \in Range(ready) /\ next \in Thread)
  BY <1>1, HeadInRange
<1>3. /\ ready' = IF next \in {current, Idle} THEN ready
                  ELSE AppendTo(Unlink(ready, next), next, {})
      /\ current' = next
      /\ regs' = [regs EXCEPT ![current] = "own"]
      /\ cpu' = IF next = current \/ regs[next] # "zero" THEN "normal" ELSE "halted"
      /\ pc' = [pc EXCEPT ![current] = after]
  BY DEF SwitchThread, Goto
<1> HIDE DEF next
<1>4. CASE next \in {current, Idle}
  BY <1>1, <1>2, <1>3, <1>4
<1>5. CASE next \notin {current, Idle}
  <2> DEFINE rest == Unlink(ready, next)
  <2>1. rest \in Seq(Thread) /\ IsInjective(rest) /\ Range(rest) = Range(ready) \ {next}
    BY <1>1, UnlinkProperties
  <2> HIDE DEF rest
  <2>2. /\ AppendTo(rest, next, {}) \in Seq(Thread)
        /\ Range(AppendTo(rest, next, {})) = Range(rest) \cup {next}
        /\ IsInjective(AppendTo(rest, next, {}))
    BY <2>1, <1>2, <1>5, AppendToProperties
  <2>3. ready' = AppendTo(rest, next, {})
    BY <1>3, <1>5 DEF rest
  <2> QED BY Zenon, <1>2, <1>3, <1>5, <2>1, <2>2, <2>3
<1> QED BY <1>4, <1>5

\* What a jump of one thread inside the kernel changes of pc.
LEMMA GotoProperties ==
  ASSUME TypeOK, NEW t \in AnyThread, NEW where \in Location, pc' = [pc EXCEPT ![t] = where]
  PROVE  /\ pc' \in [AnyThread -> Location] /\ pc'[t] = where
         /\ \A u \in AnyThread \ {t} : pc'[u] = pc[u]
<1>1. pc \in [AnyThread -> Location]
  BY DEF TypeOK
<1> QED BY <1>1

\* What an assignment to the state_ of one thread changes of state.
LEMMA SetStateProperties ==
  ASSUME TypeOK, NEW t \in AnyThread, NEW s \in State, state' = [state EXCEPT ![t] = s]
  PROVE  /\ state' \in [AnyThread -> State] /\ state'[t] = s
         /\ \A u \in AnyThread \ {t} : state'[u] = state[u]
<1>1. state \in [AnyThread -> State]
  BY DEF TypeOK
<1> QED BY <1>1

\* A step that creates and frees no process keeps the process table's facts.
LEMMA PidFrame ==
  ASSUME TypeOK, PidInv, processes' = processes,
         \A u \in Thread : pc'[u] = "unborn" <=> pc[u] = "unborn",
         pc'[Idle] = "boot" => pc[Idle] = "boot"
  PROVE  PidInv'
BY DEF PidInv, TypeOK

\* A step keeps the facts about a thread it does not touch.
LEMMA ThreadFrame ==
  ASSUME NEW u \in Thread, ThreadInv(u),
         pc'[u] = pc[u], state'[u] = state[u], regs'[u] = regs[u],
         u = current' <=> u = current, u \in io' <=> u \in io,
         u \in Range(cleanup') => u \in Range(cleanup)
  PROVE  ThreadInv(u)'
BY DEF ThreadInv, Runnable, Location

\* A step that lets no thread into fork and no child out of it.
LEMMA ForkFrame ==
  ASSUME \A u \in Thread : ForkInv(u),
         \A u \in Thread : pc'[u] \in {"forkCreated", "forkReady"} =>
                             pc[u] \in {"forkCreated", "forkReady"} /\ child'[u] = child[u],
         \A u \in Thread : pc[u] = "embryo" => pc'[u] = "embryo" /\ state'[u] = state[u],
         \A u \in Thread : pc'[u] = "forkReady" => pc[u] = "forkReady"
  PROVE  \A u \in Thread : ForkInv(u)'
BY DEF ForkInv

\* A step of the running thread's own code.  What is left to show is what it does to
\* the run queues, and that the thread's new place in the kernel goes with its state.
LEMMA OwnStepKeeps ==
  ASSUME IndInv, NEW t \in Thread, current = t, pc[t] \notin {"unborn", "embryo"},
         NEW where \in Location, pc' = [pc EXCEPT ![t] = where],
         where \notin {"unborn", "embryo", "gone", "forkCreated", "forkReady"},
         UNCHANGED <<current, processes, cpu>>, cpu = "normal", IsInjective(cleanup'),
         \A u \in Thread \ {t} :
           /\ state'[u] = state[u] /\ regs'[u] = regs[u] /\ child'[u] = child[u]
           /\ u \in io' <=> u \in io
           /\ u \in Range(cleanup') => u \in Range(cleanup),
         TypeOK', QueuesMatchStates', RunningIsReady', ThreadInv(t)'
  PROVE  IndInv'
<1>0. TypeOK /\ CpuInv /\ PidInv /\ \A u \in Thread : ThreadInv(u) /\ ForkInv(u)
  BY DEF IndInv
<1> USE ConstantsAssumption
<1>1. pc'[t] = where /\ pc'[Idle] = pc[Idle] /\ \A u \in Thread \ {t} : pc'[u] = pc[u]
  BY Zenon, <1>0, GotoProperties
<1>2. CpuInv'
  BY <1>0, <1>1 DEF CpuInv
<1>3. PidInv'
  BY <1>0, <1>1, PidFrame
<1>4. ASSUME NEW u \in Thread, u # t PROVE ThreadInv(u)'
  BY <1>0, <1>1, <1>4, ThreadFrame
<1>5. \A u \in Thread : ForkInv(u)'
  BY <1>0, <1>1, ForkFrame
<1> QED BY <1>2, <1>3, <1>4, <1>5 DEF IndInv

\* spawn_init puts the first process in a table that holds none but idle.
LEMMA SpawnInitKeeps ==
  ASSUME IndInv, NEW t \in Thread, SpawnInit(t)
  PROVE  IndInv'
<1>0. TypeOK /\ QueuesMatchStates /\ RunningIsReady /\ CpuInv /\ PidInv
  BY DEF IndInv
<1>1. \A u \in Thread : ThreadInv(u) /\ ForkInv(u)
  BY DEF IndInv
<1> USE ConstantsAssumption
<1>2. /\ UNCHANGED <<waiting, cleanup, alarmAt, due, child, scan, woken, ticks,
                     current, io, queued, displaced, cpu>>
      /\ current = Idle /\ pc[Idle] = "boot" /\ pc[t] = "unborn"
  BY DEF SpawnInit, At, Runs, tickVars, ioVars
<1>3. state[t] = "uninit" /\ t \notin io /\ t \notin Range(cleanup)
  BY <1>1, <1>2 DEF ThreadInv
<1>4. /\ ready' \in Seq(Thread) /\ IsInjective(ready')
      /\ Range(ready') = Range(ready) \cup {t}
  <2>1. t \notin Range(waiting)
    BY <1>0, <1>3 DEF QueuesMatchStates
  <2>2. MakeReady(t)
    BY DEF SpawnInit
  <2> QED BY <1>0, <2>1, <2>2, MakeReadyProperties
<1>5. /\ pc' \in [AnyThread -> Location] /\ pc'[t] = "user" /\ pc'[Idle] = "idleLoop"
      /\ \A u \in Thread \ {t} : pc'[u] = pc[u]
  <2>1. pc \in [AnyThread -> Location]
    BY <1>0 DEF TypeOK
  <2>2. pc' = [pc EXCEPT ![t] = "user", ![Idle] = "idleLoop"]
    BY DEF SpawnInit
  <2> QED BY <2>1, <2>2 DEF Location
<1>6. /\ state' \in [AnyThread -> State] /\ state'[t] = "eReady"
      /\ \A u \in Thread \ {t} : state'[u] = state[u]
  <2>1. state' = [state EXCEPT ![t] = "eReady"]
    BY DEF SpawnInit, MakeReady
  <2> QED BY Zenon, <1>0, <2>1, SetStateProperties DEF State
<1>7. /\ regs' \in [AnyThread -> Thread \cup {"zero", "own"}] /\ regs'[t] = "own"
      /\ \A u \in Thread \ {t} : regs'[u] = regs[u]
  <2>1. regs \in [AnyThread -> Thread \cup {"zero", "own"}]
    BY <1>0 DEF TypeOK
  <2>2. regs' = [regs EXCEPT ![t] = "own"]
    BY DEF SpawnInit
  <2> QED BY <2>1, <2>2
<1>8. /\ processes' \in [0 .. MaxProcesses - 1 -> AnyThread \cup {None}]
      /\ DOMAIN processes' = DOMAIN processes /\ 0 \in DOMAIN processes /\ 1 \in DOMAIN processes
      /\ \A p \in DOMAIN processes : processes'[p] = IF p = 1 THEN t ELSE processes[p]
  <2>1. processes \in [0 .. MaxProcesses - 1 -> AnyThread \cup {None}]
    BY <1>0 DEF TypeOK
  <2>2. processes' = [processes EXCEPT ![1] = t]
    BY DEF SpawnInit
  <2> QED BY <2>1, <2>2
<1>9. TypeOK'
  <2>1. threads' \in SUBSET Thread /\ func' \in SUBSET Thread
    BY <1>0 DEF SpawnInit, TypeOK
  <2> QED BY Zenon, <1>0, <1>2, <1>4, <1>5, <1>6, <1>7, <1>8, <2>1 DEF TypeOK
<1>10. QueuesMatchStates'
  BY <1>0, <1>2, <1>3, <1>4, <1>5, <1>6 DEF QueuesMatchStates, Schedulable
<1>11. RunningIsReady' /\ CpuInv'
  <2>1. current' = Idle /\ Idle \notin Thread
    BY <1>2
  <2>2. RunningIsReady'
    BY <2>1 DEF RunningIsReady
  <2>3. IsInjective(cleanup')
    BY <1>0, <1>2 DEF CpuInv
  <2> QED BY <2>1, <2>2, <2>3, <1>5 DEF CpuInv
<1>12. PidInv'
  <2>1. \A p \in DOMAIN processes : processes[p] = IF p = 0 THEN Idle ELSE None
    BY <1>0, <1>2 DEF PidInv
  <2>2. \A u \in Thread : pc[u] = "unborn"
    BY <1>0, <2>1 DEF PidInv
  <2>3. pc'[Idle] # "boot" /\ \A u \in Thread : pc'[u] = IF u = t THEN "user" ELSE "unborn"
    BY <1>5, <2>2
  <2> QED BY <1>8, <2>1, <2>3 DEF PidInv
<1>13. ASSUME NEW u \in Thread PROVE ThreadInv(u)'
  <2>1. CASE u = t
    BY <2>1, <1>2, <1>3, <1>5, <1>6, <1>7 DEF ThreadInv, Location
  <2>2. CASE u # t
    BY <2>2, <1>1, <1>2, <1>5, <1>6, <1>7, ThreadFrame
  <2> QED BY <2>1, <2>2
<1>14. \A u \in Thread : ForkInv(u)'
  BY <1>1, <1>2, <1>5, <1>6, ForkFrame
<1> QED BY <1>9, <1>10, <1>11, <1>12, <1>13, <1>14 DEF IndInv

\* The first section of fork takes a free slot, or stops the kernel.
LEMMA ForkCreateKeeps ==
  ASSUME IndInv, NEW t \in Thread, NEW c \in Thread, ForkCreate(t, c)
  PROVE  IndInv'
<1>0. TypeOK /\ QueuesMatchStates /\ RunningIsReady /\ CpuInv /\ PidInv
  BY DEF IndInv
<1>1. \A u \in Thread : ThreadInv(u) /\ ForkInv(u)
  BY DEF IndInv
<1> USE ConstantsAssumption
<1>2. /\ UNCHANGED <<ready, waiting, cleanup, state, alarmAt, due, regs, threads, func, scan,
                     woken, ticks, current, io, queued, displaced>>
      /\ current = t /\ pc[t] = "user" /\ pc[c] = "unborn" /\ t # c
  BY DEF ForkCreate, At, Runs, queueVars, tickVars, ioVars
<1>3. CASE cpu' = "halted" /\ UNCHANGED <<processes, child, pc>>
  <2>1. TypeOK' /\ QueuesMatchStates' /\ RunningIsReady' /\ CpuInv' /\ PidInv'
    BY Zenon, <1>0, <1>2, <1>3, PidFrame
       DEF TypeOK, QueuesMatchStates, Schedulable, RunningIsReady, CpuInv
  <2>2. \A u \in Thread : ThreadInv(u)' /\ ForkInv(u)'
    BY <1>1, <1>2, <1>3, ThreadFrame, ForkFrame
  <2> QED BY <2>1, <2>2 DEF IndInv
<1>4. ASSUME NEW n \in FreePids,
             processes' = [processes EXCEPT ![n] = c], cpu' = cpu,
             child' = [child EXCEPT ![t] = c],
             pc' = [pc EXCEPT ![t] = "forkCreated", ![c] = "embryo"]
      PROVE  IndInv'
  <2>1. n \in DOMAIN processes /\ processes[n] = None
    BY DEF FreePids
  <2>2. /\ processes' = [processes EXCEPT ![n] = c] /\ cpu' = cpu
        /\ child' = [child EXCEPT ![t] = c]
        /\ pc' = [pc EXCEPT ![t] = "forkCreated", ![c] = "embryo"]
    BY <1>4
  <2>3. /\ pc'[t] = "forkCreated" /\ pc'[c] = "embryo" /\ pc'[Idle] = pc[Idle]
        /\ \A u \in Thread \ {t, c} : pc'[u] = pc[u]
        /\ child'[t] = c /\ \A u \in Thread \ {t} : child'[u] = child[u]
    BY <1>0, <1>2, <2>2 DEF TypeOK
  <2>4. state[c] = "uninit" /\ state[t] \in Runnable /\ c \notin io /\ t \notin io
        /\ c \notin Range(cleanup) /\ t \notin Range(cleanup)
    BY <1>1, <1>2 DEF ThreadInv, Runnable
  <2>5. TypeOK'
    BY Zenon, <1>0, <1>2, <2>1, <2>2 DEF TypeOK, Location
  <2>6. QueuesMatchStates'
    BY ZenonT(30), <1>0, <1>2, <2>3, <2>4 DEF QueuesMatchStates, Schedulable
  <2>7. RunningIsReady' /\ CpuInv'
    BY <1>0, <1>2, <2>2, <2>3 DEF RunningIsReady, CpuInv
  <2>8. PidInv'
    <3>1. /\ DOMAIN processes' = DOMAIN processes /\ 0 \in DOMAIN processes
          /\ \A p \in DOMAIN processes : processes'[p] = IF p = n THEN c ELSE processes[p]
      BY <1>0, <2>2 DEF TypeOK
    <3>2. \A p \in DOMAIN processes : processes[p] # c
      BY <1>0, <1>2 DEF PidInv
    <3>3. pc[Idle] # "boot"
      <4>1. \E p \in DOMAIN processes : processes[p] = t
        BY <1>0, <1>2 DEF PidInv
      <4> QED BY <4>1, <1>0 DEF PidInv
    <3>4. \A u \in Thread : pc'[u] # "unborn" <=> pc[u] # "unborn" \/ u = c
      BY <1>2, <2>3
    <3>5. \A u \in Thread : (\E p \in DOMAIN processes : processes'[p] = u)
                              <=> (\E p \in DOMAIN processes : processes[p] = u) \/ u = c
      BY <2>1, <3>1
    <3>6. \A u \in Thread : pc'[u] # "unborn" <=> \E p \in DOMAIN processes' : processes'[p] = u
      BY <1>0, <3>1, <3>4, <3>5 DEF PidInv
    <3>7. \A p, q \in DOMAIN processes' : processes'[p] = processes'[q] /\ processes'[p] # None
                                            => p = q
      BY <1>0, <3>1, <3>2 DEF PidInv
    <3> QED BY <1>0, <2>1, <2>3, <3>1, <3>3, <3>6, <3>7 DEF PidInv
  <2>9. ASSUME NEW u \in Thread PROVE ThreadInv(u)'
    <3>1. CASE u = t
      BY <3>1, <1>0, <1>1, <1>2, <2>3, <2>4 DEF ThreadInv, Runnable, Location
    <3>2. CASE u = c
      <4>1. regs[c] = "zero"
        BY <1>1, <1>2 DEF ThreadInv
      <4> QED BY <3>2, <4>1, <1>2, <2>3, <2>4 DEF ThreadInv, Location
    <3>3. CASE u \notin {t, c}
      BY <3>3, <1>1, <1>2, <2>3, ThreadFrame
    <3> QED BY <3>1, <3>2, <3>3
  <2>10. ASSUME NEW u \in Thread PROVE ForkInv(u)'
    BY <1>1, <1>2, <2>3 DEF ForkInv
  <2> QED BY <2>5, <2>6, <2>7, <2>8, <2>9, <2>10 DEF IndInv
<1> QED BY <1>3, <1>4 DEF ForkCreate

===============================================================================
