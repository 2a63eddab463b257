----------------------- MODULE Scheduler_process_proofs -----------------------
(***************************************************************************)
(* The rest of fork, exec, and the two ways in which a thread leaves       *)
(* (exit, and the return of the function start_new_thread called) keep     *)
(* IndInv.                                                                 *)
(***************************************************************************)
EXTENDS Scheduler_frame_proofs

USE DEF AnyThread

\* fork: make_ready of the child.
LEMMA ForkReadyKeeps ==
  ASSUME IndInv, NEW t \in Thread, ForkReady(t)
  PROVE  IndInv'
<1>0. TypeOK /\ QueuesMatchStates /\ RunningIsReady /\ CpuInv /\ PidInv
  BY DEF IndInv
<1>1. \A u \in Thread : ThreadInv(u) /\ ForkInv(u)
  BY DEF IndInv
<1> USE ConstantsAssumption
<1> DEFINE c == child[t]
<1>2. /\ UNCHANGED <<waiting, cleanup, alarmAt, due, regs, child, threads, func,
                     scan, woken, ticks, current, processes, io, queued,
                     displaced, cpu>>
      /\ current = t /\ pc[t] = "forkCreated"
  BY DEF ForkReady, At, Runs, tickVars, ioVars
<1>3. c \in Thread /\ pc[c] = "embryo" /\ c # t
  BY <1>1, <1>2 DEF ForkInv
<1>4. MakeReady(c)
  BY DEF ForkReady
<1> HIDE DEF c
<1>5. state[c] \in {"uninit", "eReady"} /\ c \notin io /\ c \notin Range(cleanup)
  BY <1>1, <1>3 DEF ThreadInv
<1>6. c \notin Range(waiting)
  BY <1>0, <1>3, <1>5 DEF QueuesMatchStates
<1>7. /\ ready' \in Seq(Thread) /\ IsInjective(ready')
      /\ Range(ready') = Range(ready) \cup {c}
  BY <1>0, <1>4, <1>3, <1>6, MakeReadyProperties
<1>8. /\ pc' \in [AnyThread -> Location] /\ pc'[t] = "forkReady" /\ pc'[Idle] = pc[Idle]
      /\ \A u \in Thread \ {t} : pc'[u] = pc[u]
  <2>1. pc' = [pc EXCEPT ![t] = "forkReady"]
    BY DEF ForkReady, Goto
  <2> QED BY ZenonT(30), <1>0, <2>1, GotoProperties DEF Location
<1>9. /\ state' \in [AnyThread -> State] /\ state'[c] = "eReady"
      /\ \A u \in Thread \ {c} : state'[u] = state[u]
  <2>1. state' = [state EXCEPT ![c] = "eReady"]
    BY <1>4 DEF MakeReady
  <2> QED BY Zenon, <1>0, <1>3, <2>1, SetStateProperties DEF State
<1>10. TypeOK'
  BY Zenon, <1>0, <1>2, <1>7, <1>8, <1>9 DEF TypeOK
<1>11. QueuesMatchStates'
  BY <1>0, <1>2, <1>3, <1>5, <1>7, <1>8, <1>9 DEF QueuesMatchStates, Schedulable
<1>12. RunningIsReady' /\ CpuInv'
  BY <1>0, <1>2, <1>7, <1>8 DEF RunningIsReady, CpuInv
<1>13. PidInv'
  BY <1>0, <1>2, <1>8, PidFrame
<1>14. ASSUME NEW u \in Thread PROVE ThreadInv(u)'
  <2>1. CASE u = t
    BY <2>1, <1>1, <1>2, <1>3, <1>8, <1>9 DEF ThreadInv, Runnable, Location
  <2>2. CASE u = c
    <3>1. regs[c] = "zero"
      BY <1>1, <1>3 DEF ThreadInv
    <3> QED BY <2>2, <3>1, <1>2, <1>3, <1>5, <1>8, <1>9 DEF ThreadInv, Location
  <2>3. CASE u \notin {t, c}
    BY <2>3, <1>1, <1>2, <1>8, <1>9, ThreadFrame
  <2> QED BY <2>1, <2>2, <2>3
<1>15. ASSUME NEW u \in Thread PROVE ForkInv(u)'
  <2>1. ForkInv(u) /\ ForkInv(t) /\ child' = child /\ c = child[t]
    BY <1>1, <1>2 DEF c
  <2> QED BY <2>1, <1>2, <1>3, <1>8, <1>9 DEF ForkInv
<1> QED BY <1>10, <1>11, <1>12, <1>13, <1>14, <1>15 DEF IndInv

\* fork: save_registers makes a child that can run of the embryo.
LEMMA ForkSaveKeeps ==
  ASSUME IndInv, NEW t \in Thread, ForkSave(t)
  PROVE  IndInv'
<1>0. TypeOK /\ QueuesMatchStates /\ RunningIsReady /\ CpuInv /\ PidInv
  BY DEF IndInv
<1>1. \A u \in Thread : ThreadInv(u) /\ ForkInv(u)
  BY DEF IndInv
<1> USE ConstantsAssumption
<1> DEFINE c == child[t]
<1>2. /\ UNCHANGED <<ready, waiting, cleanup, state, alarmAt, due, child, threads, func, scan,
                     woken, ticks, current, processes, io, queued, displaced, cpu>>
      /\ current = t /\ pc[t] = "forkReady"
      /\ regs' = [regs EXCEPT ![c] = t]
      /\ pc' = [pc EXCEPT ![t] = "forkSaved", ![c] = "user"]
  BY DEF ForkSave, At, Runs, queueVars, tickVars, ioVars
<1>3. /\ c \in Thread /\ pc[c] = "embryo" /\ c # t
      /\ \A u \in Thread \ {t} : pc[u] \in {"forkCreated", "forkReady"} => child[u] # c
  BY <1>1, <1>2 DEF ForkInv
<1> HIDE DEF c
<1>4. /\ pc'[t] = "forkSaved" /\ pc'[c] = "user" /\ pc'[Idle] = pc[Idle]
      /\ \A u \in Thread \ {t, c} : pc'[u] = pc[u]
      /\ \A u \in Thread \ {c} : regs'[u] = regs[u]
  BY <1>0, <1>2, <1>3 DEF TypeOK
<1>5. state[c] \in {"uninit", "eReady"} /\ c \notin io /\ c \notin Range(cleanup)
  BY <1>1, <1>3 DEF ThreadInv
<1>6. state[c] = "eReady"
  BY <1>1, <1>2, <1>3, <1>5 DEF ForkInv, c
<1>7. TypeOK'
  BY Zenon, <1>0, <1>2, <1>3 DEF TypeOK, Location
<1>8. QueuesMatchStates'
  BY ZenonT(30), <1>0, <1>2, <1>3, <1>4, <1>6 DEF QueuesMatchStates, Schedulable
<1>9. RunningIsReady' /\ CpuInv'
  BY <1>0, <1>2, <1>4 DEF RunningIsReady, CpuInv
<1>10. PidInv'
  BY ZenonT(30), <1>0, <1>2, <1>3, <1>4, PidFrame
<1>11. ASSUME NEW u \in Thread PROVE ThreadInv(u)'
  <2>1. CASE u = t
    BY <2>1, <1>1, <1>2, <1>3, <1>4 DEF ThreadInv, Runnable, Location
  <2>2. CASE u = c
    BY <2>2, <1>2, <1>3, <1>4, <1>5, <1>6 DEF ThreadInv, Runnable, Location
  <2>3. CASE u \notin {t, c}
    BY ZenonT(30), <2>3, <1>1, <1>2, <1>4, ThreadFrame
  <2> QED BY <2>1, <2>2, <2>3
<1>12. ASSUME NEW u \in Thread PROVE ForkInv(u)'
  <2>1. \A v \in Thread : pc'[v] \in {"forkCreated", "forkReady"} =>
          v \notin {t, c} /\ pc'[v] = pc[v] /\ child[v] \notin {t, c}
    <3> SUFFICES ASSUME NEW v \in Thread, pc'[v] \in {"forkCreated", "forkReady"}
                 PROVE  v \notin {t, c} /\ pc'[v] = pc[v] /\ child[v] \notin {t, c}
      OBVIOUS
    <3>1. v \notin {t, c} /\ pc'[v] = pc[v]
      BY <1>4
    <3>2. pc[child[v]] = "embryo"
      BY <3>1, <1>1 DEF ForkInv
    <3> QED BY <3>1, <3>2, <1>2, <1>3
  <2> SUFFICES ASSUME pc'[u] \in {"forkCreated", "forkReady"}
               PROVE  /\ child[u] \in Thread /\ pc'[child[u]] = "embryo"
                      /\ pc'[u] = "forkReady" => state[child[u]] = "eReady"
                      /\ \A v \in Thread :
                           pc'[v] \in {"forkCreated", "forkReady"} /\ child[v] = child[u] => v = u
    BY ZenonT(30), <1>2 DEF ForkInv
  <2>2. pc[u] = pc'[u] /\ child[u] \notin {t, c}
    BY <2>1
  <2>3. /\ child[u] \in Thread /\ pc[child[u]] = "embryo"
        /\ pc[u] = "forkReady" => state[child[u]] = "eReady"
        /\ \A v \in Thread :
             pc[v] \in {"forkCreated", "forkReady"} /\ child[v] = child[u] => v = u
    BY <2>2, <1>1 DEF ForkInv
  <2>4. pc'[child[u]] = pc[child[u]]
    BY <2>2, <2>3, <1>4
  <2> QED BY <2>1, <2>2, <2>3, <2>4
<1> QED BY <1>7, <1>8, <1>9, <1>10, <1>11, <1>12 DEF IndInv

\* fork returns in the parent.
LEMMA ForkReturnKeeps ==
  ASSUME IndInv, NEW t \in Thread, ForkReturn(t)
  PROVE  IndInv'
<1>0. TypeOK /\ QueuesMatchStates /\ RunningIsReady /\ CpuInv /\ PidInv
  BY DEF IndInv
<1>1. \A u \in Thread : ThreadInv(u) /\ ForkInv(u)
  BY DEF IndInv
<1> USE ConstantsAssumption
<1>2. /\ UNCHANGED <<ready, waiting, cleanup, state, alarmAt, due, regs, threads,
                     func, scan, woken, ticks, current, processes, io, queued,
                     displaced, cpu>>
      /\ current = t /\ cpu = "normal" /\ pc[t] = "forkSaved"
  BY DEF ForkReturn, At, Runs, queueVars, tickVars, ioVars
<1>3. /\ pc' = [pc EXCEPT ![t] = "user"] /\ "user" \in Location
      /\ pc' \in [AnyThread -> Location] /\ pc'[t] = "user"
      /\ \A u \in Thread \ {t} : pc'[u] = pc[u]
  <2>1. pc' = [pc EXCEPT ![t] = "user"] /\ "user" \in Location
    BY DEF ForkReturn, Goto, Location
  <2> QED BY Zenon, <1>0, <2>1, GotoProperties
<1>4. /\ child' \in [AnyThread -> Thread \cup {None}]
      /\ \A u \in Thread \ {t} : child'[u] = child[u]
  <2>1. child \in [AnyThread -> Thread \cup {None}]
    BY <1>0 DEF TypeOK
  <2>2. child' = [child EXCEPT ![t] = None]
    BY DEF ForkReturn
  <2> QED BY <2>1, <2>2
<1>5. TypeOK'
  BY Zenon, <1>0, <1>2, <1>3, <1>4 DEF TypeOK
<1>6. QueuesMatchStates' /\ RunningIsReady'
  BY <1>0, <1>2, <1>3 DEF QueuesMatchStates, Schedulable, RunningIsReady
<1>7. ThreadInv(t)'
  BY <1>1, <1>2, <1>3 DEF ThreadInv, Runnable, Location
<1>8. IsInjective(cleanup')
  BY <1>0, <1>2 DEF CpuInv
<1> QED BY Zenon, <1>2, <1>3, <1>4, <1>5, <1>6, <1>7, <1>8, OwnStepKeeps

\* exec.
LEMMA ExecKeeps ==
  ASSUME IndInv, NEW t \in Thread, Exec(t)
  PROVE  IndInv'
<1>0. TypeOK /\ QueuesMatchStates /\ RunningIsReady /\ CpuInv /\ PidInv
  BY DEF IndInv
<1>1. \A u \in Thread : ThreadInv(u) /\ ForkInv(u)
  BY DEF IndInv
<1> USE ConstantsAssumption
<1>2. /\ UNCHANGED <<ready, waiting, cleanup, state, alarmAt, due, pc, regs,
                     child, threads, scan, woken, ticks, current, processes, io,
                     queued, displaced, cpu>>
      /\ func' = func \ {t}
  BY DEF Exec, queueVars, tickVars, ioVars
<1>3. TypeOK'
  BY SMTT(30), <1>0, <1>2 DEF TypeOK
<1>4. QueuesMatchStates' /\ RunningIsReady' /\ CpuInv' /\ PidInv'
  BY <1>0, <1>2, PidFrame DEF QueuesMatchStates, Schedulable, RunningIsReady, CpuInv
<1>5. \A u \in Thread : ThreadInv(u)' /\ ForkInv(u)'
  BY <1>1, <1>2, ThreadFrame, ForkFrame
<1> QED BY <1>3, <1>4, <1>5 DEF IndInv

\* start_new_thread after func().
LEMMA StartNewThreadReturnKeeps ==
  ASSUME IndInv, NEW t \in Thread, StartNewThreadReturn(t)
  PROVE  IndInv'
<1>0. TypeOK /\ QueuesMatchStates /\ RunningIsReady /\ CpuInv /\ PidInv
  BY DEF IndInv
<1>1. \A u \in Thread : ThreadInv(u) /\ ForkInv(u)
  BY DEF IndInv
<1> USE ConstantsAssumption
<1>2. /\ UNCHANGED <<waiting, cleanup, state, alarmAt, due, regs, child, threads,
                     func, scan, woken, ticks, current, processes, io, queued,
                     displaced, cpu>>
      /\ current = t /\ cpu = "normal" /\ pc[t] = "user"
  BY DEF StartNewThreadReturn, At, Runs, tickVars, ioVars
<1>3. /\ pc' = [pc EXCEPT ![t] = "returned"] /\ "returned" \in Location
      /\ pc' \in [AnyThread -> Location] /\ pc'[t] = "returned"
      /\ \A u \in Thread \ {t} : pc'[u] = pc[u]
  <2>1. pc' = [pc EXCEPT ![t] = "returned"] /\ "returned" \in Location
    BY DEF StartNewThreadReturn, Goto, Location
  <2> QED BY Zenon, <1>0, <2>1, GotoProperties
<1>4. /\ ready' \in Seq(Thread) /\ IsInjective(ready')
      /\ Range(ready') = Range(ready) \ {t}
  BY <1>0, UnlinkReady DEF StartNewThreadReturn
<1>5. TypeOK'
  BY Zenon, <1>0, <1>2, <1>3, <1>4 DEF TypeOK
<1>6. QueuesMatchStates'
  BY <1>0, <1>2, <1>3, <1>4 DEF QueuesMatchStates, Schedulable
<1>7. RunningIsReady'
  BY <1>2, <1>3 DEF RunningIsReady
<1>8. ThreadInv(t)'
  BY <1>1, <1>2, <1>3 DEF ThreadInv, Runnable, Location
<1>9. IsInjective(cleanup')
  BY <1>0, <1>2 DEF CpuInv
<1> QED BY Zenon, <1>2, <1>3, <1>5, <1>6, <1>7, <1>8, <1>9, OwnStepKeeps

\* exit.
LEMMA ExitKeeps ==
  ASSUME IndInv, NEW t \in Thread, Exit(t)
  PROVE  IndInv'
<1>0. TypeOK /\ QueuesMatchStates /\ RunningIsReady /\ CpuInv /\ PidInv
  BY DEF IndInv
<1>1. \A u \in Thread : ThreadInv(u) /\ ForkInv(u)
  BY DEF IndInv
<1> USE ConstantsAssumption
<1>2. /\ UNCHANGED <<waiting, alarmAt, due, regs, child, threads, func, scan,
                     woken, ticks, current, processes, io, queued, displaced, cpu>>
      /\ current = t /\ cpu = "normal" /\ pc[t] = "user"
  BY DEF Exit, At, Runs, tickVars, ioVars
<1>3. PICK where \in {"exiting", "exitingMasked"} : pc' = [pc EXCEPT ![t] = where]
  BY Zenon DEF Exit, Goto
<1>4. /\ where \in Location /\ pc' \in [AnyThread -> Location] /\ pc'[t] = where
      /\ \A u \in Thread \ {t} : pc'[u] = pc[u]
  <2>1. where \in Location
    BY DEF Location
  <2> QED BY Zenon, <1>0, <1>3, <2>1, GotoProperties
<1>5. /\ ready' \in Seq(Thread) /\ IsInjective(ready')
      /\ Range(ready') = Range(ready) \ {t}
  BY <1>0, UnlinkReady DEF Exit
<1>6. state[t] \in Runnable /\ t \notin io /\ t \notin Range(cleanup)
  BY <1>1, <1>2 DEF ThreadInv, Runnable
<1>7. /\ cleanup' \in Seq(Thread) /\ IsInjective(cleanup')
      /\ Range(cleanup') = Range(cleanup) \cup {t}
  <2>1. cleanup \in Seq(Thread) /\ IsInjective(cleanup)
    BY <1>0 DEF TypeOK, CpuInv
  <2>2. cleanup' = PrependTo(cleanup, t, Range(cleanup))
    BY DEF Exit
  <2> QED BY <1>6, <2>1, <2>2, PrependProperties
<1>8. /\ state' \in [AnyThread -> State] /\ state'[t] \in Runnable \cup {"eDead"}
      /\ \A u \in Thread \ {t} : state'[u] = state[u]
  <2>1. CASE state' = state
    <3>1. state \in [AnyThread -> State]
      BY <1>0 DEF TypeOK
    <3> QED BY <1>6, <2>1, <3>1
  <2>2. CASE state' = [state EXCEPT ![t] = "eDead"]
    <3>1. "eDead" \in State
      BY DEF State
    <3> QED BY Zenon, <1>0, <2>2, <3>1, SetStateProperties
  <2> QED BY <2>1, <2>2 DEF Exit
<1>9. TypeOK'
  BY Zenon, <1>0, <1>2, <1>4, <1>5, <1>7, <1>8 DEF TypeOK
<1>10. QueuesMatchStates'
  BY <1>0, <1>2, <1>3, <1>4, <1>5, <1>6, <1>8
     DEF QueuesMatchStates, Schedulable, Runnable
<1>11. RunningIsReady'
  BY <1>2, <1>3, <1>4 DEF RunningIsReady
<1>12. ThreadInv(t)'
  BY <1>2, <1>3, <1>4, <1>6, <1>8 DEF ThreadInv, Runnable, Location
<1> QED BY Zenon, <1>2, <1>3, <1>4, <1>7, <1>8, <1>9, <1>10, <1>11, <1>12, OwnStepKeeps

===============================================================================
