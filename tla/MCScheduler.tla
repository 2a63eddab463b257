------------------------------ MODULE MCScheduler ------------------------------
(* Instances of Scheduler for TLC.                                         *)
EXTENDS Scheduler, TLC

CONSTANTS t1, t2, t3

TwoThreads == {t1, t2}
ThreeThreads == {t1, t2, t3}

\* SpawnInit may pick any thread, so thread identities are interchangeable.
ThreadSymmetry == Permutations(Thread)

\* What the future of a state depends on: not `due', which no guard reads, and not
\* the alarm_at of a thread that is awake, which sleep() sets before on_tick reads it.
LiveState ==
  <<queueVars, state, [t \in AnyThread |-> IF state[t] = "eWaiting" THEN alarmAt[t] ELSE 0],
    pc, regs, child, threads, func, tickVars, ticks, current, processes, ioVars, cpu>>
===============================================================================
