---------------------------- MODULE SpinLock_proofs ----------------------------
(***************************************************************************)
(* LockInv is an invariant of SpinLock for any threads and any nesting.    *)
(***************************************************************************)
EXTENDS SpinLock, TLAPS

\* Contexts are pairs; these are all the proofs use of that.
LEMMA ContextFacts ==
  /\ \A t \in Thread : Code(t) \in Context /\ Handler(t) \in Context
  /\ \A t, u \in Thread : /\ Code(t) # Handler(u)
                          /\ Code(t) = Code(u) => t = u
                          /\ Handler(t) = Handler(u) => t = u
  /\ \A c \in Context : \E t \in Thread : c = Code(t) \/ c = Handler(t)
BY DEF Context, Code, Handler

\* The running context is the handler on top of the running thread, or its code.
LEMMA RunningIs ==
  ASSUME TypeOK
  PROVE  /\ Running \in Context
         /\ \/ Running = Code(current) /\ pc[Handler(current)] = "none"
            \/ Running = Handler(current) /\ pc[Handler(current)] # "none"
BY ContextFacts DEF TypeOK, Running

\* enable_interrupts_ = cpu::interrupts_enabled_p().
LEMMA LockTestKeeps ==
  ASSUME LockInv, NEW c \in Context, LockTest(c)
  PROVE  LockInv'
<1> USE SpinLockAssumption, ContextFacts
<1>1. TypeOK /\ DepthCounted /\ current \in Thread
  BY DEF LockInv, TypeOK
<1>2. c = Running /\ pc[c] = "out" /\ c \in {Code(current), Handler(current)}
  BY <1>1, RunningIs DEF LockTest, At, Active
<1>3. /\ Running' = Running /\ pc'[Running] = "tested" /\ current' = current
      /\ \A x \in Context : x # Running => pc'[x] = pc[x] /\ depth'[x] = depth[x]
  BY <1>1, <1>2, RunningIs DEF LockTest, Goto, TypeOK, Running
<1>4. TypeOK'
  BY <1>1, <1>2 DEF LockTest, Goto, lockVars, TypeOK, Place
<1>5. DepthCounted'
  BY <1>1, <1>2 DEF LockTest, lockVars, DepthCounted, TypeOK
<1>6. ASSUME raced = "no" PROVE Unraced'
  <2>1. Unraced
    BY <1>6 DEF LockInv
  <2>2. /\ locker' \in {None, current'} /\ (locker' # None => flag' = "off")
        /\ recursive' > 0 => field' = "off"
    BY <2>1, <1>1, <1>2 DEF Unraced, DepthCounted, LockTest, TypeOK
  <2>3. OthersOutside'
    BY <2>1, <1>1, <1>2, <1>3 DEF Unraced, OthersOutside, Quiet, LockTest
  <2>4. RunningMasked'
    BY <2>1, <1>1, <1>2, <1>3 DEF Unraced, RunningMasked, LockTest, lockVars, TypeOK
  <2>5. HandlerMasked'
    BY <2>1, <1>1, <1>2, <1>3, RunningIs DEF Unraced, HandlerMasked, Quiet, LockTest, lockVars
  <2> QED BY <2>2, <2>3, <2>4, <2>5 DEF Unraced
<1>7. HandlersDone'
  BY <1>1, <1>2, <1>3 DEF LockInv, HandlersDone
<1> QED BY <1>4, <1>5, <1>6, <1>7 DEF LockInv, LockTest

\* if(enable_interrupts_).
LEMMA LockLoadKeeps ==
  ASSUME LockInv, NEW c \in Context, LockLoad(c)
  PROVE  LockInv'
<1> USE SpinLockAssumption, ContextFacts
<1>1. TypeOK /\ DepthCounted /\ current \in Thread
  BY DEF LockInv, TypeOK
<1>2. c = Running /\ pc[c] = "tested" /\ c \in {Code(current), Handler(current)}
  BY <1>1, RunningIs DEF LockLoad, At, Active
<1>3. /\ Running' = Running /\ pc'[Running] \in {"mask", "swap"}
      /\ (pc'[Running] = "mask" <=> field = "on") /\ current' = current
      /\ \A x \in Context : x # Running => pc'[x] = pc[x] /\ depth'[x] = depth[x]
  BY <1>1, <1>2, RunningIs DEF LockLoad, Goto, TypeOK, Running
<1>4. TypeOK'
  BY <1>1, <1>2 DEF LockLoad, Goto, lockVars, TypeOK, Place
<1>5. DepthCounted'
  BY <1>1, <1>2 DEF LockLoad, lockVars, DepthCounted, TypeOK
<1>6. ASSUME raced = "no" PROVE Unraced'
  <2>1. Unraced
    BY <1>6 DEF LockInv
  <2>2. /\ locker' \in {None, current'} /\ (locker' # None => flag' = "off")
        /\ recursive' > 0 => field' = "off"
    BY <2>1, <1>1, <1>2 DEF Unraced, RunningMasked, LockLoad, lockVars, TypeOK
  <2>3. OthersOutside'
    BY <2>1, <1>1, <1>2, <1>3 DEF Unraced, OthersOutside, Quiet, LockLoad
  <2>4. RunningMasked'
    BY <2>1, <1>1, <1>2, <1>3 DEF Unraced, RunningMasked, LockLoad, lockVars, TypeOK
  <2>5. HandlerMasked'
    BY <2>1, <1>1, <1>2, <1>3, RunningIs DEF Unraced, HandlerMasked, Quiet, LockLoad, lockVars
  <2> QED BY <2>2, <2>3, <2>4, <2>5 DEF Unraced
<1>7. HandlersDone'
  BY <1>1, <1>2, <1>3 DEF LockInv, HandlersDone
<1> QED BY <1>4, <1>5, <1>6, <1>7 DEF LockInv, LockLoad

\* cpu::disable_interrupts().
LEMMA LockMaskKeeps ==
  ASSUME LockInv, NEW c \in Context, LockMask(c)
  PROVE  LockInv'
<1> USE SpinLockAssumption, ContextFacts
<1>1. TypeOK /\ DepthCounted /\ current \in Thread
  BY DEF LockInv, TypeOK
<1>2. c = Running /\ pc[c] = "mask" /\ c \in {Code(current), Handler(current)}
  BY <1>1, RunningIs DEF LockMask, At, Active
<1>3. /\ Running' = Running /\ pc'[Running] = "swap" /\ current' = current
      /\ \A x \in Context : x # Running => pc'[x] = pc[x] /\ depth'[x] = depth[x]
  BY <1>1, <1>2, RunningIs DEF LockMask, Goto, TypeOK, Running
<1>4. TypeOK'
  BY <1>1, <1>2 DEF LockMask, Goto, lockVars, TypeOK, Place
<1>5. DepthCounted'
  BY <1>1, <1>2 DEF LockMask, lockVars, DepthCounted, TypeOK
<1>6. ASSUME raced = "no" PROVE Unraced'
  <2>1. Unraced
    BY <1>6 DEF LockInv
  <2>2. /\ locker' \in {None, current'} /\ (locker' # None => flag' = "off")
        /\ recursive' > 0 => field' = "off"
    BY <2>1, <1>1, <1>2 DEF Unraced, RunningMasked, LockMask, lockVars, TypeOK
  <2>3. OthersOutside'
    BY <2>1, <1>1, <1>2, <1>3 DEF Unraced, OthersOutside, Quiet, LockMask
  <2>4. RunningMasked'
    BY <2>1, <1>1, <1>2, <1>3 DEF Unraced, RunningMasked, LockMask, lockVars, TypeOK
  <2>5. HandlerMasked'
    BY <2>1, <1>1, <1>2, <1>3, RunningIs DEF Unraced, HandlerMasked, Quiet, LockMask, lockVars
  <2> QED BY <2>2, <2>3, <2>4, <2>5 DEF Unraced
<1>7. HandlersDone'
  BY <1>1, <1>2, <1>3 DEF LockInv, HandlersDone
<1> QED BY <1>4, <1>5, <1>6, <1>7 DEF LockInv, LockMask

\* The compare-and-swap, or recursive_++.
LEMMA LockTakeKeeps ==
  ASSUME LockInv, NEW c \in Context, LockTake(c)
  PROVE  LockInv'
<1> USE SpinLockAssumption, ContextFacts
<1>1. TypeOK /\ DepthCounted /\ current \in Thread
  BY DEF LockInv, TypeOK
<1>2. c = Running /\ pc[c] = "swap" /\ c \in {Code(current), Handler(current)}
  BY <1>1, RunningIs DEF LockTake, At, Active
<1>3. /\ Running' = Running /\ pc'[Running] = "out" /\ current' = current
      /\ \A x \in Context : x # Running => pc'[x] = pc[x] /\ depth'[x] = depth[x]
  BY <1>1, <1>2, RunningIs DEF LockTake, Goto, TypeOK, Running
<1>4. TypeOK'
  BY <1>1, <1>2 DEF LockTake, Goto, lockVars, TypeOK, Place
<1>5. DepthCounted'
  <2>1. depth'[Running] = depth[Running] + 1 /\ Code(current) # Handler(current)
    BY <1>1, <1>2 DEF LockTake, TypeOK
  <2>2. /\ depth[Code(current)] \in Nat /\ depth[Handler(current)] \in Nat
        /\ depth'[Code(current)] + depth'[Handler(current)]
             = (depth[Code(current)] + depth[Handler(current)]) + 1
    BY <1>1, <1>2, <1>3, <2>1 DEF TypeOK
  <2>3. \A t \in Thread \ {current} : depth'[Code(t)] = depth[Code(t)] /\ depth'[Handler(t)] = depth[Handler(t)]
    BY <1>1, <1>2, <1>3
  <2>4. recursive \in Nat /\ current # None
    BY <1>1 DEF TypeOK
  <2> QED BY <1>1, <2>2, <2>3, <2>4 DEF LockTake, DepthCounted
<1>6. ASSUME raced = "no" PROVE Unraced'
  <2>1. Unraced
    BY <1>6 DEF LockInv
  <2>2. /\ locker' \in {None, current'} /\ (locker' # None => flag' = "off")
        /\ recursive' > 0 => field' = "off"
    BY <2>1, <1>1, <1>2 DEF Unraced, RunningMasked, LockTake, lockVars, TypeOK
  <2>3. OthersOutside'
    BY <2>1, <1>1, <1>2, <1>3 DEF Unraced, OthersOutside, Quiet, LockTake
  <2>4. RunningMasked'
    BY <2>1, <1>1, <1>2, <1>3 DEF Unraced, RunningMasked, LockTake, lockVars, TypeOK
  <2>5. HandlerMasked'
    BY <2>1, <1>1, <1>2, <1>3, RunningIs DEF Unraced, HandlerMasked, Quiet, LockTake, lockVars
  <2> QED BY <2>2, <2>3, <2>4, <2>5 DEF Unraced
<1>7. HandlersDone'
  BY <1>1, <1>2, <1>3 DEF LockInv, HandlersDone
<1> QED BY <1>4, <1>5, <1>6, <1>7 DEF LockInv, LockTake

\* recursive_--, or the compare-and-swap back to 0.
LEMMA UnlockReleaseKeeps ==
  ASSUME LockInv, NEW c \in Context, UnlockRelease(c)
  PROVE  LockInv'
<1> USE SpinLockAssumption, ContextFacts
<1>1. TypeOK /\ DepthCounted /\ current \in Thread
  BY DEF LockInv, TypeOK
<1>2. c = Running /\ pc[c] = "out" /\ c \in {Code(current), Handler(current)}
  BY <1>1, RunningIs DEF UnlockRelease, At, Active
<1>3. /\ Running' = Running /\ pc'[Running] = "released" /\ current' = current
      /\ \A x \in Context : x # Running => pc'[x] = pc[x] /\ depth'[x] = depth[x]
  BY <1>1, <1>2, RunningIs DEF UnlockRelease, Goto, TypeOK, Running
<1>4. TypeOK'
  BY <1>1, <1>2 DEF UnlockRelease, Goto, lockVars, TypeOK, Place
<1>a. locker = current
  <2>1. depth[c] > 0 /\ depth[Code(current)] \in Nat /\ depth[Handler(current)] \in Nat
    BY <1>1 DEF UnlockRelease, TypeOK
  <2>2. depth[Code(current)] + depth[Handler(current)] > 0
    BY <1>2, <2>1
  <2> QED BY <1>1, <2>2 DEF DepthCounted
<1>5. DepthCounted'
  <2>1. depth'[Running] = depth[Running] - 1 /\ Code(current) # Handler(current)
    BY <1>1, <1>2 DEF UnlockRelease, TypeOK
  <2>2. /\ depth[Code(current)] \in Nat /\ depth[Handler(current)] \in Nat
        /\ depth'[Code(current)] + depth'[Handler(current)]
             = (depth[Code(current)] + depth[Handler(current)]) - 1
    BY <1>1, <1>2, <1>3, <2>1 DEF TypeOK
  <2>3. \A t \in Thread \ {current} : depth'[Code(t)] = depth[Code(t)] /\ depth'[Handler(t)] = depth[Handler(t)]
    BY <1>1, <1>2, <1>3
  <2>4. recursive \in Nat /\ current # None
    BY <1>1 DEF TypeOK
  <2> QED BY <1>1, <1>a, <2>2, <2>3, <2>4 DEF UnlockRelease, DepthCounted
<1>6. ASSUME raced = "no" PROVE Unraced'
  <2>1. Unraced
    BY <1>6 DEF LockInv
  <2>2. /\ locker' \in {None, current'} /\ (locker' # None => flag' = "off")
        /\ recursive' > 0 => field' = "off"
    BY <2>1, <1>1, <1>2 DEF Unraced, RunningMasked, UnlockRelease, lockVars, TypeOK
  <2>3. OthersOutside'
    BY <2>1, <1>1, <1>2, <1>3 DEF Unraced, OthersOutside, Quiet, UnlockRelease
  <2>4. RunningMasked'
    BY <2>1, <1>a, <1>1, <1>2, <1>3 DEF Unraced, UnlockRelease, RunningMasked, TypeOK
  <2>5. HandlerMasked'
    BY <2>1, <1>a, <1>1, <1>2, <1>3, RunningIs DEF Unraced, HandlerMasked, Quiet, UnlockRelease, TypeOK
  <2> QED BY <2>2, <2>3, <2>4, <2>5 DEF Unraced
<1>7. HandlersDone'
  BY <1>1, <1>2, <1>3 DEF LockInv, HandlersDone
<1> QED BY <1>4, <1>5, <1>6, <1>7 DEF LockInv, UnlockRelease

\* if(enable_interrupts_) cpu::enable_interrupts().
LEMMA UnlockUnmaskKeeps ==
  ASSUME LockInv, NEW c \in Context, UnlockUnmask(c)
  PROVE  LockInv'
<1> USE SpinLockAssumption, ContextFacts
<1>1. TypeOK /\ DepthCounted /\ current \in Thread
  BY DEF LockInv, TypeOK
<1>2. c = Running /\ pc[c] = "released" /\ c \in {Code(current), Handler(current)}
  BY <1>1, RunningIs DEF UnlockUnmask, At, Active
<1>3. /\ Running' = Running /\ pc'[Running] = "out" /\ current' = current
      /\ \A x \in Context : x # Running => pc'[x] = pc[x] /\ depth'[x] = depth[x]
  BY <1>1, <1>2, RunningIs DEF UnlockUnmask, Goto, TypeOK, Running
<1>4. TypeOK'
  BY <1>1, <1>2 DEF UnlockUnmask, Goto, lockVars, TypeOK, Place
<1>5. DepthCounted'
  BY <1>1, <1>2 DEF UnlockUnmask, lockVars, DepthCounted, TypeOK
<1>6. ASSUME raced = "no" PROVE Unraced'
  <2>1. Unraced
    BY <1>6 DEF LockInv
  <2>2. /\ locker' \in {None, current'} /\ (locker' # None => flag' = "off")
        /\ recursive' > 0 => field' = "off"
    BY <2>1, <1>1, <1>2 DEF Unraced, RunningMasked, UnlockUnmask, lockVars, TypeOK
  <2>3. OthersOutside'
    BY <2>1, <1>1, <1>2, <1>3 DEF Unraced, OthersOutside, Quiet, UnlockUnmask
  <2>4. RunningMasked'
    BY <2>1, <1>1, <1>2, <1>3 DEF Unraced, RunningMasked, UnlockUnmask, lockVars, TypeOK
  <2>5. HandlerMasked'
    BY <2>1, <1>1, <1>2, <1>3, RunningIs DEF Unraced, HandlerMasked, Quiet, UnlockUnmask, lockVars
  <2> QED BY <2>2, <2>3, <2>4, <2>5 DEF Unraced
<1>7. HandlersDone'
  BY <1>1, <1>2, <1>3 DEF LockInv, HandlersDone
<1> QED BY <1>4, <1>5, <1>6, <1>7 DEF LockInv, UnlockUnmask

\* An interrupt.  If it comes between line 28 and the cli there is nothing to prove of
\* Unraced; anywhere else interrupts are enabled only outside the lock.
LEMMA IrqKeeps ==
  ASSUME LockInv, Irq
  PROVE  LockInv'
<1> USE SpinLockAssumption, ContextFacts
<1>1. TypeOK /\ DepthCounted /\ current \in Thread
  BY DEF LockInv, TypeOK
<1>2. /\ Running = Code(current) /\ pc[Handler(current)] = "none"
      /\ pc'[Handler(current)] = "out" /\ current' = current
      /\ \A x \in Context : x # Handler(current) => pc'[x] = pc[x]
  BY <1>1, RunningIs DEF Irq, Active, Goto, TypeOK
<1>3. Running' = Handler(current)
  BY <1>2 DEF Running
<1>4. TypeOK'
  BY <1>1 DEF Irq, Goto, lockVars, TypeOK, Place
<1>5. DepthCounted'
  BY <1>1 DEF Irq, lockVars, DepthCounted
<1>6. ASSUME raced' = "no" PROVE Unraced'
  <2>1. Unraced /\ pc[Code(current)] \notin {"tested", "mask"}
    BY <1>6, <1>1 DEF Irq, LockInv
  <2>2. flag = "on" /\ flag' = "off" /\ locker = None /\ locker' = None /\ field' = field
    BY <2>1 DEF Irq, Unraced, lockVars
  <2>3. depth[Code(current)] = 0
    BY <1>1, <2>2 DEF DepthCounted, TypeOK
  <2>4. pc[Code(current)] = "out"
    BY <1>1, <1>2, <2>1, <2>2 DEF Unraced, RunningMasked, TypeOK, Place
  <2>5. OthersOutside'
    BY <1>1, <1>2, <2>1 DEF Unraced, OthersOutside, Quiet, Irq
  <2>6. RunningMasked' /\ HandlerMasked'
    BY <1>1, <1>2, <1>3, <2>2, <2>3, <2>4 DEF RunningMasked, HandlerMasked, Quiet, Irq
  <2>7. recursive' > 0 => field' = "off"
    BY <2>1, <2>2 DEF Unraced, Irq, lockVars
  <2> QED BY <2>2, <2>5, <2>6, <2>7 DEF Unraced
<1>7. HandlersDone'
  BY <1>1, <1>2 DEF LockInv, HandlersDone, Irq
<1> QED BY <1>4, <1>5, <1>6, <1>7 DEF LockInv

\* iret.
LEMMA IretKeeps ==
  ASSUME LockInv, Iret
  PROVE  LockInv'
<1> USE SpinLockAssumption, ContextFacts
<1>1. TypeOK /\ DepthCounted /\ current \in Thread
  BY DEF LockInv, TypeOK
<1>2. /\ pc[Handler(current)] = "out" /\ pc'[Handler(current)] = "none"
      /\ current' = current
      /\ \A x \in Context : x # Handler(current) => pc'[x] = pc[x]
  BY <1>1 DEF Iret, At, Goto, TypeOK
<1>3. Running' = Code(current)
  BY <1>2 DEF Running
<1>4. TypeOK'
  BY <1>1 DEF Iret, Goto, lockVars, TypeOK, Place
<1>5. DepthCounted'
  BY <1>1 DEF Iret, lockVars, DepthCounted
<1>6. ASSUME raced' = "no" PROVE Unraced'
  <2>1. Unraced
    BY <1>6 DEF Iret, LockInv
  <2>2. Quiet(current) /\ depth[Handler(current)] = 0
    BY <1>2, <2>1 DEF Unraced, HandlerMasked, Iret
  <2>3. locker = None /\ locker' = None /\ field' = field /\ recursive' = recursive
    BY <1>1, <2>1, <2>2 DEF Unraced, DepthCounted, Quiet, Iret, lockVars, TypeOK
  <2>4. OthersOutside'
    BY <1>1, <1>2, <2>1 DEF Unraced, OthersOutside, Quiet, Iret
  <2>5. RunningMasked' /\ HandlerMasked'
    BY <1>1, <1>2, <1>3, <2>2, <2>3 DEF RunningMasked, HandlerMasked, Quiet
  <2>6. recursive' > 0 => field' = "off"
    BY <2>1, <2>3 DEF Unraced
  <2> QED BY <2>3, <2>4, <2>5, <2>6 DEF Unraced
<1>7. HandlersDone'
  BY <1>1, <1>2 DEF LockInv, HandlersDone, Iret
<1> QED BY <1>4, <1>5, <1>6, <1>7 DEF LockInv

\* The flag is set or cleared outside any section.
LEMMA SetFlagKeeps ==
  ASSUME LockInv, NEW value \in {"on", "off"}, SetFlag(value)
  PROVE  LockInv'
<1> USE SpinLockAssumption, ContextFacts
<1>1. TypeOK /\ DepthCounted /\ current \in Thread
  BY DEF LockInv, TypeOK
<1>2. Running = Code(current) /\ Running' = Running /\ pc[Handler(current)] = "none" /\ pc[Running] = "out"
  BY <1>1, RunningIs DEF SetFlag, At, Active, Running
<1>4. TypeOK'
  BY <1>1 DEF SetFlag, lockVars, TypeOK
<1>5. DepthCounted'
  BY <1>1 DEF SetFlag, lockVars, DepthCounted
<1>6. ASSUME raced' = "no" PROVE Unraced'
  <2>1. Unraced
    BY <1>6 DEF SetFlag, LockInv
  <2>2. locker # current
    <3>1. ASSUME locker = current PROVE depth[Handler(current)] > 0
      BY <3>1, <1>1 DEF DepthCounted, SetFlag, TypeOK
    <3>2. depth[Handler(current)] = 0
      BY <1>1, <1>2 DEF LockInv, HandlersDone
    <3> QED BY <3>1, <3>2
  <2> QED BY <1>1, <1>2, <2>1, <2>2 DEF Unraced, OthersOutside, RunningMasked, HandlerMasked, Quiet, SetFlag, lockVars
<1>7. HandlersDone'
  BY <1>1, <1>2 DEF LockInv, HandlersDone, SetFlag
<1> QED BY <1>4, <1>5, <1>6, <1>7 DEF LockInv

\* switch_thread.
LEMMA SwitchKeeps ==
  ASSUME LockInv, NEW c \in Context, NEW next \in Thread, Switch(c, next)
  PROVE  LockInv'
<1> USE SpinLockAssumption, ContextFacts
<1>1. TypeOK /\ DepthCounted /\ current \in Thread
  BY DEF LockInv, TypeOK
<1>2. /\ c = Running /\ pc[Running] = "out" /\ depth[Running] = 0
      /\ current' = next /\ pc' = pc /\ depth' = depth /\ locker' = locker
      /\ recursive' = recursive /\ field' = "off"
      /\ flag' = IF next = current THEN flag ELSE saved[next]
      /\ saved' = [saved EXCEPT ![current] = flag]
  BY DEF Switch, At, Active
<1>4. TypeOK'
  BY <1>1, <1>2 DEF Switch, TypeOK
<1>5. DepthCounted'
  BY <1>1, <1>2 DEF DepthCounted
<1>6. ASSUME raced' = "no" PROVE Unraced'
  <2>1. Unraced
    BY <1>6 DEF Switch, LockInv
  <2>2. locker = None
    <3>1. depth[Code(current)] + depth[Handler(current)] = 0
      BY <1>1, <1>2, <2>1, RunningIs DEF Unraced, HandlerMasked, Quiet, LockInv, HandlersDone
    <3> QED BY <3>1, <1>1, <2>1 DEF Unraced, DepthCounted, TypeOK
  <2>3. \A t \in Thread : Quiet(t) /\ pc[Handler(t)] \in {"none", "out"}
    BY <1>1, <1>2, <2>1, RunningIs DEF Unraced, OthersOutside, HandlerMasked, Quiet
  <2>4. OthersOutside'
    BY <1>1, <1>2, <2>1, <2>3 DEF Unraced, OthersOutside, HandlerMasked, Quiet, TypeOK
  <2>5. HandlerMasked'
    BY <1>1, <1>2, <2>1, <2>3 DEF Unraced, OthersOutside, HandlerMasked, Quiet
  <2>6. pc'[Running'] = "out"
    BY <1>2, <1>4, <2>3, RunningIs DEF Running, Quiet
  <2>7. RunningMasked'
    BY <2>6 DEF RunningMasked
  <2> QED BY <1>2, <2>2, <2>4, <2>5, <2>7 DEF Unraced
<1>7. HandlersDone'
  BY <1>2 DEF LockInv, HandlersDone
<1> QED BY <1>4, <1>5, <1>6, <1>7 DEF LockInv

\* switch_thread that spins: only after a race.
LEMMA SwitchSpinsKeeps ==
  ASSUME LockInv, NEW c \in Context, SwitchSpins(c)
  PROVE  LockInv'
<1> USE SpinLockAssumption, ContextFacts
<1>1. TypeOK /\ DepthCounted /\ current \in Thread
  BY DEF LockInv, TypeOK
<1>2. c = Running /\ pc[Running] = "out" /\ c \in {Code(current), Handler(current)}
  BY <1>1, RunningIs DEF SwitchSpins, At, Active
<1>3. pc'[Running] = "swap" /\ \A x \in Context : x # Running => pc'[x] = pc[x]
  BY <1>1, <1>2 DEF SwitchSpins, Goto, TypeOK
<1>4. TypeOK'
  BY <1>1, <1>2 DEF SwitchSpins, Goto, TypeOK, Place
<1>5. DepthCounted'
  BY <1>1 DEF SwitchSpins, DepthCounted
<1>6. raced' # "no"
  BY DEF SwitchSpins, LockInv, Unraced
<1>7. HandlersDone'
  BY <1>1, <1>2, <1>3 DEF LockInv, HandlersDone, SwitchSpins
<1> QED BY <1>4, <1>5, <1>6, <1>7 DEF LockInv

LEMMA LockInitInv == Init => LockInv
<1> SUFFICES ASSUME Init PROVE LockInv
  OBVIOUS
<1> USE SpinLockAssumption, ContextFacts
<1>1. /\ \A t \in Thread : pc[Code(t)] = "out" /\ pc[Handler(t)] = "none"
      /\ \A c \in Context : depth[c] = 0
  BY DEF Init, Context, Code, Handler
<1>2. TypeOK
  BY <1>1 DEF Init, TypeOK, Place
<1>3. DepthCounted /\ HandlersDone
  BY <1>1 DEF Init, DepthCounted, HandlersDone
<1>4. Running = Code(current) /\ pc[Running] = "out"
  BY <1>1, <1>2 DEF Running, TypeOK
<1>5. Unraced
  BY <1>1, <1>2, <1>4 DEF Init, Unraced, OthersOutside, RunningMasked, HandlerMasked, Quiet, TypeOK
<1> QED BY <1>2, <1>3, <1>5 DEF LockInv

LEMMA LockNextKeeps == LockInv /\ [Next]_vars => LockInv'
<1> SUFFICES ASSUME LockInv, [Next]_vars PROVE LockInv'
  OBVIOUS
<1>1. ASSUME NEW c \in Context,
             \/ LockTest(c) \/ LockLoad(c) \/ LockMask(c) \/ LockTake(c)
             \/ UnlockRelease(c) \/ UnlockUnmask(c) \/ SwitchSpins(c)
      PROVE  LockInv'
  BY <1>1, LockTestKeeps, LockLoadKeeps, LockMaskKeeps, LockTakeKeeps, UnlockReleaseKeeps,
     UnlockUnmaskKeeps, SwitchSpinsKeeps
<1>2. ASSUME NEW c \in Context, NEW next \in Thread, Switch(c, next) PROVE LockInv'
  BY <1>2, SwitchKeeps
<1>3. CASE Irq \/ Iret
  BY <1>3, IrqKeeps, IretKeeps
<1>4. CASE SetFlag("on") \/ SetFlag("off")
  BY <1>4, SetFlagKeeps
<1>5. CASE UNCHANGED vars
  BY <1>5 DEF vars, lockVars, LockInv, TypeOK, DepthCounted, HandlersDone, Unraced,
     OthersOutside, RunningMasked, HandlerMasked, Quiet, Running
<1> QED BY <1>1, <1>2, <1>3, <1>4, <1>5 DEF Next

\* The lock counts its sections right in every behaviour, and masks interrupts in
\* all of them in every behaviour where none came between line 28 and the cli.
THEOREM LockCorrect == Spec => [](DepthCounted /\ MaskedUnlessRaced)
<1>1. LockInv => DepthCounted /\ MaskedUnlessRaced
  BY DEF LockInv, Unraced, MaskedUnlessRaced
<1> QED BY <1>1, LockInitInv, LockNextKeeps, PTL DEF Spec

===============================================================================
