-------------------------------- MODULE Frames --------------------------------
(***************************************************************************)
(* Physical frames (paging.hpp, paging.cpp): the bitmap, the boot mapping  *)
(* of the kernel, page faults, fork's copy of an address space and the     *)
(* release of one.                                                         *)
(*                                                                         *)
(* A page fault is handled with interrupts enabled and takes no lock, so a *)
(* timer interrupt may run another thread between first_frame and          *)
(* set_frame: they are two steps.  clone_directory (in fork) and           *)
(* free_directory (in cleanup) run under the scheduler's lock: one step.   *)
(* Each address space has one thread.                                      *)
(***************************************************************************)
EXTENDS Integers, Sequences, FiniteSets

CONSTANTS
  Dir,        \* the page directories
  InitDir,    \* the one of the first process
  NPages,     \* the pages of a process are 1 .. NPages
  NFrames,    \* nframes
  NKernel,    \* the number of frames that init maps
  PageSize,   \* cpu::cPageSize
  WordBits    \* 8 * 4, the bits of a word of the bitmap

ASSUME FramesAssumption ==
  /\ InitDir \in Dir
  /\ {NPages, NFrames, NKernel, PageSize, WordBits} \subseteq Nat \ {0}
  /\ NFrames <= PageSize * NKernel

VARIABLES
  bits,       \* frames: the set of the frames whose bit is set
  kernel,     \* the frames of the kernel's pages, from KERNEL_VIRTUAL_BASE up
  alive,      \* the directories in use
  frame,      \* Page::frame of each page of each directory, 0 for none
  present,    \* the pages whose present bit is set
  at,         \* "run", or "found" between first_frame and set_frame
  page, idx,  \* the page and the frame of that alloc_frame (1 and 0 outside it)
  halted,     \* "yes" after kabort()
  raced       \* history: "yes" once a frame was taken that had been taken since
              \* it was found

vars == <<bits, kernel, alive, frame, present, at, page, idx, halted, raced>>

Page == 1 .. NPages
Frame == 0 .. NFrames - 1
Booted == Len(kernel) = NKernel

\* Mutant: the number of words is rounded up.
FreeRoundedUp == (0 .. (NFrames \div WordBits + 1) * WordBits - 1) \ bits

\* What first_frame looks at: whole words of the bitmap
Free == {f \in Frame : f < (NFrames \div WordBits) * WordBits} \ bits

\* The frame that the n-th call of first_frame from now finds, the others taken
NthFree(n) == CHOOSE f \in Free : Cardinality({g \in Free : g < f}) = n

\* Mutant: the search starts from the other end.
LastFrame == CHOOSE f \in Free : \A g \in Free : f >= g

first_frame == NthFree(0)

set_frame(s, addr) == s \cup {addr \div PageSize}

clear_frame(s, addr) == s \ {addr \div PageSize}

Init ==
  /\ bits = {} /\ kernel = <<>> /\ alive = {}
  /\ frame = [d \in Dir |-> [p \in Page |-> 0]] /\ present = [d \in Dir |-> {}]
  /\ at = [d \in Dir |-> "run"] /\ page = [d \in Dir |-> 1] /\ idx = [d \in Dir |-> 0]
  /\ halted = "no" /\ raced = "no"

-------------------------------------------------------------------------------
\* VirtualMemory::init: the loop over the kernel's pages, then the first process
Boot ==
  /\ ~Booted /\ Free # {}
  /\ bits' = set_frame(bits, first_frame * PageSize)
  /\ kernel' = Append(kernel, first_frame)
  /\ alive' = IF Len(kernel') = NKernel THEN {InitDir} ELSE alive
  /\ UNCHANGED <<frame, present, at, page, idx, halted, raced>>

\* A fault on p: alloc_frame up to first_frame, and kabort() if there is none
Find(d, p) ==
  /\ halted = "no" /\ d \in alive /\ at[d] = "run"
  /\ p \notin present[d] /\ frame[d][p] = 0
  /\ IF Free = {}
     THEN halted' = "yes" /\ UNCHANGED <<at, page, idx>>
     ELSE /\ at' = [at EXCEPT ![d] = "found"]
          /\ page' = [page EXCEPT ![d] = p]
          /\ idx' = [idx EXCEPT ![d] = first_frame]
          /\ UNCHANGED halted
  /\ UNCHANGED <<bits, kernel, alive, frame, present, raced>>

\* the rest of alloc_frame: set_frame, assign
Take(d) ==
  /\ halted = "no" /\ at[d] = "found"
  /\ bits' = set_frame(bits, idx[d] * PageSize)
  /\ frame' = [frame EXCEPT ![d][page[d]] = idx[d]]
  /\ present' = [present EXCEPT ![d] = @ \cup {page[d]}]
  /\ at' = [at EXCEPT ![d] = "run"]
  /\ page' = [page EXCEPT ![d] = 1] /\ idx' = [idx EXCEPT ![d] = 0]
  /\ raced' = IF idx[d] \in bits THEN "yes" ELSE raced
  /\ UNCHANGED <<kernel, alive, halted>>

\* The pages clone_table copies: those with a frame other than 0
Copied(d) == {p \in Page : frame[d][p] # 0}

\* Mutant: the copy shares the frames of the original.
CopyShared(d, p) == frame[d][p]

\* The frame of the copy of p
CopyOf(d, p) == NthFree(Cardinality({q \in Copied(d) : q < p}))

\* fork: clone_directory, which aborts when the frames run out
Clone(d, e) ==
  /\ halted = "no" /\ d \in alive /\ e \notin alive /\ at[d] = "run"
  /\ IF Cardinality(Copied(d)) > Cardinality(Free)
     THEN halted' = "yes" /\ UNCHANGED <<bits, alive, frame, present>>
     ELSE /\ frame' = [frame EXCEPT ![e] = [p \in Page |-> IF p \in Copied(d) THEN CopyOf(d, p) ELSE 0]]
          /\ bits' = bits \cup {CopyOf(d, p) : p \in Copied(d)}
          /\ present' = [present EXCEPT ![e] = Copied(d)]
          /\ alive' = alive \cup {e}
          /\ UNCHANGED halted
  /\ UNCHANGED <<kernel, at, page, idx, raced>>

\* free_frame: it is the number of the frame, not its address, that clear_frame is
\* given
free_frame(s, f) == IF f = 0 THEN s ELSE clear_frame(s, f)

\* free_table, of every table of d's own: what it leaves of the bitmap
free_table(d) == {b \in bits : \A p \in Page : b \in free_frame(bits, frame[d][p])}

\* cleanup: free_directory
Release(d) ==
  /\ halted = "no" /\ d \in alive /\ at[d] = "run"
  /\ bits' = free_table(d)
  /\ frame' = [frame EXCEPT ![d] = [p \in Page |-> 0]]
  /\ present' = [present EXCEPT ![d] = {}]
  /\ alive' = alive \ {d}
  /\ UNCHANGED <<kernel, at, page, idx, halted, raced>>

Next ==
  \/ Boot
  \/ \E d \in Dir : \/ Take(d) \/ Release(d)
                    \/ \E p \in Page : Find(d, p)
                    \/ \E e \in Dir : Clone(d, e)

Spec == Init /\ [][Next]_vars

-------------------------------------------------------------------------------
TypeOK ==
  /\ bits \subseteq Frame /\ kernel \in Seq(Frame) /\ Len(kernel) <= NKernel
  /\ alive \subseteq Dir
  /\ frame \in [Dir -> [Page -> Frame]] /\ present \in [Dir -> SUBSET Page]
  /\ at \in [Dir -> {"run", "found"}] /\ page \in [Dir -> Page] /\ idx \in [Dir -> Frame]
  /\ halted \in {"yes", "no"} /\ raced \in {"yes", "no"}

\* Page i of the kernel is mapped to frame i: "alloc_user_frame MUST allocation
\* linearly from 0 upward otherwise our page table won't point to the existing
\* locations" (paging.cpp:211).
KernelMapLinear == \A i \in 1 .. Len(kernel) : kernel[i] = i - 1

\* A frame above the kernel's belongs to one page of one process, whatever was
\* mapped, copied and released, unless a fault was overtaken by another between
\* first_frame and set_frame (alloc_frame takes no lock).
FramesOwned ==
  raced = "no" =>
    \A d, e \in Dir, p, q \in Page :
      frame[d][p] >= NKernel /\ frame[d][p] = frame[e][q] => d = e /\ p = q

\* The frames that hold the kernel stay allocated: "the memory is already in use
\* (it holds the kernel, thats how we got here)" (paging.cpp:208).
KernelFramesKept == \A i \in 1 .. Len(kernel) : kernel[i] \in bits

===============================================================================
