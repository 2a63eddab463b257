------------------------------- MODULE Terminal -------------------------------
(***************************************************************************)
(* The console as an input device: the keyboard's buffer, filled by its    *)
(* interrupt; process_keyboard, run at the end of every interrupt, which   *)
(* hands the bytes to ConsoleDevice::inject_bytes; and the threads inside  *)
(* ConsoleDevice::read_bytes (keyboard.cpp, scheduler.cpp, buffer.cpp,     *)
(* character/console.cpp, wait_queue.cpp).                                 *)
(*                                                                         *)
(* An interrupt is one step, taken between any two steps of the processes. *)
(* A statement of open(), read_bytes or wait() that touches shared state is *)
(* a step of its own, and any runnable process takes the next one: which,  *)
(* is up to switch_thread.  io_wait is one step, as in Scheduler (IoWait   *)
(* says what its own window allows).                                       *)
(***************************************************************************)
EXTENDS Integers, Sequences, SequencesExt

CONSTANTS
  Reader,     \* the threads that read the console
  Char,       \* the characters, "nl" among them
  KbdSize,    \* Keyboard::cDefaultBufferSize
  RawSize,    \* the size open() gives raw_buffer_
  Sizes,      \* the sizes the readers ask for
  None

ASSUME TerminalAssumption ==
  /\ "nl" \in Char /\ None \notin Char
  /\ KbdSize \in Nat \ {0} /\ RawSize \in Nat /\ Sizes \subseteq Nat \ {0}

VARIABLES
  kbd,        \* Keyboard::buffer_
  raw,        \* ConsoleDevice::raw_buffer_
  size,       \* its size_, 0 until open()
  data,       \* its data_: "null" until open() has allocated it, then "heap"
  opening,    \* "yes" between the two assignments of Buffer::allocate
  region,     \* read_region_: the bytes up to end_, and how many precede start_
  canonical,  \* TTY::canonical_
  attached,   \* "yes" once the scheduler has its console_
  queue,      \* read_wait_.threads_
  state,      \* Thread::state_
  pc,         \* where each reader is
  count,      \* count of drain_into
  halted,     \* "assert" once ASSERT(buffer.copy(raw_buffer_)) has failed,
              \* "fault" once memcpy was given a null pointer or a negative count
  accepted,   \* history: the bytes the keyboard took and raw_buffer_ should have
  cooked,     \* history: "no" once a process has left canonical mode
  readers,    \* history: the threads that have called read_bytes
  missed      \* history: the readers interrupted by a byte between their test
              \* of the region and their place on the queue

deviceVars == <<kbd, raw, size, data, opening, region, canonical, attached, halted, accepted, cooked>>
readerVars == <<queue, state, pc, count, readers, missed>>
vars == <<deviceVars, readerVars>>

Empty(reg) == reg.at >= Len(reg.text)

Init ==
  /\ kbd = <<>> /\ raw = <<>> /\ size = 0 /\ data = "null" /\ opening = "no"
  /\ region = [text |-> <<>>, at |-> 0]
  /\ canonical = "yes" /\ attached = "no" /\ halted = "no"
  /\ accepted = <<>> /\ cooked = "yes"
  /\ queue = <<>> /\ state = [t \in Reader |-> "eReady"] /\ readers = {} /\ missed = {}
  /\ pc = [t \in Reader |-> "user"] /\ count = [t \in Reader |-> 0]

-------------------------------------------------------------------------------
(* The interrupt.                                                          *)

\* Mutant: put does not test for a full buffer.
PressedUnchecked(c) == IF c = None THEN kbd ELSE Append(kbd, c)

\* Keyboard::put: a full buffer drops the key
Pressed(c) == IF c = None \/ Len(kbd) = KbdSize THEN kbd ELSE Append(kbd, c)

\* Buffer::find_newline: where the first line of r ends, or 0
FirstNewline(r) == SelectInSeq(r, LAMBDA c : c = "nl")

\* Mutant: the line ends before its newline.
ShownShort(r) ==
  IF canonical = "yes"
  THEN IF FirstNewline(r) = 0 THEN region ELSE [text |-> SubSeq(r, 1, FirstNewline(r) - 1), at |-> 0]
  ELSE [text |-> r, at |-> 0]

\* Mutant: outside canonical mode start_ is left at the end of the bytes.
ShownFromEnd(r) ==
  IF canonical = "yes"
  THEN IF FirstNewline(r) = 0 THEN region ELSE [text |-> SubSeq(r, 1, FirstNewline(r)), at |-> 0]
  ELSE [text |-> r, at |-> Len(r)]

\* What inject_bytes lets a reader see of raw_buffer_
Shown(r) ==
  IF canonical = "yes"
  THEN IF FirstNewline(r) = 0 THEN region ELSE [text |-> SubSeq(r, 1, FirstNewline(r)), at |-> 0]
  ELSE [text |-> r, at |-> 0]

\* WaitQueue::wake
Wake ==
  IF queue = <<>> THEN UNCHANGED <<queue, state>>
  ELSE queue' = Tail(queue) /\ state' = [state EXCEPT ![Head(queue)] = "eReady"]

\* buffer.copy has no room, or open() has announced room and not yet provided it
Panic(bytes) ==
  /\ halted' = IF Len(raw) + Len(bytes) > size THEN "assert" ELSE "fault"
  /\ kbd' = bytes
  /\ UNCHANGED <<raw, region, queue, state, missed>>

\* inject_bytes with these bytes, after which the keyboard's buffer holds rest
Deliver(bytes, rest, quiet) ==
  IF Len(raw) + Len(bytes) > size \/ data = "null"
  THEN Panic(bytes)
  ELSE /\ raw' = raw \o bytes /\ kbd' = rest
       /\ region' = Shown(raw')
       /\ IF quiet
          THEN UNCHANGED <<queue, state, missed>>
          ELSE Wake /\ missed' = missed \cup {t \in Reader : pc[t] \in {"start", "append"}}
       /\ UNCHANGED halted

\* Mutant: process_keyboard does not clear the keyboard's buffer.
InjectKeeps(bytes) == Deliver(bytes, bytes, canonical = "yes" /\ FirstNewline(raw \o bytes) = 0)

\* Mutant: inject_bytes wakes a reader only outside canonical mode.
InjectNoWake(bytes) == Deliver(bytes, <<>>, canonical = "yes")

\* process_keyboard with something to do: inject_bytes, which wakes a reader
\* unless the line is still being typed, and buffer.clear()
Inject(bytes) == Deliver(bytes, <<>>, canonical = "yes" /\ FirstNewline(raw \o bytes) = 0)

\* irq_handler: of the keyboard with a character c, or of another device
Irq(c) ==
  /\ halted = "no"
  /\ accepted' = IF Pressed(c) = kbd THEN accepted ELSE Append(accepted, c)
  /\ IF attached = "no" \/ Pressed(c) = <<>>
     THEN kbd' = Pressed(c) /\ UNCHANGED <<raw, region, queue, state, missed, halted>>
     ELSE Inject(Pressed(c))
  /\ UNCHANGED <<size, data, opening, canonical, attached, cooked, pc, count, readers>>

-------------------------------------------------------------------------------
(* Processes.                                                              *)

\* console_driver::init
Attach ==
  /\ halted = "no" /\ attached = "no"
  /\ attached' = "yes"
  /\ UNCHANGED <<kbd, raw, size, data, opening, region, canonical, halted, accepted, cooked, readerVars>>

\* ConsoleDevice::open, in Buffer::allocate: size_ = size,
OpenSize ==
  /\ halted = "no" /\ attached = "yes" /\ opening = "no"
  /\ size' = RawSize /\ opening' = "yes"
  /\ UNCHANGED <<kbd, raw, data, region, canonical, attached, halted, accepted, cooked, readerVars>>

\* data_ = kmalloc(size): memory whose first used_ bytes are whatever it held.  The
\* bytes that a second open leaves behind in the old memory are lost; `accepted'
\* starts again from what the new memory holds.
OpenData(r) ==
  /\ halted = "no" /\ opening = "yes"
  /\ r \in [1 .. Len(raw) -> Char]
  /\ raw' = r /\ data' = "heap" /\ opening' = "no"
  /\ accepted' = r \o kbd
  /\ UNCHANGED <<kbd, size, region, canonical, attached, halted, cooked, readerVars>>

\* ioctl TCSETS
SetMode(mode) ==
  /\ halted = "no" /\ data = "heap" /\ canonical # mode
  /\ canonical' = mode /\ cooked' = "no"
  /\ UNCHANGED <<kbd, raw, size, data, opening, region, attached, halted, accepted, readerVars>>

Runs(t, place) == halted = "no" /\ pc[t] = place /\ state[t] # "eIOWait"

Goto(t, place) == pc' = [pc EXCEPT ![t] = place]

\* read_bytes: while(read_region_.empty_p())
Test(t) ==
  /\ Runs(t, "user") /\ data = "heap"
  /\ Goto(t, IF Empty(region) THEN "start" ELSE "drain")
  /\ readers' = readers \cup {t}
  /\ UNCHANGED <<deviceVars, queue, state, count, missed>>

\* WaitQueue::wait: start_io,
StartIO(t) ==
  /\ Runs(t, "start")
  /\ state' = [state EXCEPT ![t] = "eIOPending"]
  /\ Goto(t, "append")
  /\ UNCHANGED <<deviceVars, queue, count, readers, missed>>

\* threads_.append,
Enqueue(t) ==
  /\ Runs(t, "append")
  /\ queue' = Append(queue, t)
  /\ Goto(t, "iowait")
  /\ UNCHANGED <<deviceVars, state, count, readers, missed>>

\* Mutant: io_wait parks without a look at the state.
IOWaitUnchecked(t) ==
  /\ Runs(t, "iowait")
  /\ state' = [state EXCEPT ![t] = "eIOWait"]
  /\ Goto(t, "user")
  /\ UNCHANGED <<deviceVars, queue, count, readers, missed>>

\* io_wait, and back to the test
IOWait(t) ==
  /\ Runs(t, "iowait")
  /\ state' = [state EXCEPT ![t] = IF @ = "eIOPending" THEN "eIOWait" ELSE @]
  /\ Goto(t, "user")
  /\ UNCHANGED <<deviceVars, queue, count, readers, missed>>

\* Region::drain_into: count and memcpy, which takes a negative count as a u32
Copy(t, n) ==
  LET left == Len(region.text) - region.at IN
  /\ Runs(t, "drain")
  /\ count' = [count EXCEPT ![t] = IF left < n THEN left ELSE n]
  /\ halted' = IF left < 0 THEN "fault" ELSE halted
  /\ Goto(t, "advance")
  /\ UNCHANGED <<kbd, raw, size, data, opening, region, canonical, attached, accepted, cooked, queue, state, readers, missed>>

\* start_ += count
Advance(t) ==
  /\ Runs(t, "advance")
  /\ region' = [region EXCEPT !.at = @ + count[t]]
  /\ Goto(t, "user")
  /\ UNCHANGED <<kbd, raw, size, data, opening, canonical, attached, halted, accepted, cooked, queue, state, count, readers, missed>>

Next ==
  \/ \E c \in Char \cup {None} : Irq(c)
  \/ Attach \/ \E mode \in {"yes", "no"} : SetMode(mode)
  \/ OpenSize \/ \E r \in [1 .. Len(raw) -> Char] : OpenData(r)
  \/ \E t \in Reader : \/ Test(t) \/ StartIO(t) \/ Enqueue(t) \/ IOWait(t) \/ Advance(t)
                       \/ \E n \in Sizes : Copy(t, n)

Spec == Init /\ [][Next]_vars

-------------------------------------------------------------------------------
TypeOK ==
  /\ kbd \in Seq(Char) /\ Len(kbd) <= KbdSize
  /\ raw \in Seq(Char) /\ Len(raw) <= size /\ size \in {0, RawSize}
  /\ region.text \in Seq(Char) /\ region.at \in Nat
  /\ canonical \in {"yes", "no"} /\ attached \in {"yes", "no"}
  /\ data \in {"null", "heap"} /\ opening \in {"yes", "no"} /\ halted \in {"no", "assert", "fault"}
  /\ queue \in Seq(Reader)
  /\ state \in [Reader -> {"eReady", "eIOPending", "eIOWait"}]
  /\ pc \in [Reader -> {"user", "start", "append", "iowait", "drain", "advance"}]
  /\ count \in [Reader -> Int]

\* A key the keyboard's buffer has taken is handed on once and in order, also
\* when keys pile up before there is a console (process_keyboard, buffer.copy), and
\* stays until the next open gives raw_buffer_ other memory.  The bytes that such
\* an open loses (buffer.cpp:9) are not counted: what arrives after it is.
KeysArriveInOrder == raw \o kbd = accepted

\* In canonical mode a reader is shown one line, all of it, with its newline
\* (find_newline), and never bytes of a line that is still being typed.
CanonicalShowsOneLine ==
  cooked = "yes" /\ region.text # <<>> =>
    \A i \in 1 .. Len(region.text) : region.text[i] = "nl" <=> i = Len(region.text)

\* A reader parked by io_wait is on the queue that inject_bytes wakes.
ParkedIsQueued == \A t \in Reader : state[t] = "eIOWait" => \E i \in 1 .. Len(queue) : queue[i] = t

\* As long as one thread reads the console, it does not sleep on input that is
\* there: unless the bytes came between its test of the region and its append to
\* the queue, where wake() found nobody (console.cpp:29, wait_queue.cpp:19).
NoSleepOnInput ==
  \A t \in Reader : readers = {t} /\ state[t] = "eIOWait" /\ t \notin missed => Empty(region)

\* As long as one thread reads the console, input it has found is still there when
\* it copies it, whatever interrupts do to the region in between: read_bytes never
\* returns 0.
ReadGetsSome == \A t \in Reader : readers = {t} /\ pc[t] = "drain" => ~Empty(region)

===============================================================================
