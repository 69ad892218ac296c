------------------------------ MODULE Console ------------------------------
(***************************************************************************)
(* Keyboard, physical console, virtual consoles and terminals               *)
(* (infos/drivers/{input,console,video,terminal}): a key interrupt walks    *)
(* from the keyboard through the console that is shown into the ring buffer *)
(* of its terminal and wakes the thread that reads there; ALT with F1 or F2 *)
(* swaps the buffers of the consoles with the video memory.                 *)
(*                                                                         *)
(* Interrupt handlers run with interrupts disabled, so Irq is one step.     *)
(* The threads that read from and write to the terminals are interrupted    *)
(* between their statements.  Console c is attached to terminal c, which    *)
(* has at most one thread that reads it and one that writes to it.          *)
(***************************************************************************)
EXTENDS Integers, Sequences

CONSTANTS
    Letter,             \* keys that virtual consoles map to a character
    Readers,            \* the terminals that a thread reads
    Size,               \* ARRAY_SIZE(_read_buffer)
    NoThread,           \* the Data of a list node before it is assigned
    Interruptible,      \* where a thread can be when a key interrupt arrives
    TypeAhead,          \* how many unread characters the user types at most
    MaxTyped, MaxWritten    \* bounds of the model: characters per terminal

VC == 1..2              \* activate_console adds vc0 and vc1
Video == 0              \* the video memory, next to the consoles' own buffers
Key == Letter \cup {"F1", "F2", "ALT", "SHIFT", "UNKNOWN"}
Locations == {"test", "get", "advance", "link", "fill", "write", "yield", "store"}

ASSUME ConsoleAssumption ==
    /\ Readers \subseteq VC
    /\ Size \in Nat \ {0}
    /\ TypeAhead \in Nat /\ MaxTyped \in Nat /\ MaxWritten \in Nat
    /\ Interruptible \subseteq Locations
    /\ NoThread \notin VC \cup {Video}

VARIABLES
    altPressed,     \* PhysicalConsole::_alt_pressed
    currentVc,      \* PhysicalConsole::_current_vc, VGAConsoleDevice::_old_vc
    shift,          \* Shift in VirtualConsole::_current_mod_mask
    buffer,         \* VirtualConsole::_buffer: which memory it points to
    memory,         \* what each buffer holds: the last character written to it
    ring, head, tail,   \* Terminal::_read_buffer, _head and _tail
    waiters,        \* the wait list of Terminal::_read_buffer_event
    asleep,         \* the reader is SLEEPING
    pc, elem,       \* the statement the reader is at, and its local
    stores,         \* where a writer is about to store to, if it is
    typed, got, written,    \* history: characters appended, read and written
    fault

input == <<altPressed, currentVc, shift>>
reader == <<ring, head, tail, waiters, asleep, pc, elem, typed, got>>
screen == <<buffer, memory, stores, written>>
vars == <<input, reader, screen, fault>>

Char == [key : Letter, upper : BOOLEAN]
None == [key |-> "UNKNOWN", upper |-> FALSE]

\* activate_console: vc0 is shown and has the video memory as its buffer.
Init ==
    /\ altPressed = FALSE /\ currentVc = 1
    /\ shift = [c \in VC |-> FALSE]
    /\ buffer = [c \in VC |-> IF c = 1 THEN Video ELSE c]
    /\ memory = [m \in VC \cup {Video} |-> IF m = Video THEN <<1, 0>> ELSE <<m, 0>>]
    /\ ring = [c \in VC |-> [i \in 0..(Size - 1) |-> None]]
    /\ head = [c \in VC |-> 0] /\ tail = [c \in VC |-> 0]
    /\ waiters = [c \in VC |-> <<>>]
    /\ asleep = [c \in VC |-> FALSE]
    /\ pc = [c \in VC |-> "test"] /\ elem = [c \in VC |-> None]
    /\ stores = [c \in VC |-> NoThread]
    /\ typed = [c \in VC |-> <<>>] /\ got = [c \in VC |-> <<>>]
    /\ written = [c \in VC |-> 0]
    /\ fault = FALSE

----------------------------------------------------------------------------
(* The key interrupt. *)

\* What lies between head and tail of the ring of terminal c.
Unread(c) ==
    [i \in 1..((tail[c] - head[c]) % Size) |-> ring[c][(head[c] + i - 1) % Size]]

\* Variant: the index is wrapped one too early.
WrappedEarly(i) == (i + 1) % (Size - 1)

Advance(i) == (i + 1) % Size

\* Terminal::append_to_read_buffer: store, advance, trigger.  The event wakes every
\* waiter in its list and clears it; a reader that is not SLEEPING yet is not
\* affected, and a node without its thread is a wild pointer.
AppendToReadBuffer(c, ch) ==
    /\ Len(typed[c]) < MaxTyped /\ Len(Unread(c)) < TypeAhead
    /\ ring' = [ring EXCEPT ![c][tail[c]] = ch]
    /\ tail' = [tail EXCEPT ![c] = Advance(@)]
    /\ typed' = [typed EXCEPT ![c] = Append(@, ch)]
    /\ waiters' = [waiters EXCEPT ![c] = <<>>]
    /\ IF waiters[c] = <<NoThread>>
       THEN fault' = TRUE /\ UNCHANGED asleep
       ELSE /\ asleep' = [asleep EXCEPT ![c] = @ /\ waiters[c] = <<>>]
            /\ UNCHANGED fault
    /\ UNCHANGED <<head, pc, elem, got>>

\* Variant: the contents of the video memory are not saved.
SwitchWithoutSave(c) ==
    /\ buffer' = [buffer EXCEPT ![currentVc] = currentVc, ![c] = Video]
    /\ memory' = [memory EXCEPT ![Video] = memory[c]]

\* VGAConsoleDevice::virtual_console_changed: the console that was shown gets its
\* buffer back with the contents of the video memory, then the new one is copied
\* into the video memory and writes there.
VirtualConsoleChanged(c) ==
    LET backup == IF c = currentVc THEN c ELSE buffer[c]
        saved == [memory EXCEPT ![currentVc] = memory[Video]]
    IN  /\ buffer' = [buffer EXCEPT ![currentVc] = currentVc, ![c] = Video]
        /\ memory' = [saved EXCEPT ![Video] = saved[backup]]

\* PhysicalConsole::key_down: ALT with F1 or F2 is captured.
SwitchConsole(key) ==
    /\ altPressed
    /\ key \in {"F1", "F2"}
    /\ LET c == IF key = "F1" THEN 1 ELSE 2
       IN  VirtualConsoleChanged(c) /\ currentVc' = c
    /\ UNCHANGED <<altPressed, shift, reader, stores, written, fault>>

\* Every other key goes on to VirtualConsole::key_down of the shown console.
PressModifier(key) ==
    /\ key \in {"ALT", "SHIFT"}
    /\ altPressed' = (altPressed \/ key = "ALT")
    /\ shift' = [shift EXCEPT ![currentVc] = @ \/ key = "SHIFT"]
    /\ UNCHANGED <<currentVc, reader, screen, fault>>

PressLetter(key) ==
    /\ key \in Letter
    /\ AppendToReadBuffer(currentVc, [key |-> key, upper |-> shift[currentVc]])
    /\ UNCHANGED <<input, screen>>

\* key_up of both consoles.
KeyUp(key) ==
    /\ key \in {"ALT", "SHIFT"}
    /\ altPressed' = (altPressed /\ key # "ALT")
    /\ shift' = [shift EXCEPT ![currentVc] = @ /\ key # "SHIFT"]
    /\ UNCHANGED <<currentVc, reader, screen, fault>>

\* scancode_to_key: the code one past the end of the table passes the test and
\* reads whatever lies behind it.
ScancodeToKey(code) == IF code = "PAST_END" THEN Key ELSE {code}

\* keyboard_irq_handler.  Keys that no console maps change nothing.
Irq ==
    /\ ~fault
    /\ \A c \in VC : pc[c] \in Interruptible /\ (stores[c] # NoThread => "store" \in Interruptible)
    /\ \E code \in Key \cup {"PAST_END"} : \E key \in ScancodeToKey(code) :
          SwitchConsole(key) \/ PressModifier(key) \/ PressLetter(key) \/ KeyUp(key)

----------------------------------------------------------------------------
(* Terminal::read, one character at a time. *)

At(c, loc) == ~fault /\ pc[c] = loc
Goto(c, loc) == pc' = [pc EXCEPT ![c] = loc]

\* while (_read_buffer_head == _read_buffer_tail) wait
Test(c) ==
    /\ At(c, "test")
    /\ Goto(c, IF head[c] = tail[c] THEN "link" ELSE "get")
    /\ UNCHANGED <<input, screen, fault, ring, head, tail, waiters, asleep, elem, typed, got>>

Get(c) ==
    /\ At(c, "get")
    /\ elem' = [elem EXCEPT ![c] = ring[c][head[c]]]
    /\ Goto(c, "advance")
    /\ UNCHANGED <<input, screen, fault, ring, head, tail, waiters, asleep, typed, got>>

AdvanceHead(c) ==
    /\ At(c, "advance")
    /\ head' = [head EXCEPT ![c] = Advance(@)]
    /\ got' = [got EXCEPT ![c] = Append(@, elem[c])]
    /\ Goto(c, "test")
    /\ UNCHANGED <<input, screen, fault, ring, tail, waiters, asleep, elem, typed>>

\* WakeQueue::sleep: List::append links a node and then assigns its Data ...
Link(c) ==
    /\ At(c, "link")
    /\ waiters' = [waiters EXCEPT ![c] = <<NoThread>>]
    /\ Goto(c, "fill")
    /\ UNCHANGED <<input, screen, fault, ring, head, tail, asleep, elem, typed, got>>

\* Variant: the thread goes to sleep without a place in the list.
FillNothing(c) ==
    /\ At(c, "fill")
    /\ waiters' = [waiters EXCEPT ![c] = <<>>]
    /\ Goto(c, "write")
    /\ UNCHANGED <<input, screen, fault, ring, head, tail, asleep, elem, typed, got>>

Fill(c) ==
    /\ At(c, "fill")
    /\ waiters' = [waiters EXCEPT ![c] = <<c>>]
    /\ Goto(c, "write")
    /\ UNCHANGED <<input, screen, fault, ring, head, tail, asleep, elem, typed, got>>

\* ... and Thread::sleep makes the thread SLEEPING and gives up the processor.
SetSleeping(c) ==
    /\ At(c, "write")
    /\ asleep' = [asleep EXCEPT ![c] = TRUE]
    /\ Goto(c, "yield")
    /\ UNCHANGED <<input, screen, fault, ring, head, tail, waiters, elem, typed, got>>

Resume(c) ==
    /\ At(c, "yield")
    /\ ~asleep[c]
    /\ Goto(c, "test")
    /\ UNCHANGED <<input, screen, fault, ring, head, tail, waiters, asleep, elem, typed, got>>

ReaderStep(c) ==
    Test(c) \/ Get(c) \/ AdvanceHead(c) \/ Link(c) \/ Fill(c) \/ SetSleeping(c) \/ Resume(c)

----------------------------------------------------------------------------
(* VirtualConsole::write: the pointer is loaded, then the character stored. *)

LoadBuffer(c) ==
    /\ ~fault
    /\ stores[c] = NoThread
    /\ written[c] < MaxWritten
    /\ stores' = [stores EXCEPT ![c] = buffer[c]]
    /\ UNCHANGED <<input, reader, buffer, memory, written, fault>>

StoreChar(c) ==
    /\ ~fault
    /\ stores[c] # NoThread
    /\ memory' = [memory EXCEPT ![stores[c]] = <<c, written[c] + 1>>]
    /\ written' = [written EXCEPT ![c] = @ + 1]
    /\ stores' = [stores EXCEPT ![c] = NoThread]
    /\ UNCHANGED <<input, reader, buffer, fault>>

Halted == fault /\ UNCHANGED vars

Next ==
    \/ Irq
    \/ \E c \in Readers : ReaderStep(c)
    \/ \E c \in VC : LoadBuffer(c) \/ StoreChar(c)
    \/ Halted

Spec == Init /\ [][Next]_vars

\* The reading thread is scheduled whenever it is runnable.
FairSpec == Spec /\ \A c \in Readers : WF_vars(ReaderStep(c))

----------------------------------------------------------------------------
(* Properties. *)

TypeOK ==
    /\ altPressed \in BOOLEAN /\ currentVc \in VC /\ shift \in [VC -> BOOLEAN]
    /\ buffer \in [VC -> VC \cup {Video}]
    /\ memory \in [VC \cup {Video} -> VC \X Nat]
    /\ ring \in [VC -> [0..(Size - 1) -> Char \cup {None}]]
    /\ head \in [VC -> 0..(Size - 1)] /\ tail \in [VC -> 0..(Size - 1)]
    /\ waiters \in [VC -> {<<>>, <<NoThread>>} \cup {<<c>> : c \in VC}]
    /\ asleep \in [VC -> BOOLEAN]
    /\ pc \in [VC -> Locations] /\ elem \in [VC -> Char \cup {None}]
    /\ stores \in [VC -> VC \cup {Video, NoThread}]
    /\ typed \in [VC -> Seq(Char)] /\ got \in [VC -> Seq(Char)]
    /\ written \in [VC -> Nat]
    /\ fault \in BOOLEAN

\* Each terminal is a queue: what was read from it and what is left in its ring are
\* the characters typed into it, once each and in order, wherever the interrupts
\* fell, as long as the user is fewer than Size characters ahead.
InputInOrder == \A c \in VC : typed[c] = got[c] \o Unread(c)

\* The ring's indices stay in bounds and the input stays in order.
InputIsSound == TypeOK /\ InputInOrder

\* Switching loses no output: each console's buffer ends with the last character
\* written to that console, shown or not, and the screen shows the current console.
OutputKept ==
    \A c \in VC : stores[c] = NoThread =>
        /\ memory[buffer[c]] = <<c, written[c]>>
        /\ buffer[c] = Video <=> c = currentVc

\* A typed character reaches the thread that reads the terminal, if key interrupts
\* stay out of the window between its test of the ring and its sleep.
InputDelivered ==
    \A c \in Readers, n \in 0..MaxTyped :
        (Len(got[c]) = n /\ Unread(c) # <<>>) ~> (Len(got[c]) > n \/ fault)
=============================================================================
