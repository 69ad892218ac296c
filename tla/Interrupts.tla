----------------------------- MODULE Interrupts -----------------------------
(***************************************************************************)
(* Interrupts from the gate to iretq: the vectors and their IRQ objects      *)
(* (infos/arch/x86/irq.cpp), the entry code that keeps a chain of contexts   *)
(* per thread (trap.S), the I/O APIC and the local APIC with its timer       *)
(* (infos/drivers/irq, infos/drivers/timer), and the start-up that sets them *)
(* up.  The APICs are external: a vector is accepted when interrupts are     *)
(* enabled and no vector of its class or a higher one is in service.         *)
(*                                                                         *)
(* A handler does not wait for a mutex here; KernelMutex models what happens *)
(* when it does.                                                            *)
(***************************************************************************)
EXTENDS Integers, Sequences, FiniteSets

CONSTANTS
    CpuThread,          \* the threads the scheduler can choose
    MaxVector,          \* the vectors are 0..MaxVector
    Exceptions,         \* the first vectors, which are the processor's exceptions
    ClassSize,          \* vectors of one priority class
    PageFault, Trap, KernelSyscall, UserSyscall,     \* fixed vectors
    ErrorCodes,         \* the exceptions for which the processor pushes an error code
    Pins, KeyboardPin,  \* inputs of the I/O APIC, 0..Pins, and the keyboard's
    MaxRaised,          \* bound: interrupts that devices raise
    Ticks,              \* what the local APIC can count during a calibration
    Divide, Periods,    \* 16 and 100: its divider, and the periods in a second
    Word32              \* 2^32

Vector == 0..MaxVector

\* The system calls (0x80 and 0x81) leave the first vectors behind the exceptions free.
ASSUME InterruptAssumption ==
    /\ Exceptions \in Nat /\ MaxVector \in Nat /\ Pins \in Nat /\ KeyboardPin \in 0..Pins
    /\ {PageFault, Trap} \subseteq 0..(Exceptions - 1)
    /\ {KernelSyscall, UserSyscall} \subseteq (Exceptions + 2)..MaxVector /\ KernelSyscall # UserSyscall
    /\ CpuThread # {} /\ Ticks \subseteq Nat /\ {Divide, Periods, Word32} \subseteq Nat \ {0}

User == [vec |-> -1, pc |-> "user"]

VARIABLES
    phase,              \* how far the start-up is
    desc,               \* Vector -> its IRQ object: the class and the handler
    gate,               \* Vector -> the privilege level that may invoke it
    redir,              \* I/O APIC: pin -> vector and mask
    lapic,              \* the local APIC: requested and in service, and the timer
    cpu,                \* the interrupt flag, the current thread, the code that runs
    ctx,                \* CpuThread -> the chain of its native contexts
    raised,             \* interrupts raised so far
    stopped,            \* threads whose process a page fault has terminated
    pressed             \* keys for which the keyboard's handler has not run

irqVars == <<phase, desc, gate, redir, lapic, cpu, ctx, raised, stopped, pressed>>

NoIRQ == [class |-> "none", handler |-> "none"]
NoTimer == [masked |-> TRUE, vector |-> 0, initial |-> 0, periodic |-> FALSE, elapsed |-> 0, frequency |-> 0]

\* The words of a context: what the processor pushes, a word for the error code, fifteen
\* registers and the previous context, which restore_context and iretq take off again.
FrameWords == 5 + 1 + 15 + 1

InterruptInit ==
    /\ phase = "gates" /\ raised = 0 /\ pressed = 0 /\ stopped = {}
    /\ desc = [v \in Vector |-> NoIRQ] /\ gate = [v \in Vector |-> -1]
    /\ redir = [p \in 0..Pins |-> [vector |-> 0, masked |-> TRUE]]
    /\ lapic = [irr |-> {}, isr |-> {}, timer |-> NoTimer]
    /\ cpu = [if |-> FALSE, thread |-> CHOOSE t \in CpuThread : TRUE, run |-> User]
    /\ ctx = [t \in CpuThread |-> <<[run |-> User, if |-> TRUE, words |-> FrameWords]>>]

----------------------------------------------------------------------------
(* Start-up, one thread with interrupts disabled until Scheduler::run. *)

Phase(from, to) == phase = from /\ phase' = to

\* IRQManager::init.
InitGates ==
    /\ Phase("gates", "handlers")
    /\ gate' = [v \in Vector |-> IF v \in {Trap, UserSyscall} THEN 3 ELSE 0]
    /\ desc' = [v \in Vector |-> IF v < Exceptions THEN [class |-> "exception", handler |-> "none"] ELSE NoIRQ]
    /\ UNCHANGED <<redir, lapic, cpu, ctx, raised, stopped, pressed>>

\* install_handler: the object is made if there is none, and gets the handler.
install_handler(d, class, v, handler) ==
    [d EXCEPT ![v] = [class |-> IF @.class = "none" THEN class ELSE @.class, handler |-> handler]]

\* X86Arch::init_irq and mm_pf_init.
InstallHandlers ==
    /\ Phase("handlers", "lapic")
    /\ LET d1 == install_handler(desc, "exception", Trap, "trap")
           d2 == install_handler(d1, "software", KernelSyscall, "ksys")
           d3 == install_handler(d2, "software", UserSyscall, "usys")
       IN desc' = install_handler(d3, "exception", PageFault, "fault")
    /\ UNCHANGED <<gate, redir, lapic, cpu, ctx, raised, stopped, pressed>>

\* Variant: vectors that are in use are taken again.
attach_first == Exceptions
\* attach_irq: the first vector without an object.
attach_irq ==
    CHOOSE v \in Exceptions..MaxVector :
        desc[v] = NoIRQ /\ \A w \in Exceptions..(v - 1) : desc[w] # NoIRQ

\* LAPIC::init.
InitLAPIC ==
    /\ Phase("lapic", "ioapic")
    /\ desc' = [desc EXCEPT ![attach_irq] = [class |-> "lapic", handler |-> "none"]]
    /\ lapic' = [lapic EXCEPT !.isr = {}, !.timer.masked = TRUE, !.timer.vector = attach_irq]
    /\ UNCHANGED <<gate, redir, cpu, ctx, raised, stopped, pressed>>

\* IOAPIC::init clears the entries below _nr_irqs, which is the number of the last pin.
InitIOAPIC ==
    /\ Phase("ioapic", "timer")
    /\ redir' = [p \in 0..Pins |-> IF p < Pins THEN [vector |-> 0, masked |-> FALSE] ELSE redir[p]]
    /\ UNCHANGED <<desc, gate, lapic, cpu, ctx, raised, stopped, pressed>>

\* reset, then a mode and a count: the timer stays masked.
Programmed(timer, periodic, count) == [timer EXCEPT !.masked = TRUE, !.periodic = periodic, !.initial = count]

\* LAPICTimer::init, and calibrate up to the start of both timers.
BeginCalibration ==
    /\ Phase("timer", "calibrate")
    /\ desc' = [desc EXCEPT ![lapic.timer.vector].handler = "timer"]
    /\ lapic' = [lapic EXCEPT !.timer = [Programmed(@, FALSE, Word32 - 1) EXCEPT !.masked = FALSE]]
    /\ UNCHANGED <<gate, redir, cpu, ctx, raised, stopped, pressed>>

\* The frequency from the ticks of one period, in words of 32 bits.
Frequency(ticks) == (((ticks * Divide) % Word32) * Periods) % Word32
\* The PIT has expired, after the local APIC has counted some ticks.
EndCalibration ==
    /\ Phase("calibrate", "periodic")
    /\ \E n \in Ticks : lapic' = [lapic EXCEPT !.timer.masked = TRUE, !.timer.elapsed = n,
                                              !.timer.frequency = Frequency(n)]
    /\ UNCHANGED <<desc, gate, redir, cpu, ctx, raised, stopped, pressed>>

PeriodOf(frequency) == (frequency \div Divide) \div Periods

\* timer_init sets the period.
StartTimer ==
    /\ Phase("periodic", "run")
    /\ lapic' = [lapic EXCEPT !.timer = [Programmed(@, TRUE, PeriodOf(@.frequency)) EXCEPT !.masked = FALSE]]
    /\ UNCHANGED <<desc, gate, redir, cpu, ctx, raised, stopped, pressed>>

\* Scheduler::run.
RunScheduler ==
    /\ Phase("run", "devices") /\ cpu' = [cpu EXCEPT !.if = TRUE]
    /\ UNCHANGED <<desc, gate, redir, lapic, ctx, raised, stopped, pressed>>

\* Keyboard::init, in a thread: the pin is routed before the handler is attached.
RequestPin ==
    /\ Phase("devices", "attach") /\ cpu.run = User /\ KeyboardPin < Pins
    /\ desc' = [desc EXCEPT ![attach_irq] = [class |-> "ioapic", handler |-> "none"]]
    /\ redir' = [redir EXCEPT ![KeyboardPin] = [vector |-> attach_irq, masked |-> FALSE]]
    /\ UNCHANGED <<gate, lapic, cpu, ctx, raised, stopped, pressed>>
AttachKeyboard ==
    /\ Phase("attach", "up") /\ cpu.run = User
    /\ desc' = [desc EXCEPT ![redir[KeyboardPin].vector].handler = "keyboard"]
    /\ UNCHANGED <<gate, redir, lapic, cpu, ctx, raised, stopped, pressed>>

----------------------------------------------------------------------------
(* Devices. *)

\* A vector below 16 is refused by the local APIC.
RaisePin(p) ==
    /\ raised < MaxRaised /\ ~redir[p].masked
    /\ raised' = raised + 1
    /\ pressed' = IF p = KeyboardPin /\ phase = "up" THEN 1 ELSE pressed
    /\ lapic' = IF redir[p].vector < Exceptions THEN lapic ELSE [lapic EXCEPT !.irr = @ \cup {redir[p].vector}]
    /\ UNCHANGED <<phase, desc, gate, redir, cpu, ctx, stopped>>

TimerFires ==
    /\ raised < MaxRaised /\ ~lapic.timer.masked /\ lapic.timer.periodic
    /\ raised' = raised + 1
    /\ lapic' = [lapic EXCEPT !.irr = @ \cup {lapic.timer.vector}]
    /\ UNCHANGED <<phase, desc, gate, redir, cpu, ctx, stopped, pressed>>

----------------------------------------------------------------------------
(* Entry, dispatch and return. *)

\* The entry points: which of them find an error code on the stack.
has_arg(v) == v \in ErrorCodes
Pushed(v) == 5 + (IF v \in ErrorCodes THEN 1 ELSE 0) + (IF has_arg(v) THEN 0 ELSE 1) + 15 + 1

\* save_context pushes the code that was running on the chain of the current thread.
Enter(v) ==
    /\ cpu' = [cpu EXCEPT !.if = FALSE, !.run = [vec |-> v, pc |-> "dispatch"]]
    /\ ctx' = [ctx EXCEPT ![cpu.thread] = <<[run |-> cpu.run, if |-> cpu.if, words |-> Pushed(v)]>> \o @]
    /\ UNCHANGED <<phase, desc, gate, redir, raised, pressed>>

ClassOf(v) == v \div ClassSize
Accept(v) ==
    /\ cpu.if /\ v \in lapic.irr
    /\ \A w \in lapic.irr : w <= v
    /\ \A w \in lapic.isr : ClassOf(w) < ClassOf(v)
    /\ lapic' = [lapic EXCEPT !.irr = @ \ {v}, !.isr = @ \cup {v}]
    /\ Enter(v) /\ UNCHANGED stopped

\* A thread faults, while another is left.
Fault ==
    /\ cpu.run = User /\ phase = "up" /\ stopped \cup {cpu.thread} # CpuThread
    /\ Enter(PageFault) /\ UNCHANGED <<lapic, stopped>>

\* int $0x81 by a user program; its gate lets it in.
SystemCall ==
    /\ cpu.run = User /\ phase = "up" /\ gate[UserSyscall] = 3
    /\ Enter(UserSyscall) /\ UNCHANGED <<lapic, stopped>>
\* invoke_kernel_syscall in a system call, from where the call goes on later.
Yield ==
    /\ cpu.run.pc = "call" /\ Enter(KernelSyscall) /\ UNCHANGED <<lapic, stopped>>

Running(pc) == cpu.run.pc = pc
GoTo(pc) == cpu' = [cpu EXCEPT !.run.pc = pc]

\* __handle_raw_irq and the handle method of each class up to the handler.  (A software
\* interrupt without handler would halt the machine.)
Dispatch ==
    LET d == desc[cpu.run.vec] IN
    /\ Running("dispatch") /\ d # NoIRQ
    /\ \/ d.handler # "none" /\ GoTo("body")
       \/ d.handler = "none" /\ d.class = "ioapic" /\ GoTo("eoi")
    /\ UNCHANGED <<phase, desc, gate, redir, lapic, ctx, raised, stopped, pressed>>

AfterHandler(class) == IF class \in {"software", "exception"} THEN "restore" ELSE "eoi"
\* The timer's handler and the kernel's system call schedule: another thread becomes the
\* current one, and the handler goes on.
Schedule ==
    LET d == desc[cpu.run.vec] IN
    /\ Running("body") /\ d.handler \in {"timer", "ksys"}
    /\ \E t \in CpuThread \ stopped : cpu' = [cpu EXCEPT !.thread = t, !.run.pc = AfterHandler(d.class)]
    /\ UNCHANGED <<phase, desc, gate, redir, lapic, ctx, raised, stopped, pressed>>

\* handle_page_fault: terminate stops the thread and yields; it is not chosen again.
HandleFault ==
    /\ Running("body") /\ desc[cpu.run.vec].handler = "fault"
    /\ stopped' = stopped \cup {cpu.thread}
    /\ Enter(KernelSyscall) /\ UNCHANGED lapic

HandleKey ==
    /\ Running("body") /\ desc[cpu.run.vec].handler = "keyboard"
    /\ GoTo("eoi") /\ pressed' = 0
    /\ UNCHANGED <<phase, desc, gate, redir, lapic, ctx, raised, stopped>>

\* user_syscall_handler enables interrupts for the duration of the call.
BeginCall ==
    /\ Running("body") /\ desc[cpu.run.vec].handler = "usys"
    /\ cpu' = [cpu EXCEPT !.if = TRUE, !.run.pc = "call"]
    /\ UNCHANGED <<phase, desc, gate, redir, lapic, ctx, raised, stopped, pressed>>
EndCall ==
    /\ Running("call") /\ cpu' = [cpu EXCEPT !.if = FALSE, !.run.pc = "restore"]
    /\ UNCHANGED <<phase, desc, gate, redir, lapic, ctx, raised, stopped, pressed>>

\* Variant: the interrupt is not acknowledged.
NoEoi ==
    /\ Running("eoi") /\ GoTo("restore")
    /\ UNCHANGED <<phase, desc, gate, redir, lapic, ctx, raised, stopped, pressed>>

\* The highest vector in service is acknowledged.
Eoi ==
    /\ Running("eoi") /\ GoTo("restore")
    /\ lapic' = [lapic EXCEPT !.isr = {v \in @ : \E w \in @ : w > v}]
    /\ UNCHANGED <<phase, desc, gate, redir, ctx, raised, stopped, pressed>>

\* restore_context and iretq, of the thread that is current now.
Restore ==
    LET frame == Head(ctx[cpu.thread]) IN
    /\ Running("restore") /\ ctx[cpu.thread] # <<>>
    /\ cpu' = [cpu EXCEPT !.if = frame.if, !.run = frame.run]
    /\ ctx' = [ctx EXCEPT ![cpu.thread] = Tail(@)]
    /\ UNCHANGED <<phase, desc, gate, redir, lapic, raised, stopped, pressed>>

StartUp ==
    \/ InitGates \/ InstallHandlers \/ InitLAPIC \/ InitIOAPIC \/ BeginCalibration
    \/ EndCalibration \/ StartTimer \/ RunScheduler \/ RequestPin \/ AttachKeyboard
HandlerStep == Dispatch \/ Schedule \/ HandleFault \/ HandleKey \/ BeginCall \/ EndCall \/ Eoi \/ Restore

InterruptNext ==
    \/ StartUp \/ HandlerStep \/ SystemCall \/ Yield \/ Fault
    \/ \E v \in Vector : Accept(v)
    \/ \E p \in 0..Pins : RaisePin(p)
    \/ TimerFires

InterruptSpec == InterruptInit /\ [][InterruptNext]_irqVars

\* The processor executes the code it is in, and accepts an interrupt that it can accept
\* time and again.
InterruptFairness ==
    WF_irqVars(HandlerStep) /\ SF_irqVars(\E v \in Vector : Accept(v))

----------------------------------------------------------------------------
Frames(t) == {ctx[t][k] : k \in DOMAIN ctx[t]}

\* Every thread but the one that runs has a context to return to, which is user code or a
\* system call, never a device's handler; a vector is in service exactly while its handler
\* runs with interrupts disabled; a thread that faulted executes nothing more; the vectors lead to the handlers of the devices that
\* asked for them; and the timer's period is what was counted, unless 32 bits are too few.
InterruptsAreRouted ==
    /\ \A t \in CpuThread \ stopped : \A f \in Frames(t) : f.if /\ (f.run = User \/ f.run.vec = UserSyscall)
    /\ \A t \in CpuThread : \A f \in Frames(t) : f.words = FrameWords
    /\ cpu.thread \in stopped => cpu.run.vec = KernelSyscall
    /\ \A t \in CpuThread : cpu.thread # t \/ Running("restore") => ctx[t] # <<>>
    /\ lapic.isr # {} => lapic.isr = {cpu.run.vec} /\ ~cpu.if
    /\ Running("eoi") => lapic.isr # {}
    /\ phase = "up" => desc[redir[KeyboardPin].vector] = [class |-> "ioapic", handler |-> "keyboard"]
    /\ phase \in {"devices", "attach", "up"} => desc[lapic.timer.vector] = [class |-> "lapic", handler |-> "timer"]
    /\ \A v \in {KernelSyscall, UserSyscall} : desc[v].class \in {"none", "software"}
    /\ phase \notin {"gates", "handlers", "lapic", "ioapic", "timer", "calibrate", "periodic"}
          /\ lapic.timer.elapsed * Divide * Periods < Word32 => lapic.timer.initial = lapic.timer.elapsed

\* A key that is pressed is handled in the end, whatever threads, system calls and timer
\* interrupts do.
KeysAreHandled == pressed = 1 ~> pressed = 0
=============================================================================
