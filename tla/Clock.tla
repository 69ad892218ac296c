------------------------------- MODULE Clock -------------------------------
(***************************************************************************)
(* Wall-clock time: the CMOS real-time clock and its driver                 *)
(* (coursework/cmos-rtc.cpp), and the time of day that the kernel copies    *)
(* from it once (Kernel::resync_tod) and then keeps up with the 10ms timer  *)
(* interrupt (Kernel::update_runtime, increment_tod).                       *)
(*                                                                         *)
(* The chip advances by itself.  The driver reads one register per step     *)
(* with interrupts disabled, which does not stop the chip.  resync_tod then *)
(* assigns the fields of _tod one by one with interrupts enabled.           *)
(***************************************************************************)
EXTENDS Integers, Sequences

CONSTANTS
    StartTimes,         \* the times at which the kernel may come up
    Modes,              \* the settings of register B, and whether there is a century register
    UpdatesDuringRead,  \* whether the chip may advance in the middle of a read
    TicksPerSecond,     \* 100: the timer is programmed for 10ms
    MaxUpdates, MaxTicks    \* bounds of the model

ThisCentury == 20
ReadOrder == <<"seconds", "minutes", "hours", "day", "month", "year", "century">>
AssignOrder == <<"day", "hours", "minutes", "month", "seconds", "year">>

Legal(t) ==
    t \in [seconds : 0..59, minutes : 0..59, hours : 0..23, day : 1..31, month : 1..12, year : Nat]

ASSUME ClockAssumption ==
    /\ \A t \in StartTimes : Legal(t)
    /\ Modes \subseteq [bcd : BOOLEAN, twelve : BOOLEAN, century : BOOLEAN]
    /\ UpdatesDuringRead \in BOOLEAN
    /\ TicksPerSecond \in Nat \ {0} /\ MaxUpdates \in Nat /\ MaxTicks \in Nat

VARIABLES
    now,        \* the time the chip keeps
    updates,    \* how often it has advanced
    mode,       \* the setting of the chip
    raw,        \* the registers read so far
    time,       \* the RTCTimePoint that read_timepoint filled
    span,       \* history: the times the chip had during the read
    tod,        \* Kernel::_tod
    assigned,   \* how many fields of _tod resync_tod has assigned
    ticks,      \* _ticks_since_last_tod_update, in ticks
    elapsed,    \* history: timer interrupts since resync_tod reset ticks ...
    missed      \* ... of which so many came before it had copied the time

clockVars == <<now, updates, mode, raw, time, span, tod, assigned, ticks, elapsed, missed>>

Epoch == [seconds |-> 0, minutes |-> 0, hours |-> 0, day |-> 1, month |-> 1, year |-> 1970]

Reading == Len(raw) < Len(ReadOrder)
Assigning == ~Reading /\ assigned < Len(AssignOrder)

----------------------------------------------------------------------------
(* The chip: external, modelled from what the driver expects of it. *)

ToBcd(n) == (n \div 10) * 16 + (n % 10)

\* The hour register in 12-hour mode: 1 to 12, bit 7 for the afternoon.
TwelveHour(h) == IF h % 12 = 0 THEN 12 ELSE h % 12

Register(f) ==
    LET enc(n) == IF mode.bcd THEN ToBcd(n) ELSE n
    IN  CASE f = "hours" /\ mode.twelve ->
                enc(TwelveHour(now.hours)) + (IF now.hours >= 12 THEN 128 ELSE 0)
          [] f = "year" -> enc(now.year % 100)
          [] f = "century" -> IF mode.century THEN enc(now.year \div 100) ELSE 0
          [] OTHER -> enc(now[f])

\* One second later.  The models stay within a month.
Later(t) ==
    IF t.seconds < 59 THEN [t EXCEPT !.seconds = @ + 1]
    ELSE IF t.minutes < 59 THEN [t EXCEPT !.seconds = 0, !.minutes = @ + 1]
    ELSE IF t.hours < 23 THEN [t EXCEPT !.seconds = 0, !.minutes = 0, !.hours = @ + 1]
    ELSE [t EXCEPT !.seconds = 0, !.minutes = 0, !.hours = 0, !.day = @ + 1]

Update ==
    /\ updates < MaxUpdates
    /\ Reading /\ raw # <<>> => UpdatesDuringRead
    /\ now' = Later(now)
    /\ updates' = updates + 1
    /\ span' = IF Reading /\ raw # <<>> THEN span \cup {Later(now)} ELSE span
    /\ UNCHANGED <<mode, raw, time, tod, assigned, ticks, elapsed, missed>>

----------------------------------------------------------------------------
(* CMOSRTC *)

\* Variant: a register is taken for a binary number.
TakeAsIs(v) == v

ConvertToBinary(v) == (v % 16) + (v \div 16) * 10

GetRtcValue(v) == IF mode.bcd THEN ConvertToBinary(v) ELSE v

\* GetRtcHourValue: bit 7 survives the conversion and selects the second half of
\* the day.
GetRtcHourValue(v) ==
    LET flag == (v \div 128) * 128
        h == IF mode.bcd THEN ConvertToBinary(v % 128) + flag ELSE v
    IN  IF mode.twelve /\ h >= 128 THEN ((h % 128) + 12) % 24 ELSE h

\* GetRtcYearValue: a century of zero means that there is no such register.
GetRtcYearValue(year, century) ==
    GetRtcValue(year) + 100 * (IF GetRtcValue(century) = 0 THEN ThisCentury ELSE GetRtcValue(century))

Decode(r) ==
    [seconds |-> GetRtcValue(r[1]), minutes |-> GetRtcValue(r[2]), hours |-> GetRtcHourValue(r[3]),
     day |-> GetRtcValue(r[4]), month |-> GetRtcValue(r[5]), year |-> GetRtcYearValue(r[6], r[7])]

\* read_timepoint, one register per step.  ReadRegisterB comes first and does not
\* wait for an update in progress to end.
ReadRegister ==
    /\ Reading
    /\ raw' = Append(raw, Register(ReadOrder[Len(raw) + 1]))
    /\ span' = IF raw = <<>> THEN {now} ELSE span
    /\ time' = IF Len(raw') = Len(ReadOrder) THEN Decode(raw') ELSE time
    /\ UNCHANGED <<now, updates, mode, tod, assigned, ticks, elapsed, missed>>

----------------------------------------------------------------------------
(* Kernel *)

\* resync_tod after the read: _tod = tp, field by field.
AssignField ==
    /\ Assigning
    /\ tod' = [tod EXCEPT ![AssignOrder[assigned + 1]] = time[AssignOrder[assigned + 1]]]
    /\ assigned' = assigned + 1
    /\ missed' = elapsed
    /\ UNCHANGED <<now, updates, mode, raw, time, span, ticks, elapsed>>

\* Variant: a full minute has sixty-one seconds.
IncrementLate(t) ==
    IF t.seconds < 60 THEN [t EXCEPT !.seconds = @ + 1]
    ELSE [t EXCEPT !.seconds = 0, !.minutes = (@ + 1) % 60]

\* increment_tod: the date stays as it is at midnight.
IncrementTod(t) ==
    LET s == t.seconds + 1
        m == IF s > 59 THEN t.minutes + 1 ELSE t.minutes
        h == IF m > 59 THEN t.hours + 1 ELSE t.hours
    IN  [t EXCEPT !.seconds = IF s > 59 THEN 0 ELSE s,
                  !.minutes = IF m > 59 THEN 0 ELSE m,
                  !.hours = IF h > 23 THEN 0 ELSE h]

Due(n) == n > TicksPerSecond

\* update_runtime on a timer interrupt.
ClockTick ==
    /\ raw = <<>> \/ ~Reading
    /\ elapsed < MaxTicks
    /\ elapsed' = elapsed + 1
    /\ IF Due(ticks + 1)
       THEN ticks' = ticks + 1 - TicksPerSecond /\ tod' = IncrementTod(tod)
       ELSE ticks' = ticks + 1 /\ UNCHANGED tod
    /\ UNCHANGED <<now, updates, mode, raw, time, span, assigned, missed>>

----------------------------------------------------------------------------
\* resync_tod has just reset _ticks_since_last_tod_update.
ClockInit ==
    /\ now \in StartTimes
    /\ updates = 0
    /\ mode \in Modes
    /\ raw = <<>> /\ time = Epoch /\ span = {}
    /\ tod = Epoch /\ assigned = 0
    /\ ticks = 0 /\ elapsed = 0 /\ missed = 0

ClockNext == Update \/ ReadRegister \/ AssignField \/ ClockTick

ClockSpec == ClockInit /\ [][ClockNext]_clockVars

----------------------------------------------------------------------------
(* Properties. *)

\* read_timepoint "populates the tp structure with the current date and time, as
\* given by the CMOS RTC device": the result is a time the chip had during the read,
\* whatever encoding register B selects.
ReadIsCurrent == ~Reading => time \in span

\* The time of day is a legal one in every interleaving of the copy with the timer
\* and across every carry.
TodIsLegal == Legal(tod)

SecondOfDay(t) == (t.hours * 60 + t.minutes) * 60 + t.seconds
SecondsPerDay == 86400

\* Once copied, the time of day runs at the pace of the timer: it is ahead of the
\* copied time by the seconds that have passed, the first of them one tick late,
\* wherever the ticks fell; unless a second fell due before the copy was complete,
\* which overwrites it.
TodKeepsPace ==
    assigned = Len(AssignOrder) /\ missed <= TicksPerSecond =>
        LET seconds == IF elapsed = 0 THEN 0 ELSE (elapsed - 1) \div TicksPerSecond
        IN  SecondOfDay(tod) = (SecondOfDay(time) + seconds) % SecondsPerDay

\* The kernel's time is right, from the registers of the chip to the last carry of _tod.
TimeIsRight == ReadIsCurrent /\ TodIsLegal /\ TodKeepsPace
=============================================================================
