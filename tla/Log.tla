--------------------------------- MODULE Log ---------------------------------
(***************************************************************************)
(* The system log (infos/kernel/log.cpp): threads log through component     *)
(* logs, a line is several writes to the stream, and _mtx keeps the lines    *)
(* apart.  A message is a component and a length; what is written is        *)
(* recorded by the pieces.                                                  *)
(***************************************************************************)
EXTENDS Integers, Sequences

CONSTANTS
    Logger,         \* the threads
    Levels,         \* the levels that are used, of the six of LogLevel
    MaxPieces       \* bound: the writes to the stream

VARIABLES
    syslog,         \* the log: enabled, coloured, with a stream; and the owner of _mtx
    pending,        \* Logger -> the writes it has still to make
    stream          \* what has been written: the thread and the piece

logVars == <<syslog, pending, stream>>
NoOwner == "nobody"

ASSUME LogAssumption == NoOwner \notin Logger

LogInit ==
    /\ syslog = [enabled |-> TRUE, colour |-> FALSE, stream |-> FALSE, mtx |-> NoOwner]
    /\ pending = [t \in Logger |-> <<>>] /\ stream = <<>>

\* The writes of SysLog::message: a notice keeps its colour to the end of the line.
WritesOf(level, colour) ==
    IF ~colour THEN <<"level", "text", "newline">>
    ELSE IF level = "IMPORTANT" THEN <<"colour", "level", "text", "plain", "newline">>
    ELSE <<"colour", "level", "plain", "text", "newline">>

Enable(on) == syslog' = [syslog EXCEPT !.enabled = on] /\ UNCHANGED <<pending, stream>>
\* x86_init_top gives the log its first stream, in colour.
SetStream ==
    /\ ~syslog.stream
    /\ syslog' = [syslog EXCEPT !.stream = TRUE, !.colour = TRUE] /\ UNCHANGED <<pending, stream>>
\* activate_console gives it the terminal, without; it runs in the one thread there is.
ActivateConsole ==
    /\ syslog.stream /\ syslog.mtx = NoOwner
    /\ syslog' = [syslog EXCEPT !.colour = FALSE] /\ UNCHANGED <<pending, stream>>

\* Variant: nobody takes the lock.
MessageUnlocked(t) ==
    /\ pending[t] = <<>> /\ syslog.enabled /\ syslog.stream
    /\ \E level \in Levels : pending' = [pending EXCEPT ![t] = WritesOf(level, syslog.colour)]
    /\ UNCHANGED <<syslog, stream>>

\* ComponentLog::message and messagef format the text and hand it to the system log, which
\* drops it unless it is enabled and has a stream.
Message(t) ==
    /\ pending[t] = <<>> /\ syslog.enabled /\ syslog.stream /\ syslog.mtx = NoOwner
    /\ \E level \in Levels : pending' = [pending EXCEPT ![t] = WritesOf(level, syslog.colour)]
    /\ syslog' = [syslog EXCEPT !.mtx = t]
    /\ UNCHANGED stream

WritePiece(t) ==
    /\ pending[t] # <<>> /\ Len(stream) < MaxPieces
    /\ stream' = Append(stream, [by |-> t, piece |-> Head(pending[t])])
    /\ pending' = [pending EXCEPT ![t] = Tail(@)]
    /\ syslog' = [syslog EXCEPT !.mtx = IF Len(pending[t]) = 1 THEN NoOwner ELSE @]

LogNext ==
    \/ \E on \in BOOLEAN : Enable(on)
    \/ SetStream \/ ActivateConsole
    \/ \E t \in Logger : Message(t) \/ WritePiece(t)

LogSpec == LogInit /\ [][LogNext]_logVars

----------------------------------------------------------------------------
\* A line that one thread has begun is not continued by another, and a line that sets a
\* colour takes it back before it ends.
LogLinesAreWhole ==
    \A i \in 1..Len(stream) :
        /\ i < Len(stream) /\ stream[i].piece # "newline" => stream[i + 1].by = stream[i].by
        /\ stream[i].piece = "colour" =>
              \A n \in i..Len(stream) : stream[n].piece = "newline" =>
                  \E j \in i..n : stream[j].piece = "plain"
=============================================================================
