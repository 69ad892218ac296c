------------------------------- MODULE Format -------------------------------
(***************************************************************************)
(* vsnprintf (infos/util/printf.cpp; the user library has its own copy).     *)
(* One call formats one argument of each kind into a buffer of a given      *)
(* size.  Words of 4 and of 8 bytes are numbers below Word4 and Word8.      *)
(***************************************************************************)
EXTENDS Integers, Sequences, SequencesExt

CONSTANTS
    Formats,            \* the format strings, sequences of characters
    Sizes,              \* the sizes of the buffer
    Numbers,            \* the numerical arguments, as 8-byte words
    Texts,              \* the string arguments
    Word4, Word8        \* 2^32 and 2^64

VARIABLE print          \* the call: what is left of the format, and the buffer

Plain == [in |-> FALSE, pad |-> 0, padChar |-> " ", long |-> FALSE]
NoField == [text |-> <<>>, room |-> 0, base |-> 10, value |-> 0, negative |-> FALSE]

FormatInit ==
    print \in [fmt : Formats, size : Sizes, num : Numbers, text : Texts, out : {<<>>},
               spec : {Plain}, field : {NoField}, done : {FALSE}]

----------------------------------------------------------------------------
Numeral == <<"0", "1", "2", "3", "4", "5", "6", "7", "8", "9", "a", "b", "c", "d", "e", "f">>

Least(a, b) == IF a < b THEN a ELSE b

\* The digits of a number, the lowest first, at most n of them.
Digits(value, base, n) ==
    LET length == CHOOSE k \in 1..64 : base^k > value /\ (k > 1 => base^(k - 1) <= value) IN
    [k \in 1..Least(length, n) |-> Numeral[1 + ((value \div base^(k - 1)) % base)]]

Padding(n, c) == [k \in 1..n |-> c]
Above0(n) == IF n > 0 THEN n ELSE 0

\* Everything is put in front of what is there: the digits, from the lowest on, of the
\* sign that came first, and the padding of the digits.  The highest digits are those
\* that a small buffer loses.
append_num(size, value, base, sgn, pad, padChar) ==
    LET negative == sgn /\ value >= Word8 \div 2
        sign == IF negative THEN <<"-">> ELSE <<>>
        width == IF pad >= size THEN size - 1 ELSE pad
        body == Reverse(Digits(IF negative THEN Word8 - value ELSE value, base, size - Len(sign))) \o sign
    IN Padding(Above0(width - Len(body)), padChar) \o body

append_str(size, text, pad, padChar) ==
    LET n == Least(Len(text), size) IN
    SubSeq(text, 1, n) \o Padding(Above0(Least(pad, size) - n), padChar)

\* The argument of %d, %u, %b, %x and %p as the word that is printed.
Argument(c, long, v) ==
    IF long \/ c = "p" THEN v
    ELSE IF c = "d" /\ v % Word4 >= Word4 \div 2 THEN (Word8 - Word4) + (v % Word4)
    ELSE v % Word4

Base(c) == CASE c \in {"d", "u"} -> 10 [] c = "b" -> 2 [] OTHER -> 16

----------------------------------------------------------------------------
Room == print.size - 1 - Len(print.out)
Printing == ~print.done /\ print.size > 0
AtDirective(cs) == print.spec.in /\ print.fmt # <<>> /\ Head(print.fmt) \in cs

\* The rest of the format after its first character.
Emit(text, field) ==
    print' = [print EXCEPT !.fmt = Tail(@), !.out = @ \o text, !.spec = Plain, !.field = field]
Respec(spec) == print' = [print EXCEPT !.fmt = Tail(@), !.spec = spec]

Literal ==
    /\ Printing /\ ~print.spec.in /\ print.fmt # <<>> /\ Room > 0
    /\ IF Head(print.fmt) = "%" THEN Respec([Plain EXCEPT !.in = TRUE])
       ELSE Emit(<<Head(print.fmt)>>, NoField)

Modifier ==
    /\ Printing /\ AtDirective({"0", "1", "9", "l"})
    /\ LET c == Head(print.fmt) IN
       Respec(IF c = "l" THEN [print.spec EXCEPT !.long = TRUE]
              ELSE IF c = "0" /\ print.spec.pad = 0 THEN [print.spec EXCEPT !.padChar = "0"]
              ELSE [print.spec EXCEPT !.pad = @ * 10 + (CHOOSE d \in 0..9 : Numeral[d + 1] = c)])

NumberDirective ==
    /\ Printing /\ AtDirective({"d", "u", "b", "x", "p"})
    /\ LET c == Head(print.fmt)
           prefix == IF c = "p" THEN append_str(Room, <<"0", "x">>, 0, " ") ELSE <<>>
           room == Room - Len(prefix)
           value == Argument(c, print.spec.long, print.num)
           text == append_num(room, value, Base(c), c = "d", print.spec.pad, print.spec.padChar)
       IN Emit(prefix \o text, [text |-> text, room |-> room, base |-> Base(c), value |-> value,
                                negative |-> c = "d" /\ value >= Word8 \div 2])

StringDirective ==
    /\ Printing /\ AtDirective({"s"})
    /\ Emit(append_str(Room, print.text, print.spec.pad, print.spec.padChar), NoField)

\* %c, and a directive that does not exist, put one character.
CharDirective ==
    /\ Printing /\ AtDirective({"c", "%", "A"})
    /\ Emit(<<IF Head(print.fmt) = "c" THEN "C" ELSE Head(print.fmt)>>, NoField)

ReturnCount ==
    /\ ~print.done
    /\ print.size = 0 \/ print.fmt = <<>> \/ (~print.spec.in /\ Room = 0)
    /\ print' = [print EXCEPT !.done = TRUE]

FormatNext ==
    Literal \/ Modifier \/ NumberDirective \/ StringDirective \/ CharDirective \/ ReturnCount

----------------------------------------------------------------------------
\* What a reader makes of a number, blanks and zeros in front of it included.
ValueOf(text, base) ==
    LET digit(c) == IF c = " " THEN 0 ELSE (CHOOSE d \in 0..15 : Numeral[d + 1] = c)
    IN FoldLeft(LAMBDA v, c : v * base + digit(c), 0, text)

\* However small the buffer and whatever the widths, the terminator has its place behind
\* the characters printed, and a number that is not negative and has room for all its
\* digits can be read back.
PrintedIsRight ==
    /\ print.size > 0 => Len(print.out) <= print.size - 1
    /\ LET f == print.field IN
       ~f.negative /\ (\E k \in 1..f.room : f.base^k > f.value)
         => ValueOf(f.text, f.base) = f.value

\* A negative number begins with its sign.  Not kept by the code: append_num puts the
\* digits in front of the sign.
SignComesFirst == print.field.negative /\ print.field.text # <<>> => Head(print.field.text) = "-"
=============================================================================
