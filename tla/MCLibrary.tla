------------------------------ MODULE MCLibrary ------------------------------
(* The libraries and the user programs on small inputs: a behaviour is of one part, which
   Init chooses. *)
EXTENDS SharedPointer, SharedList, ObjectMap, Strings, Ratio, Log, Programs

VARIABLE part

Owners == [k \in Key |-> IF k = 2 THEN "p" ELSE "q"]

SomeFormats ==
    {<<"A", "%", "d", "A">>, <<"%", "0", "1", "9", "d">>, <<"%", "l", "x">>, <<"%", "p", "A">>,
     <<"%", "9", "s">>, <<"%", "c", "%", "%">>, <<"%", "9", "l", "u">>, <<"%">>,
     <<"A", "%", "1", "0", "b", "%", "u">>, <<"%", "0", "9", "x", "A">>}
SomeTexts == {<<>>, <<"A", "A">>}
SomeLiterals == {<<>>, <<"a">>}
SomeLines == UNION {[1..n -> {"a", "b", "=", " "}] : n \in 0..5}
SomeKeys == {<<"a">>, <<"a", "b">>}
Leave == <<"a", "/">>

allVars == <<pointerVars, listVars, mapVars, print, stringVars, ratioVars, logVars, sh, game, part>>

NoPrint == print = [fmt |-> <<>>, size |-> 0, num |-> 0, text |-> <<>>, out |-> <<>>,
                    spec |-> Plain, field |-> NoField, done |-> TRUE]
NoLine == cmdline = [line |-> <<>>, rest |-> <<>>, setting |-> <<>>] /\ passed = <<>>
NoCalc == /\ calc = [a |-> ratio(0, 1), b |-> ratio(0, 1), op |-> "none", c |-> ratio(0, 1)]
          /\ span = [from |-> 0, to |-> 0, unit |-> 1, value |-> 0, exact |-> TRUE]

LibraryInit ==
    /\ PointerInit /\ ListInit /\ MapInit /\ LogInit /\ StringInit /\ sh = Shell /\ game = StartGame
    /\ \/ part \in {"pointer", "list", "map", "string", "time", "log", "shell", "game"} /\ NoPrint /\ NoLine /\ NoCalc
       \/ part = "format" /\ FormatInit /\ NoLine /\ NoCalc
       \/ part = "cmdline" /\ NoPrint /\ CommandLineInit /\ NoCalc
       \/ part = "ratio" /\ NoPrint /\ NoLine /\ RatioInit

Others(p) ==
    /\ part = p /\ UNCHANGED part
    /\ p # "pointer" => UNCHANGED pointerVars
    /\ p # "list" => UNCHANGED listVars
    /\ p # "map" => UNCHANGED mapVars
    /\ p # "format" => UNCHANGED print
    /\ p \notin {"string", "cmdline"} => UNCHANGED stringVars
    /\ p \notin {"ratio", "time"} => UNCHANGED ratioVars
    /\ p # "log" => UNCHANGED logVars
    /\ p # "shell" => UNCHANGED sh
    /\ p # "game" => UNCHANGED game

LibraryNext ==
    \/ PointerNext /\ Others("pointer")
    \/ ListNext /\ Others("list")
    \/ MapNext /\ Others("map")
    \/ FormatNext /\ Others("format")
    \/ StringNext /\ Others("string")
    \/ ParseWord /\ Others("cmdline")
    \/ RatioNext /\ Others("ratio")
    \/ TimeNext /\ Others("time")
    \/ LogNext /\ Others("log")
    \/ ShellNext /\ Others("shell")
    \/ GameNext /\ Others("game")

LibrarySpec == LibraryInit /\ [][LibraryNext]_allVars /\ MapFairness

\* Values and text are right: printf, String, the command line and Convert<>, fractions and
\* periods, and what the shell runs and tictactoe decides.
ValuesAreRight == TextIsRight /\ RatioIsExact /\ ProgramsAreRight
=============================================================================
