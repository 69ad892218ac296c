------------------------------ MODULE Programs ------------------------------
(***************************************************************************)
(* Two of the user programs: the shell (infos-user/src/shell/shell.cpp),     *)
(* which edits a line and runs it, and tic-tac-toe                          *)
(* (infos-user/src/tictactoe/main.cpp).  They read keys one at a time with   *)
(* getch.                                                                   *)
(***************************************************************************)
EXTENDS Integers, Sequences, FiniteSets, SequencesExt

CONSTANTS
    Keys,           \* the characters that are typed
    LineSize, ProgSize, \* 128 and 64: the sizes of command_buffer and of prog
    ExitWord,       \* "exit"
    MaxHistory,     \* MaxHistoryNumber
    MaxCommands,    \* bound: the commands run
    MaxArrows,      \* bound: how far checkHistoryIndex goes
    boardDim        \* the dimension of the board

VARIABLES
    sh,             \* the shell: its line, its history and the last command it ran
    game            \* the board, whose turn it is, and how the game stands

----------------------------------------------------------------------------
(* The shell.  "nul" is the character 0, which ends a string; the history is never
   written, as the copy stops at the first zero of its destination, so that its strings
   are empty.  After one command the up arrow already reads in front of it. *)

NoRun == [prog |-> <<>>, args |-> <<>>, of |-> <<>>, recalled |-> FALSE]
Shell == [buffer |-> <<>>, typed |-> <<>>, historyIndex |-> -1, historyNumber |-> 0, check |-> 0,
          recalled |-> FALSE, left |-> FALSE, run |-> NoRun]

CString(s) ==
    IF \E i \in DOMAIN s : s[i] = "nul"
    THEN SubSeq(s, 1, (CHOOSE i \in DOMAIN s : s[i] = "nul" /\ \A j \in 1..(i - 1) : s[j] # "nul") - 1)
    ELSE s

\* Recalling the command at an index copies its string over the line, up to the first zero;
\* an index outside the history copies what is in memory there.
Recall(s, index) ==
    IF index \in 0..(MaxHistory - 1)
    THEN {[s EXCEPT !.buffer[1] = "nul", !.recalled = TRUE]}
    ELSE {[s EXCEPT !.buffer = [i \in DOMAIN @ |-> IF i = 1 \/ c # "nul" THEN c ELSE @[i]],
                    !.recalled = TRUE] : c \in {"nul", "a"}}

Wrap(index) == IF index >= MaxHistory THEN index - MaxHistory ELSE index

\* An arrow key is put in the line like any other character, before it is looked at.
Arrow(s, c) ==
    LET n == s.check + (IF c = "up" THEN 1 ELSE -1)
        k == IF c = "up" /\ n = MaxHistory THEN n - 1 ELSE IF c = "down" /\ n = 0 THEN 1 ELSE n
    IN IF s.historyNumber = 0 THEN {s}
       ELSE IF (c = "up" /\ n > s.historyNumber) \/ n < 0 THEN {[s EXCEPT !.check = n]}
       ELSE Recall([s EXCEPT !.check = k], Wrap(s.historyIndex - k))

TypeKey(c) ==
    /\ ~sh.left /\ Len(sh.buffer) < LineSize - 1 /\ c \in Keys
    /\ c \in {"up", "down"} => sh.check \in (1 - MaxArrows)..(MaxArrows - 1)
    /\ LET s == [sh EXCEPT !.buffer = Append(@, c), !.typed = Append(@, c), !.run = NoRun] IN
       IF c \in {"up", "down"} THEN sh' \in Arrow(s, c) ELSE sh' = s

Backspace ==
    /\ ~sh.left /\ Len(sh.buffer) < LineSize - 1 /\ sh.buffer # <<>>
    /\ sh' = [sh EXCEPT !.buffer = Front(@), !.typed = Front(@)]

\* The first word, and what is behind the blank that ends it.
Prog(cmd) ==
    LET n == CHOOSE k \in 0..Len(cmd) :
                /\ \A j \in 1..k : cmd[j] # " "
                /\ k = Len(cmd) \/ k = ProgSize - 1 \/ cmd[k + 1] = " "
        word == SubSeq(cmd, 1, n)
        short == n < ProgSize - 6 /\ (n > 0 => word[1] # "/")
    IN [prog |-> IF short THEN <<"/usr/">> \o word ELSE word,
        args |-> SubSeq(cmd, n + 2, Len(cmd))]

\* run_command and, once the command has ended, the next prompt.
RunCommand ==
    LET cmd == CString(sh.buffer) IN
    /\ ~sh.left /\ sh.buffer # <<>> /\ cmd # ExitWord /\ sh.historyNumber < MaxCommands
    /\ sh' = [Shell EXCEPT !.historyIndex = sh.historyIndex + 1, !.historyNumber = sh.historyNumber + 1,
                           !.run = [prog |-> Prog(cmd).prog, args |-> Prog(cmd).args, of |-> sh.typed,
                                    recalled |-> sh.recalled]]

EmptyLine == sh.buffer = <<>> /\ sh' = [sh EXCEPT !.check = 0]
Exit == sh.buffer # <<>> /\ CString(sh.buffer) = ExitWord /\ sh' = [sh EXCEPT !.left = TRUE]

ShellNext == (\E c \in Keys : TypeKey(c)) \/ Backspace \/ RunCommand \/ EmptyLine \/ Exit

----------------------------------------------------------------------------
(* Tic-tac-toe. *)

Cells == (0..(boardDim - 1)) \X (0..(boardDim - 1))
Empty == " "
playerMarks == <<"X", "O">>
reset == [c \in Cells |-> Empty]
StartGame == [board |-> reset, player |-> 1, state |-> "playing"]

full(b) == \A c \in Cells : b[c] = Empty
nextPlayer(p) == IF p < Len(playerMarks) THEN p + 1 ELSE 1

won(b, p) ==
    LET mark == playerMarks[p]
        N == 0..(boardDim - 1)
    IN \/ \E row \in N : \A col \in N : b[<<row, col>>] = mark
       \/ \E col \in N : \A row \in N : b[<<row, col>>] = mark
       \/ \A k \in N : b[<<k, k>>] = mark
       \/ \A k \in N : b[<<k, boardDim - 1 - k>>] = mark

\* selectMove: a row and a column are typed until they name an empty cell.
SelectMove(row, col) ==
    /\ game.state = "playing" /\ <<row, col>> \in Cells /\ game.board[<<row, col>>] = Empty
    /\ \E b \in {[game.board EXCEPT ![<<row, col>>] = playerMarks[game.player]]} :
          game' = IF won(b, game.player) THEN [game EXCEPT !.board = b, !.state = "won"]
                  ELSE IF full(b) THEN [game EXCEPT !.board = b, !.state = "draw"]
                  ELSE [game EXCEPT !.board = b, !.player = nextPlayer(@)]

\* Whoever made the last move begins the next game.
PlayAgain ==
    /\ game.state # "playing"
    /\ game' = [game EXCEPT !.board = reset, !.state = "playing"]

GameNext == (\E row, col \in 0..boardDim : SelectMove(row, col)) \/ PlayAgain

----------------------------------------------------------------------------
\* A command that was typed without recalling another is run as it was typed: its first
\* word, looked for in /usr unless it is a path, with all that follows as its arguments.
CommandIsRun ==
    sh.run.of # <<>> /\ ~sh.run.recalled =>
        LET typed == IF sh.run.prog[1] = "/usr/" THEN Tail(sh.run.prog) ELSE sh.run.prog IN
        /\ sh.run.of \in {typed, typed \o <<" ">> \o sh.run.args}
        /\ \A i \in DOMAIN typed : typed[i] # " "
        /\ sh.run.prog[1] = "/usr/" <=> sh.run.of[1] # "/" /\ Len(typed) < ProgSize - 6

Lines3 == {{<<r, c>> : c \in 0..(boardDim - 1)} : r \in 0..(boardDim - 1)}
          \cup {{<<r, c>> : r \in 0..(boardDim - 1)} : c \in 0..(boardDim - 1)}
          \cup {{c \in Cells : c[1] = c[2]}, {c \in Cells : c[1] + c[2] = boardDim - 1}}

\* The players take turns, and a game goes on exactly as long as nobody has a line; the
\* player announced is the one who has it.
GameIsFair ==
    LET marks(m) == {c \in Cells : game.board[c] = m}
        has(p) == \E l \in Lines3 : l \subseteq marks(playerMarks[p])
    IN /\ Cardinality(marks("X")) - Cardinality(marks("O")) \in -1..1
       /\ \A p \in DOMAIN playerMarks : has(p) <=> game.state = "won" /\ game.player = p

\* The shell runs what was typed, and the game keeps its rules.
ProgramsAreRight == CommandIsRun /\ GameIsFair

\* A full board is announced as a draw.  Not kept by the code: full() looks for a cell
\* that is not empty instead of one that is, so the game asks for moves for ever.
DrawIsAnnounced == (\A c \in Cells : game.board[c] # Empty) => game.state # "playing"
=============================================================================
