------------------------------- MODULE Strings -------------------------------
(***************************************************************************)
(* infos::util::String, whose hash is computed when it is first asked for    *)
(* and kept (string.h, string.cpp), and the command line of the kernel,      *)
(* whose words set registered arguments (cmdline.cpp).  A string is the     *)
(* sequence of its characters; a hash stands for the string it is of.       *)
(***************************************************************************)
EXTENDS Format, FiniteSets

CONSTANTS
    Name,           \* the string variables
    Literals,       \* the string literals of the program
    MaxLength,      \* bound: the characters of a string
    Lines,          \* the command lines
    Registered,     \* the keys with a registration
    KeySize, ValueSize  \* of the buffers of CommandLine::process

VARIABLES
    str,            \* Name -> its characters, _has_hash and _hash
    cmdline,        \* the rest of the command line, and the setting being collected
    passed          \* the registrations called, with their values

stringVars == <<str, cmdline, passed>>

----------------------------------------------------------------------------
compute_hash(data) == [hashOf |-> data]
NoHash == [hashOf |-> <<"-">>]

\* Every constructor from characters leaves the hash to be computed.
Constructed(data) == [data |-> data, has |-> FALSE, hash |-> NoHash]
Decimal(v) == Reverse(Digits(v, 10, 16))
Catenated(l, r) == Constructed(l \o r)

FromLiteral(s) == \E l \in Literals : str' = [str EXCEPT ![s] = Constructed(l)]
CopyString(s, t) == s # t /\ str' = [str EXCEPT ![s] = str[t]]

\* operator= of a string that stays.
AssignString(s, t) == s # t /\ str' = [str EXCEPT ![s] = Constructed(str[t].data)]

\* operator= of a sum, which is taken over from a temporary with what it knows of its hash.
AssignSum(s, t, u) ==
    /\ Len(str[t].data) + Len(str[u].data) <= MaxLength
    /\ str' = [str EXCEPT ![s] = Catenated(str[t].data, str[u].data)]
AssignNumbered(s, t, n) ==
    /\ Len(str[t].data) + Len(Decimal(n)) <= MaxLength
    /\ str' = [str EXCEPT ![s] = Catenated(str[t].data, Decimal(n))]

get_hash(s) ==
    LET x == str[s] IN
    str' = [str EXCEPT ![s] = IF x.has THEN x ELSE [x EXCEPT !.has = TRUE, !.hash = compute_hash(x.data)]]

StringNext ==
    /\ \/ \E s \in Name : FromLiteral(s) \/ get_hash(s)
       \/ \E s, t \in Name :
             \/ CopyString(s, t) \/ AssignString(s, t)
             \/ \E u \in Name : AssignSum(s, t, u)
             \/ \E n \in {0, 10} : AssignNumbered(s, t, n)
    /\ UNCHANGED <<cmdline, passed>>

----------------------------------------------------------------------------
\* The first place of a sequence that satisfies a test, or the one behind its end.
FirstIn(s, chars) == IF \E i \in DOMAIN s : s[i] \in chars
                     THEN CHOOSE i \in DOMAIN s : s[i] \in chars /\ \A j \in 1..(i - 1) : s[j] \notin chars
                     ELSE Len(s) + 1
SkipBlanks(s) ==
    SubSeq(s, FirstIn(s, {s[i] : i \in DOMAIN s} \ {" "}), Len(s))

strncmp_equal(a, b) == Len(a) = Len(b) /\ \A i \in DOMAIN a : a[i] = b[i]
find_registration(key) == {r \in Registered : strncmp_equal(r, key)}

\* The key ends at the first = or where its buffer ends; the value is all the rest, up to
\* the end of its buffer, without any =.
process(setting) ==
    LET n == Least(FirstIn(setting, {"="}) - 1, KeySize - 1)
        rest == SelectSeq(SubSeq(setting, n + 1, Len(setting)), LAMBDA c : c # "=")
    IN [key |-> SubSeq(setting, 1, n), value |-> SubSeq(rest, 1, Least(Len(rest), ValueSize - 1))]

\* Variant: the setting is not started afresh.
ParseWordGrows ==
    LET s == SkipBlanks(cmdline.rest)
        n == FirstIn(s, {" "})
        setting == cmdline.setting \o SubSeq(s, 1, n - 1)
    IN /\ cmdline.rest # <<>> /\ setting # <<>>
       /\ cmdline' = [cmdline EXCEPT !.rest = SubSeq(s, n, Len(s)), !.setting = setting]
       /\ passed' = IF find_registration(process(setting).key) = {} THEN passed
                    ELSE Append(passed, process(setting))
       /\ UNCHANGED str

\* A turn of the loop of parse: the blanks, a word, and what it sets.
ParseWord ==
    LET s == SkipBlanks(cmdline.rest)
        n == FirstIn(s, {" "})
        setting == SubSeq(s, 1, n - 1)
    IN /\ cmdline.rest # <<>> /\ setting # <<>>
       /\ cmdline' = [cmdline EXCEPT !.rest = SubSeq(s, n, Len(s)), !.setting = setting]
       /\ passed' = IF find_registration(process(setting).key) = {} THEN passed
                    ELSE Append(passed, process(setting))
       /\ UNCHANGED str

StringInit == str = [s \in Name |-> Constructed(<<>>)]
CommandLineInit ==
    /\ \E l \in Lines : cmdline = [line |-> l, rest |-> l, setting |-> <<>>]
    /\ passed = <<>>

----------------------------------------------------------------------------
\* A string that keeps its hash is the string it was computed of, whatever was assigned
\* since; maps keyed by hashes find an object under the name it has.
HashIsCurrent == \A s \in Name : str[s].has => str[s].hash = compute_hash(str[s].data)

\* The words of a line.
Words(l) ==
    LET starts == {i \in DOMAIN l : l[i] # " " /\ (i = 1 \/ l[i - 1] = " ")}
        word(i) == SubSeq(l, i, i + FirstIn(SubSeq(l, i, Len(l)), {" "}) - 2)
    IN [k \in 1..Cardinality(starts) |->
            word(CHOOSE i \in starts : Cardinality({j \in starts : j <= i}) = k)]

\* When the line has been parsed, every word key=value with a registered key has been
\* passed on, in the order of the line, with all of a value that fits its buffer.
ArgumentsArePassed ==
    LET settings == SelectSeq(Words(cmdline.line), LAMBDA w :
                        \E r \in Registered : SubSeq(w, 1, FirstIn(w, {"="}) - 1) = r)
    IN SkipBlanks(cmdline.rest) = <<>> =>
        /\ Len(passed) = Len(settings)
        /\ \A k \in DOMAIN passed : LET w == settings[k]
                                        r == SubSeq(w, Len(passed[k].key) + 2, Len(w)) IN
              /\ passed[k].key \o <<"=">> \o r = w \/ (passed[k].key = w /\ r = <<>>)
              /\ Len(r) < ValueSize /\ (\A i \in DOMAIN r : r[i] # "=") => passed[k].value = r

\* What is printed, hashed and parsed is what was meant.
TextIsRight == PrintedIsRight /\ HashIsCurrent /\ ArgumentsArePassed
=============================================================================
