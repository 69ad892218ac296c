---------------------------- MODULE LibraryProofs ----------------------------
(***************************************************************************)
(* Proofs about Log, the reference counts of SharedPointer and Console: for *)
(* any objects, pointer variables, threads and levels, and for rings of any *)
(* size, any letters and any bounds on what is typed and written.           *)
(***************************************************************************)
EXTENDS SharedPointer, Log, Console, FiniteSetTheorems, SequenceTheorems, TLAPS

----------------------------------------------------------------------------
(* The system log. *)

\* What a thread has still to write is the rest of a line: it ends with its only newline,
\* and a colour in it is followed by the sequence that takes it back.
RestOfLine(p) ==
    /\ p # <<>> => p[Len(p)] = "newline"
    /\ \A i \in 1..Len(p) : p[i] = "newline" => i = Len(p)
    /\ \A i \in 1..Len(p) : p[i] = "colour" => \E j \in 1..Len(p) : i < j /\ p[j] = "plain"

Piece == {"colour", "level", "plain", "text", "newline"}

LogTypes ==
    /\ syslog \in [enabled : BOOLEAN, colour : BOOLEAN, stream : BOOLEAN, mtx : Logger \cup {NoOwner}]
    /\ pending \in [Logger -> Seq(Piece)]
    /\ stream \in Seq([by : Logger, piece : Piece])

\* The owner of _mtx is the thread with something to write, and the line that is not
\* ended is its own.
OwnerWrites ==
    /\ \A t \in Logger : pending[t] # <<>> <=> syslog.mtx = t
    /\ \A t \in Logger : RestOfLine(pending[t])
    /\ stream # <<>> /\ stream[Len(stream)].piece # "newline" => syslog.mtx = stream[Len(stream)].by

\* A colour that is written has been taken back, or is still to be.
ColourIsTakenBack ==
    \A i \in 1..Len(stream) : stream[i].piece = "colour" =>
        \/ \E j \in i..Len(stream) : stream[j].piece = "plain"
        \/ \E t \in Logger : \E k \in 1..Len(pending[t]) : pending[t][k] = "plain"

LogInv == LogTypes /\ OwnerWrites /\ ColourIsTakenBack /\ LogLinesAreWhole

\* SysLog::message writes one line of three or of five pieces.
LEMMA WritesAreALine ==
    ASSUME NEW level, NEW colour \in BOOLEAN
    PROVE  /\ WritesOf(level, colour) \in Seq(Piece) /\ WritesOf(level, colour) # <<>>
           /\ RestOfLine(WritesOf(level, colour))
<1>1. CASE ~colour
  <2>1. PICK w : w = WritesOf(level, colour)  OBVIOUS
  <2>2. w = <<"level", "text", "newline">>
    BY <1>1, <2>1 DEF WritesOf
  <2>3. Len(w) = 3 /\ w[1] = "level" /\ w[2] = "text" /\ w[3] = "newline"
    BY <2>2
  <2>4. RestOfLine(w)  BY <2>3 DEF RestOfLine
  <2>5. w \in Seq(Piece)  BY <2>2 DEF Piece
  <2>6. w # <<>>  BY <2>2
  <2> QED  BY <2>1, <2>4, <2>5, <2>6
<1>2. CASE colour /\ level = "IMPORTANT"
  <2>1. PICK w : w = WritesOf(level, colour)  OBVIOUS
  <2>2. w = <<"colour", "level", "text", "plain", "newline">>
    BY <1>2, <2>1 DEF WritesOf
  <2>3. /\ Len(w) = 5 /\ w[1] = "colour" /\ w[2] = "level" /\ w[3] = "text"
        /\ w[4] = "plain" /\ w[5] = "newline"
    BY <2>2
  <2>4. RestOfLine(w)  BY <2>3 DEF RestOfLine
  <2>5. w \in Seq(Piece)  BY <2>2 DEF Piece
  <2>6. w # <<>>  BY <2>2
  <2> QED  BY <2>1, <2>4, <2>5, <2>6
<1>3. CASE colour /\ level # "IMPORTANT"
  <2>1. PICK w : w = WritesOf(level, colour)  OBVIOUS
  <2>2. w = <<"colour", "level", "plain", "text", "newline">>
    BY <1>3, <2>1 DEF WritesOf
  <2>3. /\ Len(w) = 5 /\ w[1] = "colour" /\ w[2] = "level" /\ w[3] = "plain"
        /\ w[4] = "text" /\ w[5] = "newline"
    BY <2>2
  <2>4. RestOfLine(w)  BY <2>3 DEF RestOfLine
  <2>5. w \in Seq(Piece)  BY <2>2 DEF Piece
  <2>6. w # <<>>  BY <2>2
  <2> QED  BY <2>1, <2>4, <2>5, <2>6
<1> QED  BY <1>1, <1>2, <1>3

\* What is left when the first piece is written is the rest of the line again.
LEMMA RestOfRest ==
    ASSUME NEW p \in Seq(Piece), p # <<>>, RestOfLine(p)
    PROVE  /\ Tail(p) \in Seq(Piece) /\ RestOfLine(Tail(p))
           /\ Tail(p) = <<>> <=> Head(p) = "newline"
           /\ Tail(p) = <<>> <=> Len(p) = 1
           /\ Len(Tail(p)) = Len(p) - 1 /\ \A i \in 1..Len(Tail(p)) : Tail(p)[i] = p[i + 1]
<1>1. PICK q : q = Tail(p)  OBVIOUS
<1>2. /\ Len(p) \in Nat \ {0} /\ q \in Seq(Piece) /\ Len(q) = Len(p) - 1
      /\ \A i \in 1..(Len(p) - 1) : q[i] = p[i + 1]
      /\ Head(p) = p[1]
  BY <1>1
<1>3. q = <<>> <=> Len(p) = 1
  <2>1. q = <<>> <=> Len(q) = 0  BY <1>2
  <2> QED  BY <2>1, <1>2
<1>4. PICK n \in Nat : n = Len(q)  BY <1>2
<1>5. Len(p) = n + 1 /\ \A i \in 1..n : i + 1 \in 1..(n + 1) /\ q[i] = p[i + 1]
  BY <1>2, <1>4
<1>6. RestOfLine(q)
  <2>1. q # <<>> => q[n] = "newline"
    <3> SUFFICES ASSUME q # <<>> PROVE q[n] = "newline"  OBVIOUS
    <3>1. n \in 1..n  BY <1>3, <1>4, <1>5
    <3> QED  BY <3>1, <1>5 DEF RestOfLine
  <2>2. \A i \in 1..n : q[i] = "newline" => i = n
    BY <1>5 DEF RestOfLine
  <2>3. ASSUME NEW i \in 1..n, q[i] = "colour"
        PROVE  \E j \in 1..n : i < j /\ q[j] = "plain"
    <3>1. PICK j \in 1..(n + 1) : i + 1 < j /\ p[j] = "plain"  BY <2>3, <1>5 DEF RestOfLine
    <3>2. j - 1 \in 1..n /\ i < j - 1 /\ (j - 1) + 1 = j  BY <3>1
    <3>3. q[j - 1] = "plain"  BY <3>1, <3>2, <1>5
    <3> QED  BY <3>2, <3>3
  <2> QED  BY <2>1, <2>2, <2>3, <1>4 DEF RestOfLine
<1>7. q = <<>> <=> Head(p) = "newline"
  <2>1. 1 \in 1..Len(p)  BY <1>2
  <2> QED  BY <2>1, <1>2, <1>3 DEF RestOfLine
<1> QED  BY <1>1, <1>2, <1>3, <1>6, <1>7

\* A thread writes the next piece of its line.
LEMMA WritePieceKeeps ==
    ASSUME LogInv, NEW t \in Logger, WritePiece(t)
    PROVE  LogInv'
<1> DEFINE p == pending[t]
           n == Len(stream)
           e == [by |-> t, piece |-> Head(p)]
<1>1. /\ p \in Seq(Piece) /\ p # <<>> /\ RestOfLine(p) /\ syslog.mtx = t
      /\ stream \in Seq([by : Logger, piece : Piece]) /\ n \in Nat
  BY DEF LogInv, LogTypes, OwnerWrites, WritePiece
<1>2. /\ Head(p) \in Piece /\ Head(p) = p[1] /\ Len(p) \in Nat \ {0} /\ e \in [by : Logger, piece : Piece]
  BY <1>1
<1>3. /\ stream' \in Seq([by : Logger, piece : Piece]) /\ Len(stream') = n + 1
      /\ stream'[n + 1] = e /\ \A i \in 1..n : stream'[i] = stream[i]
  BY <1>1, <1>2 DEF WritePiece
<1>4. /\ Tail(p) \in Seq(Piece) /\ RestOfLine(Tail(p))
      /\ Tail(p) = <<>> <=> Head(p) = "newline"
      /\ Tail(p) = <<>> <=> Len(p) = 1
      /\ Len(Tail(p)) = Len(p) - 1 /\ \A i \in 1..Len(Tail(p)) : Tail(p)[i] = p[i + 1]
  BY <1>1, RestOfRest
<1>5. /\ pending' \in [Logger -> Seq(Piece)] /\ pending'[t] = Tail(p)
      /\ \A u \in Logger \ {t} : pending'[u] = pending[u]
  BY <1>1, <1>4 DEF WritePiece, LogInv, LogTypes
<1>6. /\ syslog' \in [enabled : BOOLEAN, colour : BOOLEAN, stream : BOOLEAN, mtx : Logger \cup {NoOwner}]
      /\ syslog'.mtx = IF Len(p) = 1 THEN NoOwner ELSE t
  BY <1>1 DEF WritePiece, LogInv, LogTypes
<1>7. LogTypes'
  BY <1>3, <1>5, <1>6 DEF LogTypes
<1>8. OwnerWrites'
  <2>1. \A u \in Logger \ {t} : pending[u] = <<>>
    BY <1>1 DEF LogInv, OwnerWrites
  <2>2. \A u \in Logger : pending'[u] # <<>> <=> syslog'.mtx = u
    BY <2>1, <1>4, <1>5, <1>6, LogAssumption
  <2>3. \A u \in Logger : RestOfLine(pending'[u])
    BY <1>4, <1>5 DEF LogInv, OwnerWrites
  <2>4. stream' # <<>> /\ stream'[Len(stream')].piece # "newline" => syslog'.mtx = stream'[Len(stream')].by
    BY <1>3, <1>4, <1>6
  <2>5. ASSUME NEW u \in Logger PROVE RestOfLine(pending[u])'
    BY <2>3 DEF RestOfLine
  <2> QED  BY <2>2, <2>4, <2>5 DEF OwnerWrites
<1>9. ColourIsTakenBack'
  <2> SUFFICES ASSUME NEW i \in 1..(n + 1), stream'[i].piece = "colour"
               PROVE  \/ \E j \in i..(n + 1) : stream'[j].piece = "plain"
                      \/ \E u \in Logger : \E k \in 1..Len(pending'[u]) : pending'[u][k] = "plain"
    BY <1>3 DEF ColourIsTakenBack
  <2>1. CASE i = n + 1
    <3>1. p[1] = "colour"  BY <2>1, <1>2, <1>3
    <3>2. PICK j \in 1..Len(p) : 1 < j /\ p[j] = "plain"  BY <3>1, <1>1, <1>2 DEF RestOfLine
    <3>3. j - 1 \in 1..Len(Tail(p)) /\ Tail(p)[j - 1] = "plain"  BY <3>2, <1>2, <1>4
    <3> QED  BY <3>3, <1>5
  <2>2. CASE i \in 1..n
    <3>1. stream[i].piece = "colour"  BY <2>2, <1>3
    <3>2. CASE \E j \in i..n : stream[j].piece = "plain"
      <4>1. PICK j \in i..n : stream[j].piece = "plain"  BY <3>2
      <4>2. j \in i..(n + 1) /\ stream'[j] = stream[j]  BY <4>1, <2>2, <1>1, <1>3
      <4> QED  BY <4>1, <4>2
    <3>3. CASE \E u \in Logger : \E k \in 1..Len(pending[u]) : pending[u][k] = "plain"
      <4>1. PICK u \in Logger : \E k \in 1..Len(pending[u]) : pending[u][k] = "plain"  BY <3>3
      <4>2. PICK k \in 1..Len(pending[u]) : pending[u][k] = "plain"  BY <4>1
      <4>3. CASE u # t  BY <4>2, <4>3, <1>5
      <4>4. CASE u = t /\ k = 1
        <5>1. stream'[n + 1].piece = "plain" /\ n + 1 \in i..(n + 1)  BY <4>2, <4>4, <1>1, <1>2, <1>3, <2>2
        <5> QED  BY <5>1
      <4>5. CASE u = t /\ k # 1
        <5>1. k - 1 \in 1..Len(Tail(p)) /\ Tail(p)[k - 1] = "plain"  BY <4>2, <4>5, <1>2, <1>4
        <5> QED  BY <5>1, <1>5
      <4> QED  BY <4>3, <4>4, <4>5
    <3> QED  BY <3>1, <3>2, <3>3, <2>2 DEF LogInv, ColourIsTakenBack
  <2> QED  BY <2>1, <2>2, <1>1
<1>10. LogLinesAreWhole'
  <2> SUFFICES ASSUME NEW i \in 1..(n + 1)
               PROVE  /\ i < n + 1 /\ stream'[i].piece # "newline" => stream'[i + 1].by = stream'[i].by
                      /\ stream'[i].piece = "colour" =>
                            \A m \in i..(n + 1) : stream'[m].piece = "newline" =>
                                \E j \in i..m : stream'[j].piece = "plain"
    BY <1>3 DEF LogLinesAreWhole
  <2>1. ASSUME i < n + 1, stream'[i].piece # "newline" PROVE stream'[i + 1].by = stream'[i].by
    <3>1. CASE i < n
      <4>1. stream[i].piece # "newline" => stream[i + 1].by = stream[i].by
        BY <3>1, <1>1 DEF LogInv, LogLinesAreWhole
      <4>2. stream'[i] = stream[i] /\ stream'[i + 1] = stream[i + 1]
        BY <3>1, <1>1, <1>3
      <4> QED  BY <4>1, <4>2, <2>1
    <3>2. CASE i = n
      <4>1. stream # <<>> /\ stream'[n] = stream[n]  BY <3>2, <1>1, <1>3
      <4>2. syslog.mtx = stream[n].by  BY <4>1, <3>2, <2>1 DEF LogInv, OwnerWrites
      <4>3. stream'[n].by = t  BY <4>1, <4>2, <1>1
      <4>4. stream'[n + 1].by = t  BY <1>3
      <4> QED  BY <4>3, <4>4, <3>2
    <3> QED  BY <3>1, <3>2, <2>1, <1>1
  <2>2. ASSUME stream'[i].piece = "colour", NEW m \in i..(n + 1), stream'[m].piece = "newline"
        PROVE  \E j \in i..m : stream'[j].piece = "plain"
    <3>1. i # n + 1  BY <2>2, <1>1
    <3>2. i \in 1..n /\ stream[i].piece = "colour"  BY <3>1, <2>2, <1>1, <1>3
    <3>3. CASE m \in i..n
      <4>1. stream[m].piece = "newline"  BY <3>2, <3>3, <2>2, <1>1, <1>3
      <4>2. PICK j \in i..m : stream[j].piece = "plain"
        BY <4>1, <3>2, <3>3 DEF LogInv, LogLinesAreWhole
      <4>3. j \in 1..n  BY <3>2, <3>3, <1>1
      <4> QED  BY <4>2, <4>3, <1>3
    <3>4. CASE m = n + 1
      <4>1. Tail(p) = <<>>  BY <3>4, <2>2, <1>3, <1>4
      <4>2. \A u \in Logger : pending'[u] = <<>>
        BY <4>1, <1>1, <1>5 DEF LogInv, OwnerWrites
      <4>3. PICK j \in i..(n + 1) : stream'[j].piece = "plain"
        BY <4>2, <1>9, <1>3, <2>2 DEF ColourIsTakenBack
      <4> QED  BY <4>3, <3>4
    <3>5. n \in Nat /\ i \in 1..n /\ m \in i..(n + 1)  BY <3>2, <2>2, <1>1
    <3>6. m \in i..n \/ m = n + 1  BY ONLY <3>5, SMT
    <3> QED  BY <3>3, <3>4, <3>6
  <2> QED  BY <2>1, <2>2
<1> QED  BY <1>7, <1>8, <1>9, <1>10 DEF LogInv

\* LogLinesAreWhole for any threads and levels, and any number of lines.
THEOREM LinesWhole == LogSpec => []LogLinesAreWhole
<1>1. LogInit => LogInv
  BY LogAssumption DEF LogInit, LogInv, LogTypes, OwnerWrites, ColourIsTakenBack, LogLinesAreWhole, RestOfLine
<1>2. LogInv /\ [LogNext]_logVars => LogInv'
  <2> SUFFICES ASSUME LogInv, [LogNext]_logVars PROVE LogInv'  OBVIOUS
  <2>1. CASE \/ \E on \in BOOLEAN : Enable(on)
             \/ SetStream \/ ActivateConsole \/ UNCHANGED logVars
    <3>1. LogTypes' /\ syslog'.mtx = syslog.mtx /\ UNCHANGED <<pending, stream>>
      BY <2>1 DEF LogInv, LogTypes, Enable, SetStream, ActivateConsole, logVars
    <3> QED  BY <3>1 DEF LogInv, OwnerWrites, ColourIsTakenBack, LogLinesAreWhole, RestOfLine
  <2>2. ASSUME NEW t \in Logger, Message(t) PROVE LogInv'
    <3>1. PICK level \in Levels : pending' = [pending EXCEPT ![t] = WritesOf(level, syslog.colour)]
      BY <2>2 DEF Message
    <3> DEFINE w == WritesOf(level, syslog.colour)
    <3>2. w \in Seq(Piece) /\ w # <<>> /\ RestOfLine(w)
      BY WritesAreALine DEF LogInv, LogTypes
    <3> HIDE DEF w
    <3>3. /\ pending' \in [Logger -> Seq(Piece)] /\ pending'[t] = w
          /\ \A u \in Logger \ {t} : pending'[u] = pending[u]
          /\ syslog.mtx = NoOwner /\ syslog'.mtx = t /\ stream' = stream
          /\ LogTypes' /\ \A u \in Logger : pending[u] = <<>>
      BY <2>2, <3>1, <3>2, LogAssumption DEF Message, LogInv, LogTypes, OwnerWrites, w
    <3>4. \A u \in Logger : RestOfLine(pending'[u])
      BY <3>2, <3>3 DEF LogInv, OwnerWrites
    <3>5. ASSUME NEW u \in Logger PROVE RestOfLine(pending[u])'
      BY <3>4 DEF RestOfLine
    <3>6. stream # <<>> => stream[Len(stream)].piece = "newline"
      <4> SUFFICES ASSUME stream # <<>>, stream[Len(stream)].piece # "newline" PROVE FALSE  OBVIOUS
      <4>1. syslog.mtx = stream[Len(stream)].by  BY DEF LogInv, OwnerWrites
      <4>2. stream[Len(stream)].by \in Logger
        <5>1. stream \in Seq([by : Logger, piece : Piece]) /\ Len(stream) \in 1..Len(stream)
          BY DEF LogInv, LogTypes
        <5>2. stream[Len(stream)] \in [by : Logger, piece : Piece]  BY <5>1, ElementOfSeq
        <5> QED  BY <5>2
      <4> QED  BY <4>1, <4>2, <3>3, LogAssumption
    <3>7. OwnerWrites'
      <4>1. \A u \in Logger : pending'[u] # <<>> <=> syslog'.mtx = u  BY <3>2, <3>3
      <4> QED  BY <4>1, <3>3, <3>5, <3>6 DEF OwnerWrites
    <3>8. ColourIsTakenBack'
      <4>1. \A i \in 1..Len(stream) : stream[i].piece = "colour" =>
              \E j \in i..Len(stream) : stream[j].piece = "plain"
        BY <3>3 DEF LogInv, ColourIsTakenBack
      <4> QED  BY <4>1, <3>3 DEF ColourIsTakenBack
    <3> QED  BY <3>3, <3>7, <3>8, SMTT(30) DEF LogInv, LogLinesAreWhole
  <2>3. ASSUME NEW t \in Logger, WritePiece(t) PROVE LogInv'
    BY <2>3, WritePieceKeeps
  <2> QED  BY <2>1, <2>2, <2>3 DEF LogNext
<1>3. LogInv => LogLinesAreWhole  BY DEF LogInv
<1> QED  BY <1>1, <1>2, <1>3, PTL DEF LogSpec

----------------------------------------------------------------------------
(* Reference counts. *)

WeakPointers(o) == Cardinality({w \in Weak : wp[w] = o})
Holding(f, S, o) == Cardinality({x \in S : f[x] = o})
OnlyAt(f, g, S, x) == x \in S /\ \A y \in S \ {x} : g[y] = f[y]
One(a, b) == IF a = b THEN 1 ELSE 0

PointerTypes ==
    /\ sp \in [Strong -> Object \cup {Nil, Out}] /\ wp \in [Weak -> Object \cup {Nil, Out}]
    /\ made \in [Object -> Address \cup {Nil}] /\ live \subseteq Object /\ counters \subseteq Object
    /\ shared \in [Object -> Int] /\ weak \in [Object -> Int] /\ casts \in [Object -> Nat]

\* The shared count is the pointers and one for every cast; the weak count is at least the
\* weak pointers and one for a live object, as no destructor takes a weak pointer off it.
CountsOf(o) ==
    /\ shared[o] = Pointers(o) + casts[o]
    /\ weak[o] >= WeakPointers(o) + (IF shared[o] > 0 THEN 1 ELSE 0)
    /\ o \in live <=> shared[o] > 0
    /\ shared[o] > 0 \/ WeakPointers(o) > 0 => o \in counters
    /\ made[o] = Nil => shared[o] = 0 /\ casts[o] = 0 /\ o \notin counters

PointerInv == PointerTypes /\ \A o \in Object : CountsOf(o)

\* How many variables hold o before and after one of them, x, is changed.
LEMMA HoldersMoved ==
    ASSUME NEW S, IsFiniteSet(S), NEW f, NEW g, NEW x, OnlyAt(f, g, S, x), NEW o
    PROVE  /\ Holding(f, S, o) \in Nat
           /\ Holding(g, S, o) = Holding(f, S, o) - One(f[x], o) + One(g[x], o)
<1>1. PICK A : A = {y \in S : f[y] = o}  OBVIOUS
<1>2. PICK B : B = {y \in S : g[y] = o}  OBVIOUS
<1>3. Holding(f, S, o) = Cardinality(A) /\ Holding(g, S, o) = Cardinality(B)
  BY <1>1, <1>2 DEF Holding
<1>4. IsFiniteSet(A) /\ Cardinality(A) \in Nat
  <2>1. A \subseteq S  BY <1>1
  <2> QED  BY <2>1, FS_Subset, FS_CardinalityType
<1>5. CASE f[x] = o <=> g[x] = o
  <2>1. B = A  BY <1>1, <1>2, <1>5 DEF OnlyAt
  <2>2. One(f[x], o) = One(g[x], o) /\ One(f[x], o) \in Nat  BY <1>5 DEF One
  <2> QED  BY <2>1, <2>2, <1>3, <1>4
<1>6. CASE f[x] = o /\ g[x] # o
  <2>1. B = A \ {x} /\ x \in A  BY <1>1, <1>2, <1>6 DEF OnlyAt
  <2>2. Cardinality(B) = Cardinality(A) - 1  BY <2>1, <1>4, FS_RemoveElement
  <2>3. One(f[x], o) = 1 /\ One(g[x], o) = 0  BY <1>6 DEF One
  <2> QED  BY <2>2, <2>3, <1>3, <1>4
<1>7. CASE f[x] # o /\ g[x] = o
  <2>1. B = A \cup {x} /\ x \notin A  BY <1>1, <1>2, <1>7 DEF OnlyAt
  <2>2. Cardinality(B) = Cardinality(A) + 1  BY <2>1, <1>4, FS_AddElement
  <2>3. One(f[x], o) = 0 /\ One(g[x], o) = 1  BY <1>7 DEF One
  <2> QED  BY <2>2, <2>3, <1>3, <1>4
<1> QED  BY <1>5, <1>6, <1>7

\* A variable that holds o is counted.
LEMMA HoldersCounted ==
    ASSUME NEW S, IsFiniteSet(S), NEW f, NEW o
    PROVE  /\ Holding(f, S, o) \in Nat
           /\ Holding(f, S, o) > 0 <=> \E y \in S : f[y] = o
<1>1. PICK A : A = {y \in S : f[y] = o}  OBVIOUS
<1>2. Holding(f, S, o) = Cardinality(A)  BY <1>1 DEF Holding
<1>3. IsFiniteSet(A) /\ Cardinality(A) \in Nat
  <2>1. A \subseteq S  BY <1>1
  <2> QED  BY <2>1, FS_Subset, FS_CardinalityType
<1>4. Cardinality(A) = 0 <=> A = {}
  BY <1>3, FS_EmptySet
<1>5. A = {} <=> ~ \E y \in S : f[y] = o  BY <1>1
<1> QED  BY <1>2, <1>3, <1>4, <1>5

\* What the invariant says of one object and of the variables that hold it.
LEMMA Counted ==
    ASSUME PointerInv, NEW o \in Object
    PROVE  /\ Pointers(o) \in Nat /\ WeakPointers(o) \in Nat /\ casts[o] \in Nat
           /\ shared[o] \in Nat /\ weak[o] \in Nat
           /\ Pointers(o) > 0 <=> \E s \in Strong : sp[s] = o
           /\ WeakPointers(o) > 0 <=> \E w \in Weak : wp[w] = o
           /\ CountsOf(o)
<1>1. IsFiniteSet(Strong) /\ IsFiniteSet(Weak)
  BY PointerAssumption
<1>2. Pointers(o) \in Nat /\ (Pointers(o) > 0 <=> \E s \in Strong : sp[s] = o)
  <2>1. Pointers(o) = Holding(sp, Strong, o)  BY DEF Pointers, Holding
  <2> QED  BY <1>1, <2>1, HoldersCounted
<1>3. WeakPointers(o) \in Nat /\ (WeakPointers(o) > 0 <=> \E w \in Weak : wp[w] = o)
  <2>1. WeakPointers(o) = Holding(wp, Weak, o)  BY DEF WeakPointers, Holding
  <2> QED  BY <1>1, <2>1, HoldersCounted
<1>4. casts[o] \in Nat /\ weak[o] \in Int /\ CountsOf(o)
  BY DEF PointerInv, PointerTypes
<1>5. shared[o] \in Nat  BY <1>2, <1>4 DEF CountsOf
<1>6. weak[o] \in Nat  BY <1>3, <1>4, <1>5 DEF CountsOf, One
<1> QED  BY <1>2, <1>3, <1>4, <1>5, <1>6

LEMMA PointersMoved ==
    ASSUME PointerInv, NEW s \in Strong, NEW v, sp' = [sp EXCEPT ![s] = v], NEW o
    PROVE  Pointers(o)' = Pointers(o) - One(sp[s], o) + One(v, o)
<1>1. IsFiniteSet(Strong) /\ sp'[s] = v /\ \A y \in Strong \ {s} : sp'[y] = sp[y]
  BY PointerAssumption DEF PointerInv, PointerTypes
<1>2. Pointers(o) = Holding(sp, Strong, o) /\ Pointers(o)' = Holding(sp', Strong, o)
  BY DEF Pointers, Holding
<1>3. PICK f, g : f = sp /\ g = sp'  OBVIOUS
<1>4. f[s] = sp[s] /\ g[s] = v /\ OnlyAt(f, g, Strong, s)
  BY <1>1, <1>3 DEF OnlyAt
<1>5. Holding(g, Strong, o) = Holding(f, Strong, o) - One(f[s], o) + One(g[s], o)
  BY <1>4, HoldersMoved, PointerAssumption
<1>6. Pointers(o) = Holding(f, Strong, o) /\ Pointers(o)' = Holding(g, Strong, o)
  BY <1>2, <1>3
<1> QED  BY <1>4, <1>5, <1>6

LEMMA WeakPointersMoved ==
    ASSUME PointerInv, NEW w \in Weak, NEW v, wp' = [wp EXCEPT ![w] = v], NEW o
    PROVE  WeakPointers(o)' = WeakPointers(o) - One(wp[w], o) + One(v, o)
<1>1. IsFiniteSet(Weak) /\ wp'[w] = v /\ \A y \in Weak \ {w} : wp'[y] = wp[y]
  BY PointerAssumption DEF PointerInv, PointerTypes
<1>2. WeakPointers(o) = Holding(wp, Weak, o) /\ WeakPointers(o)' = Holding(wp', Weak, o)
  BY DEF WeakPointers, Holding
<1>3. PICK f, g : f = wp /\ g = wp'  OBVIOUS
<1>4. f[w] = wp[w] /\ g[w] = v /\ OnlyAt(f, g, Weak, w)
  BY <1>1, <1>3 DEF OnlyAt
<1>5. Holding(g, Weak, o) = Holding(f, Weak, o) - One(f[w], o) + One(g[w], o)
  BY <1>4, HoldersMoved, PointerAssumption
<1>6. WeakPointers(o) = Holding(f, Weak, o) /\ WeakPointers(o)' = Holding(g, Weak, o)
  BY <1>2, <1>3
<1> QED  BY <1>4, <1>5, <1>6

\* Steps that move a strong pointer and count it, and leave the weak pointers.
LEMMA MakeKeeps ==
    ASSUME PointerInv, NEW s \in Strong, Make(s)
    PROVE  PointerInv'
<1>1. PICK p \in Object, a \in Address :
        /\ sp[s] = Out /\ made[p] = Nil
        /\ made' = [made EXCEPT ![p] = a] /\ live' = live \cup {p} /\ counters' = counters \cup {p}
        /\ shared' = [shared EXCEPT ![p] = 1] /\ weak' = [weak EXCEPT ![p] = 1]
        /\ sp' = [sp EXCEPT ![s] = p] /\ wp' = wp /\ casts' = casts
  BY DEF Make
<1>2. PointerTypes'
  BY <1>1 DEF PointerInv, PointerTypes
<1>3. ASSUME NEW o \in Object PROVE CountsOf(o)'
  <2>1. /\ Pointers(o)' = Pointers(o) - One(sp[s], o) + One(p, o)
        /\ WeakPointers(o)' = WeakPointers(o)
    <3>1. Pointers(o)' = Pointers(o) - One(sp[s], o) + One(p, o)  BY <1>1, PointersMoved
    <3> QED  BY <3>1, <1>1 DEF WeakPointers
  <2>2. sp[s] # o  BY <1>1, PointerAssumption
  <2>3. a # Nil  BY PointerAssumption
  <2>4. /\ o # p => shared'[o] = shared[o] /\ weak'[o] = weak[o] /\ made'[o] = made[o]
        /\ o = p => shared'[o] = 1 /\ weak'[o] = 1 /\ made'[o] = a
    BY <1>1 DEF PointerInv, PointerTypes
  <2>5. CASE o = p
    BY <2>1, <2>2, <2>3, <2>4, <2>5, <1>1, Counted DEF CountsOf, One
  <2>6. CASE o # p
    BY <2>1, <2>2, <2>4, <2>6, <1>1, Counted DEF CountsOf, One
  <2> QED  BY <2>5, <2>6
<1> QED  BY <1>2, <1>3 DEF PointerInv

\* Hold: a variable out of scope is given an object that a pointer or a cast keeps, or none.
LEMMA HoldKeeps ==
    ASSUME PointerInv, NEW s \in Strong, sp[s] = Out, NEW v \in Object \cup {Nil},
           v \in Object => shared[v] > 0,
           sp' = [sp EXCEPT ![s] = v], shared' = Count(v, 1),
           UNCHANGED <<wp, made, live, weak, counters, casts>>
    PROVE  PointerInv'
<1>1. PointerTypes'
  BY DEF PointerInv, PointerTypes, Count
<1>2. ASSUME NEW o \in Object PROVE CountsOf(o)'
  <2>1. Pointers(o)' = Pointers(o) - One(sp[s], o) + One(v, o)  BY PointersMoved
  <2>2. WeakPointers(o)' = WeakPointers(o)  BY DEF WeakPointers
  <2>3. sp[s] # o  BY PointerAssumption
  <2>4. shared'[o] = shared[o] + One(v, o)
    BY Counted DEF PointerInv, PointerTypes, Count, One
  <2> QED  BY <2>1, <2>2, <2>3, <2>4, Counted DEF CountsOf, One
<1> QED  BY <1>1, <1>2 DEF PointerInv

\* SharedPointer's cast: the object is held twice for one pointer.
LEMMA CastKeeps ==
    ASSUME PointerInv, NEW s \in Strong, NEW t \in Strong, Cast(s, t)
    PROVE  PointerInv'
<1>1. PICK v \in Object : v = sp[t]  BY DEF Cast
<1>2. /\ sp[s] = Out /\ sp' = [sp EXCEPT ![s] = v] /\ shared' = [shared EXCEPT ![v] = @ + 2]
      /\ casts' = [casts EXCEPT ![v] = @ + 1] /\ UNCHANGED <<wp, made, live, weak, counters>>
  BY <1>1 DEF Cast, Count
<1>3. PointerTypes'
  BY <1>2 DEF PointerInv, PointerTypes
<1>4. shared[v] > 0
  BY <1>1, Counted DEF CountsOf
<1>5. ASSUME NEW o \in Object PROVE CountsOf(o)'
  <2>1. Pointers(o)' = Pointers(o) - One(sp[s], o) + One(v, o)  BY <1>2, PointersMoved
  <2>2. WeakPointers(o)' = WeakPointers(o)  BY <1>2 DEF WeakPointers
  <2>3. sp[s] # o  BY <1>2, PointerAssumption
  <2>4. shared'[o] = shared[o] + One(v, o) + One(v, o) /\ casts'[o] = casts[o] + One(v, o)
    BY <1>2, Counted DEF PointerInv, PointerTypes, One
  <2> QED  BY <1>2, <1>4, <2>1, <2>2, <2>3, <2>4, Counted DEF CountsOf, One
<1> QED  BY <1>3, <1>5 DEF PointerInv

\* The move constructor counts nothing: the pointer changes its variable.
LEMMA MoveKeeps ==
    ASSUME PointerInv, NEW s \in Strong, NEW t \in Strong, MoveConstruct(s, t)
    PROVE  PointerInv'
<1>1. PICK v \in Object \cup {Nil} : v = sp[t]
  BY DEF MoveConstruct, PointerInv, PointerTypes
<1>2. /\ s # t /\ sp[s] = Out /\ sp'[s] = v /\ sp'[t] = Nil
      /\ \A y \in Strong \ {s, t} : sp'[y] = sp[y]
      /\ sp' \in [Strong -> Object \cup {Nil, Out}]
      /\ UNCHANGED <<wp, made, live, shared, weak, counters, casts>>
  BY <1>1 DEF MoveConstruct, PointerInv, PointerTypes
<1>3. PointerTypes'
  BY <1>2 DEF PointerInv, PointerTypes
<1>4. ASSUME NEW o \in Object PROVE CountsOf(o)'
  <2>1. PICK f, g, h : f = sp /\ g = [sp EXCEPT ![s] = v] /\ h = sp'  OBVIOUS
  <2>2. OnlyAt(f, g, Strong, s) /\ f[s] = Out /\ g[s] = v
    BY <2>1, <1>2 DEF OnlyAt, PointerInv, PointerTypes
  <2>3. OnlyAt(g, h, Strong, t) /\ g[t] = v /\ h[t] = Nil
    BY <2>1, <1>1, <1>2 DEF OnlyAt, PointerInv, PointerTypes
  <2>4. Holding(g, Strong, o) = Holding(f, Strong, o) - One(f[s], o) + One(g[s], o)
    BY <2>2, HoldersMoved, PointerAssumption
  <2>5. Holding(h, Strong, o) = Holding(g, Strong, o) - One(g[t], o) + One(h[t], o)
    BY <2>3, HoldersMoved, PointerAssumption
  <2>6. One(f[s], o) = 0 /\ One(h[t], o) = 0 /\ One(g[s], o) = One(g[t], o) /\ One(g[t], o) \in Nat
    BY <2>2, <2>3, PointerAssumption DEF One
  <2>7. Pointers(o) = Holding(f, Strong, o) /\ Pointers(o)' = Holding(h, Strong, o)
    BY <2>1 DEF Pointers, Holding
  <2>8. Pointers(o)' = Pointers(o)
    <3>1. Pointers(o) \in Nat  BY Counted
    <3> QED  BY <3>1, <2>4, <2>5, <2>6, <2>7
  <2>9. WeakPointers(o)' = WeakPointers(o)  BY <1>2 DEF WeakPointers
  <2> QED  BY <1>2, <2>8, <2>9, Counted DEF CountsOf
<1> QED  BY <1>3, <1>4 DEF PointerInv

\* Release of the old object after the new one is held; v is no object when the pointer is
\* set to null or goes out of scope.
LEMMA ReleaseKeeps ==
    ASSUME PointerInv, NEW s \in Strong, NEW v \in Object \cup {Nil, Out},
           v \in Object => shared[v] > 0,
           sp' = [sp EXCEPT ![s] = v], Release(s, Count(v, 1)),
           UNCHANGED <<wp, made, counters, casts>>
    PROVE  PointerInv'
<1>1. PICK c : c = Count(v, 1)  OBVIOUS
<1>2. c \in [Object -> Int] /\ \A o \in Object : c[o] = shared[o] + One(v, o)
  BY <1>1, Counted DEF PointerInv, PointerTypes, Count, One
<1>3. PICK p \in Object \cup {Nil, Out} : p = sp[s]
  BY DEF PointerInv, PointerTypes
<1>4. CASE p \notin Object
  <2>1. shared' = c /\ UNCHANGED <<live, weak>>  BY <1>1, <1>3, <1>4 DEF Release
  <2>2. PointerTypes'  BY <1>2, <2>1 DEF PointerInv, PointerTypes
  <2>3. ASSUME NEW o \in Object PROVE CountsOf(o)'
    <3>1. Pointers(o)' = Pointers(o) - One(p, o) + One(v, o)  BY <1>3, PointersMoved
    <3>2. WeakPointers(o)' = WeakPointers(o)  BY DEF WeakPointers
    <3>3. shared'[o] = shared[o] + One(v, o) /\ p # o  BY <1>2, <1>4, <2>1
    <3>4. shared[o] \in Nat /\ Pointers(o) \in Nat /\ casts[o] \in Nat /\ CountsOf(o)  BY Counted
    <3>5. (shared'[o] > 0 <=> shared[o] > 0) /\ (shared[o] = 0 => shared'[o] = 0)
      BY <3>3, <3>4 DEF One
    <3>6. shared'[o] = Pointers(o)' + casts[o]  BY <3>1, <3>3, <3>4 DEF CountsOf, One
    <3> QED  BY <3>2, <3>4, <3>5, <3>6, <2>1 DEF CountsOf
  <2> QED  BY <2>2, <2>3 DEF PointerInv
<1>5. CASE p \in Object
  <2>1. /\ shared' = [c EXCEPT ![p] = @ - 1]
        /\ live' = IF c[p] = 1 THEN live \ {p} ELSE live
        /\ weak' = IF c[p] = 1 THEN [weak EXCEPT ![p] = @ - 1] ELSE weak
    BY <1>1, <1>3, <1>5 DEF Release
  <2>2. PointerTypes'  BY <1>2, <1>5, <2>1 DEF PointerInv, PointerTypes
  <2>3. ASSUME NEW o \in Object PROVE CountsOf(o)'
    <3>1. Pointers(o)' = Pointers(o) - One(p, o) + One(v, o)  BY <1>3, PointersMoved
    <3>2. WeakPointers(o)' = WeakPointers(o)  BY DEF WeakPointers
    <3>3. c[o] = shared[o] + One(v, o) /\ c[o] \in Int  BY <1>2
    <3>4. shared'[o] = c[o] - One(p, o)  BY <1>2, <2>1 DEF One
    <3>5. CASE o # p
      <4>1. (o \in live' <=> o \in live) /\ weak'[o] = weak[o]
        BY <3>5, <2>1 DEF PointerInv, PointerTypes
      <4> QED  BY <3>1, <3>2, <3>3, <3>4, <3>5, <4>1, Counted DEF CountsOf, One
    <3>6. CASE o = p
      <4>1. shared[o] > 0  BY <3>6, <1>3, Counted DEF CountsOf
      <4>2. /\ o \in live' <=> (c[o] # 1 /\ o \in live)
            /\ weak'[o] = IF c[o] = 1 THEN weak[o] - 1 ELSE weak[o]
        BY <3>6, <2>1 DEF PointerInv, PointerTypes
      <4>3. shared'[o] = Pointers(o)' + casts[o]
        <5>1. shared[o] = Pointers(o) + casts[o] /\ Pointers(o) \in Nat /\ casts[o] \in Nat
          BY Counted DEF CountsOf
        <5>2. One(p, o) \in Nat /\ One(v, o) \in Nat  BY DEF One
        <5> QED  BY <3>1, <3>3, <3>4, <5>1, <5>2
      <4>4. shared'[o] = c[o] - 1  BY <3>3, <3>4, <3>6 DEF One
      <4>5. shared[o] \in Nat /\ weak[o] \in Nat /\ WeakPointers(o) \in Nat /\ CountsOf(o)  BY Counted
      <4>6. shared'[o] > 0 <=> c[o] # 1  BY <3>3, <4>1, <4>4, <4>5 DEF One
      <4>7. weak'[o] >= WeakPointers(o) + (IF shared'[o] > 0 THEN 1 ELSE 0)
        BY <4>1, <4>2, <4>5, <4>6 DEF CountsOf
      <4>8. o \in live' <=> shared'[o] > 0  BY <4>1, <4>2, <4>5, <4>6 DEF CountsOf
      <4> QED  BY <3>2, <4>1, <4>3, <4>5, <4>7, <4>8 DEF CountsOf
    <3> QED  BY <3>5, <3>6
  <2> QED  BY <2>2, <2>3 DEF PointerInv
<1> QED  BY <1>4, <1>5

\* WeakPointer's Release and Hold.
LEMMA WeakMoveKeeps ==
    ASSUME PointerInv, NEW w \in Weak, NEW v \in Object \cup {Nil},
           v \in Object => shared[v] > 0, WeakMove(w, v),
           UNCHANGED <<sp, made, live, shared, casts>>
    PROVE  PointerInv'
<1>1. PICK p \in Object \cup {Nil, Out} : p = wp[w]
  BY DEF PointerInv, PointerTypes
<1>2. PICK c : c = IF p \in Object THEN [weak EXCEPT ![p] = @ - 1] ELSE weak  OBVIOUS
<1>3. /\ weak' = IF v \in Object THEN [c EXCEPT ![v] = @ + 1] ELSE c
      /\ counters' = IF p \in Object /\ c[p] = 0 THEN counters \ {p} ELSE counters
      /\ wp' = [wp EXCEPT ![w] = v]
  BY <1>1, <1>2 DEF WeakMove
<1>4. c \in [Object -> Int] /\ \A o \in Object : c[o] = weak[o] - One(p, o)
  BY <1>2, Counted DEF PointerInv, PointerTypes, One
<1>5. weak' \in [Object -> Int] /\ \A o \in Object : weak'[o] = c[o] + One(v, o)
  BY <1>3, <1>4 DEF One
<1>6. PointerTypes'
  BY <1>3, <1>5 DEF PointerInv, PointerTypes
<1>7. ASSUME NEW o \in Object PROVE CountsOf(o)'
  <2>1. WeakPointers(o)' = WeakPointers(o) - One(p, o) + One(v, o)
    BY <1>1, <1>3, WeakPointersMoved
  <2>2. Pointers(o)' = Pointers(o)  BY DEF Pointers
  <2>3. weak'[o] = weak[o] - One(p, o) + One(v, o) /\ c[o] = weak[o] - One(p, o)  BY <1>4, <1>5
  <2>4. o \in counters' <=> o \in counters /\ ~(o = p /\ c[o] = 0)  BY <1>3
  <2>5. p = o => WeakPointers(o) > 0  BY <1>1, Counted
  <2>6. CASE o = p /\ c[o] = 0
    <3>1. weak[o] = 1  BY <2>3, <2>6, Counted DEF One
    <3>2. WeakPointers(o) = 1 /\ shared[o] = 0
      BY <3>1, <2>5, <2>6, Counted DEF CountsOf
    <3>3. v # o  BY <3>2
    <3> QED  BY <2>1, <2>2, <2>3, <2>4, <2>6, <3>1, <3>2, <3>3, Counted DEF CountsOf, One
  <2>7. CASE ~(o = p /\ c[o] = 0)
    <3>1. o \in counters' <=> o \in counters  BY <2>4, <2>7
    <3>2. WeakPointers(o)' > 0 => WeakPointers(o) > 0 \/ shared[o] > 0
      BY <2>1, <2>5, Counted DEF One
    <3>3. weak'[o] >= WeakPointers(o)' + (IF shared[o] > 0 THEN 1 ELSE 0)
      BY <2>1, <2>3, Counted DEF CountsOf, One
    <3> QED  BY <2>2, <3>1, <3>2, <3>3, Counted DEF CountsOf
  <2> QED  BY <2>6, <2>7
<1> QED  BY <1>6, <1>7 DEF PointerInv

\* OwnersKeepObjects for any objects and pointers, and any sequence of their operations.
THEOREM ObjectsKept == PointerSpec => []OwnersKeepObjects
<1>1. PointerInit => PointerInv
  <2> SUFFICES ASSUME PointerInit PROVE PointerInv  OBVIOUS
  <2>1. PointerTypes  BY DEF PointerInit, PointerTypes
  <2>2. ASSUME NEW o \in Object PROVE CountsOf(o)
    <3>1. Pointers(o) = Holding(sp, Strong, o) /\ WeakPointers(o) = Holding(wp, Weak, o)
      BY DEF Pointers, WeakPointers, Holding
    <3>2. /\ ~ \E s \in Strong : sp[s] = o
          /\ ~ \E w \in Weak : wp[w] = o
      BY PointerAssumption DEF PointerInit
    <3>3. Pointers(o) = 0 /\ WeakPointers(o) = 0
      <4>1. Pointers(o) \in Nat /\ ~(Pointers(o) > 0)  BY <3>1, <3>2, HoldersCounted, PointerAssumption
      <4>2. WeakPointers(o) \in Nat /\ ~(WeakPointers(o) > 0)
        BY <3>1, <3>2, HoldersCounted, PointerAssumption
      <4> QED  BY <4>1, <4>2
    <3> QED  BY <3>3 DEF PointerInit, CountsOf
  <2> QED  BY <2>1, <2>2 DEF PointerInv
<1>2. PointerInv /\ [PointerNext]_pointerVars => PointerInv'
  <2> SUFFICES ASSUME PointerInv, [PointerNext]_pointerVars PROVE PointerInv'  OBVIOUS
  <2> USE DEF PointerTypes
  <2>0. \A s \in Strong : /\ sp[s] \in Object \cup {Nil, Out}
                          /\ sp[s] \in Object => shared[sp[s]] > 0
    <3> SUFFICES ASSUME NEW s \in Strong, sp[s] \in Object PROVE shared[sp[s]] > 0
      BY DEF PointerInv
    <3>1. PICK o \in Object : o = sp[s]  OBVIOUS
    <3> QED  BY <3>1, Counted DEF CountsOf
  <2>1. ASSUME NEW s \in Strong, Make(s) PROVE PointerInv'  BY <2>1, MakeKeeps
  <2>2. ASSUME NEW s \in Strong, AssignNull(s) PROVE PointerInv'
    <3>1. Count(Nil, 1) = shared /\ Nil \notin Object  BY PointerAssumption DEF Count
    <3> QED  BY <2>2, <3>1, ReleaseKeeps DEF AssignNull
  <2>3. ASSUME NEW s \in Strong, Destroy(s) PROVE PointerInv'
    <3>1. Count(Out, 1) = shared /\ Out \notin Object  BY PointerAssumption DEF Count
    <3> QED  BY <2>3, <3>1, ReleaseKeeps DEF Destroy
  <2>4. ASSUME NEW s \in Strong, NEW t \in Strong, CopyConstruct(s, t) PROVE PointerInv'
    BY <2>0, <2>4, HoldKeeps DEF CopyConstruct
  <2>5. ASSUME NEW s \in Strong, NEW t \in Strong, MoveConstruct(s, t) PROVE PointerInv'
    BY <2>5, MoveKeeps
  <2>6. ASSUME NEW s \in Strong, NEW t \in Strong, Assign(s, t) PROVE PointerInv'
    BY <2>0, <2>6, ReleaseKeeps DEF Assign
  <2>7. ASSUME NEW s \in Strong, NEW t \in Strong, Cast(s, t) PROVE PointerInv'
    BY <2>7, CastKeeps
  <2>8. ASSUME NEW w \in Weak, WeakAssignNull(w) PROVE PointerInv'
    BY <2>8, WeakMoveKeeps, PointerAssumption DEF WeakAssignNull
  <2>9. ASSUME NEW w \in Weak, WeakDestroy(w) PROVE PointerInv'
    <3>1. /\ wp' = [wp EXCEPT ![w] = Out]
          /\ UNCHANGED <<sp, made, live, shared, weak, counters, casts>>
      BY <2>9 DEF WeakDestroy
    <3>2. PointerTypes'  BY <3>1 DEF PointerInv
    <3>3. ASSUME NEW o \in Object PROVE CountsOf(o)'
      <4>1. WeakPointers(o)' = WeakPointers(o) - One(wp[w], o) + One(Out, o)
        BY <3>1, WeakPointersMoved
      <4>2. Out # o  BY PointerAssumption
      <4>3. Pointers(o)' = Pointers(o)  BY <3>1 DEF Pointers
      <4> QED  BY <3>1, <4>1, <4>2, <4>3, Counted DEF CountsOf, One
    <3> QED  BY <3>2, <3>3 DEF PointerInv
  <2>10. ASSUME NEW w \in Weak, NEW s \in Strong, WeakConstruct(w, s) PROVE PointerInv'
    BY <2>0, <2>10, WeakMoveKeeps DEF WeakConstruct
  <2>11. ASSUME NEW w \in Weak, NEW s \in Strong, WeakAssign(w, s) PROVE PointerInv'
    BY <2>0, <2>11, WeakMoveKeeps DEF WeakAssign
  <2>12. ASSUME NEW w \in Weak, NEW s \in Strong, Pin(s, w) PROVE PointerInv'
    <3>1. CASE wp[w] \in Object /\ shared[wp[w]] # 0
      <4>1. PICK o \in Object : o = wp[w]  BY <3>1
      <4>2. shared[o] > 0  BY <4>1, <3>1, Counted
      <4> QED  BY <2>12, <3>1, <4>1, <4>2, HoldKeeps DEF Pin
    <3>2. CASE ~(wp[w] \in Object /\ shared[wp[w]] # 0)
      <4>1. Count(Nil, 1) = shared /\ Nil \notin Object  BY PointerAssumption DEF Count
      <4> QED  BY <2>12, <3>2, <4>1, HoldKeeps DEF Pin
    <3> QED  BY <3>1, <3>2
  <2>13. CASE UNCHANGED pointerVars
    <3>1. UNCHANGED <<sp, wp, made, live, shared, weak, counters, casts>>
      BY <2>13 DEF pointerVars
    <3>2. ASSUME NEW o \in Object PROVE CountsOf(o)'
      <4>1. Pointers(o)' = Pointers(o) /\ WeakPointers(o)' = WeakPointers(o)
        BY <3>1 DEF Pointers, WeakPointers
      <4> QED  BY <3>1, <4>1, Counted DEF CountsOf
    <3> QED  BY <3>1, <3>2 DEF PointerInv
  <2> QED
    BY <2>1, <2>2, <2>3, <2>4, <2>5, <2>6, <2>7, <2>8, <2>9, <2>10, <2>11, <2>12, <2>13
       DEF PointerNext
<1>3. PointerInv => OwnersKeepObjects
  <2> SUFFICES ASSUME PointerInv, NEW o \in Object
               PROVE  /\ Pointers(o) > 0 => o \in live
                      /\ shared[o] = Pointers(o) + casts[o]
                      /\ (Pointers(o) > 0 \/ \E w \in Weak : wp[w] = o) => o \in counters
                      /\ o \in live /\ casts[o] = 0 => Pointers(o) > 0
    BY DEF OwnersKeepObjects
  <2> QED  BY Counted DEF CountsOf
<1> QED  BY <1>1, <1>2, <1>3, PTL DEF PointerSpec

----------------------------------------------------------------------------
(* Console: the ring. *)

Index == 0..(Size - 1)
Gap(h, t) == (t - h) % Size             \* the characters from h up to t
Slot(h, i) == (h + i - 1) % Size        \* the place of the i-th of them

\* The remainders that occur.
LEMMA Remainders ==
    ASSUME NEW S \in Nat \ {0}, NEW x \in Int
    PROVE  /\ x \in 0..(S - 1) => x % S = x
           /\ x \in S..(2 * S - 1) => x % S = x - S
           /\ x \in (1 - S)..(-1) => x % S = x + S
  OBVIOUS

\* The distance of two places, and how it changes as one of them moves on.
LEMMA GapFacts ==
    ASSUME NEW h \in Index, NEW t \in Index
    PROVE  /\ Gap(h, t) = IF h <= t THEN t - h ELSE t - h + Size
           /\ Gap(h, t) \in Index /\ (Gap(h, t) = 0 <=> h = t)
           /\ Advance(h) = IF h = Size - 1 THEN 0 ELSE h + 1
           /\ Advance(h) \in Index
<1>1. Size \in Nat \ {0} /\ h \in Int /\ t \in Int
  BY ConsoleAssumption DEF Index
<1>2. Gap(h, t) = IF h <= t THEN t - h ELSE t - h + Size
  <2>1. CASE h <= t
    <3>1. t - h \in 0..(Size - 1) /\ t - h \in Int
      BY <1>1, <2>1 DEF Index
    <3> QED
      BY <1>1, <2>1, <3>1, Remainders DEF Gap
  <2>2. CASE ~(h <= t)
    <3>1. t - h \in (1 - Size)..(-1) /\ t - h \in Int
      BY <1>1, <2>2 DEF Index
    <3> QED
      BY <1>1, <2>2, <3>1, Remainders DEF Gap
  <2> QED
    BY <2>1, <2>2
<1>3. Advance(h) = IF h = Size - 1 THEN 0 ELSE h + 1
  <2>1. CASE h = Size - 1
    <3>1. h + 1 \in Size..(2 * Size - 1) /\ h + 1 \in Int /\ h + 1 = Size
      BY <1>1, <2>1
    <3> QED
      BY <1>1, <2>1, <3>1, Remainders DEF Advance
  <2>2. CASE h # Size - 1
    <3>1. h + 1 \in 0..(Size - 1) /\ h + 1 \in Int
      BY <1>1, <2>2 DEF Index
    <3> QED
      BY <1>1, <2>2, <3>1, Remainders DEF Advance
  <2> QED
    BY <2>1, <2>2
<1> QED
  BY <1>1, <1>2, <1>3 DEF Index

\* Where the characters are.
LEMMA SlotFacts ==
    ASSUME NEW h \in Index, NEW i \in 1..Size
    PROVE  /\ Slot(h, i) = IF h + i - 1 < Size THEN h + i - 1 ELSE h + i - 1 - Size
           /\ Slot(h, i) \in Index
<1>1. Size \in Nat \ {0} /\ h \in Int /\ i \in Int
  BY ConsoleAssumption DEF Index
<1>2. CASE h + i - 1 < Size
  <2>1. h + i - 1 \in 0..(Size - 1) /\ h + i - 1 \in Int
    BY <1>1, <1>2 DEF Index
  <2>2. Slot(h, i) = h + i - 1
    BY <1>1, <2>1, Remainders DEF Slot
  <2> QED
    BY <1>2, <2>1, <2>2 DEF Index
<1>3. CASE ~(h + i - 1 < Size)
  <2>1. h + i - 1 \in Size..(2 * Size - 1) /\ h + i - 1 \in Int
    BY <1>1, <1>3 DEF Index
  <2>2. Slot(h, i) = h + i - 1 - Size
    <3>1. (h + i - 1) % Size = (h + i - 1) - Size
      BY <1>1, <2>1, Remainders
    <3> QED
      BY <1>1, <3>1 DEF Slot
  <2>3. Slot(h, i) \in Index
    BY <1>1, <1>3, <2>1, <2>2 DEF Index
  <2> QED
    BY <1>3, <2>2, <2>3
<1> QED
  BY <1>2, <1>3

\* The tail moves on: one character more, and no other in its place.
LEMMA TailAdvances ==
    ASSUME NEW h \in Index, NEW t \in Index, Gap(h, t) < Size - 1
    PROVE  /\ Gap(h, Advance(t)) = Gap(h, t) + 1
           /\ Slot(h, Gap(h, t) + 1) = t
           /\ \A i \in 1..Gap(h, t) : Slot(h, i) # t /\ Slot(h, i) \in Index
<1>1. Size \in Nat \ {0} /\ h \in Int /\ t \in Int
  BY ConsoleAssumption DEF Index
<1>2. /\ Gap(h, t) = IF h <= t THEN t - h ELSE t - h + Size
      /\ Gap(h, t) \in Index /\ Advance(t) \in Index
      /\ Advance(t) = IF t = Size - 1 THEN 0 ELSE t + 1
  BY GapFacts
<1>3. Gap(h, Advance(t)) = IF h <= Advance(t) THEN Advance(t) - h ELSE Advance(t) - h + Size
  BY <1>2, GapFacts
<1>4. Gap(h, Advance(t)) = Gap(h, t) + 1
  BY <1>1, <1>2, <1>3 DEF Index
<1>5. Slot(h, Gap(h, t) + 1) = t
  <2>1. Gap(h, t) + 1 \in 1..Size
    BY <1>1, <1>2 DEF Index
  <2> QED
    BY <1>1, <1>2, <2>1, SlotFacts DEF Index
<1>6. ASSUME NEW i \in 1..Gap(h, t)
      PROVE  Slot(h, i) # t /\ Slot(h, i) \in Index
  <2>1. i \in 1..Size /\ i \in Int /\ i <= Gap(h, t) /\ 1 <= i
    BY <1>1, <1>2 DEF Index
  <2>2. /\ Slot(h, i) = IF h + i - 1 < Size THEN h + i - 1 ELSE h + i - 1 - Size
        /\ Slot(h, i) \in Index
    BY <2>1, SlotFacts
  <2>3. Slot(h, i) # t
    BY <1>1, <1>2, <2>1, <2>2 DEF Index
  <2> QED
    BY <2>2, <2>3
<1> QED
  BY <1>4, <1>5, <1>6

\* The head moves on: one character less, the others where they were.
LEMMA HeadAdvances ==
    ASSUME NEW h \in Index, NEW t \in Index, h # t
    PROVE  /\ Gap(Advance(h), t) = Gap(h, t) - 1 /\ Slot(h, 1) = h /\ Gap(h, t) \in Nat \ {0}
           /\ \A i \in 1..(Gap(h, t) - 1) : Slot(Advance(h), i) = Slot(h, i + 1)
<1>1. Size \in Nat \ {0} /\ h \in Int /\ t \in Int
  BY ConsoleAssumption DEF Index
<1>2. /\ Gap(h, t) = IF h <= t THEN t - h ELSE t - h + Size
      /\ Gap(h, t) \in Index /\ Gap(h, t) # 0 /\ Advance(h) \in Index
      /\ Advance(h) = IF h = Size - 1 THEN 0 ELSE h + 1
  BY GapFacts
<1>3. Gap(Advance(h), t) = IF Advance(h) <= t THEN t - Advance(h) ELSE t - Advance(h) + Size
  BY <1>2, GapFacts
<1>4. Gap(Advance(h), t) = Gap(h, t) - 1 /\ Gap(h, t) \in Nat \ {0}
  BY <1>1, <1>2, <1>3 DEF Index
<1>5. Slot(h, 1) = h
  <2>1. 1 \in 1..Size
    BY <1>1
  <2> QED
    BY <1>1, <2>1, SlotFacts DEF Index
<1>6. ASSUME NEW i \in 1..(Gap(h, t) - 1)
      PROVE  Slot(Advance(h), i) = Slot(h, i + 1)
  <2>1. i \in 1..Size /\ i + 1 \in 1..Size /\ i \in Int
    BY <1>1, <1>2 DEF Index
  <2>2. /\ Slot(Advance(h), i) = IF Advance(h) + i - 1 < Size THEN Advance(h) + i - 1
                                 ELSE Advance(h) + i - 1 - Size
        /\ Slot(h, i + 1) = IF h + (i + 1) - 1 < Size THEN h + (i + 1) - 1
                            ELSE h + (i + 1) - 1 - Size
    BY <1>2, <2>1, SlotFacts
  <2> QED
    BY <1>1, <1>2, <2>1, <2>2 DEF Index
<1> QED
  BY <1>4, <1>5, <1>6

----------------------------------------------------------------------------
(* Console: input. *)

\* The terminal c is a queue, character by character.
Ordered(ty, gt, r, h, t) ==
    /\ Len(ty) = Len(gt) + Gap(h, t)
    /\ \A i \in 1..Len(gt) : ty[i] = gt[i]
    /\ \A i \in 1..Gap(h, t) : ty[Len(gt) + i] = r[Slot(h, i)]

\* What Ordered says is that the sequences are equal.
LEMMA OrderedIsConcatenation ==
    ASSUME TypeOK, NEW c \in VC
    PROVE  Ordered(typed[c], got[c], ring[c], head[c], tail[c]) <=>
           typed[c] = got[c] \o Unread(c)
<1> DEFINE ty == typed[c]
           gt == got[c]
           n == Gap(head[c], tail[c])
           u == Unread(c)
<1>1. ty \in Seq(Char) /\ gt \in Seq(Char) /\ head[c] \in Index /\ tail[c] \in Index
      /\ ring[c] \in [Index -> Char \cup {None}]
  BY DEF TypeOK, Index
<1>2. n \in Nat /\ n < Size
  <2>1. n \in Index
    BY <1>1, GapFacts
  <2>2. Size \in Nat
    BY ConsoleAssumption
  <2> HIDE DEF n
  <2> QED
    BY <2>1, <2>2 DEF Index
<1>3. u = [i \in 1..n |-> ring[c][Slot(head[c], i)]]
  BY DEF Unread, Gap, Slot
<1> HIDE DEF u, n
<1>4. u \in Seq(Char \cup {None}) /\ Len(u) = n
      /\ \A i \in 1..n : u[i] = ring[c][Slot(head[c], i)]
  <2>1. ASSUME NEW i \in 1..n
        PROVE  ring[c][Slot(head[c], i)] \in Char \cup {None}
    <3>1. i \in 1..Size
      BY <1>2, ConsoleAssumption
    <3>2. Slot(head[c], i) \in Index
      BY <1>1, <3>1, SlotFacts
    <3> QED
      BY <1>1, <3>2
  <2> QED
    BY <1>2, <1>3, <2>1
<1>5. /\ gt \o u \in Seq(Char \cup {None}) /\ ty \in Seq(Char \cup {None})
      /\ Len(gt) \in Nat
      /\ Len(gt \o u) = Len(gt) + n
      /\ \A i \in 1..(Len(gt) + n) :
            (gt \o u)[i] = IF i <= Len(gt) THEN gt[i] ELSE u[i - Len(gt)]
  <2>1. gt \in Seq(Char \cup {None}) /\ ty \in Seq(Char \cup {None}) /\ Len(gt) \in Nat
    BY <1>1
  <2> QED
    BY <1>2, <1>4, <2>1, ConcatProperties
<1>6. ASSUME Ordered(ty, gt, ring[c], head[c], tail[c])
      PROVE  ty = gt \o u
  <2>1. /\ Len(ty) = Len(gt) + n
        /\ \A i \in 1..Len(gt) : ty[i] = gt[i]
        /\ \A i \in 1..n : ty[Len(gt) + i] = u[i]
    BY <1>6, <1>4 DEF Ordered, n
  <2>2. ASSUME NEW i \in 1..(Len(gt) + n)
        PROVE  ty[i] = (gt \o u)[i]
    <3>1. CASE i <= Len(gt)
      BY <1>2, <1>5, <2>1, <3>1
    <3>2. CASE ~(i <= Len(gt))
      <4>1. i - Len(gt) \in 1..n /\ Len(gt) + (i - Len(gt)) = i
        BY <1>2, <1>5, <3>2
      <4>2. ty[i] = u[i - Len(gt)]
        BY <2>1, <4>1
      <4> QED
        BY <1>5, <3>2, <4>2
    <3> QED
      BY <3>1, <3>2
  <2> QED
    BY <1>5, <2>1, <2>2, SeqEqual, ZenonT(60)
<1>7. ASSUME ty = gt \o u
      PROVE  Ordered(ty, gt, ring[c], head[c], tail[c])
  <2>1. \A i \in 1..Len(gt) : ty[i] = gt[i]
    BY <1>2, <1>5, <1>7
  <2>2. ASSUME NEW i \in 1..n
        PROVE  ty[Len(gt) + i] = ring[c][Slot(head[c], i)]
    <3>1. Len(gt) + i \in 1..(Len(gt) + n) /\ ~(Len(gt) + i <= Len(gt))
          /\ (Len(gt) + i) - Len(gt) = i
      BY <1>2, <1>5
    <3> QED
      BY <1>4, <1>5, <1>7, <3>1
  <2> QED
    BY <1>5, <1>7, <2>1, <2>2 DEF Ordered, n
<1> QED
  BY <1>6, <1>7 DEF u

\* The state of the terminals, and the state of the consoles.
ReaderTypes ==
    /\ ring \in [VC -> [Index -> Char \cup {None}]]
    /\ head \in [VC -> Index] /\ tail \in [VC -> Index]
    /\ waiters \in [VC -> {<<>>, <<NoThread>>} \cup {<<c>> : c \in VC}]
    /\ asleep \in [VC -> BOOLEAN]
    /\ pc \in [VC -> Locations] /\ elem \in [VC -> Char \cup {None}]
    /\ typed \in [VC -> Seq(Char)] /\ got \in [VC -> Seq(Char)]
    /\ fault \in BOOLEAN
ScreenTypes ==
    /\ altPressed \in BOOLEAN /\ currentVc \in VC /\ shift \in [VC -> BOOLEAN]
    /\ buffer \in [VC -> VC \cup {Video}]
    /\ memory \in [VC \cup {Video} -> VC \X Nat]
    /\ stores \in [VC -> VC \cup {Video, NoThread}]
    /\ written \in [VC -> Nat]

LEMMA TypesSplit == TypeOK <=> ReaderTypes /\ ScreenTypes
  BY DEF TypeOK, ReaderTypes, ScreenTypes, Index

\* What is known of one terminal.
TerminalInv(c) ==
    /\ Ordered(typed[c], got[c], ring[c], head[c], tail[c])
    /\ pc[c] \in {"get", "advance"} => head[c] # tail[c]
    /\ pc[c] = "advance" => elem[c] = ring[c][head[c]]
QueueInv == ReaderTypes /\ \A c \in VC : TerminalInv(c)

LEMMA UnreadLength ==
    ASSUME ReaderTypes, NEW c \in VC
    PROVE  Len(Unread(c)) = Gap(head[c], tail[c])
<1>1. Gap(head[c], tail[c]) \in Index
  BY GapFacts DEF ReaderTypes
<1>2. Gap(head[c], tail[c]) \in Nat
  BY <1>1, ConsoleAssumption DEF Index
<1>3. Unread(c) = [i \in 1..Gap(head[c], tail[c]) |-> ring[c][(head[c] + i - 1) % Size]]
  BY DEF Unread, Gap
<1> QED
  BY <1>2, <1>3

\* Where the next character is.
LEMMA Reassociated ==
    ASSUME NEW k \in Nat, NEW i \in Nat
    PROVE  (k + i) + 1 = k + (i + 1) /\ (k + 1) + i = k + (i + 1)
  OBVIOUS

LEMMA AppendKeeps ==
    ASSUME TypeAhead < Size, QueueInv, NEW c \in VC, NEW ch \in Char, AppendToReadBuffer(c, ch)
    PROVE  QueueInv'
<1> DEFINE h == head[c]
           t == tail[c]
           n == Gap(h, t)
<1>1. /\ ring' = [ring EXCEPT ![c] = [ring[c] EXCEPT ![t] = ch]]
      /\ tail' = [tail EXCEPT ![c] = Advance(t)]
      /\ typed' = [typed EXCEPT ![c] = Append(typed[c], ch)]
      /\ waiters' = [waiters EXCEPT ![c] = <<>>]
      /\ head' = head /\ pc' = pc /\ elem' = elem /\ got' = got
  BY DEF AppendToReadBuffer
<1>2. /\ h \in Index /\ t \in Index /\ ring[c] \in [Index -> Char \cup {None}]
      /\ typed[c] \in Seq(Char) /\ got[c] \in Seq(Char)
      /\ h \in Index /\ Advance(t) \in Index /\ n \in Nat /\ n < Size - 1
  <2>1. /\ h \in Index /\ t \in Index /\ ring[c] \in [Index -> Char \cup {None}]
        /\ typed[c] \in Seq(Char) /\ got[c] \in Seq(Char) /\ ReaderTypes
    BY DEF QueueInv, ReaderTypes
  <2>2. Advance(t) \in Index /\ n \in Index
    BY <2>1, GapFacts
  <2>3. n < TypeAhead
    BY <2>1, UnreadLength DEF AppendToReadBuffer
  <2>4. Size \in Nat /\ TypeAhead \in Nat
    BY ConsoleAssumption
  <2> HIDE DEF n
  <2>5. n \in Nat /\ n < Size - 1
    BY <2>2, <2>3, <2>4 DEF Index
  <2> QED
    BY <2>1, <2>2, <2>5
<1>3. ReaderTypes'
  <2>1. asleep' \in [VC -> BOOLEAN] /\ fault' \in BOOLEAN
    BY DEF QueueInv, ReaderTypes, AppendToReadBuffer
  <2>2. Append(typed[c], ch) \in Seq(Char) /\ [ring[c] EXCEPT ![t] = ch] \in [Index -> Char \cup {None}]
    BY <1>2
  <2> HIDE DEF t, h
  <2>3. typed' \in [VC -> Seq(Char)] /\ ring' \in [VC -> [Index -> Char \cup {None}]]
        /\ tail' \in [VC -> Index]
    BY <1>1, <1>2, <2>2 DEF QueueInv, ReaderTypes
  <2> QED
    BY <1>1, <2>1, <2>3 DEF QueueInv, ReaderTypes
<1>4. ASSUME NEW d \in VC, d # c
      PROVE  TerminalInv(d)'
  <2>1. typed'[d] = typed[d] /\ ring'[d] = ring[d] /\ tail'[d] = tail[d]
    BY <1>1, <1>4 DEF QueueInv, ReaderTypes
  <2> QED
    BY <1>1, <2>1 DEF QueueInv, TerminalInv
<1>5. TerminalInv(c)'
  <2>1. /\ typed'[c] = Append(typed[c], ch) /\ tail'[c] = Advance(t)
        /\ ring'[c] = [ring[c] EXCEPT ![t] = ch]
    BY <1>1 DEF QueueInv, ReaderTypes
  <2>2. /\ Gap(h, Advance(t)) = n + 1 /\ Slot(h, n + 1) = t
        /\ \A i \in 1..n : Slot(h, i) # t /\ Slot(h, i) \in Index
    BY <1>2, TailAdvances
  <2>3. /\ Len(typed[c]) = Len(got[c]) + n /\ Len(got[c]) \in Nat
        /\ \A i \in 1..Len(got[c]) : typed[c][i] = got[c][i]
        /\ \A i \in 1..n : typed[c][Len(got[c]) + i] = ring[c][Slot(h, i)]
    BY <1>2 DEF QueueInv, TerminalInv, Ordered
  <2> HIDE DEF n, h, t
  <2>4. /\ Len(typed'[c]) = Len(got[c]) + (n + 1)
        /\ \A i \in 1..(Len(got[c]) + n) : typed'[c][i] = typed[c][i]
        /\ typed'[c][Len(got[c]) + (n + 1)] = ch
    <3>1. /\ Len(typed'[c]) = Len(typed[c]) + 1
          /\ \A i \in 1..Len(typed[c]) : typed'[c][i] = typed[c][i]
          /\ typed'[c][Len(typed[c]) + 1] = ch
      BY <1>2, <2>1, AppendProperties
    <3>2. Len(typed[c]) + 1 = Len(got[c]) + (n + 1)
      <4>1. Len(typed[c]) = Len(got[c]) + n /\ Len(got[c]) \in Nat /\ n \in Nat
        BY <1>2, <2>3
      <4> QED
        BY <4>1, Reassociated
    <3> QED
      BY <2>3, <3>1, <3>2
  <2>5. /\ ring'[c][t] = ch
        /\ \A i \in 1..n : ring'[c][Slot(h, i)] = ring[c][Slot(h, i)]
    BY <1>2, <2>1, <2>2
  <2>6. \A i \in 1..Len(got[c]) : typed'[c][i] = got[c][i]
    <3>1. \A i \in 1..Len(got[c]) : i \in 1..(Len(got[c]) + n)
      BY <1>2, <2>3
    <3> QED
      BY <2>3, <2>4, <3>1
  <2>7. ASSUME NEW i \in 1..(n + 1)
        PROVE  typed'[c][Len(got[c]) + i] = ring'[c][Slot(h, i)]
    <3>1. CASE i = n + 1
      BY <3>1, <2>2, <2>4, <2>5
    <3>2. CASE i # n + 1
      <4>1. i \in 1..n /\ Len(got[c]) + i \in 1..(Len(got[c]) + n)
        BY <1>2, <2>3, <3>2
      <4> QED
        BY <4>1, <2>3, <2>4, <2>5
    <3> QED
      BY <3>1, <3>2
  <2>8. Ordered(typed'[c], got'[c], ring'[c], head'[c], tail'[c])
    BY <1>1, <2>1, <2>2, <2>4, <2>6, <2>7, ZenonT(60) DEF Ordered, h
  <2>9. h # Advance(t)
    <3>1. Gap(h, Advance(t)) # 0
      BY <1>2, <2>2
    <3> QED
      BY <1>2, <3>1, GapFacts
  <2>10. pc[c] = "advance" => elem[c] = ring'[c][h]
    <3>1. pc[c] = "advance" => h # t /\ elem[c] = ring[c][h]
      BY DEF QueueInv, TerminalInv, h, t
    <3> QED
      BY <3>1, <1>2, <2>1
  <2> QED
    BY <1>1, <2>1, <2>8, <2>9, <2>10 DEF TerminalInv, h
<1> QED
  BY <1>3, <1>4, <1>5 DEF QueueInv

LEMMA AdvanceHeadKeeps ==
    ASSUME QueueInv, NEW c \in VC, AdvanceHead(c)
    PROVE  QueueInv'
<1> DEFINE h == head[c]
           t == tail[c]
           n == Gap(h, t)
           e == elem[c]
<1>1. /\ pc[c] = "advance" /\ pc' = [pc EXCEPT ![c] = "test"]
      /\ head' = [head EXCEPT ![c] = Advance(h)]
      /\ got' = [got EXCEPT ![c] = Append(got[c], e)]
      /\ ring' = ring /\ tail' = tail /\ waiters' = waiters /\ asleep' = asleep
      /\ elem' = elem /\ typed' = typed /\ fault' = fault
  BY DEF AdvanceHead, At, Goto
<1>2. /\ h \in Index /\ t \in Index /\ h # t /\ e = ring[c][h]
      /\ typed[c] \in Seq(Char) /\ got[c] \in Seq(Char) /\ Advance(h) \in Index
  <2>1. /\ h \in Index /\ t \in Index /\ typed[c] \in Seq(Char) /\ got[c] \in Seq(Char)
    BY DEF QueueInv, ReaderTypes
  <2>2. Advance(h) \in Index
    BY <2>1, GapFacts
  <2> QED
    BY <1>1, <2>1, <2>2 DEF QueueInv, TerminalInv
<1>3. /\ Gap(Advance(h), t) = n - 1 /\ Slot(h, 1) = h /\ n \in Nat \ {0}
      /\ \A i \in 1..(n - 1) : Slot(Advance(h), i) = Slot(h, i + 1)
  BY <1>2, HeadAdvances
<1>4. /\ Len(typed[c]) = Len(got[c]) + n /\ Len(got[c]) \in Nat
      /\ \A i \in 1..Len(got[c]) : typed[c][i] = got[c][i]
      /\ \A i \in 1..n : typed[c][Len(got[c]) + i] = ring[c][Slot(h, i)]
  BY <1>2 DEF QueueInv, TerminalInv, Ordered
<1> HIDE DEF n, h, t, e
<1>5. typed[c][Len(got[c]) + 1] = e /\ e \in Char
  <2>1. 1 \in 1..n /\ Len(got[c]) + 1 \in 1..Len(typed[c])
    BY <1>3, <1>4
  <2>2. typed[c][Len(got[c]) + 1] = e
    BY <1>2, <1>3, <1>4, <2>1
  <2>3. typed[c][Len(got[c]) + 1] \in Char
    BY <1>2, <2>1
  <2> QED
    BY <2>2, <2>3
<1>6. /\ got'[c] = Append(got[c], e) /\ got'[c] \in Seq(Char)
      /\ Len(got'[c]) = Len(got[c]) + 1
      /\ \A i \in 1..Len(got[c]) : got'[c][i] = got[c][i]
      /\ got'[c][Len(got[c]) + 1] = e
  <2>1. got'[c] = Append(got[c], e)
    BY <1>1 DEF QueueInv, ReaderTypes
  <2> QED
    BY <1>2, <1>5, <2>1, AppendProperties
<1>7. ReaderTypes'
  <2>1. got' \in [VC -> Seq(Char)] /\ head' \in [VC -> Index] /\ pc' \in [VC -> Locations]
    BY <1>1, <1>2, <1>6 DEF QueueInv, ReaderTypes, Locations
  <2> QED
    BY <1>1, <2>1 DEF QueueInv, ReaderTypes
<1>8. ASSUME NEW d \in VC, d # c
      PROVE  TerminalInv(d)'
  <2>1. got'[d] = got[d] /\ head'[d] = head[d] /\ pc'[d] = pc[d]
    BY <1>1, <1>8 DEF QueueInv, ReaderTypes
  <2> QED
    BY <1>1, <2>1 DEF QueueInv, TerminalInv
<1>9. TerminalInv(c)'
  <2>1. head'[c] = Advance(h) /\ pc'[c] = "test"
    BY <1>1 DEF QueueInv, ReaderTypes
  <2>2. Len(typed[c]) = Len(got'[c]) + Gap(Advance(h), t)
    BY <1>3, <1>4, <1>6
  <2>3. ASSUME NEW i \in 1..Len(got'[c])
        PROVE  typed[c][i] = got'[c][i]
    <3>1. CASE i = Len(got[c]) + 1
      BY <1>5, <1>6, <3>1
    <3>2. CASE i # Len(got[c]) + 1
      <4>1. i \in 1..Len(got[c])
        BY <1>4, <1>6, <3>2
      <4> QED
        BY <1>4, <1>6, <4>1
    <3> QED
      BY <3>1, <3>2
  <2>4. ASSUME NEW i \in 1..Gap(Advance(h), t)
        PROVE  typed[c][Len(got'[c]) + i] = ring[c][Slot(Advance(h), i)]
    <3>1. i \in 1..(n - 1) /\ i + 1 \in 1..n /\ Len(got'[c]) + i = Len(got[c]) + (i + 1)
      <4>1. /\ i \in 1..(n - 1) /\ n \in Nat \ {0}
            /\ Len(got'[c]) = Len(got[c]) + 1 /\ Len(got[c]) \in Nat
        BY <1>3, <1>4, <1>6
      <4>2. i \in Nat /\ i + 1 \in 1..n
        BY <4>1
      <4> QED
        BY <4>1, <4>2, Reassociated
    <3> QED
      BY <1>3, <1>4, <3>1
  <2>5. Ordered(typed[c], got'[c], ring[c], Advance(h), t)
    BY <2>2, <2>3, <2>4 DEF Ordered
  <2> QED
    BY <1>1, <2>1, <2>5 DEF TerminalInv, t
<1> QED
  BY <1>7, <1>8, <1>9 DEF QueueInv

\* The other steps of the reader leave the ring alone.
LEMMA ReaderMoves ==
    ASSUME QueueInv, NEW c \in VC, NEW loc \in Locations, pc' = [pc EXCEPT ![c] = loc],
           ring' = ring, head' = head, tail' = tail, typed' = typed, got' = got, fault' = fault,
           waiters' \in [VC -> {<<>>, <<NoThread>>} \cup {<<d>> : d \in VC}],
           asleep' \in [VC -> BOOLEAN], elem' \in [VC -> Char \cup {None}],
           \A d \in VC \ {c} : elem'[d] = elem[d],
           loc \in {"get", "advance"} => head[c] # tail[c],
           loc = "advance" => elem'[c] = ring[c][head[c]]
    PROVE  QueueInv'
<1>1. ReaderTypes'
  BY DEF QueueInv, ReaderTypes
<1>2. \A d \in VC : pc'[d] = IF d = c THEN loc ELSE pc[d]
  BY DEF QueueInv, ReaderTypes
<1>3. ASSUME NEW d \in VC
      PROVE  TerminalInv(d)'
  <2>1. CASE d = c
    BY <1>2, <2>1 DEF QueueInv, TerminalInv
  <2>2. CASE d # c
    BY <1>2, <2>2 DEF QueueInv, TerminalInv
  <2> QED
    BY <2>1, <2>2
<1> QED
  BY <1>1, <1>3 DEF QueueInv

LEMMA ReaderStepKeeps ==
    ASSUME QueueInv, NEW c \in VC, ReaderStep(c)
    PROVE  QueueInv'
<1>1. /\ waiters \in [VC -> {<<>>, <<NoThread>>} \cup {<<d>> : d \in VC}]
      /\ asleep \in [VC -> BOOLEAN] /\ elem \in [VC -> Char \cup {None}]
      /\ ring[c] \in [Index -> Char \cup {None}] /\ head[c] \in Index
  BY DEF QueueInv, ReaderTypes
<1>2. CASE Test(c)
  <2>1. CASE head[c] = tail[c]
    <3>1. "link" \in Locations /\ pc' = [pc EXCEPT ![c] = "link"]
      BY <1>2, <2>1 DEF Test, Goto, Locations
    <3> QED
      BY <1>1, <1>2, <3>1, ReaderMoves DEF Test
  <2>2. CASE head[c] # tail[c]
    <3>1. "get" \in Locations /\ pc' = [pc EXCEPT ![c] = "get"]
      BY <1>2, <2>2 DEF Test, Goto, Locations
    <3> QED
      BY <1>1, <1>2, <2>2, <3>1, ReaderMoves DEF Test
  <2> QED
    BY <2>1, <2>2
<1>3. CASE Get(c)
  <2>1. /\ "advance" \in Locations /\ pc' = [pc EXCEPT ![c] = "advance"]
        /\ elem' = [elem EXCEPT ![c] = ring[c][head[c]]]
    BY <1>3 DEF Get, Goto, Locations
  <2>2. /\ elem' \in [VC -> Char \cup {None}] /\ elem'[c] = ring[c][head[c]]
        /\ \A d \in VC \ {c} : elem'[d] = elem[d]
    BY <1>1, <2>1
  <2>3. head[c] # tail[c]
    BY <1>3 DEF QueueInv, TerminalInv, Get, At
  <2> QED
    BY <1>1, <1>3, <2>1, <2>2, <2>3, ReaderMoves DEF Get
<1>4. CASE AdvanceHead(c)
  BY <1>4, AdvanceHeadKeeps
<1>5. CASE Link(c)
  <2>1. "fill" \in Locations /\ pc' = [pc EXCEPT ![c] = "fill"]
        /\ waiters' \in [VC -> {<<>>, <<NoThread>>} \cup {<<d>> : d \in VC}]
    BY <1>1, <1>5 DEF Link, Goto, Locations
  <2> QED
    BY <1>1, <1>5, <2>1, ReaderMoves DEF Link
<1>6. CASE Fill(c)
  <2>1. "write" \in Locations /\ pc' = [pc EXCEPT ![c] = "write"]
        /\ waiters' \in [VC -> {<<>>, <<NoThread>>} \cup {<<d>> : d \in VC}]
    BY <1>1, <1>6 DEF Fill, Goto, Locations
  <2> QED
    BY <1>1, <1>6, <2>1, ReaderMoves DEF Fill
<1>7. CASE SetSleeping(c)
  <2>1. "yield" \in Locations /\ pc' = [pc EXCEPT ![c] = "yield"]
        /\ asleep' \in [VC -> BOOLEAN]
    BY <1>1, <1>7 DEF SetSleeping, Goto, Locations
  <2> QED
    BY <1>1, <1>7, <2>1, ReaderMoves DEF SetSleeping
<1>8. CASE Resume(c)
  <2>1. "test" \in Locations /\ pc' = [pc EXCEPT ![c] = "test"]
    BY <1>8 DEF Resume, Goto, Locations
  <2> QED
    BY <1>1, <1>8, <2>1, ReaderMoves DEF Resume
<1> QED
  BY <1>2, <1>3, <1>4, <1>5, <1>6, <1>7, <1>8 DEF ReaderStep

\* Steps that do not concern the terminals.
LEMMA ReaderUnchanged ==
    ASSUME QueueInv, UNCHANGED <<reader, fault>>
    PROVE  QueueInv'
  BY DEF QueueInv, ReaderTypes, TerminalInv, reader

----------------------------------------------------------------------------
(* Console: output. *)

\* The pointers of the consoles and what they point to.
ScreenInv ==
    \A c \in VC :
        /\ buffer[c] = IF c = currentVc THEN Video ELSE c
        /\ memory[buffer[c]] = <<c, written[c]>>
        /\ stores[c] \in {NoThread, buffer[c]}

LEMMA SwitchConsoleKeeps ==
    ASSUME ScreenTypes, NEW key, SwitchConsole(key)
    PROVE  /\ ScreenTypes' /\ UNCHANGED <<reader, fault>>
           /\ ScreenInv /\ (\A c \in VC : stores[c] = NoThread) => ScreenInv'
<1>1. PICK c \in VC : VirtualConsoleChanged(c) /\ currentVc' = c
  BY DEF SwitchConsole, VC
<1>2. /\ altPressed' = altPressed /\ shift' = shift /\ stores' = stores /\ written' = written
      /\ UNCHANGED <<reader, fault>>
  BY DEF SwitchConsole
<1> DEFINE v == currentVc
           backup == IF c = v THEN c ELSE buffer[c]
<1>3. /\ buffer' = [buffer EXCEPT ![v] = v, ![c] = Video]
      /\ memory' = [[memory EXCEPT ![v] = memory[Video]] EXCEPT ![Video] =
                       [memory EXCEPT ![v] = memory[Video]][backup]]
  BY <1>1 DEF VirtualConsoleChanged
<1>4. v \in VC /\ Video \notin VC /\ backup \in VC \cup {Video}
  BY <1>1 DEF ScreenTypes, VC, Video
<1>5. ScreenTypes'
  BY <1>1, <1>2, <1>3, <1>4 DEF ScreenTypes
<1>6. ASSUME ScreenInv, \A d \in VC : stores[d] = NoThread, NEW d \in VC
      PROVE  /\ buffer'[d] = IF d = c THEN Video ELSE d
             /\ memory'[buffer'[d]] = <<d, written[d]>>
  <2>1. \A u \in VC : buffer'[u] = IF u = c THEN Video ELSE IF u = v THEN v ELSE buffer[u]
    BY <1>1, <1>3, <1>4 DEF ScreenTypes
  <2>2. \A u \in VC : /\ buffer[u] = IF u = v THEN Video ELSE u
                      /\ memory[buffer[u]] = <<u, written[u]>>
    BY <1>6 DEF ScreenInv
  <2>3. buffer'[d] = IF d = c THEN Video ELSE d
    BY <2>1, <2>2
  <2>4. memory'[Video] = IF backup = v THEN memory[Video] ELSE memory[backup]
    BY <1>3, <1>4 DEF ScreenTypes
  <2>5. \A u \in VC : memory'[u] = IF u = v THEN memory[Video] ELSE memory[u]
    BY <1>3, <1>4 DEF ScreenTypes
  <2>6. CASE d = c
    <3>1. CASE c = v
      BY <1>4, <2>2, <2>3, <2>4, <2>6, <3>1
    <3>2. CASE c # v
      BY <1>1, <1>4, <2>2, <2>3, <2>4, <2>6, <3>2
    <3> QED
      BY <3>1, <3>2
  <2>7. CASE d # c
    BY <2>2, <2>3, <2>5, <2>7
  <2> QED
    BY <2>3, <2>6, <2>7
<1> QED
  BY <1>1, <1>2, <1>5, <1>6 DEF ScreenInv

\* The key interrupt: either the consoles change places or a terminal may get a character.
LEMMA IrqKeeps ==
    ASSUME ScreenTypes, Irq
    PROVE  /\ ScreenTypes'
           /\ TypeAhead < Size /\ QueueInv => QueueInv'
           /\ "store" \notin Interruptible /\ ScreenInv => ScreenInv'
<1>1. PICK key : SwitchConsole(key) \/ PressModifier(key) \/ PressLetter(key) \/ KeyUp(key)
  BY DEF Irq
<1>2. "store" \notin Interruptible => \A c \in VC : stores[c] = NoThread
  BY DEF Irq
<1>3. CASE SwitchConsole(key)
  BY <1>2, <1>3, SwitchConsoleKeeps, ReaderUnchanged
<1>4. CASE PressModifier(key) \/ KeyUp(key)
  <2>1. /\ currentVc' = currentVc /\ UNCHANGED <<reader, fault>>
        /\ buffer' = buffer /\ memory' = memory /\ stores' = stores /\ written' = written
        /\ altPressed' \in BOOLEAN /\ shift' \in [VC -> BOOLEAN]
    BY <1>4 DEF PressModifier, KeyUp, screen, ScreenTypes
  <2> QED
    BY <2>1, ReaderUnchanged DEF ScreenTypes, ScreenInv
<1>5. CASE PressLetter(key)
  <2>1. /\ key \in Letter /\ AppendToReadBuffer(currentVc, [key |-> key, upper |-> shift[currentVc]])
        /\ altPressed' = altPressed /\ currentVc' = currentVc /\ shift' = shift
        /\ buffer' = buffer /\ memory' = memory /\ stores' = stores /\ written' = written
    BY <1>5 DEF PressLetter, input, screen
  <2>2. currentVc \in VC /\ [key |-> key, upper |-> shift[currentVc]] \in Char
    BY <2>1 DEF ScreenTypes, Char
  <2> QED
    BY <2>1, <2>2, AppendKeeps DEF ScreenTypes, ScreenInv
<1> QED
  BY <1>1, <1>3, <1>4, <1>5

\* VirtualConsole::write.
LEMMA WriterKeeps ==
    ASSUME ScreenTypes, NEW c \in VC, LoadBuffer(c) \/ StoreChar(c)
    PROVE  ScreenTypes' /\ UNCHANGED <<reader, fault>> /\ (ScreenInv => ScreenInv')
<1>1. CASE LoadBuffer(c)
  <2>1. /\ stores' = [stores EXCEPT ![c] = buffer[c]] /\ altPressed' = altPressed
        /\ currentVc' = currentVc /\ shift' = shift /\ buffer' = buffer /\ memory' = memory
        /\ written' = written /\ UNCHANGED <<reader, fault>>
    BY <1>1 DEF LoadBuffer, input
  <2> QED
    BY <2>1 DEF ScreenTypes, ScreenInv
<1>2. CASE StoreChar(c)
  <2>1. /\ stores[c] # NoThread /\ stores' = [stores EXCEPT ![c] = NoThread]
        /\ memory' = [memory EXCEPT ![stores[c]] = <<c, written[c] + 1>>]
        /\ written' = [written EXCEPT ![c] = written[c] + 1]
        /\ altPressed' = altPressed /\ currentVc' = currentVc /\ shift' = shift
        /\ buffer' = buffer /\ UNCHANGED <<reader, fault>>
    BY <1>2 DEF StoreChar, input
  <2>2. stores[c] \in VC \cup {Video} /\ written[c] + 1 \in Nat
    BY <2>1 DEF ScreenTypes
  <2>3. ScreenTypes'
    BY <2>1, <2>2 DEF ScreenTypes
  <2>4. ASSUME ScreenInv
        PROVE  ScreenInv'
    <3>1. stores[c] = buffer[c]
      BY <2>1, <2>4 DEF ScreenInv
    <3>2. Video \notin VC /\ currentVc \in VC
      BY DEF VC, Video, ScreenTypes
    <3>3. ASSUME NEW d \in VC
          PROVE  memory[buffer[d]]' = <<d, written'[d]>>
      <4>1. CASE d = c
        BY <2>1, <2>2, <3>1, <4>1 DEF ScreenTypes
      <4>2. CASE d # c
        <5>1. buffer[d] # buffer[c] /\ buffer[d] \in VC \cup {Video}
          BY <2>4, <3>2, <4>2 DEF ScreenInv, ScreenTypes
        <5>2. memory'[buffer[d]] = memory[buffer[d]] /\ written'[d] = written[d]
          BY <2>1, <3>1, <4>2, <5>1 DEF ScreenTypes
        <5> QED
          BY <2>1, <2>4, <5>2 DEF ScreenInv
      <4> QED
        BY <4>1, <4>2
    <3> QED
      BY <2>1, <2>4, <3>3 DEF ScreenInv, ScreenTypes
  <2> QED
    BY <2>1, <2>3, <2>4
<1> QED
  BY <1>1, <1>2

----------------------------------------------------------------------------
(* Console: theorems. *)

LEMMA ConsoleStarts == Init => ReaderTypes /\ ScreenTypes /\ QueueInv /\ ScreenInv
<1> SUFFICES ASSUME Init PROVE ReaderTypes /\ ScreenTypes /\ QueueInv /\ ScreenInv
  OBVIOUS
<1>1. 0 \in Index /\ Size \in Nat \ {0}
  BY ConsoleAssumption DEF Index
<1>2. ReaderTypes
  <2>1. ring = [c \in VC |-> [i \in Index |-> None]]
    BY DEF Init, Index
  <2>2. ring \in [VC -> [Index -> Char \cup {None}]]
    BY <2>1
  <2>3. head \in [VC -> Index] /\ tail \in [VC -> Index]
    BY <1>1 DEF Init
  <2>4. /\ waiters \in [VC -> {<<>>, <<NoThread>>} \cup {<<c>> : c \in VC}]
        /\ asleep \in [VC -> BOOLEAN] /\ pc \in [VC -> Locations]
    BY DEF Init, Locations
  <2>5. elem \in [VC -> Char \cup {None}] /\ fault \in BOOLEAN
    BY DEF Init
  <2>6. typed \in [VC -> Seq(Char)] /\ got \in [VC -> Seq(Char)]
    BY DEF Init
  <2> QED
    BY <2>2, <2>3, <2>4, <2>5, <2>6 DEF ReaderTypes
<1>3. ScreenTypes /\ ScreenInv
  <2>1. 1 \in VC /\ Video \notin VC
    BY DEF VC, Video
  <2>2. /\ buffer \in [VC -> VC \cup {Video}] /\ stores \in [VC -> VC \cup {Video, NoThread}]
        /\ altPressed \in BOOLEAN /\ currentVc \in VC /\ shift \in [VC -> BOOLEAN]
        /\ written \in [VC -> Nat]
    BY <2>1 DEF Init
  <2>3. memory \in [VC \cup {Video} -> VC \X Nat]
    BY <2>1 DEF Init
  <2>4. ASSUME NEW c \in VC
        PROVE  /\ buffer[c] = IF c = currentVc THEN Video ELSE c
               /\ memory[buffer[c]] = <<c, written[c]>>
               /\ stores[c] = NoThread
    BY <2>1 DEF Init
  <2> QED
    BY <2>2, <2>3, <2>4 DEF ScreenTypes, ScreenInv
<1>4. Gap(0, 0) = 0
  BY <1>1, GapFacts
<1>5. \A c \in VC : TerminalInv(c)
  BY <1>4 DEF Init, TerminalInv, Ordered
<1> QED
  BY <1>2, <1>3, <1>5 DEF QueueInv

\* Every step keeps both parts of the state, each under its own condition.
LEMMA ConsoleSteps ==
    ASSUME ScreenTypes, [Next]_vars
    PROVE  /\ ScreenTypes'
           /\ TypeAhead < Size /\ QueueInv => QueueInv'
           /\ "store" \notin Interruptible /\ ScreenInv => ScreenInv'
<1>1. CASE Irq
  BY <1>1, IrqKeeps
<1>2. ASSUME NEW c \in Readers, ReaderStep(c)
      PROVE  ScreenTypes' /\ (QueueInv => QueueInv') /\ (ScreenInv => ScreenInv')
  <2>1. c \in VC
    BY ConsoleAssumption
  <2>2. UNCHANGED <<input, screen>>
    BY <1>2 DEF ReaderStep, Test, Get, AdvanceHead, Link, Fill, SetSleeping, Resume
  <2> QED
    BY <1>2, <2>1, <2>2, ReaderStepKeeps DEF ScreenTypes, ScreenInv, input, screen
<1>3. ASSUME NEW c \in VC, LoadBuffer(c) \/ StoreChar(c)
      PROVE  ScreenTypes' /\ (QueueInv => QueueInv') /\ (ScreenInv => ScreenInv')
  BY <1>3, WriterKeeps, ReaderUnchanged
<1>4. CASE UNCHANGED vars
  BY <1>4, ReaderUnchanged DEF vars, input, screen, ScreenTypes, ScreenInv
<1> QED
  BY <1>1, <1>2, <1>3, <1>4 DEF Next, Halted

\* Terminal::append_to_read_buffer and Terminal::read, interrupted between any two statements:
\* with a ring of any size and a user who is fewer than Size characters ahead, what was read
\* and what is in the ring are the characters that were typed, once each and in order.
THEOREM InputSound ==
    ASSUME TypeAhead < Size
    PROVE  Spec => []InputIsSound
<1>1. Init => ScreenTypes /\ QueueInv
  BY ConsoleStarts
<1>2. ScreenTypes /\ QueueInv /\ [Next]_vars => ScreenTypes' /\ QueueInv'
  BY ConsoleSteps
<1>3. ScreenTypes /\ QueueInv => InputIsSound
  BY TypesSplit, OrderedIsConcatenation DEF QueueInv, TerminalInv, InputIsSound, InputInOrder
<1> QED
  BY <1>1, <1>2, <1>3, PTL DEF Spec

\* VGAConsoleDevice::virtual_console_changed and VirtualConsole::write: if no key interrupt
\* falls between the load of the buffer pointer and the store, no switch of the consoles
\* loses or misplaces output, for any number of characters and switches.
THEOREM OutputIsKept ==
    ASSUME "store" \notin Interruptible
    PROVE  Spec => []OutputKept
<1>1. Init => ScreenTypes /\ ScreenInv
  BY ConsoleStarts
<1>2. ScreenTypes /\ ScreenInv /\ [Next]_vars => ScreenTypes' /\ ScreenInv'
  BY ConsoleSteps
<1>3. ScreenTypes /\ ScreenInv => OutputKept
  BY DEF ScreenTypes, ScreenInv, OutputKept, VC, Video
<1> QED
  BY <1>1, <1>2, <1>3, PTL DEF Spec
=============================================================================
