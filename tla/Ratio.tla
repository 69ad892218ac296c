-------------------------------- MODULE Ratio --------------------------------
(***************************************************************************)
(* The compile-time fractions of infos/include/infos/util/ratio.h and the    *)
(* durations and time points on top of them (time.h).  calc is one           *)
(* computation.  An expression that fails a static_assert is not compiled,  *)
(* so it is no step.                                                        *)
(***************************************************************************)
EXTENDS Integers

CONSTANTS
    IntMax,         \* the largest intmax_t
    Units,          \* the denominators of the units of durations
    Word            \* 2^64: durations are counted modulo it

VARIABLES
    calc,           \* the last computation: its operands, operator and result
    span            \* a duration and the time points it was measured between

ratioVars == <<calc, span>>

----------------------------------------------------------------------------
\* Division and remainder as in C++, towards zero.
Abs(x) == IF x < 0 THEN -x ELSE x
Sign(x) == IF x = 0 THEN 0 ELSE IF x < 0 THEN -1 ELSE 1
Quot(x, y) == Sign(x) * Sign(y) * (Abs(x) \div Abs(y))
Rem(x, y) == x - y * Quot(x, y)

RECURSIVE static_gcd(_, _)
static_gcd(x, y) == IF y # 0 THEN static_gcd(y, Rem(x, y)) ELSE IF x = 0 THEN 1 ELSE x
static_lcm(x, y) == Quot(x, static_gcd(x, y)) * y

Overflow == IntMax + 1
Sound(x) == Abs(x) <= IntMax

\* The sum, difference and product of two numbers, or Overflow.
ll_add(x, y) == IF ~Sound(x) \/ ~Sound(y) \/ ~Sound(x + y) THEN Overflow ELSE x + y
ll_sub(x, y) == IF ~Sound(x) \/ ~Sound(y) \/ ~Sound(x - y) THEN Overflow ELSE x - y
ll_mul(x, y) ==
    IF x = 0 \/ y = 0 THEN 0
    ELSE IF ~Sound(x) \/ ~Sound(y) \/ Abs(x) > Quot(IntMax, Abs(y)) THEN Overflow
    ELSE x * y

NaR == [num |-> Overflow, den |-> 0]

\* ratio<Num, Den>, in lowest terms with a positive denominator.
ratio(num, den) ==
    IF ~Sound(num) \/ ~Sound(den) \/ den = 0 THEN NaR
    ELSE LET gcd == static_gcd(Abs(num), Abs(den)) IN
         [num |-> Sign(num) * Sign(den) * (Abs(num) \div gcd), den |-> Abs(den) \div gcd]

ratio_multiply(r, s) ==
    LET g1 == static_gcd(r.num, s.den)
        g2 == static_gcd(r.den, s.num)
    IN ratio(ll_mul(Quot(r.num, g1), Quot(s.num, g2)), ll_mul(Quot(s.den, g1), Quot(r.den, g2)))

ratio_divide(r, s) ==
    LET g1 == static_gcd(r.num, s.num)
        g2 == static_gcd(r.den, s.den)
    IN ratio(ll_mul(Quot(r.num, g1), Quot(s.den, g2)), ll_mul(Quot(s.num, g1), Quot(r.den, g2)))

\* Both sums are of the numerators without their common divisor, over the second
\* denominator, and times that divisor over what is left of the first.
ratio_sum(r, s, op(_, _)) ==
    LET g1 == static_gcd(r.num, s.num)
        g2 == static_gcd(r.den, s.den)
        left == ratio(g1, Quot(r.den, g2))
        right == ratio(op(ll_mul(Quot(r.num, g1), Quot(s.den, g2)),
                          ll_mul(Quot(s.num, g1), Quot(r.den, g2))), s.den)
    IN IF right = NaR THEN NaR ELSE ratio_multiply(left, right)
ratio_add(r, s) == ratio_sum(r, s, ll_add)
ratio_subtract(r, s) == ratio_sum(r, s, ll_sub)

ratio_equal(r, s) == r.num = s.num /\ r.den = s.den

\* Fractions of one sign: by their continued fractions.
RECURSIVE ratio_less1(_, _, _)
ratio_less1(r, s, odd) ==
    LET q1 == Quot(r.num, r.den)
        q2 == Quot(s.num, s.den)
        m1 == Rem(r.num, r.den)
        m2 == Rem(s.num, s.den)
    IN IF q1 # q2 THEN IF odd THEN q2 < q1 ELSE q1 < q2
       ELSE IF m1 = 0 THEN m2 # 0 /\ ~odd
       ELSE IF m2 = 0 THEN odd
       ELSE ratio_less1(ratio(r.den, m1), ratio(s.den, m2), ~odd)

Negative(r) == ratio(-r.num, r.den)
ratio_less(r, s) ==
    IF Sign(r.num) # Sign(s.num) \/ Sign(r.num) = 0 THEN Sign(r.num) < Sign(s.num)
    ELSE IF Sign(r.num) = 1 THEN ratio_less1(r, s, FALSE)
    ELSE ratio_less1(Negative(s), Negative(r), FALSE)
ratio_less_equal(r, s) == ~ratio_less(s, r)
ratio_greater(r, s) == ratio_less(s, r)
ratio_greater_equal(r, s) == ~ratio_less(r, s)
ratio_gcd(r, s) == ratio(static_gcd(r.num, s.num), static_lcm(r.den, s.den))

----------------------------------------------------------------------------
\* Duration::operator- takes its left operand from its right one, and the difference of
\* two time points calls it with its operands exchanged.
DurationMinus(l, r) == (r - l) % Word
TimepointMinus(lhs, rhs) == DurationMinus(rhs, lhs)

\* DurationCast of a number of 1/from seconds.
DurationCast(v, from, to) ==
    LET t == ratio_divide(ratio(1, from), ratio(1, to)) IN ((v * t.num) % Word) \div t.den

----------------------------------------------------------------------------
Compute(op) ==
    /\ calc.op = "none" /\ (op = "divide" => calc.b.num # 0)
    /\ \E c \in {CASE op = "add" -> ratio_add(calc.a, calc.b)
                   [] op = "subtract" -> ratio_subtract(calc.a, calc.b)
                   [] op = "multiply" -> ratio_multiply(calc.a, calc.b)
                   [] OTHER -> ratio_divide(calc.a, calc.b)} :
          c # NaR /\ calc' = [calc EXCEPT !.op = op, !.c = c]
    /\ UNCHANGED span

\* A time span is measured, and converted.
Measure(t0, t1) ==
    /\ span' = [from |-> t0, to |-> t1, unit |-> 1, value |-> TimepointMinus(t1, t0), exact |-> TRUE]
    /\ UNCHANGED calc
Convert(u) ==
    /\ span' = [span EXCEPT !.unit = u, !.value = DurationCast(@, span.unit, u),
                            !.exact = @ /\ u % span.unit = 0 /\ span.value * (u \div span.unit) < Word]
    /\ UNCHANGED calc

Ratios == {ratio(n, d) : n \in -IntMax..IntMax, d \in {-1} \cup 1..IntMax}

RatioInit ==
    /\ calc \in [a : Ratios, b : Ratios, op : {"none"}, c : {ratio(0, 1)}]
    /\ span = [from |-> 0, to |-> 0, unit |-> 1, value |-> 0, exact |-> TRUE]

RatioNext == \E op \in {"add", "subtract", "multiply", "divide"} : Compute(op)
TimeNext ==
    \/ \E t0, t1 \in 0..(Word - 1) : t0 <= t1 /\ Measure(t0, t1)
    \/ \E u \in Units : Convert(u)

----------------------------------------------------------------------------
\* What is compiled is right: sums, products and quotients of fractions are those of the
\* rational numbers in lowest terms, they are ordered as the rational numbers are, and a
\* span of time keeps its length when it is measured and when it is converted to a finer
\* unit in which it can be counted.
RatioIsExact ==
    LET a == calc.a
        b == calc.b
        c == calc.c
        exact == CASE calc.op = "add" -> <<a.num * b.den + b.num * a.den, a.den * b.den>>
                   [] calc.op = "subtract" -> <<a.num * b.den - b.num * a.den, a.den * b.den>>
                   [] calc.op = "multiply" -> <<a.num * b.num, a.den * b.den>>
                   [] OTHER -> <<a.num * b.den, a.den * b.num>>
    IN /\ calc.op # "none" =>
          /\ c.num * exact[2] = exact[1] * c.den
          /\ c.den > 0 /\ Abs(static_gcd(c.num, c.den)) = 1
          /\ ratio_less(a, b) <=> a.num * b.den < b.num * a.den
          /\ ratio_less_equal(a, b) <=> ratio_less(a, b) \/ ratio_equal(a, b)
          /\ ratio_greater(a, b) <=> ratio_less(b, a)
          /\ LET g == ratio_gcd(a, b) IN
             \A r \in {a, b} : g # NaR => Rem(r.num * g.den, r.den * g.num) = 0
       /\ span.exact => span.value = (span.to - span.from) * span.unit
=============================================================================
