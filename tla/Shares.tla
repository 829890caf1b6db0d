------------------------------- MODULE Shares -------------------------------
(***************************************************************************)
(* Exact fractions, <<numerator, denominator>> in lowest terms, for what   *)
(* the code works out in doubles from levels of 0 to 255.  The levels are  *)
(* 0 .. Top here, with imagemagick's finer quantum in proportion.          *)
(***************************************************************************)
EXTENDS Integers

CONSTANT Top  \* the level that is a whole: 255

Levels == 0 .. Top

Abs(n) == IF n < 0 THEN -n ELSE n
Gcd[a \in Nat, b \in Nat] == IF b = 0 THEN a ELSE Gcd[b, a % b]

Lowered(n, d, g) == <<n \div g, d \div g>>
Frac(n, d) == Lowered(n, d, Gcd[Abs(n), d])

Zero == <<0, 1>>
One == <<1, 1>>
Two == <<2, 1>>
Half == <<1, 2>>

Summed(a, b, g) == Frac(a[1] * (b[2] \div g) + b[1] * (a[2] \div g), a[2] * (b[2] \div g))
a ++ b == Summed(a, b, Gcd[a[2], b[2]])
a -- b == a ++ <<-b[1], b[2]>>
Crossed(p, q) == <<p[1] * q[1], p[2] * q[2]>>
a ** b == Crossed(Frac(a[1], b[2]), Frac(b[1], a[2]))
a // b == a ** (IF b[1] > 0 THEN <<b[2], b[1]>> ELSE <<-b[2], -b[1]>>)
a \prec b == (a -- b)[1] < 0
a \preceq b == (a -- b)[1] <= 0

Lesser(a, b) == IF b \prec a THEN b ELSE a
Greater(a, b) == IF a \prec b THEN b ELSE a
Clamped(a) == Lesser(Greater(a, Zero), One)

(* a share of 0 to 1 through the quantum and down to a level: what is cut  *)
(* off is cut off at the level, after the quantum was rounded.             *)
ByteOf(s) ==
  LET quantum == Top * (Top + 2) IN ((2 * s[1] * quantum + s[2]) \div (2 * s[2])) \div (Top + 2)
QuantumByteOf(share) == ByteOf(Clamped(share))

(* a times b, both levels, rounded.                                        *)
TimesOf(a, b) == (a * b + Top \div 2) \div Top

(* 1 / v, or so much that whatever it multiplies is cut off at a whole.    *)
ReciprocalOf(v) == IF v = Zero THEN <<1000, 1>> ELSE One // v

(* The root, to a sixty-fourth.                                            *)
Root(v) ==
  LET most == CHOOSE k \in 0 .. 64 : k * k * v[2] <= v[1] * 4096 /\ (k + 1) * (k + 1) * v[2] > v[1] * 4096
  IN  Frac(most, 64)
=============================================================================
