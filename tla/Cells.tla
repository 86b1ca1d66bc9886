------------------------------- MODULE Cells -------------------------------
(***************************************************************************)
(* The cells of netesto's tables: a csv file has texts, of which those     *)
(* that float() takes are numbers, and exp.py puts Python numbers among    *)
(* them.  A cell is a tuple, <<"text", s>> for what float() refuses, and   *)
(* <<how, n, d>> for the number n/d in lowest terms, where how tells the   *)
(* text "12" ("int") from "12.0" or "12.5" ("dec") and both from a number  *)
(* that is no text ("obj").  Floating point is taken as exact.             *)
(***************************************************************************)
EXTENDS Integers, Sequences

Gcd[p \in Nat \X Nat] == IF p[2] = 0 THEN p[1] ELSE Gcd[<<p[2], p[1] % p[2]>>]

Magnitude(n) == IF n < 0 THEN -n ELSE n

(* The number n/d, d # 0.                                                  *)
Ratio(n, d) ==
  LET g == Gcd[<<Magnitude(n), Magnitude(d)>>]
      s == IF d < 0 THEN -1 ELSE 1
  IN  <<s * (n \div g), s * (d \div g)>>

Number(n) == <<n, 1>>

Plus(x, y)  == Ratio(x[1] * y[2] + y[1] * x[2], x[2] * y[2])
Negated(x)  == <<-x[1], x[2]>>
Minus(x, y) == Plus(x, Negated(y))
Times(x, y) == Ratio(x[1] * y[1], x[2] * y[2])
Over(x, y)  == Ratio(x[1] * y[2], x[2] * y[1])
Floor(x)    == Number(x[1] \div x[2])
Less(x, y)  == x[1] * y[2] < y[1] * x[2]

(* int() of a float: towards zero.                                         *)
Truncated(x) == IF x[1] < 0 THEN Negated(Floor(Negated(x))) ELSE Floor(x)

Text(s)  == <<"text", s>>
Whole(n)   == <<"int", n, 1>>
Dec(x)   == <<"dec", x[1], x[2]>>
Obj(x)   == <<"obj", x[1], x[2]>>

isFloat(c) == Len(c) = 3
Val(c)     == <<c[2], c[3]>>
IsText(c)  == c[1] # "obj"

(* isEq(): as numbers if both are, else as they are written.               *)
isEq(a, b) == IF isFloat(a) /\ isFloat(b) THEN Val(a) = Val(b) ELSE a = b

(* What doAverage() writes where the rows of a group differ, and           *)
(* mathRowExpression0() where an operand is no number.                     *)
Dots == Text("...")
Star == Text("*")
(* A cell of blanks; the last cell of a line loses them.                   *)
Blank == Text(" ")
Empty == Text("")
=============================================================================
