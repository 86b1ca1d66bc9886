-------------------------------- MODULE Axis --------------------------------
(***************************************************************************)
(* The axes of psPlot.py: GetInc() chooses the distance of the labels from *)
(* the smallest and largest value, GetAxis() the labels of an axis that is *)
(* neither logarithmic nor uniform.  The values are rationals as of Cells, *)
(* and not negative; printing of the labels is left out.                   *)
(***************************************************************************)
EXTENDS Cells, SequencesExt

(* Powers of ten, as many as values here have.                             *)
Tens == {1, 10, 100, 1000, 10000}
Least(S) == CHOOSE n \in S : \A m \in S : n <= m

(* vMax is brought above 1.                                                *)
Scale(vMax) ==
  IF vMax = Number(0) THEN 1
  ELSE Least({t \in Tens : Less(Number(1), Times(vMax, Number(t)))})

(* Cut to an integer, and cut after 0.99 is added.                         *)
Whole0(x) == x[1] \div x[2]
Whole99(x) == Whole0(Plus(x, Ratio(99, 100)))

(* The power of ten that brings a difference below 100.                    *)
Unit(w) == Least({t \in Tens : w \div t < 100})

(* Mutant of Step: the distance of two is forgotten.                       *)
StepWithoutTwo(v0, v1) == IF v1 - v0 <= 20 THEN 1 ELSE 10

(* The distance if there are to be v1 - v0 units of it between the ends.   *)
Step(v0, v1) ==
  LET down == v0 - (v0 % 10)
      up   == (v1 + 10) - (v1 % 10)
  IN  IF v1 - v0 <= 10 THEN 1
      ELSE IF v1 - v0 <= 20 THEN 2
      ELSE IF v1 % 10 # 0 /\ up - down <= 50 THEN 5 ELSE 10

(* v0 of GetInc() after the multiples of ten, which Step() has seen before *)
(* them.                                                                   *)
Lower(v0, v1) == IF v1 - v0 <= 20 THEN v0 ELSE v0 - (v0 % 10)

(* The labels of v0 .. v1, where n stands for the value n * f / ff.        *)
Spread(ff, f, v0, v1) ==
  LET inc == Step(v0, v1)
      low == Lower(v0, v1)
      Back(n) == Ratio(n * f, ff)
  IN  [first |-> Back((low - (low % inc)) + inc), inc |-> Back(inc)]

(* The integers a .. b are brought below 100 units of f; the end is one    *)
(* unit further if it is a value itself and the start is none.             *)
InUnits(ff, f, lo, hi, a, b) ==
  Spread(ff, f, a \div f,
         IF ~(\E n \in 0 .. a : lo = Number(n * f)) /\ hi = Number(b \div f)
         THEN b \div f + 1 ELSE b \div f)

(* The values are cut to integers.                                         *)
GetInc(vMin, vMax) ==
  LET ff == Scale(vMax)
      lo == Times(vMin, Number(ff))
      hi == Times(vMax, Number(ff))
      a  == Whole0(lo)
      b0 == Whole99(hi)
      b  == IF b0 = a THEN a + 1 ELSE b0
  IN  InUnits(ff, Unit(b - a), lo, hi, a, b)

AxisOf(g, vEnd) ==
  LET Label(n) == Plus(g.first, Times(Number(n), g.inc))
  IN  [origin |-> Minus(g.first, g.inc),
       inc    |-> g.inc,
       labels |-> 1 + Least({n \in 0 .. 200 : Less(vEnd, Label(n))})]

(* The labels go on until one is above vEnd; the axis begins one distance  *)
(* before the first.                                                       *)
GetAxis(vBeg, vEnd) == AxisOf(GetInc(vBeg, vEnd), vEnd)

(* GetAxis() draws no logarithms if it is not told to.                     *)
Linear(vMin, vMax) ==
  vMin = Number(0) \/ ~Less(Times(Number(100), vMin), vMax)

(* All values are on the axis, and it has between one and eleven labels    *)
(* whatever the values are.                                                *)
AxisFits(vMin, vMax) ==
  LET axis == GetAxis(vMin, vMax) IN
  Linear(vMin, vMax) =>
    /\ ~Less(vMin, axis.origin)
    /\ axis.labels <= 11
=============================================================================
