----------------------------- MODULE Arithmetic -----------------------------
(***************************************************************************)
(* The arithmetic of SET_EXP (mathIntegerExpression0() of netesto.py) and  *)
(* of NewCol (mathRowExpression0() of exp.py).  Both read their text from  *)
(* left to right, call themselves at a parenthesis, and keep the terms of  *)
(* the sum in a stack; an operator is carried out when the next one, or    *)
(* the end, is seen.  `frames' are the calls, the innermost last.          *)
(***************************************************************************)
EXTENDS Cells, SequencesExt

Op(s)    == <<"op", s>>
Digit(d) == <<"digit", d>>
Lit(x)   == <<"lit", x>>       (* a number, in an expression of NewCol     *)
Var(v)   == <<"var", v>>
Odd      == <<"odd", "%">>     (* a character of no token                  *)

Frame(num)  == [stack |-> <<>>, num |-> num, prevOp |-> Op("+")]
Top(s)      == s.frames[Len(s.frames)]
SetTop(s, f) == [s EXCEPT !.frames = Append(Front(@), f)]
Return(s, v) == [s EXCEPT !.frames =
                   Append(Front(Front(@)), [@[Len(@) - 1] EXCEPT !.num = v])]
Stop(s, v)  == [s EXCEPT !.out = v]

Going(s)    == s.out = <<>>
Begin(num)  == [frames |-> <<Frame(num)>>, out |-> <<>>]

-----------------------------------------------------------------------------
(* mathIntegerExpression(): a value, or <<"exit">> where error() ends the  *)
(* program.                                                                *)

Exit == <<"exit">>

IntSum(stack) == FoldLeft(LAMBDA x, y : x + y, 0, stack)

(* Carry out the operator before the number that was read.                 *)
IntApplied(s, f, c) ==
  LET top   == Last(f.stack)
      stack == CASE f.prevOp = Op("+") -> Append(f.stack, f.num)
                 [] f.prevOp = Op("-") -> Append(f.stack, -f.num)
                 [] f.prevOp = Op("*") -> Append(Front(f.stack), top * f.num)
                 [] f.prevOp = Op("/") -> Append(Front(f.stack), top \div f.num)
  IN  IF f.prevOp = Op("/") /\ f.num = 0
      THEN Stop(s, Exit)
      ELSE SetTop(s, [stack |-> stack, num |-> 0, prevOp |-> c])

(* Mutant of IntReturned: the caller's operator is not carried out.        *)
IntReturnedBare(s) == Return(s, IntSum(Top(s).stack))

(* A call returns at the end of the text: its caller sees that the text is *)
(* at its last character, and carries out its operator too.                *)
IntReturned(s) ==
  LET r == Return(s, IntSum(Top(s).stack)) IN IntApplied(r, Top(r), Op("("))

IntChar(ts, s, i) ==
  LET c == ts[i]
      f == Top(s)
      g == IF c[1] = "digit" THEN [f EXCEPT !.num = @ * 10 + c[2]] ELSE f
      a == IntApplied(s, g, c)
  IN  CASE ~Going(s) -> s
        [] c[1] = "digit" -> IF i = Len(ts) THEN a ELSE SetTop(s, g)
        [] c = Op("(") -> [s EXCEPT !.frames = Append(@, Frame(0))]
        [] c = Op(")") ->
             IF ~Going(a) THEN a
             ELSE IF Len(s.frames) = 1
                  THEN Stop(a, Number(IntSum(Top(a).stack)))
             ELSE IF i = Len(ts) THEN IntReturned(a)
             ELSE Return(a, IntSum(Top(a).stack))
        [] c \in {Op("+"), Op("-"), Op("*"), Op("/")} -> a
        [] OTHER -> Stop(s, Exit)

IntShut(s) == FoldLeft(LAMBDA u, i : IF Going(u) THEN IntReturned(u) ELSE u,
                       s, [i \in 1 .. Len(s.frames) - 1 |-> i])

IntResult(s) == IF Going(s) THEN Number(IntSum(Top(s).stack)) ELSE s.out

mathIntegerExpression(ts) ==
  IntResult(IntShut(FoldLeft(LAMBDA s, i : IntChar(ts, s, i), Begin(0),
                             [i \in DOMAIN ts |-> i])))

-----------------------------------------------------------------------------
(* getVarsFromExpr() does not get past a character of no token.            *)
Hangs(ts) == Odd \in ToSet(ts)

VarsOf(ts) == {t[2] : t \in {u \in ToSet(ts) : u[1] = "var"}}

(* mathRowExpression(): the cell, or <<"raise">> for an exception.         *)

Raise == <<"raise">>
None  == <<"none">>

(* A text made by & is no number for the sum, even if float() takes it.    *)
Cat(like)    == <<"cat", like>>
IsCat(e)     == e[1] = "cat"
FloatLike(e) == isFloat(e) \/ e = Cat(TRUE)

(* Mutant of RowSum: off by one, the first term is left out.               *)
RowSumShort(stack) ==
  Obj(FoldLeft(LAMBDA x, c : Plus(x, Val(c)), Number(0),
               SelectSeq(SubSeq(stack, 2, Len(stack)), isFloat)))

RowSum(stack) ==
  LET cats == {i \in DOMAIN stack : IsCat(stack[i])}
      i    == CHOOSE j \in cats : \A k \in cats : k <= j
  IN  IF cats = {}
      THEN Obj(FoldLeft(LAMBDA x, c : Plus(x, Val(c)), Number(0), stack))
      ELSE IF FloatLike(stack[i]) \/ i = 1 THEN Raise ELSE Star

RowApplied(s, f, c) ==
  LET top     == Last(f.stack)
      With(e) == SetTop(s, [stack |-> e, num |-> None, prevOp |-> c])
  IN  CASE f.prevOp = Op("&") ->
             With(Append(Front(f.stack), Cat(FloatLike(top) /\ f.num \in {Blank, Empty})))
        [] f.prevOp # Op("&") /\ ~isFloat(f.num) -> Stop(s, Star)
        [] f.prevOp = Op("+") /\ isFloat(f.num) ->
             With(Append(f.stack, Obj(Val(f.num))))
        [] f.prevOp = Op("-") /\ isFloat(f.num) ->
             With(Append(f.stack, Obj(Negated(Val(f.num)))))
        [] f.prevOp = Op("*") /\ isFloat(f.num) -> Stop(s, Raise)
        [] f.prevOp = Op("/") /\ isFloat(f.num) ->
             CASE ~FloatLike(top) -> Stop(s, Star)
               [] FloatLike(top) /\ Val(f.num) = Number(0) -> Stop(s, Whole(0))
               [] IsCat(top) /\ FloatLike(top) /\ Val(f.num) # Number(0) ->
                    Stop(s, Raise)
               [] isFloat(top) /\ Val(f.num) # Number(0) ->
                    With(Append(Front(f.stack), Obj(Over(Val(top), Val(f.num)))))

(* The value of the innermost call goes to `num' of its caller.            *)
RowReturned(s) ==
  LET v == RowSum(Top(s).stack) IN
  IF isFloat(v) THEN Return(s, v) ELSE Stop(s, v)

RowToken(row, ts, s, i) ==
  LET c == ts[i]
      f == Top(s)
      g == CASE c[1] = "lit" -> [f EXCEPT !.num = Obj(c[2])]
             [] c[1] = "var" -> [f EXCEPT !.num = row[c[2]]]
             [] OTHER -> f
      a == RowApplied(s, g, c)
  IN  CASE ~Going(s) -> s
        [] c[1] # "op" -> IF i = Len(ts) THEN a ELSE SetTop(s, g)
        [] c = Op("(") -> [s EXCEPT !.frames = Append(@, Frame(Obj(Number(0))))]
        [] c = Op(")") ->
             IF ~Going(a) THEN a
             ELSE IF Len(s.frames) = 1 THEN Stop(a, RowSum(Top(a).stack))
             ELSE RowReturned(a)
        [] OTHER -> a

(* A call that ends with the text gives its value to a caller that does    *)
(* not carry out its operator any more.                                    *)
RowShut(s) == FoldLeft(LAMBDA u, i : IF Going(u) THEN RowReturned(u) ELSE u,
                       s, [i \in 1 .. Len(s.frames) - 1 |-> i])

RowResult(s) == IF Going(s) THEN RowSum(Top(s).stack) ELSE s.out

(* The sum is written as a text, with a point.                             *)
Written(v) == IF v[1] = "obj" THEN Dec(Val(v)) ELSE v

mathRowExpression(row, ts) ==
  Written(RowResult(RowShut(
    FoldLeft(LAMBDA s, i : RowToken(row, ts, s, i), Begin(Obj(Number(0))),
             [i \in DOMAIN ts |-> i]))))

-----------------------------------------------------------------------------
(* The reference: what an expression means by the usual precedence, as the *)
(* set of its value, which is empty if it is not well formed or divides by *)
(* zero.  Atom(t) is the value of what is between operators.               *)

Meaning(ts, Atom(_), Quotient(_, _)) ==
  LET Opens(l, i) == Cardinality({k \in l .. i : ts[k] = Op("(")})
                   - Cardinality({k \in l .. i : ts[k] = Op(")")})
      Splits(l, r, ops) ==
        {i \in l + 1 .. r : /\ ts[i] \in ops
                            /\ ts[i - 1] \notin {Op(o) : o \in {"+", "-", "*", "/", "("}}
                            /\ Opens(l, i) = 0}
      Later(S) == CHOOSE i \in S : \A j \in S : j <= i
      m[l \in Nat, r \in Nat] ==
        LET sums  == Splits(l, r, {Op("+"), Op("-")})
            prods == Splits(l, r, {Op("*"), Op("/")})
            i     == IF sums # {} THEN Later(sums) ELSE Later(prods)
            pairs == m[l, i - 1] \X (IF ts[i + 1] = Op("-") THEN {} ELSE m[i + 1, r])
        IN  CASE l > r -> {}
              [] l <= r /\ sums \cup prods # {} /\ i = r -> {}
              [] l <= r /\ sums \cup prods # {} /\ i < r ->
                   (CASE ts[i] = Op("+") -> {Plus(p[1], p[2]) : p \in pairs}
                      [] ts[i] = Op("-") -> {Minus(p[1], p[2]) : p \in pairs}
                      [] ts[i] = Op("*") -> {Times(p[1], p[2]) : p \in pairs}
                      [] ts[i] = Op("/") -> {Quotient(p[1], p[2]) :
                                  p \in {q \in pairs : q[2] # Number(0)}})
              [] l < r /\ sums \cup prods = {} /\ ts[l] = Op("-") ->
                   IF ts[l + 1] = Op("-") THEN {} ELSE {Negated(x) : x \in m[l + 1, r]}
              [] l < r /\ sums \cup prods = {} /\ ts[l] = Op("(")
                       /\ ts[r] = Op(")") -> m[l + 1, r - 1]
              [] OTHER -> Atom(SubSeq(ts, l, r))
  IN  m[1, Len(ts)]

Numeral(t) ==
  IF \A i \in DOMAIN t : t[i][1] = "digit"
  THEN {Number(FoldLeft(LAMBDA n, d : 10 * n + d[2], 0, t))}
  ELSE {}

IntMeaning(ts) == Meaning(ts, Numeral, LAMBDA x, y : Floor(Over(x, y)))

Operand(row, t) ==
  IF Len(t) # 1 THEN {}
  ELSE CASE t[1][1] = "lit" -> {t[1][2]}
         [] t[1][1] = "var" -> {Val(c) : c \in {d \in {row[t[1][2]]} : isFloat(d)}}
         [] OTHER -> {}

RowMeaning(row, ts) == Meaning(ts, LAMBDA t : Operand(row, t), Over)
=============================================================================
