----------------------------- MODULE MCReaders -----------------------------
(***************************************************************************)
(* What the parts of netesto and benchpress that only read something make  *)
(* of it: the input of one of the readers grows by a token at a time, and  *)
(* an invariant for each compares its result with the reference.           *)
(***************************************************************************)
EXTENDS Arithmetic

CONSTANT MaxTokens   (* reader |-> bound on the length of its input        *)

VARIABLES reader, input

vars == <<reader, input>>

V5  == Text("5")
V15 == Text("15")

Rows == INSTANCE RowReduction WITH
  fieldOpDict <- [f \in {"exp", "dur", "ca", "rate", "rateMin", "rateMax", "cwnd",
                "lost", "retransPkts%"} |->
           CASE f \in {"exp", "dur"} -> "one"
             [] f = "ca" -> "all"
             [] f = "rate" -> "sumRateDur"
             [] f = "rateMin" -> "min"
             [] f = "rateMax" -> "max"
             [] f = "lost" -> "sum"
             [] OTHER -> "avg"],
  EndsIn <- [v \in {V5, V15} |-> IF v = V5 THEN {V5} ELSE {V5, V15}]

Graphs == INSTANCE Rates WITH Tick <- 1
Ltp    == INSTANCE LtpParser
Axes   == INSTANCE Axis

(* The rows of exp.csv have cells of all kinds.                            *)
Row == [n |-> Whole(6), m |-> Dec(Ratio(1, 2)), s |-> Text("s"), b |-> Blank]

L(k, v) == <<k, v>>

Tokens == [
  integers |-> {Digit(2), Digit(7), Op("+"), Op("-"), Op("*"), Op("/"), Op("("), Op(")")},
  cells    |-> {Lit(Number(3)), Var("n"), Var("s"), Op("+"), Op("-"), Op("/"),
                Op("&"), Op("("), Op(")")},
  rows     |-> {<<L("exp", <<"group", 1>>), L("dur", Whole(60)), L("rate", Whole(10))>>,
                <<L("dur", Whole(30)), L("rate", Rows!Scaled(1, 5))>>,
                <<L("rate", Whole(10))>>, <<L("rate", Empty)>>, <<L("dur", Whole(20))>>,
                <<L("ca", V5)>>, <<L("ca", V15)>>,
                <<L("cwnd", Whole(4))>>, <<L("cwnd", Empty)>>,
                <<L("rateMax", Rows!Scaled(2, 10)), L("rateMin", Rows!Scaled(2, 10))>>,
                <<L("rateMax", Whole(6)), L("rateMin", Whole(6))>>,
                <<L("lost", Whole(3)), L("retrans_total", Whole(1)),
                  L("client-tx-packets", Whole(9))>>,
                <<L("client-tx-packets", Empty)>>, <<Rows!End>>},
  rates    |-> {<<f, t[1], t[2]>> : f \in 1 .. 3, t \in {<<2, 0>>, <<3, 0>>, <<2, 2>>}},
  ltp      |-> {<<Ltp!Mark(m)>> : m \in {"start", "output", "status", "end"}}
                 \cup {<<Ltp!Mark("start"), Ltp!Mark("output"), Ltp!Status("a", "TPASS")>>,
                       <<Ltp!Mark("status"), Ltp!Mark("end")>>,
                       <<Ltp!Status("a", "TPASS")>>,
                       <<Ltp!Status("b", "TBROK"), Ltp!Status("b", "TINFO")>>},
  axis     |-> {<<"from", 1>>, <<"from", 9>>, <<"to", 1>>, <<"to", 7>>, <<"to", 60>>,
                <<"to", 1100>>} ]

MCMaxTokens == [integers |-> 5, cells |-> 5, rows |-> 4, rates |-> 5, ltp |-> 5, axis |-> 5]

Init == reader \in DOMAIN Tokens /\ input = <<>>

Grow(t) ==
  /\ Len(input) < MaxTokens[reader]
  /\ input' = Append(input, t)
  /\ UNCHANGED reader

Next == \E t \in Tokens[reader] : Grow(t)

Spec == Init /\ [][Next]_vars

-----------------------------------------------------------------------------
(* SET_EXP gives an expression the value it has by the usual precedence,   *)
(* with the quotient rounded down, or ends the program.  A quotient that   *)
(* is subtracted is rounded down after it was negated.                     *)
Inexact == \E i \in DOMAIN input : \E j \in i .. Len(input) :
             input[i] = Op("-") /\ input[j] = Op("/")

IntegersAsMeant ==
  reader = "integers" /\ IntMeaning(input) # {} /\ ~Inexact =>
    mathIntegerExpression(input) \in IntMeaning(input)

(* NewCol gives a cell the value of the expression, in which a name stands *)
(* for the number in its column; text where a number is needed makes the   *)
(* cell '*', and only an expression with '&' may raise an exception.       *)
CellsAsMeant ==
  reader = "cells" /\ input # <<>> =>
    LET cell == mathRowExpression(Row, input)
        value == RowMeaning(Row, input)
    IN  /\ value # {} /\ Last(input) # Op(")") => cell \in {Dec(v) : v \in value}
        /\ cell = Raise => Op("&") \in ToSet(input)

(* The sections of the input are the files.                                *)
Files ==
  LET lines == FlattenSeq(input)
      cuts  == SetToSortSeq({0, Len(lines) + 1}
                 \cup {i \in DOMAIN lines : lines[i] = Rows!End}, <)
  IN  [i \in 1 .. Len(cuts) - 1 |-> SubSeq(lines, cuts[i] + 1, cuts[i + 1] - 1)]

(* The rows of an experiment are what fields.txt says of its files: see    *)
(* RowsAsMeant of RowReduction.                                            *)
RowsAsMeant == reader = "rows" => Rows!RowsAsMeant(Files)

(* The flows, of which each begins one later than the one before it.       *)
Flows ==
  [f \in 1 .. 3 |->
     LET mine == SelectSeq(input, LAMBDA t : t[1] = f)
         End(i) == f - 1 + FoldLeft(LAMBDA s, t : s + t[2] + t[3], 0, SubSeq(mine, 1, i))
     IN  [i \in DOMAIN mine |-> Graphs!Interim(mine[i][2], End(i), i + 10 * f * f)]]

(* The goodput plot's sum is the sum of the flows: see SumsRates of Rates. *)
SumsRates == reader = "rates" => Graphs!SumsRates(Flows)

(* benchpress reports the results of ltp tests that ended: see             *)
(* ReportsEnded of LtpParser.                                              *)
ReportsEnded == reader = "ltp" => Ltp!ReportsEnded(FlattenSeq(input))

(* The values of the input, in quarters and in hundredths.                 *)
Up(kind) == FoldLeft(LAMBDA s, t : IF t[1] \in kind THEN s + t[2] ELSE s, 0, input)

(* An axis has all values and at most eleven labels: see AxisFits of Axis. *)
AxisFits ==
  reader = "axis" => \A d \in {4, 100} :
    Axes!AxisFits(Ratio(Up({"from"}), d), Ratio(Up({"from", "to"}), d))
=============================================================================
