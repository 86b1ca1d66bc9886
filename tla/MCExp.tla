------------------------------- MODULE MCExp -------------------------------
(***************************************************************************)
(* Sessions of exp.py on small files: "runs" has a test whose rows differ  *)
(* in how a number is written (10 and 10.0) and in what they lack; "more"  *)
(* has the same columns, "other" others, and "tenths" numbers with points. *)
(* One text has a parenthesis, which a plot's legend escapes.              *)
(***************************************************************************)
EXTENDS Exp

cubic == Text("cubic")
reno  == Text("reno (2)")
header == <<"exp", "test", "ca", "bw", "rate">>
Ten   == Dec(Number(10))
Half  == Dec(Ratio(21, 2))

MCFiles == [
  runs   |-> [header |-> header,
              rows |-> << <<Whole(1), Text("rr"), cubic, Whole(10), Whole(6)>>,
                          <<Whole(2), Text("rr"), cubic, Ten, Whole(9)>>,
                          <<Whole(3), Text("rr"), reno, Half, Empty>> >>],
  more   |-> [header |-> header,
              rows |-> << <<Whole(1), Text("rr"), reno, Whole(10), Whole(2)>> >>],
  other  |-> [header |-> <<"exp", "bw", "ca", "rate", "Ver">>,
              rows |-> << <<Whole(1), Whole(10), reno, Whole(4), Whole(3)>> >>],
  tenths |-> [header |-> header,
              rows |-> << <<Dec(Number(1)), Text("rr"), reno, Whole(10), Blank>>,
                          <<Dec(Ratio(11, 10)), Text("rr"), cubic, Whole(12), Whole(8)>> >>]]

MCHasText == [b |-> {cubic}, rr |-> {Text("rr")}]
MCBegins  == [re |-> {reno}]

Cond(c, op, v) == [col |-> c, op |-> op, val |-> v, to |-> v]

MCSelections == {
  << <<Cond("ca", "==", reno)>>, <<Cond("bw", "==", Ten)>> >>,
  << <<Cond("bw", "!=", Ten), Cond("none", "==", reno)>> >>,
  << <<Cond("rate", ">", Whole(6))>> >>,
  << <<[col |-> "bw", op |-> "<>", val |-> Whole(5), to |-> Half]>> >>,
  << <<Cond("ca", "[has]", "b")>> >>,
  << <<Cond("ca", "[has]^", "re")>> >>,
  << <<Cond("ca", "[hasnot]^", "re")>> >> }

MCRowLists == { <<Whole(3), Whole(1), Whole(101)>>, <<Text("all"), Whole(2)>>,
                <<Whole(1), <<"range", TRUE>> >> }
MCColLists == { <<"ALL">>, <<"exp", "rate">> }
MCAverages == { << <<"ca", <<"plain">> >> >>,
                << <<"bw", <<"int">> >>, <<"none", <<"plain">> >> >>,
                << <<"ca", <<"has", "b">> >>, <<"bw", <<"has", "b">> >> >> }
New(n, e) == [name |-> n, expr |-> e]
MCNewCols == { New("load", <<Var("rate"), Op("/"), Var("bw"), Op("-"), Lit(Number(1))>>),
               New("ca", <<Var("rate")>>), New("x", <<Var("none")>>),
               New("x", <<Var("bw"), Odd>>) }
APlot == [x |-> "bw", y1 |-> "rate", y2 |-> "exp", y3 |-> "", series |-> "",
          list |-> <<>>, uniform |-> FALSE, y1div |-> 0, y2div |-> 0]
MCPlots == { [APlot EXCEPT !.y1 = "exp", !.y2 = "rate", !.y1div = 2, !.y2div = 2],
             [APlot EXCEPT !.x = "ca", !.y1div = 3, !.y2div = 2],
             [APlot EXCEPT !.y1 = "exp", !.y2 = "bw", !.y3 = "rate"],
             [APlot EXCEPT !.series = "ca", !.uniform = TRUE],
             [APlot EXCEPT !.series = "ca", !.list = <<Text("cubic"), reno>>,
                           !.uniform = TRUE],
             [APlot EXCEPT !.x = "", !.series = "bw"],
             [APlot EXCEPT !.y2 = ""] }
MCWithParens == {reno}
=============================================================================
