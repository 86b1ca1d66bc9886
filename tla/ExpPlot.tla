------------------------------ MODULE ExpPlot ------------------------------
(***************************************************************************)
(* doPlot() and doPlotSeries() of exp.py: from the selected rows, as the   *)
(* sequence `rows', to the points that psPlot draws of each series and     *)
(* field.  `dict' is fieldDict; a plot p has the fields x, y1, y2, y3 (the *)
(* second name of plotY2) and series ("" if not given), list (the values   *)
(* of the series field, <<>> if not given), uniform (xUniform=On) and      *)
(* y1div, y2div (0 if not given).                                          *)
(***************************************************************************)
EXTENDS Arithmetic

CONSTANT WithParens   (* the texts that have a parenthesis                 *)

NoPlot   == <<"noplot">>
PlotRaises == <<"raise">>

Cell(dict, r, f)   == r[dict[f]]
Strings(dict, rows, f) == [i \in DOMAIN rows |-> Cell(dict, rows[i], f)]

(* Mutant of Vals: what is no number is left out.                          *)
ValsPacked(dict, rows, f, default) ==
  LET numbers == SelectSeq(rows, LAMBDA r : isFloat(Cell(dict, r, f)))
  IN  [i \in DOMAIN numbers |-> Val(Cell(dict, numbers[i], f))]

(* getSelectedVals() and getSelectedSeriesVals(), which have different     *)
(* values for what is no number.                                           *)
Vals(dict, rows, f, default) ==
  [i \in DOMAIN rows |->
     LET c == Cell(dict, rows[i], f) IN IF isFloat(c) THEN Val(c) ELSE default]

(* The rows that are in S, in their order.                                 *)
Those(rows, S) ==
  FoldLeft(LAMBDA s, r : IF r \in S THEN Append(s, r) ELSE s, <<>>, rows)

removeEmptyFieldRows(dict, rows, f) ==
  Those(rows, {r \in ToSet(rows) : Cell(dict, r, f) \notin {Blank, Empty}})

removeNonFloatFieldRows(dict, rows, f) ==
  Those(rows, {r \in ToSet(rows) : isFloat(Cell(dict, r, f)) \/ Cell(dict, r, f) = Empty})

SeriesRows(dict, rows, f, v) ==
  IF f \in DOMAIN dict THEN Those(rows, {r \in ToSet(rows) : Cell(dict, r, f) = v})
  ELSE <<>>

scaleList(vals, div) ==
  IF div = 0 THEN vals ELSE [i \in DOMAIN vals |-> Over(vals[i], Number(div))]

Distinct(s) == FoldLeft(LAMBDA d, e : IF e \in ToSet(d) THEN d ELSE Append(d, e), <<>>, s)

Discovers(p, dict) == p.list = <<>> /\ p.series \in DOMAIN dict

(* The parentheses of the names that are written are escaped; the names of *)
(* values that were found in the rows are the list of these values itself. *)
Escaped(c) == IF c \in WithParens THEN <<"escaped", c>> ELSE c

(* doPlot(): the values of the series field, from the command or the rows. *)
SeriesList(p, dict, rows) ==
  LET found == Distinct(Strings(dict, rows, p.series))
  IN  IF Discovers(p, dict) THEN [i \in DOMAIN found |-> Escaped(found[i])] ELSE p.list

(* One of texts has an entry for each of them.                             *)
Uniform(p, xStrings) == p.uniform \/ \E c \in ToSet(xStrings) : ~isFloat(c)

(* The rows that are left when those without an x are taken out, then those *)
(* without a number in y1, and so on.                                       *)
WithX(p, dict, rows)  == removeEmptyFieldRows(dict, rows, p.x)
WithY1(p, dict, rows) == removeNonFloatFieldRows(dict, WithX(p, dict, rows), p.y1)
WithY2(p, dict, rows) == removeNonFloatFieldRows(dict, WithY1(p, dict, rows), p.y2)
Usable(p, dict, rows) ==
  IF p.y3 = "" THEN WithY2(p, dict, rows)
  ELSE removeNonFloatFieldRows(dict, WithY2(p, dict, rows), p.y3)

(* PlotData() of psPlot: the k-th x with the k-th y, as far as there are   *)
(* both; a blank at the end of the axis is none.                           *)
Drawn(xs, ys) ==
  {<<xs[k], ys[k]>> : k \in {k \in DOMAIN xs \cap DOMAIN ys :
                               k = Len(xs) => xs[k] # Blank}}

(* Y2div asks for a scale of the second axis, Y1div is taken for it.       *)
Points(p, dict, rs, xs, none) ==
  LET y2div == IF p.y2div = 0 THEN 0 ELSE p.y1div
      Bars(f, div) == Drawn(xs, scaleList(Vals(dict, rs, f, none), div))
  IN  [y1 |-> Bars(p.y1, p.y1div),
       y2 |-> Bars(p.y2, y2div),
       y3 |-> IF p.y3 = "" THEN {} ELSE Bars(p.y3, y2div)]

(* The y of a row without a number.                                        *)
NoNumber(sList) == IF sList = <<>> THEN Ratio(111, 1000) ELSE Number(0)

(* The x and the rows of the one list, or of the list of each series.  The *)
(* x of an uniform axis were taken before rows were removed.               *)
PlotLists(p, dict, rows, sList) ==
  LET usable == Usable(p, dict, rows)
      xStrings == Strings(dict, rows, p.x)
      Own(rs) == [xs |-> Strings(dict, rs, p.x), rows |-> rs]
  IN  IF sList # <<>>
      THEN [i \in DOMAIN sList |-> Own(SeriesRows(dict, usable, p.series, sList[i]))]
      ELSE IF Uniform(p, xStrings) THEN <<[xs |-> xStrings, rows |-> usable]>>
      ELSE <<Own(usable)>>

(* max() of no values, no key 'Y1div', xValUniqueList[1].                  *)
PlotSeriesRaises(p, dict, rows, lists) ==
  LET uniform == Uniform(p, Strings(dict, rows, p.x))
      xSet == UNION {{IF uniform THEN c ELSE Obj(Val(c)) : c \in ToSet(l.xs)} :
                       l \in ToSet(lists)}
  IN  \/ Usable(p, dict, rows) = <<>>
      \/ p.y2div # 0 /\ p.y1div = 0
      \/ ~uniform /\ Cardinality(xSet) < 2

(* What PlotData() draws.                                                  *)
doPlotSeries(p, dict, rows, sList) ==
  LET lists == PlotLists(p, dict, rows, sList)
  IN  IF PlotSeriesRaises(p, dict, rows, lists) THEN PlotRaises
      ELSE <<"plot", p, [i \in DOMAIN lists |->
                           Points(p, dict, lists[i].rows, lists[i].xs, NoNumber(sList))]>>

(* The rows have a cell of field f.                                        *)
Wide(dict, rows, f) == \A i \in DOMAIN rows : dict[f] <= Len(rows[i])

(* The values of the series are found: numbers that an average put into    *)
(* the column have no replace().                                           *)
SeriesRaises(p, dict, rows) ==
  Discovers(p, dict) /\ (\/ ~Wide(dict, rows, p.series)
                         \/ \E c \in ToSet(SeriesList(p, dict, rows)) : ~IsText(c))

(* A field that is not there, or no y2 field, ends in a KeyError or in the *)
(* maximum of no values; numbers in the x column have no strip().          *)
FieldRaises(p, dict, rows) ==
  LET Has(rs, f) == f \in DOMAIN dict /\ Wide(dict, rs, f)
  IN  \/ ~Has(rows, p.x)
      \/ \E c \in ToSet(Strings(dict, rows, p.x)) : ~IsText(c)
      \/ ~Has(WithX(p, dict, rows), p.y1)
      \/ ~Has(WithY1(p, dict, rows), p.y2)
      \/ p.y3 # "" /\ ~Has(WithY2(p, dict, rows), p.y3)
      \/ p.series \in DOMAIN dict /\ ~Wide(dict, Usable(p, dict, rows), p.series)

Incomplete(p) == p.x = "" \/ p.y1 = ""

doPlot(p, dict, rows) ==
  IF SeriesRaises(p, dict, rows) THEN PlotRaises
  ELSE IF Incomplete(p) THEN NoPlot
  ELSE IF FieldRaises(p, dict, rows) THEN PlotRaises
  ELSE doPlotSeries(p, dict, rows, SeriesList(p, dict, rows))

-----------------------------------------------------------------------------
(* What a plot is asked to show, for PlotPairs of Exp.                     *)

(* What is drawn, and the selected rows with an x and numbers, or nothing, *)
(* to be drawn.                                                            *)
Fields(p) == {p.y1, p.y2} \cup (IF p.y3 = "" THEN {} ELSE {p.y3})

Plottable(p, dict, rows) ==
  {r \in ToSet(rows) :
     /\ Cell(dict, r, p.x) \notin {Blank, Empty}
     /\ \A f \in Fields(p) :
          isFloat(Cell(dict, r, f)) \/ Cell(dict, r, f) = Empty}

(* A row is not plotted on an axis of all the texts in column x.           *)
Shifted(p, dict, rows) ==
  /\ SeriesList(p, dict, rows) = <<>>
  /\ Uniform(p, Strings(dict, rows, p.x))
  /\ Plottable(p, dict, rows) # ToSet(rows)

Point(p, dict, r, f, div, none) ==
  LET c == Cell(dict, r, f)
      y == IF isFloat(c) THEN Val(c) ELSE none
  IN  <<Cell(dict, r, p.x), IF div = 0 THEN y ELSE Over(y, Number(div))>>

(* The rows that the i-th series of points is to show: all, or those with  *)
(* the i-th value in the series column.                                    *)
Members(p, dict, rows, sList, i) ==
  {r \in Plottable(p, dict, rows) :
     \/ sList = <<>>
     \/ p.series \in DOMAIN dict /\ Cell(dict, r, p.series) = sList[i]}

(* The points of one series.                                               *)
Shows(p, dict, members, none, points) ==
  /\ points.y1 = {Point(p, dict, r, p.y1, p.y1div, none) : r \in members}
  /\ p.y2div \in {0, p.y1div} =>
       /\ points.y2 = {Point(p, dict, r, p.y2, p.y2div, none) : r \in members}
       /\ p.y3 # "" => points.y3 = {Point(p, dict, r, p.y3, p.y2div, none) : r \in members}

(* Each series has one point for every row that it is to show.  Where the  *)
(* series are found in the rows, each row is in one, except for a text     *)
(* with a parenthesis, of which the list has another one.                  *)
AsSelected(p, dict, rows, points) ==
  LET sList == SeriesList(p, dict, rows)
  IN  ~Shifted(p, dict, rows) =>
        /\ DOMAIN points = IF sList = <<>> THEN {1} ELSE DOMAIN sList
        /\ \A i \in DOMAIN points :
             Shows(p, dict, Members(p, dict, rows, sList, i), NoNumber(sList), points[i])
        /\ Discovers(p, dict) =>
             \A r \in Plottable(p, dict, rows) :
               \/ Cell(dict, r, p.series) \in WithParens
               \/ \E i \in DOMAIN points : r \in Members(p, dict, rows, sList, i)
=============================================================================
