-------------------------------- MODULE Exp --------------------------------
(***************************************************************************)
(* exp.py run as a script: a table read from a csv file and the commands   *)
(* of processCommand() on it.  The globals have their names; a row is a    *)
(* sequence of cells and fieldDict, iterDict give positions in it and in   *)
(* Rows, counted from 1.  An exception that nobody catches, doError() and  *)
(* doEnd() end the program: what they leave behind does not matter.  The   *)
(* files have formats in their headers (formatFlag), without which an      *)
(* average is cut to a few digits.                                         *)
(***************************************************************************)
EXTENDS Arithmetic, ExpPlot

CONSTANTS Files, IterName, HasText, Begins, Selections, RowLists, ColLists,
          Averages, NewCols,   (* as in ExpTable                           *)
          Plots,               (* the plots asked for, see ExpPlot         *)
          MaxCommands          (* bound on the commands of a session       *)

VARIABLES
  fieldList, fieldDict,        (* the columns and where in a row they are  *)
  Rows, iterDict,              (* the rows and where in Rows a number is   *)
  ReadRowList,                 (* the numbers that readCsvFile() found     *)
  SelectedRowList,
  SelectedCols,                (* SelectedColList and SelectedColDict      *)
  page,                        (* what was written last                    *)
  cmd,     (* history: the last command that was carried out               *)
  over,    (* "start" before File, "no", or how the session ended          *)
  done,    (* the number of commands                                       *)
  doubt    (* history: ExpTable promises nothing any more                  *)

table == <<fieldList, fieldDict, Rows, iterDict, ReadRowList>>
vars  == <<table, SelectedRowList, SelectedCols, page, cmd, over, done, doubt>>

Ends == {"end", "error", "raise", "hang"}

(* A line of the file is cut at the commas: the row of a number.           *)
At(k, c) ==
  IF fieldDict[c] <= Len(Rows[iterDict[k]]) THEN Rows[iterDict[k]][fieldDict[c]]
  ELSE Empty

Tabled == [k \in DOMAIN iterDict |-> [c \in ToSet(fieldList) |-> At(k, c)]]

T == INSTANCE ExpTable WITH
       cols <- fieldList, rows <- Tabled, sel <- SelectedRowList,
       show <- SelectedCols, read <- ReadRowList

(* The csv files that results are kept in: the columns have different      *)
(* names; each row has a cell for each of them and a number of its own, in *)
(* one of the first three columns, which doAverage() takes for names.      *)
List(s)   == s \in Seq(ToSet(s))
IterCells == ({"int"} \X Nat \X {1}) \cup ({"dec"} \X Int \X (Nat \ {0}))

ResultsFile(header, rows) ==
  /\ List(header) /\ IsInjective(header)
  /\ List(rows) /\ \A r \in ToSet(rows) : List(r) /\ Len(r) = Len(header)
  /\ \E col \in DOMAIN header :
       /\ col <= 3 /\ header[col] = IterName
       /\ \A r \in ToSet(rows) : r[col] \in IterCells
       /\ \A i, j \in DOMAIN rows : rows[i][col] = rows[j][col] => i = j

ASSUME ExpAssumption ==
  /\ IterName # "avgCnt"
  /\ \A f \in DOMAIN Files : ResultsFile(Files[f].header, Files[f].rows)
  /\ \A l \in Selections \cup RowLists : List(l)

Init ==
  /\ fieldList = <<>> /\ fieldDict = [c \in {} |-> 0]
  /\ Rows = <<>> /\ iterDict = [k \in {} |-> 0]
  /\ ReadRowList = <<>> /\ SelectedRowList = <<>>
  /\ SelectedCols = {}
  /\ page = <<>> /\ cmd = <<"none">>
  /\ over = "start" /\ done = 0
  /\ doubt = FALSE

Command == over = "no" /\ done < MaxCommands /\ done' = done + 1

Fails(how) ==
  /\ over' = how
  /\ UNCHANGED <<table, SelectedRowList, SelectedCols, page, cmd, doubt>>

(* Mutant of Indexed: the count begins at -1, as for the line of the names. *)
IndexedEarly(rs, col) ==
  [k \in {r[col] : r \in ToSet(rs)} |-> (CHOOSE i \in DOMAIN rs : rs[i][col] = k) - 1]

(* iterDict of rows of which column `col' has the number.                  *)
Indexed(rs, col) ==
  [k \in {r[col] : r \in ToSet(rs)} |->
     CHOOSE i \in DOMAIN rs : /\ rs[i][col] = k
                              /\ \A j \in DOMAIN rs : rs[j][col] = k => j <= i]

(* getFields() writes to the one fieldDict there is: names it had before   *)
(* stay in it.                                                             *)
getFields(header) ==
  [c \in DOMAIN fieldDict \cup ToSet(header) |->
     IF c \in ToSet(header) THEN T!Position(header, c) ELSE fieldDict[c]]

readCsvFile(f) ==
  LET h    == Files[f].header
      col  == T!Position(h, IterName)
      nums == [i \in DOMAIN Files[f].rows |-> Files[f].rows[i][col]]
  IN  /\ fieldList' = h
      /\ fieldDict' = getFields(h)
      /\ Rows' = Files[f].rows
      /\ iterDict' = Indexed(Files[f].rows, col)
      /\ ReadRowList' = nums
      /\ SelectedRowList' = nums
      /\ SelectedCols' = ToSet(h)
      /\ cmd' = <<"read", f>>
      /\ doubt' = (doubt \/ T!Mixed(f))
      /\ UNCHANGED page

File(f) ==
  /\ over = "start" /\ over' = "no"
  /\ UNCHANGED done
  /\ readCsvFile(f)

(* Any other command first reads a file 'exp', which is not there.         *)
NoFile ==
  /\ over = "start"
  /\ UNCHANGED done
  /\ Fails("error")

Read(f) == Command /\ readCsvFile(f) /\ UNCHANGED over

(* append=: the numbers of the new rows follow the next multiple of 100.   *)
(* int() takes no number that is written with a point.                     *)
IntKey(k) == k[1] = "int"

appendCsvFile(f) ==
  LET header  == Files[f].header
      dict    == getFields(header)
      maxIter == 100 * ((100 + Max({0} \cup {k[2] : k \in DOMAIN iterDict})) \div 100)
      Number1(r) == Whole(r[dict[IterName]][2] + maxIter)
      New(r)  == [i \in DOMAIN fieldList |->
                    IF fieldList[i] = IterName THEN Number1(r)
                    ELSE r[dict[fieldList[i]]]]
      new     == [i \in DOMAIN Files[f].rows |-> New(Files[f].rows[i])]
      all     == Rows \o new
  IN  /\ Command
      /\ IF \/ \E k \in DOMAIN iterDict : ~IntKey(k)
            \/ \E r \in ToSet(Files[f].rows) :
                 \/ ~IntKey(r[dict[IterName]])
                 \/ \E c \in ToSet(fieldList) : dict[c] > Len(r)
         THEN Fails("raise")
         ELSE /\ fieldDict' = dict
              /\ Rows' = all
              /\ iterDict' = [k \in DOMAIN iterDict \cup {Number1(r) : r \in ToSet(Files[f].rows)} |->
                   IF \E r \in ToSet(Files[f].rows) : Number1(r) = k
                   THEN Len(Rows) + CHOOSE i \in DOMAIN Files[f].rows :
                          Number1(Files[f].rows[i]) = k
                   ELSE iterDict[k]]
              /\ cmd' = <<"append", f>>
              /\ doubt' = (doubt \/ T!Mixed(f))
              /\ UNCHANGED <<fieldList, ReadRowList, SelectedRowList, SelectedCols,
                             page, over>>

-----------------------------------------------------------------------------
(* select=                                                                 *)

Row(k) == Rows[iterDict[k]]

Known(ks) == \A k \in ks : k \in DOMAIN iterDict

(* The comparison of a cell does not end in an exception.                  *)
Comparable(row, cond) ==
  cond.col \in DOMAIN fieldDict =>
    /\ fieldDict[cond.col] <= Len(row)
    /\ LET c == row[fieldDict[cond.col]]
       IN  /\ cond.op \in {"<", ">", "<=", ">=", "<>"} => isFloat(c)
           /\ cond.op \in {"[has]", "[hasnot]", "[has]^", "[hasnot]^"} => IsText(c)

(* [hasnot]^ drops the same rows as [has]^.                                *)
Keeps(row, cond) ==
  cond.col \in DOMAIN fieldDict =>
    LET c == row[fieldDict[cond.col]]
        v == cond.val
    IN  CASE cond.op = "==" -> isEq(c, v)
          [] cond.op = "!=" -> ~isEq(c, v)
          [] cond.op = ">"  -> ~(Less(Val(c), Val(v)) \/ Val(c) = Val(v))
          [] cond.op = "<"  -> ~(Less(Val(v), Val(c)) \/ Val(c) = Val(v))
          [] cond.op = "<>" -> /\ Less(Val(v), Val(c))
                               /\ Less(Val(c), Val(cond.to))
          [] cond.op = ">=" -> ~Less(Val(c), Val(v))
          [] cond.op = "<=" -> ~Less(Val(v), Val(c))
          [] cond.op = "[has]"    -> c \in HasText[v]
          [] cond.op = "[hasnot]" -> c \notin HasText[v]
          [] cond.op \in {"[has]^", "[hasnot]^"} -> c \in Begins[v]

getSelectedRows(conds, available) ==
  {k \in available : \A c \in ToSet(conds) : Keeps(Row(k), c)}

(* Each alternative is tried on the rows that none before it has chosen.   *)
Chosen(alternatives) ==
  FoldLeft(LAMBDA chosen, a :
             chosen \cup getSelectedRows(a, ToSet(SelectedRowList) \ chosen),
           {}, alternatives)

Tried(alternatives, i) ==
  ToSet(SelectedRowList) \ Chosen(SubSeq(alternatives, 1, i - 1))

(* floatCmp() compares numbers only; one number is not compared.           *)
Sortable(ks) == Cardinality(ks) > 1 => \A k \in ks : isFloat(k)

doSelect(alternatives) ==
  /\ Command
  /\ IF \/ ~Known(ToSet(SelectedRowList))
        \/ \E i \in DOMAIN alternatives :
             \E k \in Tried(alternatives, i) : \E c \in ToSet(alternatives[i]) :
               ~Comparable(Row(k), c)
        \/ ~Sortable(Chosen(alternatives))
     THEN Fails("raise")
     ELSE /\ SelectedRowList' = T!InOrder(Chosen(alternatives))
          /\ cmd' = <<"select", alternatives>>
          /\ doubt' = (doubt \/ T!Inverted(alternatives))
          /\ UNCHANGED <<table, SelectedCols, page, over>>

SelectAll ==
  /\ Command
  /\ SelectedRowList' = ReadRowList
  /\ cmd' = <<"selectall">>
  /\ doubt' = (doubt \/ T!Lost)
  /\ UNCHANGED <<table, SelectedCols, page, over>>

(* Each entry of a list of numbers; others are passed over.                *)
Found(list) ==
  FoldLeft(LAMBDA s, e : IF e = T!AllRows THEN ReadRowList
                         ELSE IF e \in DOMAIN iterDict THEN Append(s, e) ELSE s,
           <<>>, list)

(* rows=: a range <<"range", b>> whose first number, as a text, is not     *)
(* after its last (b) ends in an exception, as the text is counted up.     *)
selectRows(list) ==
  /\ Command
  /\ IF <<"range", TRUE>> \in ToSet(list) THEN Fails("raise")
     ELSE /\ SelectedRowList' = Found(list)
          /\ cmd' = <<"rows", list>>
          /\ doubt' = (doubt \/ (T!AllRows \in ToSet(list) /\ T!Lost))
          /\ UNCHANGED <<table, SelectedCols, page, over>>

selectCols(list) ==
  /\ Command
  /\ SelectedCols' = IF list = <<T!All>> THEN ToSet(fieldList) ELSE ToSet(list)
  /\ cmd' = <<"cols", list>>
  /\ UNCHANGED <<table, SelectedRowList, page, over, doubt>>

removeCols(list) ==
  /\ Command
  /\ SelectedCols' =
       (IF SelectedCols = {} THEN DOMAIN fieldDict ELSE SelectedCols) \ ToSet(list)
  /\ cmd' = <<"removecols", list>>
  /\ UNCHANGED <<table, SelectedRowList, page, over, doubt>>

-----------------------------------------------------------------------------
(* average=.  AveragedRows holds the very rows of Rows, which are changed  *)
(* in place: `reps' has their positions, `counts' AveragedRowsCount.       *)

Matches(c, d, how) ==
  CASE how = <<"plain">> -> isEq(c, d)
    [] how = <<"int">> -> /\ isFloat(c) /\ isFloat(d)
                          /\ Truncated(Val(c)) = Truncated(Val(d))
    [] how[1] = "has" -> (c \in HasText[how[2]]) = (d \in HasText[how[2]])

(* A row is compared with the first row of each group, as it is by now.    *)
Compared(s, row, by, a) ==
  \A b \in ToSet(by) :
    Matches(row[fieldDict[b[1]]], s.rows[s.reps[a]][fieldDict[b[1]]], b[2])

(* No row is too short for the columns that are compared.                  *)
Long(row, byCols) == \A i \in byCols : i <= Len(row)

Merged(aRow, row, iterCol, byCols) ==
  [i \in DOMAIN aRow |->
     IF i > Len(row) THEN aRow[i]
     ELSE IF i > 3 /\ i \notin byCols /\ isFloat(row[i]) /\ isFloat(aRow[i])
     THEN Obj(Plus(Val(aRow[i]), Val(row[i])))
     ELSE IF aRow[i] # row[i] /\ i # iterCol THEN Dots ELSE aRow[i]]

(* A number that an earlier average has computed has no find().            *)
Searchable(row, by) ==
  \A b \in ToSet(by) : b[2][1] = "has" => IsText(row[fieldDict[b[1]]])

(* Rows of a table to which newcol and append were applied may differ in   *)
(* length; an index that is past the end of one is an exception.           *)
AverageRow(s, i, by, iterCol, byCols) ==
  LET row   == s.rows[i]
      Fit(r) == Long(r, byCols) /\ Searchable(r, by)
      unfit == {a \in DOMAIN s.reps : ~Fit(row) \/ ~Fit(s.rows[s.reps[a]])}
      g     == {a \in DOMAIN s.reps \ unfit : Compared(s, row, by, a)}
      a     == Min(g)
      rep   == s.reps[a]
  IN  IF s.raised \/ \E b \in unfit : \A c \in g : b < c
      THEN [s EXCEPT !.raised = TRUE]
      ELSE IF g = {} /\ ~IsText(row[iterCol]) THEN [s EXCEPT !.raised = TRUE]
      ELSE IF g = {} THEN [s EXCEPT !.reps = Append(@, i), !.counts = Append(@, 1)]
      ELSE IF Len(row) > Len(s.rows[rep]) THEN [s EXCEPT !.raised = TRUE]
      ELSE [s EXCEPT !.counts[a] = @ + 1,
                     !.rows[rep] = Merged(s.rows[rep], row, iterCol, byCols)]

(* Mutant of Divided: the count of the rows is divided as the rest is.      *)
DividedAll(aRow, count, avgCnt, byCols) ==
  [i \in DOMAIN aRow |->
     IF i > 3 /\ i \notin byCols /\ isFloat(aRow[i])
     THEN Obj(Over(Val(aRow[i]), Number(count))) ELSE aRow[i]]

Divided(aRow, count, avgCnt, byCols) ==
  [i \in DOMAIN aRow |->
     IF i > 3 /\ i \notin byCols /\ i # avgCnt /\ isFloat(aRow[i])
     THEN Obj(Over(Val(aRow[i]), Number(count)))
     ELSE IF i = avgCnt THEN Obj(Truncated(Val(aRow[i]))) ELSE aRow[i]]

(* int() refuses a text and a number that is written with a point; a file  *)
(* read after an average has other cells where avgCnt is still said to be. *)
Uncounted(aRow, avgCnt) ==
  avgCnt <= Len(aRow) /\ aRow[avgCnt][1] \in {"text", "dec"}

KnownOf(by) == SelectSeq(by, LAMBDA b : b[1] \in DOMAIN fieldDict)

(* The selected rows, one after the other.                                 *)
Summed(rows, by, byCols) ==
  FoldLeft(LAMBDA s, k : AverageRow(s, iterDict[k], by, fieldDict[IterName], byCols),
           [rows |-> rows, reps |-> <<>>, counts |-> <<>>, raised |-> FALSE],
           SelectedRowList)

DividedRows(s, avgCnt, byCols) ==
  FoldLeft(LAMBDA rs, a :
             [rs EXCEPT ![s.reps[a]] = Divided(@, s.counts[a], avgCnt, byCols)],
           s.rows, [a \in DOMAIN s.reps |-> a])

doAverage(by) ==
  LET known   == KnownOf(by)
      byCols  == {fieldDict[b[1]] : b \in ToSet(known)}
      iterCol == fieldDict[IterName]
      counted == "avgCnt" \in DOMAIN fieldDict
      list    == IF counted THEN fieldList ELSE Append(fieldList, "avgCnt")
      avgCnt  == IF counted THEN fieldDict["avgCnt"] ELSE Len(list)
      grown   == IF counted THEN Rows ELSE [i \in DOMAIN Rows |-> Append(Rows[i], Whole(1))]
      summed  == Summed(grown, known, byCols)
      divided == DividedRows(summed, avgCnt, byCols)
      rows    == [a \in DOMAIN summed.reps |-> divided[summed.reps[a]]]
  IN  /\ Command
      /\ IF ~Known(ToSet(SelectedRowList)) THEN Fails("raise")
         ELSE IF \/ summed.raised
                 \/ \E i \in ToSet(summed.reps) : Uncounted(summed.rows[i], avgCnt)
         THEN Fails("raise")
         ELSE /\ fieldList' = list
              /\ fieldDict' = [c \in DOMAIN fieldDict \cup {"avgCnt"} |->
                                 IF c = "avgCnt" THEN avgCnt ELSE fieldDict[c]]
              /\ Rows' = rows
              /\ iterDict' = Indexed(rows, iterCol)
              /\ SelectedRowList' = [a \in DOMAIN rows |-> rows[a][iterCol]]
              /\ SelectedCols' = IF counted THEN SelectedCols
                                 ELSE SelectedCols \cup {"avgCnt"}
              /\ cmd' = <<"average", by>>
              /\ doubt' = (doubt \/ ~T!Listed \/ ~T!Alike(by))
              /\ UNCHANGED <<ReadRowList, page, over>>

-----------------------------------------------------------------------------
(* newcol=: rows that were read get the new cell, others do not.           *)
Env(row, vs) == [v \in vs |-> row[fieldDict[v]]]

doNewCol1(nc) ==
  LET vs == VarsOf(nc.expr)
      Value(k) == mathRowExpression(Env(Row(k), vs), nc.expr)
      Bad(k) == \/ k \notin DOMAIN iterDict
                \/ \E v \in vs : fieldDict[v] > Len(Row(k))
                \/ Value(k) = Raise
      bad == {i \in DOMAIN ReadRowList : Bad(ReadRowList[i])}
      read == ToSet(ReadRowList)
  IN  /\ Command
      /\ CASE nc.name \in DOMAIN fieldDict -> Fails("error")
           [] nc.name \notin DOMAIN fieldDict /\ Hangs(nc.expr) -> Fails("hang")
           [] nc.name \notin DOMAIN fieldDict /\ ~Hangs(nc.expr)
                /\ ~ vs \subseteq DOMAIN fieldDict -> Fails("error")
           [] OTHER ->
                IF bad # {}
                THEN LET k == ReadRowList[Min(bad)] IN
                     Fails(IF k \in DOMAIN iterDict
                              /\ \E v \in vs : fieldDict[v] > Len(Row(k))
                           THEN "error" ELSE "raise")
                ELSE /\ fieldList' = Append(fieldList, nc.name)
                     /\ fieldDict' =
                          [c \in DOMAIN fieldDict \cup {nc.name} |->
                             IF c = nc.name THEN Cardinality(DOMAIN fieldDict) + 1
                             ELSE fieldDict[c]]
                     /\ Rows' = [i \in DOMAIN Rows |->
                          IF \E k \in read : iterDict[k] = i
                          THEN Append(Rows[i],
                                 Value(CHOOSE k \in read : iterDict[k] = i))
                          ELSE Rows[i]]
                     /\ SelectedCols' = SelectedCols \cup {nc.name}
                     /\ cmd' = <<"newcol", nc>>
                     /\ doubt' = (doubt \/ T!Added)
                     /\ UNCHANGED <<iterDict, ReadRowList, SelectedRowList, page, over>>

-----------------------------------------------------------------------------
(* doTable.  A table writes row[i] for the i-th field, not by fieldDict.   *)
ShownCols == SelectSeq([i \in DOMAIN fieldList |-> i],
                       LAMBDA i : fieldList[i] \in SelectedCols)

(* Mutant of TableRow: all fields are written, whatever cols= selected.    *)
TableRowAll(row) == row

TableRow(row) == [j \in DOMAIN ShownCols |-> row[ShownCols[j]]]

(* putHtmlTableRow() colours a row by its cells of these fields, shown or   *)
(* not; the second must be a number.                                        *)
lineColorField == "ca"
Coloured(row) ==
  /\ lineColorField \in DOMAIN fieldDict => fieldDict[lineColorField] <= Len(row)
  /\ "Ver" \in DOMAIN fieldDict =>
       fieldDict["Ver"] <= Len(row) /\ isFloat(row[fieldDict["Ver"]])

(* percentTableWriteRow(): what is a number in the first row is divided by *)
(* in the others; there must be a first row.                               *)
PercentRaises ==
  \/ SelectedRowList = <<>>
  \/ \E k \in ToSet(SelectedRowList) : \E i \in ToSet(ShownCols) :
       LET top == Row(SelectedRowList[1])[i] IN
       /\ fieldList[i] # IterName
       /\ isFloat(top) /\ Val(top) # Number(0) /\ ~isFloat(Row(k)[i])

doTable(percent) ==
  /\ Command
  /\ IF \/ ~Known(ToSet(SelectedRowList))
        \/ \E k \in ToSet(SelectedRowList) :
             \/ ~Coloured(Row(k))
             \/ \E i \in ToSet(ShownCols) : i > Len(Row(k))
        \/ percent /\ PercentRaises
     THEN Fails("raise")
     ELSE /\ page' = <<"table", [i \in DOMAIN SelectedRowList |->
                                   TableRow(Row(SelectedRowList[i]))]>>
          /\ cmd' = <<"dotable">>
          /\ UNCHANGED <<table, SelectedRowList, SelectedCols, over, doubt>>

(* doPlot.  SelectedRowList is put back when the plot is drawn.  A number  *)
(* that is selected but not there ends in an exception, unless a field is  *)
(* missing, which is noticed after the series.                             *)
doPlot0(p) ==
  LET drawn == IF Known(ToSet(SelectedRowList))
               THEN doPlot(p, fieldDict, [i \in DOMAIN SelectedRowList |->
                                            Row(SelectedRowList[i])])
               ELSE IF Incomplete(p) /\ ~Discovers(p, fieldDict)
               THEN NoPlot ELSE PlotRaises
  IN  /\ Command
      /\ IF drawn = PlotRaises THEN Fails("raise")
         ELSE /\ page' = drawn
              /\ cmd' = <<"doplot">>
              /\ UNCHANGED <<table, SelectedRowList, SelectedCols, over, doubt>>

doEnd == Command /\ Fails("end")

Next ==
  \/ \E f \in DOMAIN Files : File(f) \/ Read(f) \/ appendCsvFile(f)
  \/ NoFile
  \/ \E s \in Selections : doSelect(s)
  \/ SelectAll
  \/ \E l \in RowLists : selectRows(l)
  \/ \E l \in ColLists : selectCols(l) \/ removeCols(l)
  \/ \E by \in Averages : doAverage(by)
  \/ \E nc \in NewCols : doNewCol1(nc)
  \/ \E percent \in BOOLEAN : doTable(percent)
  \/ \E p \in Plots : doPlot0(p)
  \/ doEnd

Spec == Init /\ [][Next]_vars

-----------------------------------------------------------------------------
(* Every command of exp.py does to the table what ExpTable promises of     *)
(* this command: rows keep their numbers, a selection keeps to the table,  *)
(* an average is the mean of the rows of its group and counts the rows it  *)
(* stands for, a new column has the value of its expression, and the page  *)
(* that dotable writes has the selected rows and columns of the table as   *)
(* it is then.  Nothing is claimed any more after a file with other        *)
(* columns (Mixed), a [hasnot]^ (Inverted), rows=all after an average      *)
(* (Lost), newcol after append (Added), an average of a row selected twice *)
(* (Listed) or by cells that are equal and written differently (Alike),    *)
(* and nothing of the cells of a newcol with an expression that is not     *)
(* Supported: there the code does otherwise.                               *)
ImplementsTable == T!Spec

(* As long as ExpTable promises anything, the two indexes of readCsvFile() *)
(* lead back from a selected number to a row that has this number and one  *)
(* cell for every field, and no two rows have one number: doTable() and    *)
(* doAverage() find what doSelect() and doAverage() have left.             *)
RowsFound ==
  over \notin {"start", "no"} \/ doubt \/
    /\ \A k \in DOMAIN iterDict :
         /\ iterDict[k] \in DOMAIN Rows
         /\ Row(k)[fieldDict[IterName]] = k
    /\ Known(ToSet(SelectedRowList))
    /\ Cardinality(DOMAIN iterDict) = Len(Rows)
    /\ \A r \in ToSet(Rows) : Len(r) = Len(fieldList)
    /\ \A i \in DOMAIN fieldList : fieldDict[fieldList[i]] = i

(* The points that doPlot() draws for a field, although the lists of x and *)
(* of the y's are collected one by one and rows without a number are taken *)
(* out in between, are those of the selected rows, each with its own x and *)
(* y: one for every row that can be plotted, and no others (AsSelected).   *)
(* Nothing is claimed where the code does otherwise: of a text axis from   *)
(* which a row was taken out (Shifted), and of the second axis with a      *)
(* divisor other than the first one's.                                     *)
PlotPairs ==
  [][page' # page /\ page'[1] = "plot" =>
       AsSelected(page'[2], fieldDict,
                  [i \in DOMAIN SelectedRowList |-> Row(SelectedRowList[i])],
                  page'[3])]_vars
=============================================================================
