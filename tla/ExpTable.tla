------------------------------ MODULE ExpTable ------------------------------
(***************************************************************************)
(* What exp.py's help texts promise of its table: rows under numbers that  *)
(* are never mixed up, a selection that is narrowed, and one operation per *)
(* command that is a function of the table.  Each action is the one        *)
(* command that cmd names.  Where the code is known to do otherwise the    *)
(* specification stops promising (doubt): those conditions are the         *)
(* operators Mixed, Inverted, Lost, Added, Listed and Alike, which the     *)
(* detailed module uses for its history variable, and Supported.           *)
(***************************************************************************)
EXTENDS Arithmetic

CONSTANTS
  Files,       (* name |-> [header, rows] of the csv files                 *)
  IterName,    (* the column of the numbers, 'exp'                         *)
  HasText,     (* text |-> the cells that have it in them, for [has]       *)
  Begins,      (* text |-> the cells that begin with it, for [has]^        *)
  Selections,  (* arguments of select: sequences of alternatives, which    *)
               (* are sequences of conditions                              *)
  RowLists,    (* arguments of rows                                        *)
  ColLists,    (* arguments of cols and removecols                         *)
  Averages,    (* arguments of average: <<column, how>> sequences          *)
  NewCols      (* arguments of newcol: [name, expr]                        *)

VARIABLES
  cols,    (* the columns, a sequence of names                             *)
  rows,    (* number |-> column |-> cell                                   *)
  sel,     (* the numbers of the selected rows, in order                   *)
  show,    (* the set of selected columns                                  *)
  read,    (* the numbers of the rows of the last file read, in order      *)
  page,    (* what was written last: <<>>, <<"table", rows>> or a plot     *)
  cmd,     (* the last command: its name and argument                      *)
  doubt    (* nothing is promised any more                                 *)

vars == <<cols, rows, sel, show, read, page, cmd, doubt>>

Table == <<cols, rows, read>>

(* Arguments that commands give special meaning to.                        *)
All     == "ALL"
AllRows == Text("all")

Header(f)  == ToSet(Files[f].header)
Position(s, x) == CHOOSE i \in DOMAIN s : s[i] = x
Named(f, r)    == [c \in Header(f) |-> r[Position(Files[f].header, c)]]
Numbers(f)     == [i \in DOMAIN Files[f].rows |-> Named(f, Files[f].rows[i])[IterName]]

(* The numbers in S, sorted by their values if these have an order.        *)
Ordered(s) == \A i, j \in DOMAIN s : i < j => ~Less(Val(s[j]), Val(s[i]))

InOrder(S) ==
  LET sorted == {s \in SetToSeqs(S) : Ordered(s)}
  IN  CHOOSE s \in SetToSeqs(S) : sorted = {} \/ s \in sorted

Init ==
  /\ cols = <<>>
  /\ rows = [k \in {} |-> {}]
  /\ sel = <<>>
  /\ show = {}
  /\ read = <<>>
  /\ page = <<>>
  /\ cmd = <<"none">>
  /\ doubt = FALSE

Read(f) ==
  /\ cmd' = <<"read", f>>
  /\ UNCHANGED page
  /\ cols' = Files[f].header
  /\ sel' = Numbers(f)
  /\ rows' = [k \in ToSet(Numbers(f)) |->
                Named(f, Files[f].rows[Position(Numbers(f), k)])]
  /\ show' = Header(f)
  /\ read' = Numbers(f)

(* Files of which one has columns that the other does not have, or has in  *)
(* another order.                                                          *)
Mixed(f) == cols # <<>> /\ cols # Files[f].header

(* The rows of the file follow under numbers of their own; what was        *)
(* selected stays selected.                                                *)
AppendFile(f) ==
  /\ cmd' = <<"append", f>>
  /\ UNCHANGED <<cols, sel, show, read, page>>
  /\ \E shift \in {Number(100 * i) : i \in 1 .. 9} :
       LET Moved(k) == Whole(Plus(Val(k), shift)[1])
           new == {Moved(k) : k \in ToSet(Numbers(f))}
       IN  /\ new \cap DOMAIN rows = {}
           /\ DOMAIN rows' = DOMAIN rows \cup new
           /\ \A k \in DOMAIN rows : rows'[k] = rows[k]
           /\ \A i \in DOMAIN Numbers(f) :
                rows'[Moved(Numbers(f)[i])] =
                  [Named(f, Files[f].rows[i]) EXCEPT ![IterName] = Moved(@)]

(* A condition on a column that is not there holds; a comparison of what   *)
(* is no number does not.                                                  *)
Fulfils(row, cond) ==
  LET c == row[cond.col]
      v == cond.val
      numeric == cond.op \in {"<", ">", "<=", ">=", "<>"}
  IN  cond.col \in DOMAIN row =>
        (numeric => isFloat(c)) /\
        CASE cond.op = "=="  -> isEq(c, v)
          [] cond.op = "!="  -> ~isEq(c, v)
          [] cond.op = "<"   -> Less(Val(c), Val(v))
          [] cond.op = ">"   -> Less(Val(v), Val(c))
          [] cond.op = "<="  -> ~Less(Val(v), Val(c))
          [] cond.op = ">="  -> ~Less(Val(c), Val(v))
          [] cond.op = "<>"  -> Less(Val(v), Val(c)) /\ Less(Val(c), Val(cond.to))
          [] cond.op = "[has]"    -> c \in HasText[v]
          [] cond.op = "[hasnot]" -> c \notin HasText[v]
          [] cond.op = "[has]^"    -> c \in Begins[v]
          [] cond.op = "[hasnot]^" -> c \notin Begins[v]

(* A condition that a cell does not begin with a text.                     *)
Inverted(alternatives) ==
  \E a \in ToSet(alternatives) : \E cond \in ToSet(a) :
    cond.op = "[hasnot]^" /\ cond.col \in ToSet(cols)

(* ',' acts as AND, ';' as OR of lower precedence.                         *)
Select(alternatives) ==
  /\ cmd' = <<"select", alternatives>>
  /\ UNCHANGED <<Table, show, page>>
  /\ sel' = InOrder({k \in ToSet(sel) :
                       \E a \in ToSet(alternatives) :
                         \A cond \in ToSet(a) : Fulfils(rows[k], cond)})

(* Rows that were read are not in the table, having been averaged; rows of *)
(* the table were not read but appended.                                   *)
Lost  == ~ ToSet(read) \subseteq DOMAIN rows
Added == ~ DOMAIN rows \subseteq ToSet(read)

(* select=all takes back what was read.                                    *)
SelectAll ==
  /\ cmd' = <<"selectall">>
  /\ UNCHANGED <<Table, show, page>>
  /\ sel' = read

SelectRows(list) ==
  /\ cmd' = <<"rows", list>>
  /\ UNCHANGED <<Table, show, page>>
  /\ ToSet(sel') \subseteq DOMAIN rows
  /\ AllRows \in ToSet(list) => ToSet(read) \subseteq ToSet(sel')
  /\ AllRows \notin ToSet(list) => sel' = SelectSeq(list, LAMBDA k : k \in DOMAIN rows)

SelectCols(list) ==
  /\ cmd' = <<"cols", list>>
  /\ show' = IF list = <<All>> THEN ToSet(cols) ELSE ToSet(list)
  /\ UNCHANGED <<Table, sel, page>>

RemoveCols(list) ==
  /\ cmd' = <<"removecols", list>>
  /\ show' = (IF show = {} THEN ToSet(cols) ELSE show) \ ToSet(list)
  /\ UNCHANGED <<Table, sel, page>>

-----------------------------------------------------------------------------
(* average=: one row for each combination of values in the columns `by',   *)
(* of which [int] compares only the integer part and [has:s] only whether  *)
(* s is in it.                                                             *)

SameAs(c, d, how) ==
  CASE how = <<"plain">> -> isEq(c, d)
    [] how = <<"int">> -> /\ isFloat(c) /\ isFloat(d)
                          /\ Truncated(Val(c)) = Truncated(Val(d))
    [] how[1] = "has" -> (c \in HasText[how[2]]) <=> (d \in HasText[how[2]])

By(by) == SelectSeq(by, LAMBDA b : b[1] \in ToSet(cols))

SameGroup(by, j, k) ==
  j = k \/ \A b \in ToSet(By(by)) : SameAs(rows[j][b[1]], rows[k][b[1]], b[2])

Group(by, k) == {j \in ToSet(sel) : SameGroup(by, j, k)}

Listed == IsInjective(sel)

(* What rows are grouped by is written alike in all rows of a group.       *)
Alike(by) ==
  \A k \in ToSet(sel) : \A j \in Group(by, k) : \A b \in ToSet(By(by)) :
    rows[j][b[1]] = rows[k][b[1]]

Count(k) == IF "avgCnt" \in ToSet(cols) THEN rows[k]["avgCnt"][2] ELSE 1

Firsts(by) == SelectSeq(sel, LAMBDA k :
  \A j \in Group(by, k) : Position(sel, k) <= Position(sel, j))

Mean(S, c) ==
  Over(FoldSet(LAMBDA k, x : Plus(Val(rows[k][c]), x), Number(0), S),
       Number(Cardinality(S)))

(* The first three columns are names, whatever is in them.                 *)
Averaged(by, k, c) ==
  LET group == Group(by, k)
      written == {rows[j][c] : j \in group}
  IN  IF c = "avgCnt" THEN Obj(Number(MapThenSumSet(Count, group)))
      ELSE IF c = IterName \/ c \in {b[1] : b \in ToSet(by)} THEN rows[k][c]
      ELSE IF Position(cols, c) > 3 /\ \A w \in written : isFloat(w)
      THEN Obj(Mean(group, c))
      ELSE IF Cardinality(written) = 1 THEN rows[k][c] ELSE Dots

Average(by) ==
  /\ cmd' = <<"average", by>>
  /\ UNCHANGED <<read, page>>
  /\ cols' = IF "avgCnt" \in ToSet(cols) THEN cols ELSE Append(cols, "avgCnt")
  /\ sel' = Firsts(by)
  /\ rows' = [k \in ToSet(Firsts(by)) |-> [c \in ToSet(cols') |-> Averaged(by, k, c)]]
  /\ show' = IF cols' = cols THEN show ELSE show \cup {"avgCnt"}

-----------------------------------------------------------------------------
(* newcol=: every row gets the value of the expression, if it has one; a   *)
(* parenthesis at the end, or an operator * or &, is not supported.        *)
Supported(ts) ==
  Last(ts) # Op(")") /\ ToSet(ts) \cap {Op("*"), Op("&")} = {}

NewCol(nc) ==
  /\ cmd' = <<"newcol", nc>>
  /\ UNCHANGED <<sel, read, page>>
  /\ cols' = Append(cols, nc.name)
  /\ show' = show \cup {nc.name}
  /\ DOMAIN rows' = DOMAIN rows
  /\ \A k \in DOMAIN rows :
       LET value == RowMeaning(rows[k], nc.expr) IN
       /\ \A c \in ToSet(cols) : rows'[k][c] = rows[k][c]
       /\ DOMAIN rows'[k] = ToSet(cols')
       /\ Supported(nc.expr) /\ value # {} =>
            rows'[k][nc.name] \in {Dec(v) : v \in value}

(* doTable writes the selected rows, in order, with the selected columns.  *)
Shown(k) ==
  LET shown == SelectSeq(cols, LAMBDA c : c \in show)
  IN  [i \in DOMAIN shown |-> rows[k][shown[i]]]

DoTable ==
  /\ cmd' = <<"dotable">>
  /\ UNCHANGED <<Table, sel, show>>
  /\ page' = <<"table", [i \in DOMAIN sel |-> Shown(sel[i])]>>

(* doplot writes no table and leaves the one there is as it was.           *)
DoPlot ==
  /\ cmd' = <<"doplot">>
  /\ UNCHANGED <<Table, sel, show>>
  /\ page'[1] \in {"plot", "noplot"}

Promised ==
  \/ \E f \in DOMAIN Files : Read(f) \/ AppendFile(f)
  \/ \E s \in Selections : Select(s)
  \/ SelectAll
  \/ \E l \in RowLists : SelectRows(l)
  \/ \E l \in ColLists : SelectCols(l) \/ RemoveCols(l)
  \/ \E by \in Averages : Average(by)
  \/ \E nc \in NewCols : NewCol(nc)
  \/ DoTable
  \/ DoPlot

Next ==
  \/ ~doubt /\ ~doubt' /\ Promised
  \/ doubt'

Spec == Init /\ [][Next]_vars
=============================================================================
