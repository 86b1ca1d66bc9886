---------------------------- MODULE RowReduction ----------------------------
(***************************************************************************)
(* The rows of exp.csv: netesto.py's processExp() joins the .exp.out files *)
(* of an experiment to all.exp.out and lets processExp.py make a row of it *)
(* and, if there is more than one, of each file.  A line is <<key, value>>;*)
(* a value is a cell, or <<"scaled", n, m>> for a number with a suffix     *)
(* (10M), which getFloat() takes and float() does not.  Without --desc and *)
(* --other; the digits that rows are printed with are left out.            *)
(***************************************************************************)
EXTENDS Cells, SequencesExt

CONSTANTS
  fieldOpDict,  (* field |-> how fields.txt says its values are reduced;   *)
                (* that of rate is sumRateDur, that of dur is one          *)
  EndsIn        (* value |-> the values that its text ends in              *)

Scaled(n, m) == <<"scaled", n, m>>
End  == <<"-----">>
None == <<>>

Numeric(v)  == Len(v) = 3
getFloat(v) == IF v[1] = "scaled" THEN Number(v[2] * v[3]) ELSE Val(v)

Blanks == [f \in DOMAIN fieldOpDict |-> [v |-> None, n |-> 0]]

(* The variables of the loop over the lines of an rfile.                   *)
Start == [val |-> Blanks, dur |-> None, maxDur |-> Number(0), rate |-> None,
          rows |-> <<>>, raised |-> FALSE]

Larger(x, y) == IF Less(x, y) THEN y ELSE x

(* One value of field f, by the operation of the field; what is in `val'   *)
(* is None or a number, or for "one" a record, for "all" a sequence.       *)
Sum(s, f, x) ==
  LET old == s.val[f].v IN
  [s EXCEPT !.val[f].v = IF old = None THEN x ELSE Plus(old, x)]

Reduce(s, f, v) ==
  LET old == s.val[f].v
      new == CASE fieldOpDict[f] = "all" -> <<v>>
               [] fieldOpDict[f] = "one" -> <<v, "only">>
               [] OTHER -> getFloat(v)
      Put(x) == [s EXCEPT !.val[f].v = x]
  IN  CASE old = None /\ fieldOpDict[f] \in {"all", "one", "max", "min"} -> Put(new)
        [] fieldOpDict[f] = "sum" -> Sum(s, f, getFloat(v))
        [] fieldOpDict[f] = "avg" -> [Sum(s, f, getFloat(v)) EXCEPT !.val[f].n = @ + 1]
        [] old # None /\ fieldOpDict[f] = "all" ->
             IF \E w \in ToSet(old) : v \in EndsIn[w] THEN s ELSE Put(Append(old, v))
        [] old # None /\ fieldOpDict[f] = "one" ->
             IF v = old[1] THEN s ELSE Put(<<old[1], "others">>)
        [] old # None /\ fieldOpDict[f] = "max" -> Put(Larger(old, getFloat(v)))
        [] old # None /\ fieldOpDict[f] = "min" ->
             Put(IF Less(getFloat(v), old) THEN getFloat(v) ELSE old)
        [] fieldOpDict[f] = "sumRateDur" ->
             IF s.dur = None THEN s
             ELSE [Sum(s, f, Times(getFloat(v), s.dur)) EXCEPT
                     !.val[f].n = s.maxDur, !.rate = None, !.dur = None]

(* float() of a later value of max and min takes no suffix.                *)
Refused(s, f, v) ==
  CASE fieldOpDict[f] \in {"all", "one"} -> FALSE
    [] fieldOpDict[f] \in {"max", "min"} ->
         ~Numeric(v) \/ (s.val[f].v # None /\ v[1] = "scaled")
    [] OTHER -> ~Numeric(v)

Field(s, f, v) ==
  IF f \notin DOMAIN fieldOpDict \/ (v = Empty /\ fieldOpDict[f] # "one") THEN s
  ELSE IF Refused(s, f, v) THEN [s EXCEPT !.raised = TRUE]
  ELSE Reduce(s, f, v)

(* processRow(): an average of nothing is left empty.                      *)
Written(f, e) ==
  CASE e.v = None -> None
    [] e.v # None /\ fieldOpDict[f] = "avg" -> Over(e.v, Number(e.n))
    [] e.v # None /\ fieldOpDict[f] = "sumRateDur" ->
         IF e.n = Number(0) THEN None ELSE Over(e.v, e.n)
    [] OTHER -> e.v

processRow(val) == [f \in DOMAIN fieldOpDict |-> Written(f, val[f])]

(* Mutant of Dur: the time of the row is that of the latest flow.          *)
DurLatest(s, v) ==
  IF ~Numeric(v) \/ s.rate # None THEN [s EXCEPT !.raised = TRUE]
  ELSE [s EXCEPT !.dur = getFloat(v), !.maxDur = getFloat(v)]

(* A rate that waits for its dur is added to the field dur, which is a     *)
(* text or becomes a number that has no find(): an exception either way.   *)
Dur(s, v) ==
  LET d == getFloat(v) IN
  IF ~Numeric(v) THEN [s EXCEPT !.raised = TRUE]
  ELSE IF s.rate # None THEN [s EXCEPT !.raised = TRUE]
  ELSE [s EXCEPT !.dur = d, !.maxDur = Larger(@, d)]

Rate(s, v) == IF Numeric(v) THEN [s EXCEPT !.rate = getFloat(v)]
              ELSE [s EXCEPT !.raised = TRUE]

Line(s, l) ==
  IF s.raised THEN s
  ELSE IF l = End THEN [Start EXCEPT !.rows = Append(s.rows, processRow(s.val))]
  ELSE LET t == CASE l[1] = "dur"  -> Dur(s, l[2])
                  [] l[1] = "rate" -> Rate(s, l[2])
                  [] OTHER -> s
       IN  IF t.raised THEN t ELSE Field(t, l[1], l[2])

(* What `processExp.py -a --rfile=...' appends to exp.csv: nothing if it   *)
(* ends in an exception, as the rows are written last.                     *)
RowsOf(lines) ==
  LET s == FoldLeft(Line, Start, lines) IN IF s.raised THEN <<>> ELSE s.rows

-----------------------------------------------------------------------------
(* processExp() of netesto.py.  `files' are without their last line, which *)
(* has no key.                                                             *)

(* 1.2 is group 2 of experiment 1, the row of all groups is 1.0.           *)
Whole0(l) == IF l[1] = "exp" THEN <<"exp", <<"group", 0>>>> ELSE l

Counted(files, key) ==
  FoldLeft(LAMBDA x, l : IF l[1] = key THEN Plus(x, Val(l[2])) ELSE x,
           Number(0), FlattenSeq(files))

retransPkts(files) ==
  LET x == Over(Times(Number(100), Counted(files, "retrans_total")),
                Plus(Counted(files, "client-tx-packets"), Number(1)))
  IN  <<"retransPkts%", Dec(x)>>

AllOut(files) ==
  LET all == FlattenSeq(files)
  IN  [i \in DOMAIN all |-> Whole0(all[i])] \o <<retransPkts(files), End>>

(* float() of a counter that was not found ends the controller.            *)
Uncounted(files) ==
  \E l \in ToSet(FlattenSeq(files)) :
    l[1] \in {"client-tx-packets", "retrans_total"} /\ ~isFloat(l[2])

processExp(files) ==
  IF Uncounted(files) THEN <<>>
  ELSE (IF Len(files) >= 1 THEN RowsOf(AllOut(files)) ELSE <<>>)
       \o (IF Len(files) = 1 THEN <<>>
           ELSE FlattenSeq([i \in DOMAIN files |-> RowsOf(Append(files[i], End))]))

-----------------------------------------------------------------------------
(* The reference: what the words of fields.txt mean, field by field.       *)

Values(lines, f) ==
  LET ls == SelectSeq(lines, LAMBDA l :
              l[1] = f /\ (l[2] # Empty \/ fieldOpDict[f] = "one"))
  IN  [i \in DOMAIN ls |-> ls[i][2]]

Total(xs) == FoldLeft(Plus, Number(0), xs)
Numbers(vs) == [i \in DOMAIN vs |-> getFloat(vs[i])]
Most(xs, Below(_, _)) ==
  CHOOSE x \in ToSet(xs) : \A y \in ToSet(xs) : ~Below(x, y)
Firsts(vs) ==
  LET new == {i \in DOMAIN vs : \A j \in 1 .. i - 1 : vs[j] # vs[i]}
      is  == SetToSortSeq(new, <)
  IN  [i \in DOMAIN is |-> vs[is[i]]]

MeantField(lines, f) ==
  LET vs == Values(lines, f)
      xs == Numbers(vs)
      ds == Numbers(Values(lines, "dur"))
  IN  CASE vs = <<>> -> None
        [] vs # <<>> /\ fieldOpDict[f] = "all" -> Firsts(vs)
        [] vs # <<>> /\ fieldOpDict[f] = "one" ->
             <<vs[1], IF \A v \in ToSet(vs) : v = vs[1] THEN "only" ELSE "others">>
        [] vs # <<>> /\ fieldOpDict[f] = "sum" -> Total(xs)
        [] vs # <<>> /\ fieldOpDict[f] = "avg" -> Over(Total(xs), Number(Len(xs)))
        [] vs # <<>> /\ fieldOpDict[f] = "max" -> Most(xs, Less)
        [] vs # <<>> /\ fieldOpDict[f] = "min" -> Most(xs, LAMBDA x, y : Less(y, x))
        [] vs # <<>> /\ fieldOpDict[f] = "sumRateDur" ->
             Over(Total([i \in DOMAIN xs |-> Times(xs[i], ds[i])]), Most(ds, Less))

Meant(lines) == [f \in DOMAIN fieldOpDict |-> MeantField(lines, f)]

(* Each rate follows its dur, at most one of the values compared by size   *)
(* has a suffix and is the first, what is to be a number is one, and no    *)
(* value of a list is at the end of one before it.                         *)
Good(lines) ==
  LET flow == SelectSeq(lines, LAMBDA l : l[1] \in {"dur", "rate"})
  IN  /\ Len(flow) % 2 = 0
      /\ \A i \in DOMAIN flow :
           /\ flow[i][1] = (IF i % 2 = 1 THEN "dur" ELSE "rate")
           /\ Numeric(flow[i][2])
      /\ \A f \in DOMAIN fieldOpDict : \A i \in DOMAIN Values(lines, f) :
           LET vs == Values(lines, f) IN
           CASE fieldOpDict[f] = "all" ->
                  \A j \in 1 .. i - 1 : vs[i] \in EndsIn[vs[j]] => vs[i] = vs[j]
             [] fieldOpDict[f] \in {"max", "min"} ->
                  Numeric(vs[i]) /\ (i = 1 \/ vs[i][1] # "scaled")
             [] fieldOpDict[f] = "one" -> TRUE
             [] OTHER -> Numeric(vs[i])

(* The first row stands for all groups, the others for one each, and a row *)
(* that cannot be made takes no other with it.                             *)
RowsAsMeant(files) ==
  LET rows == processExp(files)
      all  == AllOut(files)
      one  == {i \in DOMAIN files : Good(files[i])}
  IN  ~Uncounted(files) =>
        /\ Len(files) >= 1 /\ Good(Front(all)) =>
             rows # <<>> /\ rows[1] = Meant(Front(all))
        /\ Len(files) > 1 => \A i \in one : Meant(files[i]) \in ToSet(rows)
        /\ Len(files) = 1 => Len(rows) <= 1
        /\ one = DOMAIN files /\ Good(Front(all)) /\ Len(files) > 1 =>
             rows = <<Meant(Front(all))>> \o [i \in DOMAIN files |-> Meant(files[i])]
=============================================================================
