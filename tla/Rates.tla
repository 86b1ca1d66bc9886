------------------------------- MODULE Rates -------------------------------
(***************************************************************************)
(* The goodput plot of plotNetperfRates.py: each file of netperf has its   *)
(* rate over intervals, processFile() makes of them a list of points, and  *)
(* addGraphs() merges the lists of all flows to one of their sum.  Times   *)
(* are integers, Tick of them the 0.01 of the code.                        *)
(***************************************************************************)
EXTENDS Integers, SequencesExt

CONSTANT Tick

(* An interim result: its length, when it ended, and its rate.             *)
Interim(len, end, rate) == [len |-> len, end |-> end, rate |-> rate]

(* Two points for each, the first never before the end of the last one.    *)
processFile(results) ==
  FoldLeft(LAMBDA p, r :
      [x |-> p.x \o <<IF r.end - r.len > p.last THEN r.end - r.len
                      ELSE p.last + Tick, r.end>>,
       y |-> p.y \o <<r.rate, r.rate>>,
       last |-> r.end],
    [x |-> <<>>, y |-> <<>>, last |-> 0], results)

(* Files without results are left out, the first time becomes 0.           *)
Graphs(files) ==
  LET all   == [i \in DOMAIN files |-> processFile(files[i])]
      used  == SelectSeq(all, LAMBDA g : g.x # <<>>)
      first == Min(UNION {ToSet(g.x) : g \in ToSet(used)})
  IN  [i \in DOMAIN used |->
         [x |-> [j \in DOMAIN used[i].x |-> used[i].x[j] - first], y |-> used[i].y]]

-----------------------------------------------------------------------------
(* addGraphs().  The sum `g' so far and the next list `h' are walked at    *)
(* once; i and j are the points ahead, 0 before the first of the list that *)
(* starts later is reached, where the list counts as 0.                    *)

At(i) == IF i = 0 THEN 1 ELSE i
(* Mutant of Y: a list counts before its first point is reached.           *)
YEarly(g, i) == g.y[At(i)]

Y(g, i) == IF i = 0 THEN 0 ELSE g.y[i]

Point(out, x, y) == [x |-> Append(out.x, x), y |-> Append(out.y, y)]
(* Of a list that was not reached, the index -1 is its last point.         *)
From(g, i) ==
  LET rest == [x |-> SubSeq(g.x, At(i), Len(g.x)), y |-> SubSeq(g.y, At(i), Len(g.y))]
  IN  IF i # 0 THEN rest
      ELSE [x |-> <<Last(g.x)>> \o rest.x, y |-> <<Last(g.y)>> \o rest.y]
Then(out, g) == [x |-> out.x \o g.x, y |-> out.y \o g.y]

(* One round of the loop; it is over when one of the lists is.             *)
Step(s, g, h) ==
  LET x   == g.x[At(s.i)]
      z   == h.x[At(s.j)]
      out == Point(s.out, IF z > x THEN x ELSE z, Y(g, s.i) + Y(h, s.j))
      i   == IF z >= x THEN s.i + 1 ELSE s.i
      j   == IF z <= x THEN s.j + 1 ELSE s.j
  IN  IF s.over THEN s
      ELSE IF j > Len(h.x) THEN [s EXCEPT !.out = Then(out, From(g, i)), !.over = TRUE]
      ELSE IF i > Len(g.x) THEN [s EXCEPT !.out = Then(out, From(h, j)), !.over = TRUE]
      ELSE [s EXCEPT !.out = out, !.i = i, !.j = j]

Merge(g, h) ==
  FoldLeft(LAMBDA s, n : Step(s, g, h),
    [i |-> IF h.x[1] < g.x[1] THEN 0 ELSE 1, j |-> IF h.x[1] > g.x[1] THEN 0 ELSE 1,
     out |-> [x |-> <<>>, y |-> <<>>], over |-> FALSE],
    [n \in 1 .. Len(g.x) + Len(h.x) + 2 |-> n]).out

(* There is no sum of one flow, nor of lists that do not advance.          *)
addGraphs(graphs) ==
  LET advance == FoldLeft(LAMBDA d, g : d + g.x[Len(g.x)] - g.x[1], 0, graphs)
  IN  IF Len(graphs) <= 1 \/ advance = 0 THEN <<>>
      ELSE <<FoldLeft(Merge, graphs[1], Tail(graphs))>>

-----------------------------------------------------------------------------
(* The reference: a flow has, between two of its points, the rate of the   *)
(* second, and 0 outside of its first and last.                            *)
Ahead(g, x) ==
  IF x < g.x[1] \/ x > g.x[Len(g.x)] THEN 0
  ELSE g.y[Min({i \in DOMAIN g.x : g.x[i] >= x})]

SumAhead(graphs, x) == FoldLeft(LAMBDA s, g : s + Ahead(g, x), 0, graphs)

Ordered(g) == \A i, j \in DOMAIN g.x : i < j => g.x[i] < g.x[j]

(* A flow that has ended before all the flows before it began, or the      *)
(* reverse, leaves a point out of order.                                   *)
Overlapping(graphs) ==
  \A k \in 2 .. Len(graphs) :
    LET before == 1 .. k - 1 IN
    /\ \E i \in before : Last(graphs[i].x) >= graphs[k].x[1]
    /\ \E i \in before : graphs[i].x[1] <= Last(graphs[k].x)

(* The curve of the sum has the times of all flows in order, and rises or  *)
(* falls to the sum of the rates that the flows have up to each of them;   *)
(* where a flow begins, it may begin with or without it.                   *)
SumsRates(files) ==
  LET graphs == Graphs(files)
      sum    == addGraphs(graphs)[1]
      Starts(x) == {i \in DOMAIN graphs : graphs[i].x[1] = x}
      First(x)  == CHOOSE i \in DOMAIN sum.x :
                     sum.x[i] = x /\ \A j \in 1 .. i - 1 : sum.x[j] # x
  IN  addGraphs(graphs) # <<>> /\ Overlapping(graphs)
        /\ (\A g \in ToSet(graphs) : Ordered(g)) =>
        /\ ToSet(sum.x) = UNION {ToSet(g.x) : g \in ToSet(graphs)}
        /\ \A i \in 1 .. Len(sum.x) - 1 : sum.x[i] <= sum.x[i + 1]
        /\ \A x \in ToSet(sum.x) : \E S \in SUBSET Starts(x) :
             sum.y[First(x)] = SumAhead(graphs, x)
               - FoldSet(LAMBDA i, s : s + graphs[i].y[1], 0, S)
=============================================================================
