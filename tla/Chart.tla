------------------------------- MODULE Chart -------------------------------
(***************************************************************************)
(* gui/chart.c and xdraw_chart() of gui/xdraw.c: a ring of samples that a  *)
(* widget updates and draws each time it is drawn, and that a reload frees *)
(* and makes anew.  mutex_gui is held throughout (see Oxbar), so an update *)
(* is one step.                                                            *)
(*                                                                         *)
(* A sample's values are integers: the unit is as fine as an instance      *)
(* likes.  Heights are measured in the unit of the values, so that a       *)
(* column is Full high and no division is needed: the code's               *)
(* value / 100 * chart_height and value / max * chart_height are value.    *)
(***************************************************************************)
EXTENDS Integers

CONSTANTS NSamples,   \* nsamples, 60 in every widget
          NSeries,    \* nseries: 6 for a cpu, 3 for memory, 1 for net
          Percents,   \* percents
          Hundred,    \* 100% in the unit of the values
          Samples,    \* the data chart_update() may be given
          Slack       \* by how much the series of a sample may miss 100%

Index  == 0..(NSamples - 1)
Series == 0..(NSeries - 1)

\* The colours are kept in an array of nsamples strings (chart.c:60).
ASSUME ChartAssumption ==
  /\ NSamples \in Nat \ {0}
  /\ NSeries \in 1..NSamples
  /\ Percents \in BOOLEAN
  /\ Hundred \in Nat /\ Slack \in Nat
  /\ Samples \subseteq [Series -> Int]

VARIABLES values,   \* the samples, by index
          current,  \* the index of the last sample
          failed    \* chart_update() has called errx()

vars == <<values, current, failed>>

Zero == [j \in Series |-> 0]

chart_init ==
  /\ values = [i \in Index |-> Zero]
  /\ current = NSamples - 1

Init == chart_init /\ failed = FALSE

\* Mutants: the index is not kept; a negative value is let through.
chart_update_Stuck(data) ==
  LET cur == (current + 1) % NSamples IN
  /\ ~failed
  /\ \A j \in Series : data[j] >= 0
  /\ values' = [values EXCEPT ![cur] = data]
  /\ UNCHANGED <<current, failed>>

chart_update_Negative(data) ==
  LET cur == (current + 1) % NSamples IN
  /\ ~failed
  /\ values' = [values EXCEPT ![cur] = data]
  /\ current' = cur
  /\ UNCHANGED failed

chart_update(data) ==
  LET cur == (current + 1) % NSamples IN
  /\ ~failed
  /\ \A j \in Series : data[j] >= 0
  /\ values' = [values EXCEPT ![cur] = data]
  /\ current' = cur
  /\ UNCHANGED failed

\* A negative value ends the program; what was written of the sample by then
\* is seen by nobody.
chart_update_errx(data) ==
  /\ ~failed
  /\ \E j \in Series : data[j] < 0
  /\ failed' = TRUE
  /\ UNCHANGED <<values, current>>

\* A reload: chart_free() and then chart_init().
Renew ==
  /\ ~failed
  /\ values' = [i \in Index |-> Zero]
  /\ current' = NSamples - 1
  /\ UNCHANGED failed

Next == (\E data \in Samples : chart_update(data) \/ chart_update_errx(data)) \/ Renew

Spec == Init /\ [][Next]_vars

-----------------------------------------------------------------------------
(* chart_get_minmax(): both loops, each value against the extremes so far.  *)

Cell(k) == values[k \div NSeries][k % NSeries]

Scan(k, so_far) ==
  [max |-> IF Cell(k) > so_far.max THEN Cell(k) ELSE so_far.max,
   min |-> IF Cell(k) < so_far.min THEN Cell(k) ELSE so_far.min]

\* Mutants: the extremes start from 0; only the last sample is looked at.
chart_get_minmax_FromZero ==
  LET scan[k \in 0..(NSamples * NSeries)] ==
        IF k = 0 THEN [min |-> 0, max |-> 0] ELSE Scan(k - 1, scan[k - 1])
  IN  scan[NSamples * NSeries]

chart_get_minmax_Last ==
  [min |-> values[current][0], max |-> values[current][0]]

chart_get_minmax ==
  LET scan[k \in 0..(NSamples * NSeries)] ==
        IF k = 0 THEN [min |-> Cell(0), max |-> Cell(0)] ELSE Scan(k - 1, scan[k - 1])
  IN  scan[NSamples * NSeries]

-----------------------------------------------------------------------------
(* xdraw_chart()                                                            *)

Wrap(i) == IF i >= NSamples THEN 0 ELSE i

\* Mutant: the array is drawn as if it were not a ring.
Walk_NoRing == [count \in Index |-> count]

\* The index of the sample in each column.
Walk ==
  LET walk[count \in Index] ==
        IF count = 0 THEN Wrap(current + 1) ELSE Wrap(walk[count - 1] + 1)
  IN  walk

Full == IF Percents THEN Hundred ELSE chart_get_minmax.max

\* The top of the bar of series j, measured from the top of the chart down.
YTop(j, height, y_bottom) ==
  IF y_bottom - height < 0 \/ (Percents /\ j = NSeries - 1) THEN 0 ELSE y_bottom - height

\* Mutant: every bar stands on the ground.
YBottom_Ground(data) == [j \in 0..NSeries |-> Full]

\* Where the bar of each series of a sample stands: on the one before it.
YBottom(data) ==
  LET y[j \in 0..NSeries] ==
        IF j = 0 THEN Full
        ELSE IF data[j - 1] = 0 THEN y[j - 1]
        ELSE YTop(j - 1, data[j - 1], y[j - 1])
  IN  y

\* The rectangles drawn in a column.
Bars(data) ==
  {[series |-> j,
    top    |-> YTop(j, data[j], YBottom(data)[j]),
    bottom |-> YTop(j, data[j], YBottom(data)[j]) + data[j],
    stands |-> YBottom(data)[j]] : j \in {k \in Series : data[k] # 0}}

-----------------------------------------------------------------------------
(* Properties.                                                              *)

TypeOK ==
  /\ values \in [Index -> [Series -> Nat]]
  /\ current \in Index
  /\ failed \in BOOLEAN

\* The samples from the oldest to the newest.
Window ==
  [k \in 1..NSamples |->
     values[IF current + k < NSamples THEN current + k ELSE current + k - NSamples]]

History == INSTANCE ChartHistory
  WITH N <- NSamples, Sample <- Samples, window <- Window, ended <- failed

\* However often the ring has wrapped, and whenever it was renewed, it is a
\* window on the last nsamples samples that moves by one with each update.
ImplementsHistory == History!HistorySpec

\* xdraw_chart() walks the ring from the oldest sample to the newest and leaves
\* none out, wherever the newest one is.
DrawnOldestFirst == \A count \in Index : values[Walk[count]] = Window[count + 1]

\* chart_get_minmax() finds the extremes of all samples and all series.
ScaleIsRight ==
  LET all == {values[i][j] : i \in Index, j \in Series} IN
  /\ chart_get_minmax.min \in all /\ chart_get_minmax.max \in all
  /\ \A v \in all : chart_get_minmax.min <= v /\ v <= chart_get_minmax.max

\* No bar leaves the chart at the top, or at the bottom by more than what its
\* sample's series miss 100% by, whatever is in the window it is scaled by (a bar
\* that is moved down from the top, or up to it, keeps its height).
BarsStayInChart ==
  \A i \in Index : \A b \in Bars(values[i]) : b.top >= 0 /\ b.bottom <= Full + Slack

\* What a widget that shows percents gives its chart: no series is more than 100%, but
\* for what is rounded.
PercentChart ==
  Percents /\ \A data \in Samples : \A j \in Series : data[j] <= Hundred + Slack

\* Whether the series of a sample sum to 100%, as chart.h:26 asks for.
Whole(data) ==
  LET sum[j \in 0..NSeries] == IF j = 0 THEN 0 ELSE sum[j - 1] + data[j - 1]
  IN  Hundred - Slack <= sum[NSeries] /\ sum[NSeries] <= Hundred + Slack

\* Bars are stacked: a bar ends where the one beneath it begins, but for what
\* the sample's series miss 100% by, so that none hides another and there is no gap.
BarsAreStacked ==
  \A i \in Index : Whole(values[i]) =>
    \A b \in Bars(values[i]) : b.bottom - b.stands <= Slack /\ b.stands - b.bottom <= Slack

\* A percent chart fits: no bar leaves it and none hides another, though the series of a
\* sample, ticks of a cpu or pages of memory, never sum to exactly 100%.
BarsFit == BarsStayInChart /\ BarsAreStacked
=============================================================================
