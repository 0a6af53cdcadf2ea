---------------------------- MODULE ChartProofs ----------------------------
(***************************************************************************)
(* Proofs about Chart, for every number of samples, of series and every    *)
(* set of data.                                                            *)
(***************************************************************************)
EXTENDS Chart, WellFoundedInduction, TLAPS

\* The step of a ring's index, (current + 1) % nsamples in chart_update().
LEMMA RingStep ==
  ASSUME NEW n \in Nat \ {0}, NEW x \in 0..(n - 1)
  PROVE  (x + 1) % n = IF x + 1 < n THEN x + 1 ELSE 0
  OBVIOUS

LEMMA TypeInitially == Init => TypeOK
<1> USE ChartAssumption DEF ChartAssumption
<1> SUFFICES ASSUME Init PROVE TypeOK
  OBVIOUS
<1>1. Zero \in [Series -> Nat]
  BY DEF Zero
<1>2. values \in [Index -> [Series -> Nat]]
  BY <1>1 DEF Init, chart_init
<1>3. current \in Index
  BY DEF Init, chart_init, Index
<1> QED
  BY <1>2, <1>3 DEF Init, TypeOK

LEMMA TypeKept == TypeOK /\ [Next]_vars => TypeOK'
<1> USE ChartAssumption DEF ChartAssumption
<1> SUFFICES ASSUME TypeOK, [Next]_vars PROVE TypeOK'
  OBVIOUS
<1>1. ASSUME NEW data \in Samples, chart_update(data) PROVE TypeOK'
  <2>1. data \in [Series -> Nat]
    BY <1>1 DEF chart_update
  <2>2. (current + 1) % NSamples \in Index
    BY RingStep DEF TypeOK, Index
  <2> QED
    BY <1>1, <2>1, <2>2 DEF chart_update, TypeOK
<1>2. ASSUME NEW data \in Samples, chart_update_errx(data) PROVE TypeOK'
  BY <1>2 DEF chart_update_errx, TypeOK
<1>3. CASE Renew
  BY <1>3 DEF Renew, TypeOK, Index, Zero
<1>4. CASE UNCHANGED vars
  BY <1>4 DEF vars, TypeOK
<1> QED
  BY <1>1, <1>2, <1>3, <1>4 DEF Next

\* The type invariant of the chart: what chart_update() lets in is never
\* negative and the index stays in the ring.
THEOREM TypeCorrect == Spec => []TypeOK
BY TypeInitially, TypeKept, PTL DEF Spec

-----------------------------------------------------------------------------
(* The ring implements the sliding window of ChartHistory.                  *)

\* An update moves the window by one: every sample moves one place to the left,
\* the oldest is gone and the new one is the last, wherever in the ring it is
\* (chart_update(), chart.c:86-96).
LEMMA UpdateMoves ==
  ASSUME TypeOK, NEW data \in Samples, chart_update(data)
  PROVE  Window' = [i \in 1..NSamples |-> IF i = NSamples THEN data ELSE Window[i + 1]]
<1> USE ChartAssumption DEF ChartAssumption
<1> DEFINE at(c, k) == IF c + k < NSamples THEN c + k ELSE c + k - NSamples
           cur == IF current + 1 < NSamples THEN current + 1 ELSE 0
<1>1. current \in Index /\ current' = cur /\ cur \in Index
  <2>1. current \in 0..(NSamples - 1) /\ cur \in 0..(NSamples - 1)
    BY DEF TypeOK, Index
  <2>2. (current + 1) % NSamples = cur
    BY <2>1, RingStep
  <2> QED
    BY <2>1, <2>2 DEF Index, chart_update
<1>2. values' = [values EXCEPT ![cur] = data] /\ values \in [Index -> [Series -> Nat]]
  BY RingStep DEF TypeOK, Index, chart_update
<1>3. ASSUME NEW k \in 1..NSamples
      PROVE  Window'[k] = IF k = NSamples THEN data ELSE Window[k + 1]
  <2>1. Window'[k] = values'[at(cur, k)]
    BY <1>1 DEF Window
  <2>2. CASE k = NSamples
    <3>1. at(cur, k) = cur
      BY <1>1, <2>2 DEF Index
    <3> QED
      BY <1>1, <1>2, <2>1, <2>2, <3>1
  <2>3. CASE k # NSamples
    <3>1. Window[k + 1] = values[at(current, k + 1)]
      BY <1>1, <2>3 DEF Window
    <3>2. at(cur, k) = at(current, k + 1) /\ at(cur, k) # cur /\ at(cur, k) \in Index
      BY <1>1, <2>3 DEF Index
    <3> HIDE DEF at, cur
    <3> QED
      BY <1>1, <1>2, <2>1, <2>3, <3>1, <3>2
  <2> QED
    BY <2>2, <2>3
<1> QED
  BY <1>3 DEF Window

\* A chart that was just made shows nothing but zeros (chart.c:53-55).
LEMMA BlankWindow ==
  ASSUME values = [i \in Index |-> Zero], current = NSamples - 1
  PROVE  Window = History!Blank
<1> USE ChartAssumption DEF ChartAssumption
<1>1. ASSUME NEW k \in 1..NSamples PROVE Window[k] = Zero
  BY DEF Window, Index
<1> QED
  BY <1>1 DEF Window, History!Blank

\* What a chart promises its reader, whatever nsamples is and however often the
\* ring has wrapped: it shows the last nsamples samples, oldest first.
THEOREM Refinement == Spec => ImplementsHistory
<1> USE ChartAssumption DEF ChartAssumption
<1>1. Init => History!HistoryInit
  BY BlankWindow DEF Init, chart_init, History!HistoryInit
<1>2. ASSUME TypeOK, [Next]_vars
      PROVE  [History!HistoryNext]_<<Window, failed>>
  <2>1. ASSUME NEW data \in Samples, chart_update(data) PROVE History!HistoryNext
    <3>1. ~failed /\ UNCHANGED failed
      BY <2>1 DEF chart_update
    <3>2. History!Push(data)
      BY <1>2, <2>1, <3>1, UpdateMoves DEF History!Push
    <3> QED
      BY <3>2 DEF History!HistoryNext
  <2>2. ASSUME NEW data \in Samples, chart_update_errx(data) PROVE History!HistoryNext
    BY <2>2 DEF chart_update_errx, History!HistoryNext, History!Refuse, Window
  <2>3. CASE Renew
    <3>1. ASSUME NEW k \in 1..NSamples PROVE Window'[k] = Zero
      BY <2>3 DEF Renew, Window, Index
    <3>2. Window' = History!Blank
      BY <3>1 DEF Window, History!Blank
    <3> QED
      BY <2>3, <3>2 DEF Renew, History!HistoryNext, History!Clear
  <2>4. CASE UNCHANGED vars
    BY <2>4 DEF vars, Window
  <2> QED
    BY <1>2, <2>1, <2>2, <2>3, <2>4 DEF Next
<1> QED
  BY <1>1, <1>2, TypeCorrect, PTL DEF Spec, ImplementsHistory, History!HistorySpec

-----------------------------------------------------------------------------
(* Induction, and definitions by recursion.                                 *)

\* A set of numbers that has 0 and with each number the next has them all.
LEMMA Induction ==
  ASSUME NEW T, 0 \in T, \A n \in Nat : n \in T => n + 1 \in T
  PROVE  Nat \subseteq T
<1> DEFINE R == OpToRel(<, Nat)
<1> SUFFICES ASSUME Nat \ T # {} PROVE FALSE
  OBVIOUS
<1>1. PICK x \in Nat \ T : \A y \in Nat \ T : <<y, x>> \notin R
  <2>1. IsWellFoundedOn(R, Nat)
    BY NatLessThanWellFounded, Zenon
  <2>2. Nat \ T \subseteq Nat
    OBVIOUS
  <2> HIDE DEF R
  <2> QED
    BY <2>1, <2>2, WFMin, Zenon
<1>2. x - 1 \in Nat \ T
  <2>1. x # 0 /\ x - 1 \in Nat /\ (x - 1) + 1 = x
    OBVIOUS
  <2> QED
    BY <2>1
<1>3. <<x - 1, x>> \in R
  BY <1>2 DEF OpToRel
<1> QED
  BY <1>1, <1>2, <1>3

\* A rule of how to go on from first, N times, in V; and a function that goes by it.
Rule(N, V, first, step) == N \in Nat /\ first \in V /\ step \in [1..N -> [V -> V]]

GoesBy(f, N, V, first, step) ==
  /\ f \in [0..N -> V]
  /\ f[0] = first
  /\ \A n \in 1..N : f[n] = step[n][f[n - 1]]

\* For every rule there is a function that goes by it: a recursive definition defines
\* something.
LEMMA Recursion ==
  ASSUME NEW N, NEW V, NEW first, NEW step, Rule(N, V, first, step)
  PROVE  \E f : GoesBy(f, N, V, first, step)
<1> USE DEF Rule
<1> DEFINE Good(f, m) ==
             \A n \in 0..m : f[n] = IF n = 0 THEN first ELSE step[n][f[n - 1]]
           T == {m \in Nat : m <= N => \E f \in [0..m -> V] : Good(f, m)}
<1>1. 0 \in T
  <2>1. [n \in 0..0 |-> first] \in [0..0 -> V] /\ Good([n \in 0..0 |-> first], 0)
    OBVIOUS
  <2> QED
    BY <2>1
<1>2. ASSUME NEW m \in Nat, m \in T PROVE m + 1 \in T
  <2>1. ASSUME m + 1 <= N PROVE \E f \in [0..(m + 1) -> V] : Good(f, m + 1)
    <3>1. PICK f \in [0..m -> V] : Good(f, m)
      BY <1>2, <2>1
    <3> DEFINE g == [n \in 0..(m + 1) |-> IF n = m + 1 THEN step[m + 1][f[m]] ELSE f[n]]
    <3>2. m + 1 \in 1..N /\ f[m] \in V
      BY <2>1
    <3>3. step[m + 1][f[m]] \in V
      BY <3>2
    <3>4. g \in [0..(m + 1) -> V]
      BY <3>3
    <3>5. ASSUME NEW n \in 0..(m + 1)
          PROVE  g[n] = IF n = 0 THEN first ELSE step[n][g[n - 1]]
      <4>1. CASE n = m + 1
        <5>1. g[n - 1] = f[m] /\ n # 0
          BY <4>1
        <5> QED
          BY <4>1, <5>1
      <4>2. CASE n \in 0..m
        <5>1. g[n] = f[n] /\ (n # 0 => g[n - 1] = f[n - 1])
          BY <4>2
        <5>2. f[n] = IF n = 0 THEN first ELSE step[n][f[n - 1]]
          BY <3>1, <4>2
        <5> QED
          BY <5>1, <5>2
      <4> QED
        BY <4>1, <4>2
    <3> HIDE DEF g
    <3>6. Good(g, m + 1)
      BY <3>5
    <3> QED
      BY <3>4, <3>6
  <2> QED
    BY <2>1
<1>3. N \in T
  <2> HIDE DEF T
  <2> QED
    BY <1>1, <1>2, Induction
<1>4. PICK f \in [0..N -> V] : Good(f, N)
  BY <1>3
<1> QED
  BY <1>4 DEF GoesBy

\* Rows of m cells: cell k is in row k \div m, and all cells of n rows are counted.
LEMMA Rows ==
  ASSUME NEW n \in Nat \ {0}, NEW m \in Nat \ {0}
  PROVE  /\ n * m \in Nat \ {0}
         /\ \A k \in 0..(n * m - 1) : k \div m \in 0..(n - 1) /\ k % m \in 0..(m - 1)
         /\ \A i \in 0..(n - 1), j \in 0..(m - 1) :
              /\ i * m + j \in 0..(n * m - 1)
              /\ (i * m + j) \div m = i /\ (i * m + j) % m = j
<1>1. n * m \in Nat \ {0}
  OBVIOUS
<1>2. ASSUME NEW k \in 0..(n * m - 1)
      PROVE  k \div m \in 0..(n - 1) /\ k % m \in 0..(m - 1)
  <2>0. k \in Nat /\ k < n * m
    BY <1>1
  <2>1. k % m \in 0..(m - 1) /\ k \div m \in Int /\ k = (m * (k \div m)) + (k % m)
    BY <2>0
  <2>2. ASSUME k \div m < 0 PROVE FALSE
    <3>1. m * (k \div m) <= m * (-1)
      BY <2>1, <2>2
    <3> QED
      BY <2>0, <2>1, <3>1
  <2>3. ASSUME k \div m >= n PROVE FALSE
    <3>1. m * (k \div m) >= m * n
      BY <2>1, <2>3
    <3> QED
      BY <2>0, <2>1, <3>1
  <2> QED
    BY <2>1, <2>2, <2>3
<1>3. ASSUME NEW i \in 0..(n - 1), NEW j \in 0..(m - 1)
      PROVE  /\ i * m + j \in 0..(n * m - 1)
             /\ (i * m + j) \div m = i /\ (i * m + j) % m = j
  <2>0. i \in Nat /\ j \in Nat /\ i <= n - 1 /\ j <= m - 1 /\ i * m \in Nat
    OBVIOUS
  <2>1. i * m <= (n - 1) * m /\ (n - 1) * m = n * m - m
    BY <2>0
  <2>2. i * m + j \in 0..(n * m - 1)
    BY <2>0, <2>1, <1>1
  <2>3. (i * m + j) \div m = i /\ (i * m + j) % m = j
    BY <2>0
  <2> QED
    BY <2>2, <2>3
<1> QED
  BY <1>1, <1>2, <1>3

-----------------------------------------------------------------------------
(* The walk of xdraw_chart().                                               *)

\* Walk satisfies the equation it is defined by.
LEMMA WalkUnfolds ==
  ASSUME TypeOK
  PROVE  Walk = [count \in Index |->
                   IF count = 0 THEN Wrap(current + 1) ELSE Wrap(Walk[count - 1] + 1)]
<1> USE ChartAssumption DEF ChartAssumption
<1> DEFINE N     == NSamples - 1
           first == Wrap(current + 1)
           step  == [n \in 1..N |-> [v \in Index |-> Wrap(v + 1)]]
<1>1. \A v \in Index : Wrap(v + 1) \in Index
  BY DEF Wrap, Index
<1>2. N \in Nat /\ first \in Index /\ step \in [1..N -> [Index -> Index]]
  BY <1>1 DEF TypeOK
<1>3. PICK f : GoesBy(f, N, Index, first, step)
  <2>1. Rule(N, Index, first, step)
    BY <1>2 DEF Rule
  <2> HIDE DEF N, first, step
  <2> QED
    BY <2>1, Recursion
<1>4. \A n \in 0..N : n # 0 => n \in 1..N /\ f[n - 1] \in Index
  BY <1>3 DEF GoesBy
<1>5. f = [n \in Index |-> IF n = 0 THEN Wrap(current + 1) ELSE Wrap(f[n - 1] + 1)]
  BY <1>3, <1>4 DEF Index, GoesBy
<1>6. \E g : g = [n \in Index |-> IF n = 0 THEN Wrap(current + 1) ELSE Wrap(g[n - 1] + 1)]
  BY <1>5
<1> QED
  BY <1>6 DEF Walk

\* Column by column the walk is at the sample of that age, on either side of the end
\* of the array.
LEMMA WalkIs ==
  ASSUME TypeOK, NEW count \in Index
  PROVE  Walk[count] = IF current + count + 1 < NSamples THEN current + count + 1
                       ELSE current + count + 1 - NSamples
<1> USE ChartAssumption DEF ChartAssumption
<1> DEFINE at(n) == IF current + n + 1 < NSamples THEN current + n + 1
                    ELSE current + n + 1 - NSamples
           T == {n \in Nat : n \in Index => Walk[n] = at(n)}
<1>0. current \in 0..(NSamples - 1)
  BY DEF TypeOK, Index
<1>1. 0 \in T
  <2>1. 0 \in Index /\ Wrap(current + 1) = at(0)
    BY <1>0 DEF Index, Wrap
  <2>2. Walk[0] = Wrap(current + 1)
    BY <2>1, WalkUnfolds
  <2> QED
    BY <2>1, <2>2
<1>2. ASSUME NEW n \in Nat, n \in T PROVE n + 1 \in T
  <2>1. ASSUME n + 1 \in Index PROVE Walk[n + 1] = at(n + 1)
    <3>1. n \in Index /\ n + 1 # 0 /\ (n + 1) - 1 = n
      BY <2>1 DEF Index
    <3>2. Walk[n + 1] = Wrap(Walk[n] + 1)
      BY <2>1, <3>1, WalkUnfolds
    <3>3. Walk[n] = at(n)
      BY <1>2, <3>1
    <3> QED
      BY <1>0, <2>1, <3>2, <3>3 DEF Index, Wrap
  <2> QED
    BY <2>1
<1>3. count \in Nat /\ Nat \subseteq T
  <2>1. count \in Nat
    BY DEF Index
  <2> HIDE DEF T
  <2> QED
    BY <1>1, <1>2, <2>1, Induction
<1> QED
  BY <1>3

\* xdraw_chart() draws the samples from the oldest to the newest and leaves none out,
\* for every nsamples and wherever in the ring the newest is.
THEOREM OldestFirst == Spec => []DrawnOldestFirst
<1>1. TypeOK => DrawnOldestFirst
  <2> USE ChartAssumption DEF ChartAssumption
  <2> SUFFICES ASSUME TypeOK, NEW count \in Index
               PROVE  values[Walk[count]] = Window[count + 1]
    BY DEF DrawnOldestFirst
  <2>1. count + 1 \in 1..NSamples /\ current \in Int /\ count \in Int
    BY DEF Index, TypeOK
  <2>2. Window[count + 1] = values[IF current + (count + 1) < NSamples THEN current + (count + 1)
                                   ELSE current + (count + 1) - NSamples]
    BY <2>1 DEF Window
  <2>3. Walk[count] = IF current + count + 1 < NSamples THEN current + count + 1
                      ELSE current + count + 1 - NSamples
    BY WalkIs
  <2> QED
    BY <2>1, <2>2, <2>3
<1> QED
  BY <1>1, TypeCorrect, PTL

-----------------------------------------------------------------------------
(* chart_get_minmax().                                                      *)

Extremes == [max : Nat, min : Nat]

\* The two loops satisfy the equation they are defined by.
LEMMA ScanUnfolds ==
  ASSUME TypeOK
  PROVE  \E scan :
           /\ scan = [k \in 0..(NSamples * NSeries) |->
                IF k = 0 THEN [min |-> Cell(0), max |-> Cell(0)] ELSE Scan(k - 1, scan[k - 1])]
           /\ chart_get_minmax = scan[NSamples * NSeries]
<1> USE ChartAssumption DEF ChartAssumption
<1> DEFINE N     == NSamples * NSeries
           first == [min |-> Cell(0), max |-> Cell(0)]
           step  == [n \in 1..N |-> [v \in Extremes |-> Scan(n - 1, v)]]
<1>1. N \in Nat \ {0} /\ \A k \in 0..(N - 1) : Cell(k) \in Nat
  <2>1. NSamples \in Nat \ {0} /\ NSeries \in Nat \ {0}
    OBVIOUS
  <2>2. N \in Nat \ {0} /\ \A k \in 0..(N - 1) : k \div NSeries \in Index /\ k % NSeries \in Series
    BY <2>1, Rows DEF Index, Series
  <2> QED
    BY <2>2 DEF Cell, TypeOK
<1>0. N \in Nat
  BY <1>1
<1>2. first \in Extremes
  BY <1>1 DEF Extremes
<1>3. step \in [1..N -> [Extremes -> Extremes]]
  <2>1. ASSUME NEW n \in 1..N, NEW v \in Extremes PROVE Scan(n - 1, v) \in Extremes
    <3>1. n - 1 \in 0..(N - 1)
      BY <1>1
    <3>2. Cell(n - 1) \in Nat
      BY <1>1, <3>1
    <3> QED
      BY <3>2 DEF Scan, Extremes
  <2> QED
    BY <2>1
<1>4. PICK f : GoesBy(f, N, Extremes, first, step)
  <2>1. Rule(N, Extremes, first, step)
    BY <1>0, <1>2, <1>3 DEF Rule
  <2> HIDE DEF N, first, step
  <2> QED
    BY <2>1, Recursion
<1>5. \A n \in 0..N : n # 0 => n \in 1..N /\ f[n - 1] \in Extremes
  BY <1>1, <1>4 DEF GoesBy
<1>6. f = [n \in 0..N |-> IF n = 0 THEN first ELSE Scan(n - 1, f[n - 1])]
  BY <1>4, <1>5 DEF GoesBy
<1> DEFINE g == CHOOSE x : x = [n \in 0..N |-> IF n = 0 THEN first ELSE Scan(n - 1, x[n - 1])]
<1>7. g = [n \in 0..N |-> IF n = 0 THEN first ELSE Scan(n - 1, g[n - 1])]
  BY <1>6
<1>8. chart_get_minmax = g[N]
  BY DEF chart_get_minmax
<1> QED
  BY <1>7, <1>8

\* After k cells the extremes are those of the cells looked at.
LEMMA ScanIs ==
  ASSUME TypeOK
  PROVE  LET cells == {Cell(k) : k \in 0..(NSamples * NSeries - 1)} IN
         /\ chart_get_minmax.min \in cells /\ chart_get_minmax.max \in cells
         /\ \A v \in cells : chart_get_minmax.min <= v /\ v <= chart_get_minmax.max
<1> USE ChartAssumption DEF ChartAssumption
<1> DEFINE N     == NSamples * NSeries
           cells == {Cell(k) : k \in 0..(N - 1)}
<1>1. N \in Nat \ {0} /\ \A k \in 0..(N - 1) : Cell(k) \in Nat
  <2>1. NSamples \in Nat \ {0} /\ NSeries \in Nat \ {0}
    OBVIOUS
  <2>2. N \in Nat \ {0} /\ \A k \in 0..(N - 1) : k \div NSeries \in Index /\ k % NSeries \in Series
    BY <2>1, Rows DEF Index, Series
  <2> QED
    BY <2>2 DEF Cell, TypeOK
<1>2. PICK scan :
        /\ scan = [k \in 0..N |->
             IF k = 0 THEN [min |-> Cell(0), max |-> Cell(0)] ELSE Scan(k - 1, scan[k - 1])]
        /\ chart_get_minmax = scan[N]
  BY ScanUnfolds
<1> HIDE DEF N
<1> DEFINE Upto(n) ==
             /\ scan[n].min \in cells /\ scan[n].max \in cells
             /\ \A k \in 0..(n - 1) : scan[n].min <= Cell(k) /\ Cell(k) <= scan[n].max
           T == {n \in Nat : n <= N => Upto(n)}
<1>3. 0 \in T
  <2>1. scan[0] = [min |-> Cell(0), max |-> Cell(0)] /\ Cell(0) \in cells
    BY <1>1, <1>2
  <2> QED
    BY <2>1
<1>4. ASSUME NEW n \in Nat, n \in T PROVE n + 1 \in T
  <2>1. ASSUME n + 1 <= N PROVE Upto(n + 1)
    <3>1. n \in 0..(N - 1) /\ Upto(n)
      BY <1>1, <1>4, <2>1
    <3>2. scan[n + 1] = Scan(n, scan[n])
      BY <1>1, <1>2, <3>1
    <3>3. Cell(n) \in cells /\ Cell(n) \in Nat /\ scan[n].min \in Nat /\ scan[n].max \in Nat
      BY <1>1, <3>1
    <3>4. scan[n + 1].min \in {Cell(n), scan[n].min} /\ scan[n + 1].max \in {Cell(n), scan[n].max}
      BY <3>2 DEF Scan
    <3>5. /\ scan[n + 1].min <= Cell(n) /\ Cell(n) <= scan[n + 1].max
          /\ scan[n + 1].min <= scan[n].min /\ scan[n].max <= scan[n + 1].max
      BY <3>2, <3>3 DEF Scan
    <3>6. ASSUME NEW k \in 0..((n + 1) - 1)
          PROVE  scan[n + 1].min <= Cell(k) /\ Cell(k) <= scan[n + 1].max
      <4>1. k = n \/ k \in 0..(n - 1)
        OBVIOUS
      <4>2. k \in 0..(N - 1)
        BY <1>1, <3>1
      <4>3. Cell(k) \in Nat
        BY <1>1, <4>2
      <4> QED
        BY <3>1, <3>3, <3>4, <3>5, <4>1, <4>3
    <3> QED
      BY <3>1, <3>3, <3>4, <3>6
  <2> QED
    BY <2>1
<1>5. N \in T
  <2> HIDE DEF T
  <2> QED
    BY <1>1, <1>3, <1>4, Induction
<1>6. Upto(N)
  BY <1>1, <1>5
<1> QED
  BY <1>2, <1>6 DEF N

\* The scale of a chart is that of all its samples and series, for every size of chart
\* (chart_get_minmax()).
THEOREM RightScale == Spec => []ScaleIsRight
<1>1. TypeOK => ScaleIsRight
  <2> USE ChartAssumption DEF ChartAssumption
  <2> SUFFICES ASSUME TypeOK PROVE ScaleIsRight
    OBVIOUS
  <2> DEFINE cells == {Cell(k) : k \in 0..(NSamples * NSeries - 1)}
             all   == {values[i][j] : i \in Index, j \in Series}
  <2>1. NSamples \in Nat \ {0} /\ NSeries \in Nat \ {0}
    OBVIOUS
  <2>2. cells \subseteq all
    <3> SUFFICES ASSUME NEW k \in 0..(NSamples * NSeries - 1) PROVE Cell(k) \in all
      OBVIOUS
    <3>1. k \div NSeries \in Index /\ k % NSeries \in Series
      BY <2>1, Rows DEF Index, Series
    <3> QED
      BY <3>1 DEF Cell
  <2>3. all \subseteq cells
    <3> SUFFICES ASSUME NEW i \in Index, NEW j \in Series PROVE values[i][j] \in cells
      OBVIOUS
    <3>1. /\ i * NSeries + j \in 0..(NSamples * NSeries - 1)
          /\ (i * NSeries + j) \div NSeries = i /\ (i * NSeries + j) % NSeries = j
      BY <2>1, Rows DEF Index, Series
    <3>2. Cell(i * NSeries + j) = values[i][j]
      BY <3>1 DEF Cell
    <3> QED
      BY <3>1, <3>2
  <2>4. /\ chart_get_minmax.min \in cells /\ chart_get_minmax.max \in cells
        /\ \A v \in cells : chart_get_minmax.min <= v /\ v <= chart_get_minmax.max
    BY ScanIs
  <2>5. /\ chart_get_minmax.min \in all /\ chart_get_minmax.max \in all
        /\ \A v \in all : chart_get_minmax.min <= v /\ v <= chart_get_minmax.max
    <3> HIDE DEF cells, all
    <3> QED
      BY <2>2, <2>3, <2>4
  <2> QED
    BY <2>5 DEF ScaleIsRight
<1> QED
  BY <1>1, TypeCorrect, PTL

-----------------------------------------------------------------------------
(* The bars of a sample.                                                    *)

LEMMA TopIs ==
  ASSUME NEW j, NEW height \in Nat, NEW y \in Nat
  PROVE  YTop(j, height, y) \in 0..y
BY DEF YTop

\* Where the bars stand satisfies the equation it is defined by, and is in the chart.
LEMMA BottomUnfolds ==
  ASSUME NEW data \in [Series -> Nat], Full \in Nat
  PROVE  /\ YBottom(data) \in [0..NSeries -> 0..Full]
         /\ YBottom(data) = [j \in 0..NSeries |->
              IF j = 0 THEN Full
              ELSE IF data[j - 1] = 0 THEN YBottom(data)[j - 1]
              ELSE YTop(j - 1, data[j - 1], YBottom(data)[j - 1])]
<1> USE ChartAssumption DEF ChartAssumption
<1> DEFINE N    == NSeries
           first == Full
           step == [n \in 1..N |-> [y \in Nat |->
                      IF data[n - 1] = 0 THEN y ELSE YTop(n - 1, data[n - 1], y)]]
<1>0. N \in Nat
  BY ChartAssumption DEF ChartAssumption
<1>1. first \in Nat
  OBVIOUS
<1>2. step \in [1..N -> [Nat -> Nat]]
  <2>1. ASSUME NEW n \in 1..NSeries, NEW y \in Nat
        PROVE  (IF data[n - 1] = 0 THEN y ELSE YTop(n - 1, data[n - 1], y)) \in Nat
    <3>1. data[n - 1] \in Nat /\ y \in Nat
      BY DEF Series
    <3>2. YTop(n - 1, data[n - 1], y) \in 0..y
      BY <3>1, TopIs
    <3> QED
      BY <3>2
  <2> QED
    BY <2>1
<1>3. PICK f : GoesBy(f, N, Nat, first, step)
  <2>1. Rule(N, Nat, first, step)
    BY <1>0, <1>1, <1>2 DEF Rule
  <2> HIDE DEF N, first, step
  <2> QED
    BY <2>1, Recursion
<1>4. \A n \in 0..NSeries : n # 0 => n \in 1..NSeries /\ f[n - 1] \in Nat
  BY <1>3 DEF GoesBy
<1>5. f = [j \in 0..NSeries |->
             IF j = 0 THEN Full
             ELSE IF data[j - 1] = 0 THEN f[j - 1] ELSE YTop(j - 1, data[j - 1], f[j - 1])]
  BY <1>3, <1>4 DEF GoesBy
<1>51. \E g : g = [j \in 0..NSeries |->
             IF j = 0 THEN Full
             ELSE IF data[j - 1] = 0 THEN g[j - 1] ELSE YTop(j - 1, data[j - 1], g[j - 1])]
  BY <1>5
<1>6. YBottom(data) = [j \in 0..NSeries |->
             IF j = 0 THEN Full
             ELSE IF data[j - 1] = 0 THEN YBottom(data)[j - 1]
             ELSE YTop(j - 1, data[j - 1], YBottom(data)[j - 1])]
  BY <1>51 DEF YBottom
<1> DEFINE y == YBottom(data)
           T == {n \in Nat : n <= NSeries => y[n] \in 0..Full}
<1>7. 0 \in T
  BY <1>1, <1>6
<1>8. ASSUME NEW n \in Nat, n \in T PROVE n + 1 \in T
  <2> SUFFICES ASSUME n + 1 <= NSeries PROVE y[n + 1] \in 0..Full
    OBVIOUS
  <2>1. n + 1 \in 1..NSeries /\ (n + 1) - 1 = n /\ n \in Series /\ y[n] \in 0..Full
    BY <1>8 DEF Series
  <2>2. y[n + 1] = IF data[n] = 0 THEN y[n] ELSE YTop(n, data[n], y[n])
    BY <1>6, <2>1
  <2>3. YTop(n, data[n], y[n]) \in 0..y[n]
    BY <2>1, TopIs
  <2> QED
    BY <2>1, <2>2, <2>3
<1>9. \A n \in 0..NSeries : y[n] \in 0..Full
  <2>1. Nat \subseteq T
    <3> HIDE DEF T
    <3> QED
      BY <1>7, <1>8, Induction
  <2> QED
    BY <2>1
<1>10. y \in [0..NSeries -> 0..Full]
  <2>1. y = [n \in 0..NSeries |-> y[n]]
    BY <1>6
  <2> QED
    BY <1>9, <2>1
<1> QED
  BY <1>6, <1>10

\* No bar leaves the chart when no value is larger than the scale allows: it starts at 0 at
\* the highest, and is moved down from there only as far as it is taller than the scale.
LEMMA BarsStay ==
  ASSUME TypeOK, Full \in Nat, \A i \in Index, j \in Series : values[i][j] <= Full + Slack
  PROVE  BarsStayInChart
<1> USE ChartAssumption DEF ChartAssumption
<1> SUFFICES ASSUME NEW i \in Index, NEW j \in Series, values[i][j] # 0
             PROVE  /\ YTop(j, values[i][j], YBottom(values[i])[j]) >= 0
                    /\ YTop(j, values[i][j], YBottom(values[i])[j]) + values[i][j] <= Full + Slack
  BY DEF BarsStayInChart, Bars
<1>1. values[i] \in [Series -> Nat] /\ values[i][j] \in Nat /\ values[i][j] <= Full + Slack
  BY DEF TypeOK
<1>2. YBottom(values[i])[j] \in 0..Full
  <2>1. j \in 0..NSeries
    BY DEF Series
  <2>2. YBottom(values[i]) \in [0..NSeries -> 0..Full]
    BY <1>1, BottomUnfolds
  <2> QED
    BY <2>1, <2>2
<1> QED
  BY <1>1, <1>2 DEF YTop

\* The sums of the first series of a sample, as Whole() adds them up.
LEMMA WholeUnfolds ==
  ASSUME NEW data \in [Series -> Nat]
  PROVE  \E sum \in [0..NSeries -> Nat] :
           /\ sum[0] = 0
           /\ \A j \in Series : sum[j + 1] = sum[j] + data[j]
           /\ Whole(data) <=> Hundred - Slack <= sum[NSeries] /\ sum[NSeries] <= Hundred + Slack
<1> USE ChartAssumption DEF ChartAssumption
<1> DEFINE N     == NSeries
           first == 0
           step  == [n \in 1..N |-> [v \in Nat |-> v + data[n - 1]]]
<1>1. N \in Nat /\ first \in Nat
  OBVIOUS
<1>2. step \in [1..N -> [Nat -> Nat]]
  <2>1. ASSUME NEW n \in 1..NSeries, NEW v \in Nat PROVE v + data[n - 1] \in Nat
    <3>1. n - 1 \in Series
      BY DEF Series
    <3> QED
      BY <3>1
  <2> QED
    BY <2>1
<1>3. PICK f : GoesBy(f, N, Nat, first, step)
  <2>1. Rule(N, Nat, first, step)
    BY <1>1, <1>2 DEF Rule
  <2> HIDE DEF N, first, step
  <2> QED
    BY <2>1, Recursion
<1>4. \A n \in 0..NSeries : n # 0 => n \in 1..NSeries /\ f[n - 1] \in Nat
  BY <1>3 DEF GoesBy
<1>5. f = [j \in 0..NSeries |-> IF j = 0 THEN 0 ELSE f[j - 1] + data[j - 1]]
  BY <1>3, <1>4 DEF GoesBy
<1> DEFINE sum == CHOOSE x : x = [j \in 0..NSeries |-> IF j = 0 THEN 0 ELSE x[j - 1] + data[j - 1]]
<1>6. sum = [j \in 0..NSeries |-> IF j = 0 THEN 0 ELSE sum[j - 1] + data[j - 1]]
  BY <1>5
<1>7. Whole(data) <=> Hundred - Slack <= sum[NSeries] /\ sum[NSeries] <= Hundred + Slack
  BY DEF Whole
<1> HIDE DEF sum
<1>8. sum[0] = 0 /\ \A j \in Series : sum[j + 1] = sum[j] + data[j]
  <2>1. sum[0] = 0
    BY <1>6
  <2>2. ASSUME NEW j \in Series PROVE sum[j + 1] = sum[j] + data[j]
    <3>1. j + 1 \in 0..NSeries /\ j + 1 # 0 /\ (j + 1) - 1 = j
      BY DEF Series
    <3> QED
      BY <1>6, <3>1
  <2> QED
    BY <2>1, <2>2
<1> DEFINE T == {n \in Nat : n <= NSeries => sum[n] \in Nat}
<1>9. \A n \in 0..NSeries : sum[n] \in Nat
  <2>1. 0 \in T
    BY <1>8
  <2>2. ASSUME NEW n \in Nat, n \in T PROVE n + 1 \in T
    <3>1. n + 1 <= NSeries => n \in Series
      BY DEF Series
    <3> QED
      BY <1>8, <2>2, <3>1
  <2>3. Nat \subseteq T
    <3> HIDE DEF T
    <3> QED
      BY <2>1, <2>2, Induction
  <2> QED
    BY <2>3
<1>10. sum \in [0..NSeries -> Nat]
  <2>1. sum = [n \in 0..NSeries |-> sum[n]]
    BY <1>6
  <2> QED
    BY <1>9, <2>1
<1> QED
  BY <1>7, <1>8, <1>10

\* A bar ends where it stands, but for the rounding.
LeansOn(j, height, stands) ==
  /\ (YTop(j, height, stands) + height) - stands <= Slack
  /\ stands - (YTop(j, height, stands) + height) <= Slack

\* Series by series the bars of a percent chart stand on what the series beneath leave of
\* it; so each ends where the next one stands, but for the rounding.
LEMMA BarsStack ==
  ASSUME TypeOK, Percents
  PROVE  BarsAreStacked
<1> USE ChartAssumption DEF ChartAssumption
<1> SUFFICES ASSUME NEW i \in Index, Whole(values[i]), NEW j \in Series, values[i][j] # 0
             PROVE  LeansOn(j, values[i][j], YBottom(values[i])[j])
  <2> SUFFICES ASSUME NEW i \in Index, Whole(values[i]), NEW b \in Bars(values[i])
               PROVE  b.bottom - b.stands <= Slack /\ b.stands - b.bottom <= Slack
    BY DEF BarsAreStacked
  <2>1. PICK j \in Series :
          /\ values[i][j] # 0
          /\ b = [series |-> j,
                  top    |-> YTop(j, values[i][j], YBottom(values[i])[j]),
                  bottom |-> YTop(j, values[i][j], YBottom(values[i])[j]) + values[i][j],
                  stands |-> YBottom(values[i])[j]]
    BY DEF Bars
  <2>2. LeansOn(j, values[i][j], YBottom(values[i])[j])
    BY <2>1
  <2> QED
    BY <2>1, <2>2 DEF LeansOn
<1> DEFINE data == values[i]
           y    == YBottom(data)
<1>1. data \in [Series -> Nat] /\ Full = Hundred /\ Full \in Nat
  BY DEF TypeOK, Full
<1>2. PICK sum \in [0..NSeries -> Nat] :
        /\ sum[0] = 0
        /\ \A k \in Series : sum[k + 1] = sum[k] + data[k]
        /\ Whole(data) <=> Hundred - Slack <= sum[NSeries] /\ sum[NSeries] <= Hundred + Slack
  BY <1>1, WholeUnfolds
<1>3. /\ y \in [0..NSeries -> 0..Full]
      /\ y = [k \in 0..NSeries |->
              IF k = 0 THEN Full
              ELSE IF data[k - 1] = 0 THEN y[k - 1] ELSE YTop(k - 1, data[k - 1], y[k - 1])]
  BY <1>1, BottomUnfolds
<1> HIDE DEF data, y
<1> DEFINE left(k) == IF Full - sum[k] < 0 THEN 0 ELSE Full - sum[k]
           T == {n \in Nat : n < NSeries => y[n] = left(n)}
<1>4. y[j] = left(j)
  <2>1. 0 \in T
    BY <1>1, <1>2, <1>3
  <2>2. ASSUME NEW n \in Nat, n \in T PROVE n + 1 \in T
    <3> SUFFICES ASSUME n + 1 < NSeries PROVE y[n + 1] = left(n + 1)
      OBVIOUS
    <3>1. n \in Series /\ n + 1 \in 0..NSeries /\ n + 1 # 0 /\ (n + 1) - 1 = n /\ n # NSeries - 1
      BY DEF Series
    <3>2. y[n + 1] = IF data[n] = 0 THEN y[n] ELSE YTop(n, data[n], y[n])
      BY <1>3, <3>1
    <3>3. y[n] = left(n) /\ sum[n + 1] = sum[n] + data[n]
      BY <1>2, <2>2, <3>1
    <3>4. sum[n] \in Nat /\ data[n] \in Nat
      BY <1>1, <1>2, <3>1
    <3> QED
      BY <1>1, <3>1, <3>2, <3>3, <3>4 DEF YTop
  <2>3. Nat \subseteq T
    <3> HIDE DEF T
    <3> QED
      BY <2>1, <2>2, Induction
  <2> QED
    BY <2>3 DEF Series
<1>5. sum[j + 1] <= sum[NSeries]
  <2> DEFINE U == {n \in Nat : j + 1 + n <= NSeries => sum[j + 1] <= sum[j + 1 + n]}
  <2>1. 0 \in U
    BY <1>2 DEF Series
  <2>2. ASSUME NEW n \in Nat, n \in U PROVE n + 1 \in U
    <3> SUFFICES ASSUME j + 1 + (n + 1) <= NSeries PROVE sum[j + 1] <= sum[j + 1 + (n + 1)]
      OBVIOUS
    <3>1. /\ j + 1 + n \in Series /\ j + 1 + (n + 1) = (j + 1 + n) + 1
          /\ j + 1 + n \in 0..NSeries /\ j + 1 \in 0..NSeries
      BY DEF Series
    <3>2. sum[j + 1 + (n + 1)] = sum[j + 1 + n] + data[j + 1 + n] /\ sum[j + 1] <= sum[j + 1 + n]
      BY <1>2, <2>2, <3>1
    <3>3. sum[j + 1] \in Nat /\ sum[j + 1 + n] \in Nat /\ data[j + 1 + n] \in Nat
      BY <1>1, <1>2, <3>1
    <3> QED
      BY <3>2, <3>3
  <2>3. Nat \subseteq U
    <3> HIDE DEF U
    <3> QED
      BY <2>1, <2>2, Induction
  <2>4. NSeries - (j + 1) \in Nat /\ j + 1 + (NSeries - (j + 1)) = NSeries
    BY DEF Series
  <2> QED
    BY <2>3, <2>4
<1>6. /\ sum[j + 1] = sum[j] + data[j] /\ sum[j] \in Nat /\ data[j] \in Nat \ {0}
      /\ (j = NSeries - 1 => sum[NSeries] = sum[j + 1])
      /\ sum[NSeries] \in Nat /\ Hundred - Slack <= sum[NSeries] /\ sum[NSeries] <= Hundred + Slack
  BY <1>1, <1>2 DEF Series, data
<1>7. LeansOn(j, data[j], left(j))
  <2>1. left(j) = IF Hundred - sum[j] < 0 THEN 0 ELSE Hundred - sum[j]
    BY <1>1
  <2>2. YTop(j, data[j], left(j)) =
          IF left(j) - data[j] < 0 \/ j = NSeries - 1 THEN 0 ELSE left(j) - data[j]
    BY DEF YTop
  <2>3. sum[j] + data[j] <= Hundred + Slack /\ (j = NSeries - 1 => Hundred - Slack <= sum[j] + data[j])
    BY <1>5, <1>6
  <2> DEFINE top == YTop(j, data[j], left(j))
  <2>4. /\ sum[j] \in Nat /\ data[j] \in Nat /\ data[j] > 0 /\ Hundred \in Nat /\ Slack \in Nat
        /\ left(j) \in Nat
    BY <1>1, <1>6
  <2> HIDE DEF left, top
  <2>5. (top + data[j]) - left(j) <= Slack /\ left(j) - (top + data[j]) <= Slack
    <3>1. CASE left(j) - data[j] < 0 \/ j = NSeries - 1
      <4>1. top = 0
        BY <2>2, <3>1 DEF top
      <4>2. data[j] - left(j) <= Slack
        BY <2>1, <2>3, <2>4
      <4>3. left(j) - data[j] <= Slack
        BY <2>1, <2>3, <2>4, <3>1
      <4> QED
        BY <2>4, <4>1, <4>2, <4>3
    <3>2. CASE ~(left(j) - data[j] < 0 \/ j = NSeries - 1)
      <4>1. top = left(j) - data[j]
        BY <2>2, <3>2 DEF top
      <4> QED
        BY <2>4, <4>1
    <3> QED
      BY <3>1, <3>2
  <2> QED
    BY <2>5 DEF top, LeansOn
<1> QED
  <2>1. LeansOn(j, data[j], y[j])
    BY <1>4, <1>7
  <2> QED
    BY <2>1 DEF data, y

\* What is in the ring was let in by chart_update(), or is of a new chart.
SampleInv == \A i \in Index : values[i] \in Samples \cup {Zero}

LEMMA SampleKept == TypeOK /\ SampleInv /\ [Next]_vars => SampleInv'
<1> SUFFICES ASSUME TypeOK, SampleInv, [Next]_vars, NEW i \in Index PROVE values'[i] \in Samples \cup {Zero}
  BY DEF SampleInv
<1>1. ASSUME NEW data \in Samples, chart_update(data) PROVE values'[i] \in Samples \cup {Zero}
  <2>1. values' = [values EXCEPT ![(current + 1) % NSamples] = data]
    BY <1>1 DEF chart_update
  <2>2. values'[i] \in {values[i], data}
    BY <2>1 DEF TypeOK
  <2> QED
    BY <2>2 DEF SampleInv
<1>2. ASSUME NEW data \in Samples, chart_update_errx(data) PROVE values'[i] \in Samples \cup {Zero}
  BY <1>2 DEF chart_update_errx, SampleInv
<1>3. CASE Renew
  BY <1>3 DEF Renew
<1>4. CASE UNCHANGED vars
  BY <1>4 DEF vars, SampleInv
<1> QED
  BY <1>1, <1>2, <1>3, <1>4 DEF Next

\* Every percent chart of oxbar fits, whatever nsamples is and however many series it
\* has: no bar leaves it and none hides another, though the percents of a sample are
\* rounded (xdraw_chart()).
THEOREM PercentsFit == ASSUME PercentChart PROVE Spec => []BarsFit
<1>1. Init => SampleInv
  BY DEF Init, chart_init, SampleInv
<1>2. TypeOK /\ SampleInv => BarsFit
  <2> USE ChartAssumption DEF ChartAssumption
  <2> SUFFICES ASSUME TypeOK, SampleInv PROVE BarsFit
    OBVIOUS
  <2>1. Percents /\ Full = Hundred /\ Full \in Nat
    BY DEF PercentChart, Full
  <2>2. ASSUME NEW i \in Index, NEW j \in Series PROVE values[i][j] <= Full + Slack
    <3>1. values[i] \in Samples \/ values[i][j] = 0
      BY DEF SampleInv, Zero
    <3> QED
      BY <2>1, <3>1 DEF PercentChart
  <2>3. BarsStayInChart
    BY <2>1, <2>2, BarsStay
  <2>4. BarsAreStacked
    BY <2>1, BarsStack
  <2> QED
    BY <2>3, <2>4 DEF BarsFit
<1> QED
  BY <1>1, <1>2, SampleKept, TypeCorrect, PTL DEF Spec
=============================================================================
