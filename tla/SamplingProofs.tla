--------------------------- MODULE SamplingProofs ---------------------------
(***************************************************************************)
(* Proofs about Sampling, for any number of values, collectors, widgets,   *)
(* samples and updates.                                                    *)
(***************************************************************************)
EXTENDS Sampling, TLAPS

\* Where a thread owns mutex_gui.
Inside == {"reload", "draw", "unlock"}

\* A thread is inside exactly when it owns the mutex; only the signal thread
\* reloads and only the updater updates.
MutexInv ==
  /\ \A t \in Drawers : mutex = t <=> pc[t] \in Inside
  /\ pc["stats"] # "reload" /\ pc["gui"] \notin {"update", "reload"} /\ pc["sig"] # "update"

\* A thread that is not drawing has read nothing.
DrawInv == \A t \in Drawers : pc[t] # "draw" => drawn[t] = 0 /\ seen[t] = Unseen

\* OXSTATS is of the last update where it was written already, else of the one
\* before; an update is under way only while the updater is at it.
StatsInv ==
  /\ \A v \in Values : OXSTATS[v] = IF v \in fresh THEN update ELSE update - 1
  /\ pc["stats"] # "update" => fresh = Values

\* What a drawing has read is of the last two updates, and of the last one only
\* unless the updater has started since.
SeenInv ==
  \A t \in Drawers : \A v \in Values :
    seen[t][v] # 0 =>
      /\ update - 1 <= seen[t][v] /\ seen[t][v] <= OXSTATS[v]
      /\ pc["stats"] \notin {"update", "lock"} => seen[t][v] = update

\* The last sample of a chart is older than what is read for the next one.
OrderInv ==
  \A c \in Charts : \A v \in Widgets[c] :
    /\ chart[c][NSamples][v] <= OXSTATS[v]
    /\ \A t \in Drawers :
         drawn[t] < c /\ seen[t][v] # 0 => chart[c][NSamples][v] <= seen[t][v]

Current(c) == \A v \in Widgets[c] : chart[c][NSamples][v] = OXSTATS[v]

\* Chart c still waits to be drawn in a reload.
Reloading(c) == pc["sig"] = "reload" \/ (pc["sig"] = "draw" /\ drawn["sig"] < c)

\* Between its updates the updater leaves every chart current, but for those a
\* reload has yet to draw.
CurrentInv ==
  \A c \in Charts :
    /\ pc["stats"] \in {"idle", "unlock"} /\ ~Reloading(c) => Current(c)
    /\ pc["stats"] = "draw" /\ c <= drawn["stats"] => Current(c)

IInv ==
  /\ TypeOK /\ MutexInv /\ DrawInv /\ StatsInv /\ SeenInv
  /\ OrderInv /\ SamplesInOrder /\ CurrentInv

-----------------------------------------------------------------------------
(* Each step preserves IInv.                                                *)

\* What the assumptions say of the charts and of their values.
LEMMA Constants ==
  /\ NSamples \in Nat \ {0} /\ MaxUpdates \in Nat \ {0} /\ Len(Widgets) \in Nat
  /\ NSamples \in 1..NSamples
  /\ \A i \in 1..(NSamples - 1) : i \in 1..NSamples /\ i + 1 \in 1..NSamples
  /\ \A c \in Charts : Widgets[c] \subseteq Values
  /\ \A c, d \in Charts : c # d => Widgets[c] \cap Widgets[d] = {}
  BY SamplingAssumption DEF SamplingAssumption, Charts

\* IInv holds after stats_init() and the drawing in setup_gui().
LEMMA InitIInv == Init => IInv
<1> SUFFICES ASSUME Init PROVE IInv
  OBVIOUS
<1> USE Constants DEF Init
<1>1. ASSUME NEW c \in Charts
      PROVE  /\ Blank(c) \in [1..NSamples -> [Widgets[c] -> 0..MaxUpdates]]
             /\ [v \in Widgets[c] |-> 1] \in [Widgets[c] -> 0..MaxUpdates]
  BY DEF Blank
<1>2. ASSUME NEW c \in Charts
      PROVE  /\ chart[c] \in [1..NSamples -> [Widgets[c] -> 0..MaxUpdates]]
             /\ \A v \in Widgets[c] : chart[c][NSamples][v] = 1
             /\ \A i \in 1..(NSamples - 1) : \A v \in Widgets[c] : chart[c][i][v] = 0
  <2>1. chart[c] = Push(Blank(c), [v \in Widgets[c] |-> 1])
    OBVIOUS
  <2>2. \A i \in 1..NSamples : \A v \in Widgets[c] : Blank(c)[i][v] = 0
    BY DEF Blank
  <2>3. /\ chart[c] \in [1..NSamples -> [Widgets[c] -> 0..MaxUpdates]]
        /\ chart[c][NSamples] = [v \in Widgets[c] |-> 1]
        /\ \A i \in 1..(NSamples - 1) : chart[c][i] = Blank(c)[i + 1]
    <3> DEFINE T == [Widgets[c] -> 0..MaxUpdates]
    <3>1. Blank(c) \in [1..NSamples -> T] /\ [v \in Widgets[c] |-> 1] \in T
      BY <1>1
    <3> HIDE DEF T
    <3>2. /\ chart[c] \in [1..NSamples -> T]
          /\ chart[c][NSamples] = [v \in Widgets[c] |-> 1]
          /\ \A i \in 1..(NSamples - 1) : chart[c][i] = Blank(c)[i + 1]
      BY <2>1, <3>1, Constants DEF Push
    <3> QED
      BY <3>2 DEF T
  <2>4. ASSUME NEW i \in 1..(NSamples - 1), NEW v \in Widgets[c] PROVE chart[c][i][v] = 0
    <3>1. i + 1 \in 1..NSamples /\ chart[c][i] = Blank(c)[i + 1]
      BY <2>3
    <3>2. Blank(c)[i + 1][v] = 0
      BY <2>2, <3>1
    <3> QED
      BY <3>1, <3>2
  <2> QED
    BY <2>3, <2>4
<1>3. TypeOK
  <2>1. seen \in [Drawers -> [Values -> 0..MaxUpdates]]
    BY DEF Unseen
  <2>2. chart = [c \in Charts |-> chart[c]]
    OBVIOUS
  <2>3. OXSTATS \in [Values -> Updates] /\ update \in Updates
    BY DEF Updates
  <2>4. pc \in [Drawers -> {"idle", "update", "lock", "reload", "draw", "unlock"}]
    OBVIOUS
  <2>5. drawn \in [Drawers -> 0..Len(Widgets)]
    OBVIOUS
  <2> QED
    BY <1>2, <2>1, <2>2, <2>3, <2>4, <2>5 DEF TypeOK
<1>4. MutexInv /\ DrawInv /\ StatsInv /\ SeenInv
  BY DEF MutexInv, DrawInv, StatsInv, SeenInv, Unseen, Inside, Drawers, NoThread
<1>5. OrderInv /\ CurrentInv
  BY <1>2 DEF OrderInv, CurrentInv, Current, Drawers, Unseen
<1>6. SamplesInOrder
  <2> SUFFICES ASSUME NEW c \in Charts, NEW i \in 1..(NSamples - 1), NEW v \in Widgets[c]
               PROVE  chart[c][i][v] <= chart[c][i + 1][v]
    BY DEF SamplesInOrder
  <2>1. chart[c][i + 1][v] \in 0..MaxUpdates /\ chart[c][i][v] = 0
    BY <1>2
  <2> QED
    BY <2>1
<1> QED
  BY <1>3, <1>4, <1>5, <1>6 DEF IInv

\* The updater wakes: all that is in OXSTATS, and all that the drawing that may
\* be going on has read, is of the update before.
LEMMA WakeStep == IInv /\ StatsWake => IInv'
<1> SUFFICES ASSUME IInv, StatsWake PROVE IInv'
  OBVIOUS
<1> USE DEF IInv, StatsWake, Goto, TypeOK, Updates
<1>1. TypeOK'
  <2>1. update' \in Updates /\ fresh' \subseteq Values
    BY Constants
  <2>2. pc' \in [Drawers -> {"idle", "update", "lock", "reload", "draw", "unlock"}]
    OBVIOUS
  <2> HIDE DEF Updates
  <2> QED
    BY <2>1, <2>2
<1>2. MutexInv' /\ DrawInv'
  BY DEF MutexInv, DrawInv, Drawers, Inside
<1>3. StatsInv'
  BY DEF StatsInv, Drawers
<1>4. SeenInv'
  BY DEF SeenInv, StatsInv, Drawers
<1>5. OrderInv' /\ SamplesInOrder'
  BY DEF OrderInv, SamplesInOrder
<1>6. CurrentInv'
  BY DEF CurrentInv, Drawers
<1> QED
  BY <1>1, <1>2, <1>3, <1>4, <1>5, <1>6

\* A value in OXSTATS goes from the update before to this one.
LEMMA StoreStep == ASSUME NEW v \in Values, IInv, Store(v) PROVE IInv'
<1> USE DEF IInv, Store, threads, TypeOK, Updates
<1>1. TypeOK'
  OBVIOUS
<1>2. MutexInv' /\ DrawInv'
  BY DEF MutexInv, DrawInv
<1>3. StatsInv'
  BY DEF StatsInv
<1>4. \A w \in Values : OXSTATS[w] <= OXSTATS'[w] /\ OXSTATS'[w] \in Nat /\ OXSTATS[w] \in Nat
  BY DEF StatsInv
<1>5. SeenInv'
  BY <1>4 DEF SeenInv
<1>6. OrderInv'
  <2> SUFFICES ASSUME NEW c \in Charts, NEW w \in Widgets[c]
               PROVE  /\ chart[c][NSamples][w] <= OXSTATS'[w]
                      /\ \A t \in Drawers : drawn[t] < c /\ seen[t][w] # 0 =>
                            chart[c][NSamples][w] <= seen[t][w]
    BY DEF OrderInv
  <2>1. w \in Values /\ NSamples \in 1..NSamples
    BY Constants
  <2>2. chart[c] \in [1..NSamples -> [Widgets[c] -> 0..MaxUpdates]]
    OBVIOUS
  <2>3. chart[c][NSamples][w] \in 0..MaxUpdates
    BY <2>1, <2>2
  <2> QED
    BY <1>4, <2>1, <2>3, Constants DEF OrderInv
<1>7. SamplesInOrder'
  BY DEF SamplesInOrder
<1>8. CurrentInv'
  BY DEF CurrentInv
<1> QED
  BY <1>1, <1>2, <1>3, <1>5, <1>6, <1>8, <1>7

\* The update is complete.
LEMMA UpdateStep == IInv /\ stats_update => IInv'
<1> SUFFICES ASSUME IInv, stats_update PROVE IInv'
  OBVIOUS
<1> USE DEF IInv, stats_update, Goto, TypeOK
<1>1. TypeOK' /\ MutexInv' /\ DrawInv' /\ StatsInv'
  BY DEF MutexInv, DrawInv, StatsInv, Drawers, Inside
<1>2. SeenInv'
  BY DEF SeenInv, Drawers
<1>3. OrderInv' /\ SamplesInOrder' /\ CurrentInv'
  BY DEF OrderInv, SamplesInOrder, CurrentInv, Drawers
<1> QED
  BY <1>1, <1>2, <1>3

\* A thread asks for the mutex.
LEMMA EventStep == ASSUME NEW t \in Drawers, IInv, Event(t) PROVE IInv'
<1> USE DEF IInv, Event, Goto, TypeOK
<1>1. TypeOK' /\ MutexInv' /\ DrawInv' /\ StatsInv'
  BY DEF MutexInv, DrawInv, StatsInv, Drawers, Inside
<1>2. SeenInv' /\ OrderInv' /\ SamplesInOrder'
  BY DEF SeenInv, OrderInv, SamplesInOrder, Drawers
<1>3. CurrentInv'
  BY DEF CurrentInv, Current, Reloading, Drawers
<1> QED
  BY <1>1, <1>2, <1>3

\* A thread gets the mutex: it has read nothing, and no other thread has.
LEMMA LockStep == ASSUME NEW t \in Drawers, IInv, pthread_mutex_lock(t) PROVE IInv'
<1> USE DEF IInv, pthread_mutex_lock, Goto, TypeOK
<1>1. TypeOK' /\ MutexInv' /\ DrawInv' /\ StatsInv'
  BY DEF MutexInv, DrawInv, StatsInv, Drawers, Inside, NoThread
<1>2. \A u \in Drawers : drawn[u] = 0 /\ seen[u] = Unseen
  BY DEF MutexInv, DrawInv, Inside, Drawers, NoThread
<1>3. SeenInv' /\ OrderInv' /\ SamplesInOrder'
  BY <1>2 DEF SeenInv, OrderInv, SamplesInOrder, Unseen
<1>4. CurrentInv'
  BY <1>2 DEF CurrentInv, Current, Reloading, Drawers, Charts
<1> QED
  BY <1>1, <1>3, <1>4

\* A reload blanks the charts and owes each of them a drawing.
LEMMA ReloadStep == IInv /\ reload => IInv'
<1> SUFFICES ASSUME IInv, reload PROVE IInv'
  OBVIOUS
<1> USE Constants DEF IInv, reload, Goto, TypeOK
<1>1. /\ chart' = [c \in Charts |-> chart'[c]]
      /\ \A c \in Charts : chart'[c] \in [1..NSamples -> [Widgets[c] -> 0..MaxUpdates]]
      /\ \A c \in Charts : \A i \in 1..NSamples : \A v \in Widgets[c] : chart'[c][i][v] = 0
  BY DEF Blank
<1>2. TypeOK'
  BY <1>1
<1>3. MutexInv' /\ StatsInv'
  BY DEF MutexInv, StatsInv, Drawers, Inside
<1>4. \A u \in Drawers : drawn[u] = 0 /\ seen[u] = Unseen
  BY DEF MutexInv, DrawInv, Inside, Drawers
<1>5. DrawInv' /\ SeenInv'
  BY <1>4 DEF DrawInv, SeenInv, Unseen
<1>6. OrderInv'
  BY <1>1, <1>4 DEF OrderInv, Unseen, Updates
<1>7. SamplesInOrder'
  <2> SUFFICES ASSUME NEW c \in Charts, NEW i \in 1..(NSamples - 1), NEW v \in Widgets[c]
               PROVE  chart'[c][i][v] <= chart'[c][i + 1][v]
    BY DEF SamplesInOrder
  <2>1. i \in 1..NSamples /\ i + 1 \in 1..NSamples
    OBVIOUS
  <2>2. chart'[c][i][v] = 0 /\ chart'[c][i + 1][v] = 0
    BY <1>1, <2>1
  <2> QED
    BY <2>2
<1>8. CurrentInv'
  <2>1. pc'["sig"] = "draw" /\ drawn'["sig"] = 0 /\ pc'["stats"] # "draw"
    BY <1>4 DEF Drawers, MutexInv, Inside
  <2> QED
    BY <2>1 DEF CurrentInv, Reloading, Charts
<1> QED
  BY <1>2, <1>3, <1>5, <1>6, <1>8, <1>7

\* A drawing reads a value: of the last update or of the one before, and of the
\* last one when the updater is not at work.
LEMMA LoadStep == ASSUME NEW t \in Drawers, NEW v \in Values, IInv, Load(t, v) PROVE IInv'
<1> USE DEF IInv, Load, TypeOK
<1>1. OXSTATS[v] \in 0..MaxUpdates
  BY DEF Updates
<1>2. TypeOK'
  BY <1>1
<1>3. MutexInv' /\ StatsInv' /\ DrawInv'
  BY DEF MutexInv, StatsInv, DrawInv
<1>4. SeenInv'
  BY DEF SeenInv, StatsInv, Updates
<1>5. OrderInv' /\ SamplesInOrder'
  BY Constants DEF OrderInv, SamplesInOrder
<1>6. CurrentInv'
  BY DEF CurrentInv, Current, Reloading
<1> QED
  BY <1>2, <1>3, <1>4, <1>5, <1>6

\* A chart gets its next sample, which is not older than the last one; when the
\* updater sleeps it is what is in OXSTATS.
LEMMA ChartStep == ASSUME NEW t \in Drawers, IInv, chart_update(t) PROVE IInv'
<1> DEFINE c == drawn[t] + 1
           d == [v \in Widgets[c] |-> seen[t][v]]
<1> USE Constants DEF IInv, TypeOK
<1>1. /\ c \in Charts /\ pc[t] = "draw"
      /\ \A v \in Widgets[c] : v \in Values /\ seen[t][v] # 0
      /\ chart' = [chart EXCEPT ![c] = Push(chart[c], d)]
      /\ drawn' = [drawn EXCEPT ![t] = c]
      /\ UNCHANGED <<OXSTATS, update, fresh, pc, mutex, seen>>
  BY DEF chart_update
<1>2. d \in [Widgets[c] -> 0..MaxUpdates]
  BY <1>1
<1>3. /\ chart'[c] \in [1..NSamples -> [Widgets[c] -> 0..MaxUpdates]]
      /\ chart'[c][NSamples] = d
      /\ \A i \in 1..(NSamples - 1) : chart'[c][i] = chart[c][i + 1]
  <2>1. chart'[c] = Push(chart[c], d)
    BY <1>1
  <2> DEFINE T == [Widgets[c] -> 0..MaxUpdates]
  <2>2. chart[c] \in [1..NSamples -> T] /\ d \in T
    BY <1>1, <1>2
  <2> HIDE DEF c, d, T
  <2> HIDE DEF IInv, TypeOK
  <2>3. chart'[c] = [i \in 1..NSamples |-> IF i = NSamples THEN d ELSE chart[c][i + 1]]
    BY <2>1 DEF Push
  <2>4. /\ chart'[c] \in [1..NSamples -> T]
        /\ chart'[c][NSamples] = d
        /\ \A i \in 1..(NSamples - 1) : chart'[c][i] = chart[c][i + 1]
    BY <2>2, <2>3
  <2> QED
    BY <2>4 DEF T
<1>4. \A e \in Charts : e # c => chart'[e] = chart[e]
  BY <1>1
<1>5. \A u \in Drawers : u # t => pc[u] \notin Inside /\ drawn[u] = 0 /\ seen[u] = Unseen
  BY <1>1 DEF MutexInv, DrawInv, Inside
<1>6. drawn'[t] = c /\ \A u \in Drawers : u # t => drawn'[u] = drawn[u]
  BY <1>1
<1> HIDE DEF c, d
<1>7. TypeOK'
  <2>1. chart' = [e \in Charts |-> chart'[e]]
    BY <1>1
  <2>2. drawn' \in [Drawers -> 0..Len(Widgets)]
    BY <1>1 DEF Charts
  <2> QED
    BY <1>1, <1>3, <1>4, <2>1, <2>2
<1>8. MutexInv' /\ StatsInv' /\ SeenInv'
  BY <1>1 DEF MutexInv, StatsInv, SeenInv
<1>9. DrawInv'
  BY <1>1, <1>5, <1>6 DEF DrawInv
<1>10. \A v \in Widgets[c] :
         /\ chart'[c][NSamples][v] = seen[t][v]
         /\ chart[c][NSamples][v] <= seen[t][v]
         /\ seen[t][v] <= OXSTATS[v]
         /\ pc["stats"] \notin {"update", "lock"} => seen[t][v] = OXSTATS[v]
  <2> SUFFICES ASSUME NEW v \in Widgets[c]
               PROVE  /\ chart'[c][NSamples][v] = seen[t][v]
                      /\ chart[c][NSamples][v] <= seen[t][v]
                      /\ seen[t][v] <= OXSTATS[v]
                      /\ pc["stats"] \notin {"update", "lock"} => seen[t][v] = OXSTATS[v]
    OBVIOUS
  <2>1. chart'[c][NSamples][v] = seen[t][v]
    BY <1>3 DEF d
  <2>2. chart[c][NSamples][v] <= seen[t][v]
    BY <1>1 DEF OrderInv, c
  <2>3. seen[t][v] <= OXSTATS[v]
    BY <1>1 DEF SeenInv
  <2>4. pc["stats"] \notin {"update", "lock"} => seen[t][v] = OXSTATS[v]
    BY <1>1 DEF SeenInv, StatsInv
  <2> QED
    BY <2>1, <2>2, <2>3, <2>4
<1>11. OrderInv'
  <2> SUFFICES ASSUME NEW e \in Charts, NEW v \in Widgets[e]
               PROVE  /\ chart'[e][NSamples][v] <= OXSTATS[v]
                      /\ \A u \in Drawers : drawn'[u] < e /\ seen[u][v] # 0 =>
                            chart'[e][NSamples][v] <= seen[u][v]
    BY <1>1 DEF OrderInv
  <2>1. CASE e = c
    BY <1>1, <1>5, <1>6, <1>10, <2>1 DEF Unseen, Charts
  <2>2. CASE e # c
    BY <1>1, <1>4, <1>5, <1>6, <2>2 DEF OrderInv, Unseen, Charts, c
  <2> QED
    BY <2>1, <2>2
<1>12. SamplesInOrder'
  <2> SUFFICES ASSUME NEW e \in Charts, NEW i \in 1..(NSamples - 1), NEW v \in Widgets[e]
               PROVE  chart'[e][i][v] <= chart'[e][i + 1][v]
    BY DEF SamplesInOrder
  <2>1. CASE e # c
    BY <1>4, <2>1 DEF SamplesInOrder
  <2>2. CASE e = c /\ i = NSamples - 1
    BY <1>3, <1>10, <2>2
  <2>3. CASE e = c /\ i # NSamples - 1
    <3>1. i + 1 \in 1..(NSamples - 1)
      BY <2>3
    <3>2. chart'[e][i] = chart[c][i + 1] /\ chart'[e][i + 1] = chart[c][(i + 1) + 1]
      BY <1>3, <2>3, <3>1
    <3>3. chart[c][i + 1][v] <= chart[c][(i + 1) + 1][v]
      BY <2>3, <3>1 DEF SamplesInOrder
    <3> QED
      BY <3>2, <3>3
  <2> QED
    BY <2>1, <2>2, <2>3
<1>13. CurrentInv'
  <2> SUFFICES ASSUME NEW e \in Charts
               PROVE  /\ pc["stats"] \in {"idle", "unlock"} /\ ~Reloading(e)' => Current(e)'
                      /\ pc["stats"] = "draw" /\ e <= drawn'["stats"] => Current(e)'
    BY <1>1 DEF CurrentInv
  <2>1. CASE e = c
    BY <1>1, <1>10, <2>1 DEF Current
  <2>2. CASE e # c
    <3>1. Current(e)' <=> Current(e)
      BY <1>1, <1>4, <2>2 DEF Current
    <3>2. ~Reloading(e)' => ~Reloading(e)
      BY <1>1, <1>6, <2>2 DEF Reloading, Drawers, c, Charts
    <3>3. e <= drawn'["stats"] => e <= drawn["stats"]
      BY <1>1, <1>6, <2>2 DEF Drawers, c, Charts
    <3> QED
      BY <3>1, <3>2, <3>3 DEF CurrentInv
  <2> QED
    BY <2>1, <2>2
<1> QED
  BY <1>7, <1>8, <1>9, <1>11, <1>12, <1>13

\* A drawing is complete: every chart has its sample.
LEMMA DrawStep == ASSUME NEW t \in Drawers, IInv, gui_draw(t) PROVE IInv'
<1> USE Constants DEF IInv, gui_draw, Goto, TypeOK
<1>1. TypeOK' /\ MutexInv' /\ DrawInv' /\ StatsInv'
  BY DEF MutexInv, DrawInv, StatsInv, Drawers, Inside, Unseen
<1>2. SeenInv' /\ OrderInv' /\ SamplesInOrder'
  BY DEF SeenInv, OrderInv, SamplesInOrder, Unseen
<1>3. CurrentInv'
  BY DEF CurrentInv, Current, Reloading, Drawers, MutexInv, Inside, Charts
<1> QED
  BY <1>1, <1>2, <1>3

\* A thread gives the mutex back.
LEMMA UnlockStep == ASSUME NEW t \in Drawers, IInv, pthread_mutex_unlock(t) PROVE IInv'
<1> USE DEF IInv, pthread_mutex_unlock, Goto, TypeOK
<1>1. TypeOK' /\ MutexInv' /\ DrawInv' /\ StatsInv'
  BY DEF MutexInv, DrawInv, StatsInv, Drawers, Inside, NoThread
<1>2. SeenInv' /\ OrderInv' /\ SamplesInOrder'
  BY DEF SeenInv, OrderInv, SamplesInOrder, Drawers
<1>3. CurrentInv'
  BY DEF CurrentInv, Current, Reloading, Drawers
<1> QED
  BY <1>1, <1>2, <1>3

-----------------------------------------------------------------------------
(* The theorems.                                                            *)

\* Every step, and every stutter, preserves IInv.
LEMMA NextIInv == IInv /\ [Next]_vars => IInv'
<1> SUFFICES ASSUME IInv, [Next]_vars PROVE IInv'
  OBVIOUS
<1>1. CASE StatsWake
  BY <1>1, WakeStep
<1>2. CASE stats_update
  BY <1>2, UpdateStep
<1>3. CASE reload
  BY <1>3, ReloadStep
<1>4. ASSUME NEW v \in Values, Store(v) PROVE IInv'
  BY <1>4, StoreStep
<1>5. ASSUME NEW v \in Values, NEW t \in Drawers, Load(t, v) PROVE IInv'
  BY <1>5, LoadStep
<1>6. ASSUME NEW t \in Drawers, Event(t) PROVE IInv'
  BY <1>6, EventStep
<1>7. ASSUME NEW t \in Drawers, pthread_mutex_lock(t) PROVE IInv'
  BY <1>7, LockStep
<1>8. ASSUME NEW t \in Drawers, chart_update(t) PROVE IInv'
  BY <1>8, ChartStep
<1>9. ASSUME NEW t \in Drawers, gui_draw(t) PROVE IInv'
  BY <1>9, DrawStep
<1>10. ASSUME NEW t \in Drawers, pthread_mutex_unlock(t) PROVE IInv'
  BY <1>10, UnlockStep
<1>11. CASE UNCHANGED vars
  <2> USE <1>11 DEF vars
  <2>1. TypeOK' /\ MutexInv' /\ DrawInv' /\ StatsInv'
    BY DEF IInv, TypeOK, MutexInv, DrawInv, StatsInv
  <2>2. SeenInv' /\ OrderInv' /\ SamplesInOrder'
    BY DEF IInv, SeenInv, OrderInv, SamplesInOrder
  <2>3. CurrentInv'
    BY DEF IInv, CurrentInv, Current, Reloading
  <2> QED
    BY <2>1, <2>2, <2>3 DEF IInv
<1> QED
  BY <1>1, <1>2, <1>3, <1>4, <1>5, <1>6, <1>7, <1>8, <1>9, <1>10, <1>11 DEF Next

\* IInv holds in every state: the inductive invariant behind the theorems below.
THEOREM Invariance == Spec => []IInv
<1>1. Init => IInv
  BY InitIInv
<1>2. IInv /\ [Next]_vars => IInv'
  BY NextIInv
<1> QED
  BY <1>1, <1>2, PTL DEF Spec

\* OXSTATS, the drawings and the charts hold values of updates that have been.
THEOREM TypeCorrect == Spec => []TypeOK
<1>1. IInv => TypeOK
  BY DEF IInv
<1> QED
  BY <1>1, Invariance, PTL

\* A chart runs forward in time, whichever threads drew its samples.
THEOREM Ordered == Spec => []SamplesInOrder
<1>1. IInv => SamplesInOrder
  BY DEF IInv
<1> QED
  BY <1>1, Invariance, PTL

\* However long a drawing takes, it shows values of two updates in a row at most.
THEOREM TwoUpdates == Spec => []DrawingSpansTwoUpdates
<1>1. IInv => DrawingSpansTwoUpdates
  <2> SUFFICES ASSUME IInv, NEW t \in Drawers, NEW v \in Values, NEW w \in Values,
                      seen[t][v] # 0, seen[t][w] # 0
               PROVE  seen[t][v] <= seen[t][w] + 1
    BY DEF DrawingSpansTwoUpdates
  <2>1. seen[t][v] \in Nat /\ seen[t][w] \in Nat /\ update \in Nat /\ OXSTATS[v] \in Nat
    BY DEF IInv, TypeOK, Updates
  <2>2. update - 1 <= seen[t][w] /\ seen[t][v] <= OXSTATS[v]
    BY DEF IInv, SeenInv
  <2>3. OXSTATS[v] <= update
    BY <2>1 DEF IInv, StatsInv
  <2> QED
    BY <2>1, <2>2, <2>3
<1> QED
  BY <1>1, Invariance, PTL

\* The drawing of the updater shows the update it has just made.
THEOREM TimerWhole == Spec => []TimerDrawsItsUpdate
<1>1. IInv => TimerDrawsItsUpdate
  <2> SUFFICES ASSUME IInv, NEW v \in Values PROVE seen["stats"][v] \in {0, update}
    BY DEF TimerDrawsItsUpdate
  <2>1. "stats" \in Drawers
    BY DEF Drawers
  <2>2. CASE pc["stats"] = "draw"
    BY <2>1, <2>2 DEF IInv, SeenInv
  <2>3. CASE pc["stats"] # "draw"
    BY <2>1, <2>3 DEF IInv, DrawInv, Unseen
  <2> QED
    BY <2>2, <2>3
<1> QED
  BY <1>1, Invariance, PTL

\* With the updater asleep and nobody drawing, every chart ends in what is in OXSTATS.
THEOREM QuietCurrent == Spec => []QuietIsCurrent
<1>1. IInv => QuietIsCurrent
  <2> SUFFICES ASSUME IInv, pc["stats"] = "idle", mutex = NoThread, NEW c \in Charts
               PROVE  Current(c)
    BY DEF QuietIsCurrent, Current
  <2>1. pc["sig"] \notin Inside
    BY DEF IInv, MutexInv, Drawers, NoThread
  <2>2. ~Reloading(c)
    BY <2>1 DEF Reloading, Inside
  <2> QED
    BY <2>2 DEF IInv, CurrentInv
<1> QED
  BY <1>1, Invariance, PTL
=============================================================================
