------------------------------ MODULE Sampling ------------------------------
(***************************************************************************)
(* How what the collectors of stats/ read gets into the charts of widgets/.*)
(* The global OXSTATS is written by stats_update(), one value after the    *)
(* other and without mutex_gui, and read by gui_draw(), one widget after   *)
(* the other with it, on the timer, on an expose event and in a reload.    *)
(* Every drawing of a widget adds a sample to its chart.                   *)
(*                                                                         *)
(* A value is represented by the number of the stats_update() it was read  *)
(* in; a chart by the window Chart implements (see ChartHistory).  Threads *)
(* are cut down to what matters here, Oxbar has the rest of them.          *)
(***************************************************************************)
EXTENDS Naturals, Sequences

CONSTANTS Values,      \* the values in OXSTATS that are drawn in charts
          Collectors,  \* the sequence of the sets of Values each collector writes
          Widgets,     \* the same sets, in the order their widgets are drawn
          NSamples,    \* samples in a chart
          MaxUpdates   \* bound: the calls of stats_update()

\* No value is drawn in two charts, so a drawing reads it once (a list of widgets
\* that names the same widget twice is left out).
ASSUME SamplingAssumption ==
  /\ NSamples \in Nat \ {0}
  /\ MaxUpdates \in Nat \ {0}
  /\ Collectors \in Seq(SUBSET Values)
  /\ Widgets \in Seq(SUBSET Values)
  /\ \A c, d \in 1..Len(Widgets) : c # d => Widgets[c] \cap Widgets[d] = {}

Charts  == 1..Len(Widgets)
Drawers == {"stats", "gui", "sig"}
NoThread == "none"
Updates == 1..MaxUpdates

VARIABLES
  OXSTATS,  \* per value, the update it was read in
  update,   \* the number of the last update that began
  fresh,    \* the values written in it
  pc,       \* what each thread does
  mutex,    \* mutex_gui
  drawn,    \* per thread, how many widgets its drawing is through with
  seen,     \* per thread, the values its drawing has read
  chart     \* per widget, the samples its chart shows

threads == <<pc, drawn, seen>>
vars == <<OXSTATS, update, fresh, pc, mutex, drawn, seen, chart>>

Blank(c)  == [i \in 1..NSamples |-> [v \in Widgets[c] |-> 0]]
Unseen    == [v \in Values |-> 0]

\* Mutant: the oldest sample is kept.
Push_Keeps(window, d) == Append(window, d)

Push(window, d) == [i \in 1..NSamples |-> IF i = NSamples THEN d ELSE window[i + 1]]

\* stats_init() has made the first update and setup_gui() the first drawing.
Init ==
  /\ OXSTATS = [v \in Values |-> 1]
  /\ update = 1
  /\ fresh = Values
  /\ pc = [t \in Drawers |-> "idle"]
  /\ mutex = NoThread
  /\ drawn = [t \in Drawers |-> 0]
  /\ seen = [t \in Drawers |-> Unseen]
  /\ chart = [c \in Charts |-> Push(Blank(c), [v \in Widgets[c] |-> 1])]

Goto(t, from, to) == pc[t] = from /\ pc' = [pc EXCEPT ![t] = to]

-----------------------------------------------------------------------------
(* thread_stats_updater(): the timer, and stats_update().                   *)

StatsWake ==
  /\ update < MaxUpdates
  /\ Goto("stats", "idle", "update")
  /\ update' = update + 1
  /\ fresh' = {}
  /\ UNCHANGED <<OXSTATS, mutex, drawn, seen, chart>>

\* A collector stores a value.  Nothing orders the stores for another thread but
\* the calls of the other collectors.
Store(v) ==
  /\ pc["stats"] = "update"
  /\ v \notin fresh
  /\ \E i \in 1..Len(Collectors) :
       v \in Collectors[i] /\ \A j \in 1..(i - 1) : Collectors[j] \subseteq fresh
  /\ OXSTATS' = [OXSTATS EXCEPT ![v] = update]
  /\ fresh' = fresh \cup {v}
  /\ UNCHANGED <<update, threads, mutex, chart>>

\* Mutant: the thread draws without waiting for the last collector.
stats_update_Early ==
  /\ fresh # {}
  /\ Goto("stats", "update", "lock")
  /\ UNCHANGED <<OXSTATS, update, fresh, mutex, drawn, seen, chart>>

\* stats_update() returns.
stats_update ==
  /\ fresh = Values
  /\ Goto("stats", "update", "lock")
  /\ UNCHANGED <<OXSTATS, update, fresh, mutex, drawn, seen, chart>>

-----------------------------------------------------------------------------
(* The critical section of each thread.                                     *)

\* An expose event, or a SIGHUP.
Event(t) ==
  /\ t \in {"gui", "sig"}
  /\ Goto(t, "idle", "lock")
  /\ UNCHANGED <<OXSTATS, update, fresh, mutex, drawn, seen, chart>>

\* Mutants: the mutex is taken from its owner; a thread that does not get the
\* mutex goes to sleep again without a drawing.
pthread_mutex_lock_NoWait(t) ==
  /\ Goto(t, "lock", IF t = "sig" THEN "reload" ELSE "draw")
  /\ mutex' = t
  /\ UNCHANGED <<OXSTATS, update, fresh, drawn, seen, chart>>

pthread_mutex_lock_Try(t) ==
  /\ Goto(t, "lock", IF mutex # NoThread THEN "idle" ELSE IF t = "sig" THEN "reload" ELSE "draw")
  /\ mutex' = IF mutex = NoThread THEN t ELSE mutex
  /\ UNCHANGED <<OXSTATS, update, fresh, drawn, seen, chart>>

pthread_mutex_lock(t) ==
  /\ mutex = NoThread
  /\ Goto(t, "lock", IF t = "sig" THEN "reload" ELSE "draw")
  /\ mutex' = t
  /\ UNCHANGED <<OXSTATS, update, fresh, drawn, seen, chart>>

\* Mutant: the reloaded gui is not drawn.
reload_NoDraw ==
  /\ Goto("sig", "reload", "unlock")
  /\ chart' = [c \in Charts |-> Blank(c)]
  /\ UNCHANGED <<OXSTATS, update, fresh, mutex, drawn, seen>>

\* cleanup_gui() and setup_gui(): every chart is freed and made anew.
reload ==
  /\ Goto("sig", "reload", "draw")
  /\ chart' = [c \in Charts |-> Blank(c)]
  /\ UNCHANGED <<OXSTATS, update, fresh, mutex, drawn, seen>>

\* The widget that is drawn next reads a value, in whatever order the compiler
\* evaluates the initializer of its sample.
Load(t, v) ==
  /\ pc[t] = "draw"
  /\ drawn[t] < Len(Widgets)
  /\ v \in Widgets[drawn[t] + 1]
  /\ seen[t][v] = 0
  /\ seen' = [seen EXCEPT ![t][v] = OXSTATS[v]]
  /\ UNCHANGED <<OXSTATS, update, fresh, pc, mutex, drawn, chart>>

\* chart_update() with the values that were read.
chart_update(t) ==
  LET c == drawn[t] + 1 IN
  /\ pc[t] = "draw"
  /\ c \in Charts
  /\ \A v \in Widgets[c] : seen[t][v] # 0
  /\ chart' = [chart EXCEPT ![c] = Push(@, [v \in Widgets[c] |-> seen[t][v]])]
  /\ drawn' = [drawn EXCEPT ![t] = c]
  /\ UNCHANGED <<OXSTATS, update, fresh, pc, mutex, seen>>

\* gui_draw() has drawn all widgets.
gui_draw(t) ==
  /\ drawn[t] = Len(Widgets)
  /\ Goto(t, "draw", "unlock")
  /\ drawn' = [drawn EXCEPT ![t] = 0]
  /\ seen' = [seen EXCEPT ![t] = Unseen]
  /\ UNCHANGED <<OXSTATS, update, fresh, mutex, chart>>

pthread_mutex_unlock(t) ==
  /\ Goto(t, "unlock", "idle")
  /\ mutex' = NoThread
  /\ UNCHANGED <<OXSTATS, update, fresh, drawn, seen, chart>>

Next ==
  \/ StatsWake \/ stats_update \/ reload
  \/ \E v \in Values : Store(v) \/ \E t \in Drawers : Load(t, v)
  \/ \E t \in Drawers :
       \/ Event(t) \/ pthread_mutex_lock(t) \/ chart_update(t)
       \/ gui_draw(t) \/ pthread_mutex_unlock(t)

Spec == Init /\ [][Next]_vars

-----------------------------------------------------------------------------
(* Properties.                                                              *)

TypeOK ==
  /\ OXSTATS \in [Values -> Updates]
  /\ update \in Updates
  /\ fresh \subseteq Values
  /\ pc \in [Drawers -> {"idle", "update", "lock", "reload", "draw", "unlock"}]
  /\ mutex \in Drawers \cup {NoThread}
  /\ drawn \in [Drawers -> 0..Len(Widgets)]
  /\ seen \in [Drawers -> [Values -> 0..MaxUpdates]]
  /\ chart = [c \in Charts |-> chart[c]]
  /\ \A c \in Charts : chart[c] \in [1..NSamples -> [Widgets[c] -> 0..MaxUpdates]]

\* Charts run from left to right in time, value by value, whichever threads drew
\* the samples: a drawing that began before another does not add its older
\* values after the newer ones.
SamplesInOrder ==
  \A c \in Charts : \A i \in 1..(NSamples - 1) :
    \A v \in Widgets[c] : chart[c][i][v] <= chart[c][i + 1][v]

\* What one drawing shows comes from two updates in a row at most, however
\* long it takes: the updater that comes round while it lasts waits for the mutex
\* before it can start the update after.
DrawingSpansTwoUpdates ==
  \A t \in Drawers : \A v, w \in Values :
    seen[t][v] # 0 /\ seen[t][w] # 0 => seen[t][v] <= seen[t][w] + 1

\* The drawing after an update shows that update and nothing else: no other
\* thread writes OXSTATS, and the updater does not start another before.
TimerDrawsItsUpdate ==
  \A v \in Values : seen["stats"][v] \in {0, update}

\* No update and no reload goes by undrawn: when the updater sleeps and nobody
\* draws, the last sample of every chart is what is in OXSTATS.
QuietIsCurrent ==
  pc["stats"] = "idle" /\ mutex = NoThread =>
    \A c \in Charts : \A v \in Widgets[c] : chart[c][NSamples][v] = OXSTATS[v]

-----------------------------------------------------------------------------
(* A claim of the documentation that the code does not keep.                *)

\* chart.h:26-27: the values of a sample are percentages that sum to 100; so
\* they are of one update.
SamplesAreWhole ==
  \A c \in Charts : \A i \in 1..NSamples :
    \A v, w \in Widgets[c] : chart[c][i][v] = chart[c][i][w]
=============================================================================
