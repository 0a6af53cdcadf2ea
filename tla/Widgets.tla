------------------------------- MODULE Widgets -------------------------------
(***************************************************************************)
(* widgets.c, with the init and free of widgets/*.c and the three lists of *)
(* gui/gui.c: how the widgets are made from the list in the settings, and  *)
(* unmade by a reload or at the end.  All of it is run by main() alone or  *)
(* with mutex_gui (module Oxbar), so the steps of one thread are enough.   *)
(*                                                                         *)
(* A widget is known by the position of its name in the list, which is     *)
(* what tells apart two of the same name.  The heap is a set of objects    *)
(* <<what, widget, number>>, where a chart stands for itself, its values   *)
(* and its bgcolor, and its colors are an object of their own.             *)
(***************************************************************************)
EXTENDS Integers, Sequences

CONSTANTS Lists,            \* what settings.widgets may be: sequences of tokens
          Ncpu,             \* the number of cpus, and of charts of a cpu widget
          MAX_ALL_WIDGETS   \* 1000

ASSUME WidgetsAssumption ==
  /\ \A l \in Lists : l \in Seq(STRING)
  /\ Lists # {}
  /\ Ncpu \in Nat
  /\ MAX_ALL_WIDGETS \in Nat

\* By name, whose init and free it has: those of util.c, cpus.c, memory.c or net.c.
WIDGET_RECIPES ==
  [battery |-> "generic", bright |-> "generic", cpu |-> "cpu", cpulong |-> "cpu",
   cpushort |-> "cpu", memory |-> "memory", net |-> "net", nprocs |-> "generic",
   time |-> "generic", volume |-> "generic", wifi |-> "generic"]

Names == DOMAIN WIDGET_RECIPES

Directions == {"L2R", "CENTERED", "R2L"}
Separators == {"<", "|", ">"}
DirectionOf(s) == IF s = "<" THEN "L2R" ELSE IF s = "|" THEN "CENTERED" ELSE "R2L"

VARIABLES
  pc,         \* what the thread is at
  tokens,     \* the list in force
  next,       \* the token that is next
  direction,
  WIDGETS,    \* every widget, in the order they were made
  lists,      \* per direction, gui->left, gui->center, gui->right
  heap,
  i,          \* how many widgets widgets_free() has freed
  quit        \* the gui is taken down for good

vars == <<pc, tokens, next, direction, WIDGETS, lists, heap, i, quit>>

Struct(p)    == <<"widget", p, 0>>
State(p)     == <<"state", p, 0>>
Entry(p)     == <<"entry", p, 0>>
Charts(p, n) == {<<"chart", p, k>> : k \in 1..n}
colors(p, n) == {<<"colors", p, k>> : k \in 1..n}
cpu_charts(p) == <<"cpu_charts", p, 0>>

Recipe(p) == WIDGET_RECIPES[tokens[p]]

\* How many charts the widget has.
NCharts(p) ==
  IF Recipe(p) = "cpu" THEN Ncpu
  ELSE IF Recipe(p) = "memory" THEN 1
  ELSE IF Recipe(p) = "net" THEN 2 ELSE 0

\* What the init functions allocate and no function frees: the colors of each chart, array
\* and strings, and the array of the charts of a cpu widget.
Unfreed(p) == colors(p, NCharts(p)) \cup (IF Recipe(p) = "cpu" THEN {cpu_charts(p)} ELSE {})

\* recipe->init: generic_init(), wcpu_init(), wmemory_init(), wnet_init().
Made(p) == {State(p)} \cup Charts(p, NCharts(p)) \cup Unfreed(p)

\* Mutant: a chart too many is freed.
Freed_OneMore(p) ==
  {State(p)} \cup Charts(p, IF Recipe(p) = "cpu" THEN Ncpu + 1 ELSE NCharts(p))

\* recipe->free: generic_free(), wcpu_free(), wmemory_free(), wnet_free().
Freed(p) == {State(p)} \cup Charts(p, NCharts(p))

Init ==
  /\ tokens \in Lists
  /\ next = 1
  /\ direction = "L2R"
  /\ lists = [d \in Directions |-> <<>>]
  /\ pc = "create"
  /\ WIDGETS = <<>>
  /\ heap = {}
  /\ i = 0
  /\ quit = FALSE

-----------------------------------------------------------------------------
(* widgets_create(), a token at a time.                                     *)

separator ==
  /\ pc = "create" /\ next <= Len(tokens)
  /\ tokens[next] \in Separators
  /\ direction' = DirectionOf(tokens[next])
  /\ next' = next + 1
  /\ UNCHANGED <<pc, tokens, WIDGETS, lists, heap, i, quit>>

\* Mutants: the widget is not kept for widgets_free(); recipe->init is not called.
widget_create_from_recipe_Untracked ==
  /\ pc = "create" /\ next <= Len(tokens)
  /\ tokens[next] \in Names
  /\ Len(WIDGETS) < MAX_ALL_WIDGETS
  /\ lists' = [lists EXCEPT ![direction] = Append(@, next)]
  /\ heap' = heap \cup {Struct(next), Entry(next)} \cup Made(next)
  /\ next' = next + 1
  /\ UNCHANGED <<pc, tokens, direction, WIDGETS, i, quit>>

widget_create_from_recipe_NoInit ==
  /\ pc = "create" /\ next <= Len(tokens)
  /\ tokens[next] \in Names
  /\ Len(WIDGETS) < MAX_ALL_WIDGETS
  /\ WIDGETS' = Append(WIDGETS, next)
  /\ lists' = [lists EXCEPT ![direction] = Append(@, next)]
  /\ heap' = heap \cup {Struct(next), Entry(next)}
  /\ next' = next + 1
  /\ UNCHANGED <<pc, tokens, direction, i, quit>>

\* The widget, its state, and its entry in a list (gui_add_widget()).
widget_create_from_recipe ==
  /\ pc = "create" /\ next <= Len(tokens)
  /\ tokens[next] \in Names
  /\ Len(WIDGETS) < MAX_ALL_WIDGETS
  /\ WIDGETS' = Append(WIDGETS, next)
  /\ lists' = [lists EXCEPT ![direction] = Append(@, next)]
  /\ heap' = heap \cup {Struct(next), Entry(next)} \cup Made(next)
  /\ next' = next + 1
  /\ UNCHANGED <<pc, tokens, direction, i, quit>>

\* One widget too many, or one that nobody knows.
errx ==
  /\ pc = "create" /\ next <= Len(tokens)
  /\ tokens[next] \notin Separators
  /\ tokens[next] \notin Names \/ Len(WIDGETS) = MAX_ALL_WIDGETS
  /\ pc' = "exited"
  /\ UNCHANGED <<tokens, next, direction, WIDGETS, lists, heap, i, quit>>

widgets_created ==
  /\ pc = "create" /\ next > Len(tokens)
  /\ pc' = "draw"
  /\ UNCHANGED <<tokens, next, direction, WIDGETS, lists, heap, i, quit>>

-----------------------------------------------------------------------------
(* The gui in use.                                                          *)

\* gui_draw() returns (see Layout for what it does).
gui_drawn ==
  /\ pc = "draw" /\ pc' = "shown"
  /\ UNCHANGED <<tokens, next, direction, WIDGETS, lists, heap, i, quit>>

\* The timer, or an expose event.
redraw ==
  /\ pc = "shown" /\ pc' = "draw"
  /\ UNCHANGED <<tokens, next, direction, WIDGETS, lists, heap, i, quit>>

\* cleanup_gui(), in a reload or at the end.
cleanup_gui ==
  /\ pc = "shown" /\ pc' = "widgets_free"
  /\ quit' \in BOOLEAN
  /\ UNCHANGED <<tokens, next, direction, WIDGETS, lists, heap, i>>

-----------------------------------------------------------------------------
(* widgets_free(), then gui_free().                                         *)

widgets_free ==
  /\ pc = "widgets_free" /\ i < Len(WIDGETS)
  /\ heap' = heap \ (Freed(WIDGETS[i + 1]) \cup {Struct(WIDGETS[i + 1])})
  /\ i' = i + 1
  /\ UNCHANGED <<pc, tokens, next, direction, WIDGETS, lists, quit>>

\* NWIDGETS = 0.
widgets_freed ==
  /\ pc = "widgets_free" /\ i = Len(WIDGETS)
  /\ WIDGETS' = <<>>
  /\ i' = 0
  /\ pc' = "gui_free"
  /\ UNCHANGED <<tokens, next, direction, lists, heap, quit>>

\* The first entry of a list; the left list goes first.
free_widget_list ==
  /\ pc = "gui_free"
  /\ \E d \in Directions :
       /\ lists[d] # <<>>
       /\ d = "CENTERED" => lists["L2R"] = <<>>
       /\ d = "R2L" => lists["L2R"] = <<>> /\ lists["CENTERED"] = <<>>
       /\ heap' = heap \ {Entry(Head(lists[d]))}
       /\ lists' = [lists EXCEPT ![d] = Tail(@)]
  /\ UNCHANGED <<pc, tokens, next, direction, WIDGETS, i, quit>>

\* setup_gui() again, with what the settings say now; or the end.  Nothing refers any more
\* to what is left of the widgets before: how much of it piles up is not counted.
gui_freed ==
  /\ pc = "gui_free" /\ \A d \in Directions : lists[d] = <<>>
  /\ IF quit
     THEN pc' = "closed" /\ UNCHANGED <<tokens, next, direction, lists, heap>>
     ELSE /\ pc' = "create"
          /\ tokens' \in Lists
          /\ next' = 1
          /\ direction' = "L2R"
          /\ lists' = [d \in Directions |-> <<>>]
          /\ heap' = {o \in heap : o[1] \notin {"colors", "cpu_charts"}}
  /\ UNCHANGED <<WIDGETS, i, quit>>

Next ==
  \/ separator \/ widget_create_from_recipe \/ errx \/ widgets_created
  \/ gui_drawn \/ redraw \/ cleanup_gui
  \/ widgets_free \/ widgets_freed \/ free_widget_list \/ gui_freed

Spec == Init /\ [][Next]_vars

-----------------------------------------------------------------------------
(* Properties.                                                              *)

TypeOK ==
  /\ pc \in {"create", "draw", "shown", "widgets_free", "gui_free", "closed", "exited"}
  /\ tokens \in Lists
  /\ next \in 1..(Len(tokens) + 1)
  /\ direction \in Directions
  /\ WIDGETS \in Seq(1..Len(tokens)) /\ Len(WIDGETS) <= MAX_ALL_WIDGETS
  /\ lists \in [Directions -> Seq(1..Len(tokens))]
  /\ i \in 0..Len(WIDGETS)
  /\ quit \in BOOLEAN

\* Nothing is freed that does not exist: not twice, not a chart that was never
\* made, not the widgets of the gui before.
FreedOnce ==
  /\ pc = "widgets_free" /\ i < Len(WIDGETS) =>
       Freed(WIDGETS[i + 1]) \cup {Struct(WIDGETS[i + 1])} \subseteq heap
  /\ pc = "gui_free" => \A d \in Directions : \A k \in 1..Len(lists[d]) : Entry(lists[d][k]) \in heap

\* What nothing frees of the widgets made so far.
LeftOver == UNION {Unfreed(p) : p \in {q \in 1..(next - 1) : tokens[q] \in Names}}

\* However often the gui is made and unmade, and whatever is in the list each time, it
\* leaves when it is taken down the colors of its charts and the arrays of its cpu
\* widgets, all of them, and no more: every widget, state, chart and entry is given back.
\* chart_free() is to "Free all allocated memory with a chart" (chart.h:77): of the
\* colors it does not.
LeavesOnlyUnfreed ==
  /\ pc = "closed" \/ (pc = "gui_free" /\ \A d \in Directions : lists[d] = <<>>) => heap = LeftOver
  /\ pc = "create" /\ next = 1 => heap = {}

\* A drawing finds every widget of the lists, its state and its charts.
DrawsOnlyLive ==
  pc \in {"draw", "shown"} =>
    \A d \in Directions : \A k \in 1..Len(lists[d]) :
      {Struct(lists[d][k]), Entry(lists[d][k])} \cup Made(lists[d][k]) \subseteq heap

\* What is drawn and what is freed exists, over any number of reloads.
OnlyLive == FreedOnce /\ DrawsOnlyLive
=============================================================================
