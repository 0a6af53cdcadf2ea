------------------------------- MODULE Layout --------------------------------
(***************************************************************************)
(* gui_draw() of gui/gui.c, the pens of gui/xdraw.c, and the drawing       *)
(* functions of widgets/*.c: where each widget of the three lists comes to *)
(* be in the window, and which charts get a sample on the way.  The steps  *)
(* here refine the step gui_drawn of Widgets; the others are its own.      *)
(*                                                                         *)
(* The pens (xctx.xoffset) are in half pixels, because a centered pen      *)
(* moves by half of what is drawn; the constants are in pixels.  Heights,  *)
(* colours and what the text says are left out: nothing here depends on    *)
(* them but the width of a text, which is any of TextWidths.               *)
(***************************************************************************)
EXTENDS Widgets

CONSTANTS Width, Margin, Padding, Spacing,  \* settings.window.w, settings.gui
          ChartWidth,                       \* settings.*.chart_width of the bars
          NSAMPLES,                         \* 60
          TextWidths,
          Setups    \* sets of names: the widgets whose stats may be set up together

ASSUME LayoutAssumption ==
  /\ {Width, Spacing, ChartWidth, NSAMPLES} \subseteq Nat
  /\ Margin \in [left : Nat, right : Nat]
  /\ Padding \in [left : Nat, right : Nat]
  /\ TextWidths \subseteq Nat
  /\ \A s \in Setups : {"cpu", "cpulong", "cpushort", "memory", "nprocs", "time"} \subseteq s

VARIABLES
  is_setup,     \* the widgets that are enabled: fixed before the first drawing
  drawing,      \* the list that is drawn, or "none"
  wle,          \* the entry of it that is next
  busy,         \* a widget is being drawn
  scratchpad,   \* its pen; 0 between two widgets
  todo,         \* the calls of its drawing function that are left
  temp,         \* the pen of the list
  bar,          \* what the drawing has put into the window
  sampled       \* the charts updated by this drawing, in that order

lvars == <<is_setup, drawing, wle, busy, scratchpad, todo, temp, bar, sampled>>

-----------------------------------------------------------------------------
(* Pens.                                                                    *)

Px(n) == 2 * n
ZEROPAD == [left |-> 0, right |-> 0]

\* Mutant: the margin on the right is forgotten.
xctx_reset_NoRight(d, padding) ==
  IF d = "L2R" THEN Px(padding.left)
  ELSE IF d = "R2L" THEN Px(Width)
  ELSE Px((Width \div 2) - padding.left)

xctx_reset(d, padding) ==
  IF d = "L2R" THEN Px(padding.left)
  ELSE IF d = "R2L" THEN Px(Width - padding.right)
  ELSE Px((Width \div 2) - padding.left)

xctx_complete(d, x, padding) == IF d = "R2L" THEN x - Px(padding.left) ELSE x + Px(padding.right)

\* xctx_advance(), by a distance in half pixels.
BEFORE_RENDER(d, x, xdelta) ==
  IF d = "L2R" THEN x ELSE IF d = "R2L" THEN x - xdelta ELSE x - (xdelta \div 2)
AFTER_RENDER(d, x, xdelta) ==
  IF d = "L2R" THEN x + xdelta ELSE IF d = "R2L" THEN x ELSE x + (xdelta \div 2)

-----------------------------------------------------------------------------
(* The drawing functions: sequences of calls <<what, chart>>.               *)

T == <<"xdraw_printf", 0>>
B == <<"xdraw_progress_bar", 0>>
Half == <<"half bar", 0>>
Gap == <<"xctx_advance", 0>>
chart_update(k) == <<"chart_update", k>>
xdraw_chart(k) == <<"xdraw_chart", k>>

Advance(call) ==
  IF call[1] = "xdraw_printf" THEN TextWidths
  ELSE {IF call[1] = "xdraw_progress_bar" THEN ChartWidth
        ELSE IF call[1] = "half bar" THEN (ChartWidth \div 2) + 1
        ELSE IF call[1] = "xctx_advance" THEN 2
        ELSE IF call[1] = "xdraw_chart" THEN NSAMPLES ELSE 0}

wbattery_draw == {<<T, B, T>>, <<T, B, T, T>>}
wbright_draw  == {<<T, B, T>>}
wnprocs_draw  == {<<T>>}
wtime_draw    == {<<T>>}
wwifi_draw    == {<<T>>}

\* Mute or not, and the two sides at the same volume or not.
wvolume_draw ==
  {mute \o sides : mute \in {<<T>>, <<T, T>>}, sides \in {<<B, T>>, <<T, Half, Gap, Half, T>>}}

\* After each chart come the texts, and then a space unless it is the last cpu.
PerCpu(texts) ==
  [j \in 1..(IF Ncpu = 0 THEN 1 ELSE Ncpu * (texts + 3)) |->
     IF j % (texts + 3) = 2 THEN chart_update((j \div (texts + 3)) + 1)
     ELSE IF j % (texts + 3) = 3 THEN xdraw_chart((j \div (texts + 3)) + 1)
     ELSE T]

wcpu_draw      == {PerCpu(1)}
wcpulong_draw  == {PerCpu(6)}
wcpushort_draw == {[j \in 1..(IF Ncpu = 0 THEN 0 ELSE 2 * Ncpu - 1) |-> T]}
wmemory_draw   == {<<chart_update(1), T, xdraw_chart(1), T, T, T, T, T, T>>}

\* Mutant: the chart of the traffic out is not updated.
wnet_draw_OneUpdate == {<<chart_update(1), T, xdraw_chart(1), T, xdraw_chart(2), T>>}

wnet_draw == {<<chart_update(1), chart_update(2), T, xdraw_chart(1), T, xdraw_chart(2), T>>}

draw ==
  [battery |-> wbattery_draw, bright |-> wbright_draw, cpu |-> wcpu_draw,
   cpulong |-> wcpulong_draw, cpushort |-> wcpushort_draw, memory |-> wmemory_draw,
   net |-> wnet_draw, nprocs |-> wnprocs_draw, time |-> wtime_draw,
   volume |-> wvolume_draw, wifi |-> wwifi_draw]

-----------------------------------------------------------------------------
(* gui_draw().                                                              *)

Empty == [at |-> 0, width |-> 0, drawn |-> <<>>]
Widget(d) == tokens[lists[d][wle]]

LInit ==
  /\ Init
  /\ is_setup \in Setups
  /\ drawing = "none"
  /\ wle = 1
  /\ busy = FALSE
  /\ scratchpad = 0
  /\ todo = <<>>
  /\ temp = xctx_reset("L2R", ZEROPAD)
  /\ bar = [d \in Directions |-> Empty]
  /\ sampled = <<>>

\* Onto a fresh buffer.
xwin_push ==
  /\ pc = "draw" /\ drawing = "none"
  /\ drawing' = "L2R"
  /\ bar' = [d \in Directions |-> Empty]
  /\ sampled' = <<>>
  /\ UNCHANGED <<vars, is_setup, wle, busy, scratchpad, todo, temp>>

\* Mutant: the entry of a widget that is not enabled is removed from the list.
skip_Removes ==
  /\ drawing # "none" /\ ~busy
  /\ wle <= Len(lists[drawing])
  /\ Widget(drawing) \notin is_setup
  /\ lists' = [lists EXCEPT ![drawing] = SubSeq(@, 1, wle - 1) \o SubSeq(@, wle + 1, Len(@))]
  /\ UNCHANGED <<pc, tokens, next, direction, WIDGETS, heap, i, quit, lvars>>

\* An entry whose widget is not enabled.
skip ==
  /\ drawing # "none" /\ ~busy
  /\ wle <= Len(lists[drawing])
  /\ Widget(drawing) \notin is_setup
  /\ wle' = wle + 1
  /\ UNCHANGED <<vars, is_setup, drawing, busy, scratchpad, todo, temp, bar, sampled>>

\* draw_widget(): a scratchpad, and the drawing function of the widget.
draw_widget ==
  /\ drawing # "none" /\ ~busy
  /\ wle <= Len(lists[drawing])
  /\ Widget(drawing) \in is_setup
  /\ busy' = TRUE
  /\ scratchpad' = xctx_reset("L2R", Padding)
  /\ todo' \in draw[Widget(drawing)]
  /\ UNCHANGED <<vars, is_setup, drawing, wle, temp, bar, sampled>>

\* A call of the drawing function.
widget_draw ==
  /\ busy /\ todo # <<>>
  /\ LET call  == Head(todo)
         chart == <<"chart", lists[drawing][wle], call[2]>>
     IN  /\ \E w \in Advance(call) :
              scratchpad' = AFTER_RENDER("L2R", BEFORE_RENDER("L2R", scratchpad, Px(w)), Px(w))
         /\ sampled' = IF call[1] = "chart_update" THEN Append(sampled, chart) ELSE sampled
  /\ todo' = Tail(todo)
  /\ UNCHANGED <<vars, is_setup, drawing, wle, busy, temp, bar>>

\* The rest of draw_widget(), and the spacing.
Drawn(from, width) ==
  [bar EXCEPT ![drawing].drawn =
     Append(@, [widget |-> lists[drawing][wle], from |-> from, to |-> from + width])]

\* Mutant: the spacing is left out before a widget that is not the last.
draw_widget_end_NoSpacing ==
  /\ busy /\ todo = <<>>
  /\ LET width == xctx_complete("L2R", scratchpad, Padding)
     IN  /\ bar' = Drawn(BEFORE_RENDER("L2R", temp, width), width)
         /\ temp' = AFTER_RENDER("L2R", temp, width)
  /\ busy' = FALSE
  /\ scratchpad' = 0
  /\ wle' = wle + 1
  /\ UNCHANGED <<vars, is_setup, drawing, todo, sampled>>

draw_widget_end ==
  /\ busy /\ todo = <<>>
  /\ LET width == xctx_complete("L2R", scratchpad, Padding)
         after == AFTER_RENDER("L2R", temp, width)
     IN  /\ bar' = Drawn(BEFORE_RENDER("L2R", temp, width), width)
         /\ temp' = IF wle < Len(lists[drawing])
                    THEN AFTER_RENDER("L2R", after, Px(Spacing)) ELSE after
  /\ busy' = FALSE
  /\ scratchpad' = 0
  /\ wle' = wle + 1
  /\ UNCHANGED <<vars, is_setup, drawing, todo, sampled>>

\* Mutant: the drawing is over after the centered list.
xdraw_context_TwoLists ==
  /\ drawing # "none" /\ ~busy
  /\ wle > Len(lists[drawing])
  /\ LET width == xctx_complete("L2R", temp, ZEROPAD)
     IN  bar' = [bar EXCEPT ![drawing].width = width,
                            ![drawing].at = BEFORE_RENDER(drawing, xctx_reset(drawing, Margin), width)]
  /\ wle' = 1
  /\ temp' = xctx_reset("L2R", ZEROPAD)
  /\ IF drawing = "CENTERED"
     THEN drawing' = "none" /\ gui_drawn
     ELSE drawing' = "CENTERED" /\ UNCHANGED vars
  /\ UNCHANGED <<is_setup, busy, scratchpad, todo, sampled>>

\* The end of draw_widget_list(), and of gui_draw() when it is the last list.
xdraw_context ==
  /\ drawing # "none" /\ ~busy
  /\ wle > Len(lists[drawing])
  /\ LET width == xctx_complete("L2R", temp, ZEROPAD)
     IN  bar' = [bar EXCEPT ![drawing].width = width,
                            ![drawing].at = BEFORE_RENDER(drawing, xctx_reset(drawing, Margin), width)]
  /\ wle' = 1
  /\ temp' = xctx_reset("L2R", ZEROPAD)
  /\ IF drawing = "R2L"
     THEN drawing' = "none" /\ gui_drawn
     ELSE drawing' = (IF drawing = "L2R" THEN "CENTERED" ELSE "R2L") /\ UNCHANGED vars
  /\ UNCHANGED <<is_setup, busy, scratchpad, todo, sampled>>

LNext ==
  \/ xwin_push \/ skip \/ draw_widget \/ widget_draw \/ draw_widget_end \/ xdraw_context
  \/ /\ \/ separator \/ widget_create_from_recipe \/ errx \/ widgets_created
        \/ redraw \/ cleanup_gui
        \/ widgets_free \/ widgets_freed \/ free_widget_list \/ gui_freed
     /\ UNCHANGED lvars

LSpec == LInit /\ [][LNext]_<<vars, lvars>>

-----------------------------------------------------------------------------
(* Properties.                                                              *)

LTypeOK ==
  /\ TypeOK
  /\ is_setup \in Setups
  /\ drawing \in Directions \cup {"none"}
  /\ drawing # "none" => pc = "draw"
  /\ drawing # "none" => wle \in 1..(Len(lists[drawing]) + 1)
  /\ busy \in BOOLEAN /\ scratchpad \in Nat /\ temp \in Nat
  /\ busy => drawing # "none" /\ wle <= Len(lists[drawing])
  /\ \A d \in Directions :
       /\ bar[d].at \in Int /\ bar[d].width \in Nat
       /\ \A k \in 1..Len(bar[d].drawn) :
            bar[d].drawn[k] \in [widget : Nat, from : Nat, to : Nat]

\* The making and unmaking of widgets is that of Widgets, whatever a drawing does.
ImplementsWidgets == Spec

\* The widgets of a list stand side by side in the order of the settings, each with its
\* padding, with the spacing between two and none before the first, however many
\* widgets that are not enabled are between them (draw_widget_list()).
SideBySide ==
  \A d \in Directions :
    LET drawn == bar[d].drawn IN
    \A k \in 1..Len(drawn) :
      /\ drawn[k].to - drawn[k].from >= Px(Padding.left + Padding.right)
      /\ IF k = 1 THEN drawn[k].from = 0
         ELSE drawn[k].from = drawn[k - 1].to + Px(Spacing) /\ drawn[k - 1].widget < drawn[k].widget

\* The last separator before position p says d; without one it is "<".
Says(p, d) ==
  LET last(q) == tokens[q] \in Separators /\ \A r \in (q + 1)..(p - 1) : tokens[r] \notin Separators
  IN  \/ \E q \in 1..(p - 1) : last(q) /\ d = DirectionOf(tokens[q])
      \/ d = "L2R" /\ \A q \in 1..(p - 1) : tokens[q] \notin Separators

\* A drawing that is over shows every enabled widget of the settings in the list of
\* its side, and nothing else: nothing of a drawing before.
AllShown ==
  pc = "shown" =>
    \A d \in Directions : \A p \in 1..Len(tokens) :
      (\E k \in 1..Len(bar[d].drawn) : bar[d].drawn[k].widget = p)
        <=> tokens[p] \in Names /\ tokens[p] \in is_setup /\ Says(p, d)

\* The left list begins at the left margin and the right list ends at the right one, whatever
\* they show.  Behind the last widget of a list there is nothing, or the spacing when the
\* rest of the list is not enabled (gui.c:125).  It is not said where the centered list is:
\* man/oxbar.1:1151 wants it "in the exact center of the display", which xdraw.c:129
\* misses by the left margin.
KeepsMargins ==
  pc = "shown" =>
    /\ bar["L2R"].at = Px(Margin.left)
    /\ bar["R2L"].at + bar["R2L"].width = Px(Width - Margin.right)
    /\ \A d \in Directions :
         LET drawn == bar[d].drawn
             last  == drawn[Len(drawn)]
         IN  bar[d].width =
               IF drawn = <<>> THEN 0
               ELSE IF last.widget = lists[d][Len(lists[d])] THEN last.to ELSE last.to + Px(Spacing)

\* A drawing gives every chart of a widget that it draws one sample, and no other
\* chart; it touches only charts that exist.
OneSampleEach ==
  /\ \A k \in 1..Len(sampled) : \A j \in 1..(k - 1) : sampled[j] # sampled[k]
  /\ pc = "draw" /\ drawing # "none" => \A k \in 1..Len(sampled) : sampled[k] \in heap
  /\ pc = "shown" =>
       \A d \in Directions : \A k \in 1..Len(bar[d].drawn) :
         LET p == bar[d].drawn[k].widget IN
         tokens[p] # "cpushort" =>
           \A c \in Made(p) : c[1] = "chart" => \E n \in 1..Len(sampled) : sampled[n] = c
=============================================================================
