---------------------------- MODULE LayoutProofs -----------------------------
(***************************************************************************)
(* A drawing changes neither the widgets nor the lists it draws, so that   *)
(* what WidgetsProofs says of them holds with the drawings in full; and    *)
(* what it leaves in the window is all of the lists, side by side, within  *)
(* the margins, with one sample for each chart.                            *)
(***************************************************************************)
EXTENDS Layout, WidgetsProofs

\* Each step of Layout is one of Widgets, or none.
LEMMA StepRefines == [LNext]_<<vars, lvars>> => [Next]_vars
<1> SUFFICES ASSUME [LNext]_<<vars, lvars>>
             PROVE  [Next]_vars
  OBVIOUS
<1>1. CASE xwin_push
  BY <1>1 DEF xwin_push
<1>2. CASE skip
  BY <1>2 DEF skip
<1>3. CASE draw_widget
  BY <1>3 DEF draw_widget
<1>4. CASE widget_draw
  BY <1>4 DEF widget_draw
<1>5. CASE draw_widget_end
  BY <1>5 DEF draw_widget_end
<1>6. CASE xdraw_context
  <2>1. gui_drawn \/ UNCHANGED vars
    BY <1>6 DEF xdraw_context
  <2> QED
    BY <2>1 DEF Next
<1>7. CASE \/ separator \/ widget_create_from_recipe \/ errx \/ widgets_created
           \/ redraw \/ cleanup_gui
           \/ widgets_free \/ widgets_freed \/ free_widget_list \/ gui_freed
  BY <1>7 DEF Next
<1>8. CASE UNCHANGED <<vars, lvars>>
  BY <1>8
<1> QED
  BY <1>1, <1>2, <1>3, <1>4, <1>5, <1>6, <1>7, <1>8 DEF LNext

\* gui_draw() in full implements the single step it is in Widgets.
THEOREM DrawingRefines == LSpec => ImplementsWidgets
<1>1. LInit => Init
  BY DEF LInit
<1> QED
  BY <1>1, StepRefines, PTL DEF LSpec, Spec, ImplementsWidgets

\* What is drawn is alive, nothing is freed twice, and what is left is what nothing frees,
\* with the drawings in full.
THEOREM DrawnSafely == LSpec => [](OnlyLive /\ LeavesOnlyUnfreed)
BY DrawingRefines, NeverTwice, TakenDown, NoDangling, PTL DEF ImplementsWidgets, OnlyLive

-----------------------------------------------------------------------------
(* The pens.                                                                *)

\* Widgets come into a list in the order of the settings.
Sorted == \A d \in Directions : \A j, k \in 1..Len(lists[d]) : j < k => lists[d][j] < lists[d][k]

Item == [widget : Nat, from : Nat, to : Nat]

PenType ==
  /\ is_setup \in Setups
  /\ drawing \in Directions \cup {"none"}
  /\ wle \in Nat \ {0} /\ busy \in BOOLEAN /\ scratchpad \in Nat /\ temp \in Nat
  /\ bar \in [Directions -> [at : Int, width : Nat, drawn : Seq(Item)]]

\* Between two drawings the pen is at 0; in one it is in a list, and only in pc "draw".
AtInv ==
  /\ drawing = "none" => wle = 1 /\ temp = 0 /\ ~busy
  /\ drawing # "none" => pc = "draw" /\ wle <= Len(lists[drawing]) + 1
  /\ busy => wle <= Len(lists[drawing]) /\ scratchpad >= Px(Padding.left)

\* The lists that are still to be drawn are empty in the window.
LaterInv ==
  /\ drawing = "L2R" => bar["CENTERED"].drawn = <<>> /\ bar["R2L"].drawn = <<>>
  /\ drawing = "CENTERED" => bar["R2L"].drawn = <<>>

\* The pen of the list stands behind its last widget, which is before the next entry.
PenInv ==
  drawing # "none" =>
    LET drawn == bar[drawing].drawn IN
    /\ drawn = <<>> => temp = 0
    /\ drawn # <<>> =>
         /\ wle <= Len(lists[drawing]) => temp = drawn[Len(drawn)].to + Px(Spacing)
         /\ \E m \in 1..(wle - 1) : drawn[Len(drawn)].widget = lists[drawing][m]

LIInv == IInv /\ Sorted /\ PenType /\ AtInv /\ LaterInv /\ PenInv /\ SideBySide

LEMMA SortedStep == IInv /\ Sorted /\ [Next]_vars => Sorted'
<1> SUFFICES ASSUME TypeOK, ListsInv, Sorted, [Next]_vars
             PROVE  Sorted'
  BY DEF IInv
<1>0. /\ next \in Nat /\ Len(tokens) \in Nat
      /\ lists \in [Directions -> Seq(1..Len(tokens))]
      /\ \A d \in Directions : Len(lists[d]) \in Nat
  <2>1. lists \in [Directions -> Seq(1..Len(tokens))]
    BY DEF TypeOK
  <2> QED
    BY <2>1, WidgetsAssumption DEF TypeOK
<1>1. CASE UNCHANGED lists
  BY <1>1 DEF Sorted
<1>2. CASE widget_create_from_recipe
  <2>1. next \in 1..Len(tokens) /\ direction \in Directions
    BY <1>2, <1>0 DEF widget_create_from_recipe, TypeOK
  <2>2. /\ \A c \in Directions \ {direction} : lists'[c] = lists[c]
        /\ \A k \in 1..Len(lists'[direction]) :
             \/ k \in 1..Len(lists[direction]) /\ lists'[direction][k] = lists[direction][k]
             \/ k = Len(lists[direction]) + 1 /\ lists'[direction][k] = next
    BY <1>0, <1>2, <2>1, LinkedAppend DEF widget_create_from_recipe
  <2>3. ASSUME NEW j \in 1..Len(lists'[direction]), NEW k \in 1..Len(lists'[direction]), j < k
        PROVE  lists'[direction][j] < lists'[direction][k]
    <3>1. j \in 1..Len(lists[direction]) /\ lists'[direction][j] = lists[direction][j]
      BY <1>0, <2>1, <2>2, <2>3
    <3>2. CASE k \in 1..Len(lists[direction]) /\ lists'[direction][k] = lists[direction][k]
      BY <2>1, <2>3, <3>1, <3>2 DEF Sorted
    <3>3. CASE lists'[direction][k] = next
      BY <2>1, <3>1, <3>3 DEF ListsInv
    <3> QED
      BY <2>2, <3>2, <3>3
  <2> QED
    BY <2>2, <2>3 DEF Sorted
<1>3. CASE free_widget_list
  <2>1. PICK d \in Directions : lists[d] # <<>> /\ lists' = [lists EXCEPT ![d] = Tail(@)]
    BY <1>3 DEF free_widget_list
  <2>2. ASSUME NEW c \in Directions, NEW j \in 1..Len(lists'[c]), NEW k \in 1..Len(lists'[c]), j < k
        PROVE  lists'[c][j] < lists'[c][k]
    <3>1. PICK n \in {0, 1} : \A x \in 1..Len(lists'[c]) :
            x + n \in 1..Len(lists[c]) /\ lists'[c][x] = lists[c][x + n]
      BY <1>0, <2>1, LinkedTail
    <3>2. j + n < k + n
      BY <2>2
    <3> QED
      BY <3>1, <3>2 DEF Sorted
  <2> QED
    BY <2>2 DEF Sorted
<1>4. CASE gui_freed
  <2>1. \A d \in Directions : lists'[d] = <<>> /\ Len(lists'[d]) = 0
    BY <1>4 DEF gui_freed
  <2> QED
    BY <2>1 DEF Sorted
<1>5. CASE separator \/ errx \/ widgets_created \/ gui_drawn \/ redraw \/ cleanup_gui
           \/ widgets_free \/ widgets_freed \/ UNCHANGED vars
  BY <1>1, <1>5 DEF separator, errx, widgets_created, gui_drawn, redraw, cleanup_gui,
     widgets_free, widgets_freed, vars
<1> QED
  BY <1>2, <1>3, <1>4, <1>5 DEF Next

\* What the pens of a scratchpad and of a list do.
LEMMA Pens ==
  ASSUME NEW x \in Nat, NEW w \in Nat
  PROVE  /\ Px(w) \in Nat
         /\ BEFORE_RENDER("L2R", x, w) = x /\ AFTER_RENDER("L2R", x, w) = x + w
         /\ xctx_reset("L2R", ZEROPAD) = 0 /\ xctx_complete("L2R", x, ZEROPAD) = x
         /\ xctx_reset("L2R", Padding) = Px(Padding.left)
         /\ xctx_complete("L2R", x, Padding) = x + Px(Padding.right)
         /\ {Px(Padding.left), Px(Padding.right), Px(Spacing)} \subseteq Nat
         /\ Px(Padding.left + Padding.right) = Px(Padding.left) + Px(Padding.right)
<1>1. Padding.left \in Nat /\ Padding.right \in Nat /\ Spacing \in Nat
  BY LayoutAssumption
<1> QED
  BY <1>1 DEF Px, BEFORE_RENDER, AFTER_RENDER, xctx_reset, xctx_complete, ZEROPAD

\* Every call moves the pen by a natural number.
LEMMA Advances ==
  ASSUME NEW call PROVE Advance(call) \subseteq Nat
<1>1. ChartWidth \in Nat /\ NSAMPLES \in Nat /\ TextWidths \subseteq Nat
  BY LayoutAssumption
<1>2. (ChartWidth \div 2) + 1 \in Nat
  BY <1>1
<1>3. CASE call[1] = "xdraw_printf"
  BY <1>1, <1>3 DEF Advance
<1>4. CASE call[1] # "xdraw_printf"
  <2>1. PICK w : Advance(call) = {w} /\ w \in {ChartWidth, (ChartWidth \div 2) + 1, 2, NSAMPLES, 0}
    BY <1>4 DEF Advance
  <2> QED
    BY <1>1, <1>2, <2>1
<1> QED
  BY <1>3, <1>4

\* Where a list comes to be, in half pixels.
LEMMA ListAt ==
  ASSUME NEW d \in Directions, NEW w \in Nat
  PROVE  BEFORE_RENDER(d, xctx_reset(d, Margin), w) \in Int
<1>1. Width \in Nat /\ Margin.left \in Nat /\ Margin.right \in Nat
  BY LayoutAssumption
<1>2. Width \div 2 \in Int /\ w \div 2 \in Int
  BY <1>1
<1> QED
  BY <1>1, <1>2 DEF BEFORE_RENDER, xctx_reset, Px

\* SideBySide, of one list.
Good(drawn) ==
  \A k \in 1..Len(drawn) :
    /\ drawn[k].to - drawn[k].from >= Px(Padding.left + Padding.right)
    /\ IF k = 1 THEN drawn[k].from = 0
       ELSE drawn[k].from = drawn[k - 1].to + Px(Spacing) /\ drawn[k - 1].widget < drawn[k].widget

LEMMA SideBySideIsGood == SideBySide <=> \A d \in Directions : Good(bar[d].drawn)
BY DEF SideBySide, Good

\* What the theorem is about, apart from the widgets.
BarInv == PenType /\ AtInv /\ LaterInv /\ PenInv /\ SideBySide

LEMMA BarPush == LIInv /\ xwin_push => BarInv'
<1> SUFFICES ASSUME LIInv, xwin_push PROVE BarInv'
  OBVIOUS
<1>0. /\ PenType /\ AtInv /\ TypeOK
      /\ drawing' = "L2R" /\ pc = "draw" /\ ~busy /\ wle = 1 /\ temp = 0
      /\ UNCHANGED <<pc, tokens, lists, is_setup, wle, busy, scratchpad, temp>>
  BY DEF LIInv, IInv, AtInv, xwin_push, vars
<1>1. \A d \in Directions : bar'[d] = [at |-> 0, width |-> 0, drawn |-> <<>>]
  BY DEF xwin_push, Empty
<1>2. bar' \in [Directions -> [at : Int, width : Nat, drawn : Seq(Item)]]
  <2>1. <<>> \in Seq(Item)
    OBVIOUS
  <2> QED
    BY <2>1 DEF xwin_push, Empty
<1>3. {"L2R", "CENTERED", "R2L"} = Directions /\ Len(lists["L2R"]) \in Nat
  <2>1. lists["L2R"] \in Seq(1..Len(tokens))
    BY <1>0 DEF TypeOK, Directions
  <2> QED
    BY <2>1 DEF Directions
<1>4. PenType'
  BY <1>0, <1>2, <1>3 DEF PenType
<1>5. AtInv'
  BY <1>0, <1>3 DEF AtInv
<1>6. LaterInv' /\ PenInv'
  BY <1>0, <1>1, <1>3 DEF LaterInv, PenInv
<1>7. \A d \in Directions : bar'[d].drawn = <<>> /\ Len(bar'[d].drawn) = 0
  BY <1>1
<1>8. SideBySide'
  BY <1>7 DEF SideBySide
<1> QED
  BY <1>4, <1>5, <1>6, <1>8 DEF BarInv

LEMMA BarSkip == LIInv /\ skip => BarInv'
<1> SUFFICES ASSUME LIInv, skip PROVE BarInv'
  OBVIOUS
<1>0. /\ PenType /\ AtInv /\ LaterInv /\ PenInv /\ SideBySide /\ TypeOK
      /\ drawing # "none" /\ drawing \in Directions /\ ~busy
      /\ wle \in Nat \ {0} /\ wle <= Len(lists[drawing]) /\ wle' = wle + 1
      /\ UNCHANGED <<pc, tokens, lists, is_setup, drawing, busy, scratchpad, temp, bar>>
  BY DEF LIInv, IInv, PenType, skip, vars
<1>1. Len(lists[drawing]) \in Nat
  <2>1. lists[drawing] \in Seq(1..Len(tokens))
    BY <1>0 DEF TypeOK
  <2> QED
    BY <2>1
<1>2. PenType'
  BY <1>0 DEF PenType
<1>3. AtInv'
  BY <1>0, <1>1 DEF AtInv
<1>4. PenInv'
  <2>1. \A m \in 1..(wle - 1) : m \in 1..(wle' - 1)
    BY <1>0
  <2>2. wle' <= Len(lists[drawing]) => wle <= Len(lists[drawing])
    BY <1>0
  <2> QED
    BY <1>0, <2>1, <2>2 DEF PenInv
<1>5. LaterInv' /\ SideBySide'
  BY <1>0 DEF LaterInv, SideBySide
<1> QED
  BY <1>2, <1>3, <1>4, <1>5 DEF BarInv

LEMMA BarWidget == LIInv /\ (draw_widget \/ widget_draw) => BarInv'
<1> SUFFICES ASSUME LIInv, draw_widget \/ widget_draw PROVE BarInv'
  OBVIOUS
<1>0. /\ PenType /\ AtInv /\ LaterInv /\ PenInv /\ SideBySide
      /\ UNCHANGED <<pc, tokens, lists, is_setup, drawing, wle, temp, bar>>
  BY DEF LIInv, draw_widget, widget_draw, vars
<1>1. busy' = TRUE /\ drawing # "none" /\ wle <= Len(lists[drawing])
  BY <1>0 DEF draw_widget, widget_draw, AtInv
<1>2. scratchpad' \in Nat /\ scratchpad' >= Px(Padding.left)
  <2>1. CASE draw_widget
    <3>1. Px(Padding.left) \in Nat /\ xctx_reset("L2R", Padding) = Px(Padding.left)
      BY Pens
    <3> QED
      BY <2>1, <3>1 DEF draw_widget
  <2>2. CASE widget_draw
    <3>1. PICK w \in Advance(Head(todo)) :
            scratchpad' = AFTER_RENDER("L2R", BEFORE_RENDER("L2R", scratchpad, Px(w)), Px(w))
      BY <2>2 DEF widget_draw
    <3>2. w \in Nat /\ scratchpad \in Nat
      BY <1>0, Advances DEF PenType
    <3>3. Px(w) \in Nat
      BY <3>2 DEF Px
    <3>4. scratchpad' = scratchpad + Px(w)
      BY <3>1, <3>2, <3>3, Pens
    <3>5. scratchpad >= Px(Padding.left) /\ Px(Padding.left) \in Nat
      BY <1>0, <2>2, Pens DEF AtInv, widget_draw
    <3> QED
      BY <3>2, <3>3, <3>4, <3>5
  <2> QED
    BY <2>1, <2>2
<1>3. PenType'
  BY <1>0, <1>1, <1>2 DEF PenType
<1>4. AtInv'
  <2>1. UNCHANGED Px(Padding.left)
    BY DEF Px
  <2> QED
    BY <1>0, <1>1, <1>2, <2>1 DEF AtInv
<1>5. LaterInv' /\ PenInv' /\ SideBySide'
  BY <1>0 DEF LaterInv, PenInv, SideBySide
<1> QED
  BY <1>3, <1>4, <1>5 DEF BarInv

LEMMA BarEnd == LIInv /\ draw_widget_end => BarInv'
<1> SUFFICES ASSUME LIInv, draw_widget_end PROVE BarInv'
  OBVIOUS
<1> DEFINE width == xctx_complete("L2R", scratchpad, Padding)
           old   == bar[drawing].drawn
           item  == [widget |-> lists[drawing][wle], from |-> temp, to |-> temp + width]
<1>0. /\ PenType /\ AtInv /\ LaterInv /\ PenInv /\ SideBySide /\ TypeOK /\ Sorted
      /\ busy /\ busy' = FALSE /\ scratchpad' = 0 /\ wle' = wle + 1
      /\ UNCHANGED <<pc, tokens, lists, is_setup, drawing>>
  BY DEF LIInv, IInv, draw_widget_end, vars
<1>1. /\ drawing \in Directions /\ drawing # "none" /\ wle \in 1..Len(lists[drawing])
      /\ Len(lists[drawing]) \in Nat
      /\ lists[drawing] \in Seq(1..Len(tokens))
  <2>1. drawing \in Directions /\ drawing # "none" /\ wle \in Nat \ {0} /\ wle <= Len(lists[drawing])
    BY <1>0 DEF PenType, AtInv
  <2>2. lists[drawing] \in Seq(1..Len(tokens))
    BY <1>0, <2>1 DEF TypeOK
  <2> QED
    BY <2>1, <2>2
<1>2. /\ temp \in Nat /\ width \in Nat /\ Px(Spacing) \in Nat
      /\ width >= Px(Padding.left + Padding.right)
      /\ Px(Padding.left + Padding.right) \in Nat
  <2>1. scratchpad \in Nat /\ temp \in Nat /\ scratchpad >= Px(Padding.left)
    BY <1>0 DEF PenType, AtInv
  <2>2. /\ width = scratchpad + Px(Padding.right)
        /\ {Px(Padding.left), Px(Padding.right), Px(Spacing)} \subseteq Nat
        /\ Px(Padding.left + Padding.right) = Px(Padding.left) + Px(Padding.right)
    BY <2>1, Pens
  <2> QED
    BY <2>1, <2>2
<1> HIDE DEF width
<1>3. /\ bar' = [bar EXCEPT ![drawing].drawn = Append(@, item)]
      /\ temp' = IF wle < Len(lists[drawing]) THEN temp + width + Px(Spacing) ELSE temp + width
  <2>1. /\ BEFORE_RENDER("L2R", temp, width) = temp /\ AFTER_RENDER("L2R", temp, width) = temp + width
        /\ temp + width \in Nat
    <3>1. \A x, w \in Nat : BEFORE_RENDER("L2R", x, w) = x /\ AFTER_RENDER("L2R", x, w) = x + w
      BY Pens
    <3>2. temp + width \in Nat
      BY <1>2
    <3> QED
      BY <1>2, <3>1, <3>2
  <2>2. AFTER_RENDER("L2R", temp + width, Px(Spacing)) = temp + width + Px(Spacing)
    BY <1>2, <2>1, Pens
  <2> QED
    BY <2>1, <2>2 DEF draw_widget_end, Drawn, width
<1>4. /\ lists[drawing][wle] \in Nat /\ item \in Item
      /\ old \in Seq(Item) /\ Len(old) \in Nat
  <2>1. lists[drawing][wle] \in Nat
    BY <1>1
  <2>2. old \in Seq(Item)
    BY <1>0, <1>1 DEF PenType
  <2> QED
    BY <1>2, <2>1, <2>2 DEF Item
<1>5. /\ bar'[drawing].drawn = Append(old, item)
      /\ \A d \in Directions \ {drawing} : bar'[d] = bar[d]
  BY <1>0, <1>1, <1>3 DEF PenType
<1>6. PenType'
  <2>1. bar' \in [Directions -> [at : Int, width : Nat, drawn : Seq(Item)]]
    <3>1. Append(old, item) \in Seq(Item)
      BY <1>4
    <3>2. bar[drawing] \in [at : Int, width : Nat, drawn : Seq(Item)]
      BY <1>0, <1>1 DEF PenType
    <3>3. [bar[drawing] EXCEPT !.drawn = Append(old, item)] \in [at : Int, width : Nat, drawn : Seq(Item)]
      BY <3>1, <3>2
    <3>4. bar' = [bar EXCEPT ![drawing] = [bar[drawing] EXCEPT !.drawn = Append(old, item)]]
      BY <1>3
    <3> QED
      BY <3>3, <3>4, <1>0, <1>1 DEF PenType
  <2>2. temp' \in Nat /\ wle' \in Nat \ {0}
    BY <1>0, <1>1, <1>2, <1>3
  <2> QED
    BY <1>0, <2>1, <2>2 DEF PenType
<1>7. AtInv'
  BY <1>0, <1>1 DEF AtInv
<1>8. LaterInv'
  BY <1>0, <1>1, <1>5 DEF LaterInv, Directions
<1>9. /\ Len(Append(old, item)) = Len(old) + 1
      /\ Append(old, item)[Len(old) + 1] = item
      /\ \A k \in 1..Len(old) : Append(old, item)[k] = old[k]
      /\ Append(old, item) # <<>>
  BY <1>4
<1>10. PenInv'
  <2>1. wle' <= Len(lists[drawing]) => temp' = item.to + Px(Spacing)
    BY <1>0, <1>1, <1>2, <1>3
  <2>2. wle \in 1..(wle' - 1) /\ item.widget = lists[drawing][wle]
    BY <1>0, <1>1
  <2>3. UNCHANGED Px(Spacing)
    BY DEF Px
  <2>4. /\ drawing' = drawing /\ lists' = lists
        /\ bar'[drawing].drawn # <<>>
        /\ bar'[drawing].drawn[Len(bar'[drawing].drawn)] = item
    BY <1>0, <1>5, <1>9
  <2> QED
    BY <2>1, <2>2, <2>3, <2>4 DEF PenInv
<1>11. Good(Append(old, item))
  <2> DEFINE new == Append(old, item)
  <2>1. Good(old)
    BY <1>0, <1>1, SideBySideIsGood
  <2>2. item.to - item.from >= Px(Padding.left + Padding.right)
    BY <1>2
  <2>3. ASSUME old # <<>>
        PROVE  item.from = old[Len(old)].to + Px(Spacing) /\ old[Len(old)].widget < item.widget
    <3>1. temp = old[Len(old)].to + Px(Spacing)
      BY <1>0, <1>1, <2>3 DEF PenInv
    <3>2. PICK m \in 1..(wle - 1) : old[Len(old)].widget = lists[drawing][m]
      BY <1>0, <1>1, <2>3 DEF PenInv
    <3>3. m \in 1..Len(lists[drawing]) /\ m < wle
      BY <1>1
    <3>4. lists[drawing][m] < lists[drawing][wle]
      BY <1>0, <1>1, <3>3 DEF Sorted
    <3> QED
      BY <3>1, <3>2, <3>4
  <2>4. old = <<>> => item.from = 0
    BY <1>0, <1>1 DEF PenInv
  <2>5. ASSUME NEW k \in 1..Len(new)
        PROVE  /\ new[k].to - new[k].from >= Px(Padding.left + Padding.right)
               /\ IF k = 1 THEN new[k].from = 0
                  ELSE new[k].from = new[k - 1].to + Px(Spacing) /\ new[k - 1].widget < new[k].widget
    <3>1. CASE k \in 1..Len(old)
      <4>1. k # 1 => k - 1 \in 1..Len(old)
        BY <1>4, <3>1
      <4>2. new[k] = old[k] /\ (k # 1 => new[k - 1] = old[k - 1])
        BY <1>9, <3>1, <4>1
      <4> QED
        BY <2>1, <3>1, <4>2 DEF Good
    <3>2. CASE k = Len(old) + 1
      <4>1. new[k] = item
        BY <1>9, <3>2
      <4>2. CASE k = 1
        <5>1. old = <<>>
          BY <1>4, <3>2, <4>2
        <5> QED
          BY <2>2, <2>4, <4>1, <4>2, <5>1
      <4>3. CASE k # 1
        <5>1. old # <<>> /\ k - 1 = Len(old) /\ k - 1 \in 1..Len(old)
          BY <1>4, <3>2, <4>3
        <5>2. new[k - 1] = old[Len(old)]
          BY <1>9, <5>1
        <5> QED
          BY <2>2, <2>3, <4>1, <4>3, <5>1, <5>2
      <4> QED
        BY <4>2, <4>3
    <3> QED
      BY <1>4, <1>9, <3>1, <3>2
  <2> QED
    BY <2>5 DEF Good
<1>12. SideBySide'
  <2>1. \A d \in Directions : Good(bar'[d].drawn)
    BY <1>0, <1>5, <1>11, SideBySideIsGood
  <2> QED
    BY <2>1 DEF SideBySide, Good, Px
<1> QED
  BY <1>6, <1>7, <1>8, <1>10, <1>12 DEF BarInv

LEMMA BarContext == LIInv /\ xdraw_context => BarInv'
<1> SUFFICES ASSUME LIInv, xdraw_context PROVE BarInv'
  OBVIOUS
<1> DEFINE width == xctx_complete("L2R", temp, ZEROPAD)
           at    == BEFORE_RENDER(drawing, xctx_reset(drawing, Margin), width)
<1>0. /\ PenType /\ AtInv /\ LaterInv /\ SideBySide /\ TypeOK
      /\ drawing # "none" /\ ~busy /\ wle' = 1
      /\ UNCHANGED <<lists, is_setup, busy, scratchpad>>
  BY DEF LIInv, IInv, xdraw_context, vars, gui_drawn
<1>1. drawing \in Directions /\ pc = "draw"
  BY <1>0 DEF PenType, AtInv
<1>2. width \in Nat /\ at \in Int /\ temp' = 0
  <2>1. temp \in Nat
    BY <1>0 DEF PenType
  <2>2. width = temp
    BY <2>1, Pens
  <2>3. xctx_reset("L2R", ZEROPAD) = 0
    BY <2>1, Pens
  <2> QED
    BY <1>1, <2>1, <2>2, <2>3, ListAt DEF xdraw_context
<1>3. bar' = [bar EXCEPT ![drawing].width = width, ![drawing].at = at]
  BY DEF xdraw_context
<1>4. /\ drawing = "R2L" => drawing' = "none"
      /\ drawing = "L2R" => drawing' = "CENTERED" /\ pc' = pc
      /\ drawing = "CENTERED" => drawing' = "R2L" /\ pc' = pc
  BY DEF xdraw_context, vars
<1> HIDE DEF width, at
<1>5. \A d \in Directions : bar'[d].drawn = bar[d].drawn
  BY <1>0, <1>1, <1>3 DEF PenType
<1>6. bar' \in [Directions -> [at : Int, width : Nat, drawn : Seq(Item)]]
  <2>1. bar[drawing] \in [at : Int, width : Nat, drawn : Seq(Item)]
    BY <1>0, <1>1 DEF PenType
  <2>2. [bar[drawing] EXCEPT !.width = width, !.at = at] \in [at : Int, width : Nat, drawn : Seq(Item)]
    BY <1>2, <2>1
  <2>3. bar' = [bar EXCEPT ![drawing] = [bar[drawing] EXCEPT !.width = width, !.at = at]]
    BY <1>0, <1>1, <1>3 DEF PenType
  <2> QED
    BY <2>2, <2>3, <1>0, <1>1 DEF PenType
<1>7. PenType'
  <2>1. drawing' \in Directions \cup {"none"}
    BY <1>1, <1>4 DEF Directions
  <2> QED
    BY <1>0, <1>2, <1>6, <2>1 DEF PenType
<1>8. AtInv'
  <2>1. \A d \in Directions : Len(lists[d]) \in Nat
    <3>1. \A d \in Directions : lists[d] \in Seq(1..Len(tokens))
      BY <1>0 DEF TypeOK
    <3> QED
      BY <3>1
  <2>2. drawing' # "none" => pc' = "draw" /\ drawing' \in Directions
    BY <1>1, <1>4 DEF Directions
  <2> QED
    BY <1>0, <1>2, <2>1, <2>2 DEF AtInv
<1>9. LaterInv'
  BY <1>0, <1>1, <1>4, <1>5 DEF LaterInv, Directions
<1>10. drawing' # "none" => drawing' \in Directions /\ bar'[drawing'].drawn = <<>>
  BY <1>0, <1>1, <1>4, <1>5 DEF LaterInv, Directions
<1>11. PenInv'
  BY <1>2, <1>10 DEF PenInv
<1>12. SideBySide'
  BY <1>0, <1>5 DEF SideBySide, Px
<1> QED
  BY <1>7, <1>8, <1>9, <1>11, <1>12 DEF BarInv

\* The steps of Widgets that are no drawing are taken between two drawings, or leave
\* the lists alone.
LEMMA BarWidgets ==
  ASSUME LIInv, UNCHANGED lvars,
         \/ UNCHANGED <<pc, tokens, lists>>
         \/ pc # "draw"
  PROVE  BarInv'
<1>0. /\ PenType /\ AtInv /\ LaterInv /\ PenInv /\ SideBySide
      /\ UNCHANGED <<is_setup, drawing, wle, busy, scratchpad, temp, bar>>
  BY DEF LIInv, lvars
<1>1. PenType' /\ LaterInv' /\ SideBySide'
  BY <1>0 DEF PenType, LaterInv, SideBySide, Px
<1>2. AtInv' /\ PenInv'
  <2>1. CASE UNCHANGED <<pc, tokens, lists>>
    BY <1>0, <2>1 DEF AtInv, PenInv, Px
  <2>2. CASE pc # "draw"
    <3>1. drawing = "none" /\ ~busy
      BY <1>0, <2>2 DEF AtInv
    <3> QED
      BY <1>0, <3>1 DEF AtInv, PenInv
  <2> QED
    BY <2>1, <2>2
<1> QED
  BY <1>1, <1>2 DEF BarInv

LEMMA BarInit == LInit => BarInv
<1> SUFFICES ASSUME LInit PROVE BarInv
  OBVIOUS
<1>1. /\ is_setup \in Setups /\ drawing = "none" /\ wle = 1 /\ busy = FALSE /\ scratchpad = 0
      /\ temp = 0
  <2>1. xctx_reset("L2R", ZEROPAD) = 0
    BY Pens, 0 \in Nat
  <2> QED
    BY <2>1 DEF LInit
<1>2. bar \in [Directions -> [at : Int, width : Nat, drawn : Seq(Item)]]
  <2>1. <<>> \in Seq(Item)
    OBVIOUS
  <2> QED
    BY <2>1 DEF LInit, Empty
<1>3. \A d \in Directions : bar[d].drawn = <<>> /\ Len(bar[d].drawn) = 0
  BY DEF LInit, Empty
<1>4. SideBySide
  BY <1>3 DEF SideBySide
<1>5. PenType
  <2>1. busy \in BOOLEAN
    BY <1>1
  <2>2. wle \in Nat \ {0} /\ scratchpad \in Nat /\ temp \in Nat
    BY <1>1
  <2>3. is_setup \in Setups /\ drawing \in Directions \cup {"none"}
    BY <1>1
  <2> QED
    BY <1>2, <2>1, <2>2, <2>3 DEF PenType
<1>6. AtInv
  BY <1>1 DEF AtInv
<1>7. LaterInv
  BY <1>1 DEF LaterInv
<1>8. PenInv
  BY <1>1 DEF PenInv
<1> QED
  BY <1>4, <1>5, <1>6, <1>7, <1>8 DEF BarInv

LEMMA BarStep == LIInv /\ [LNext]_<<vars, lvars>> => BarInv'
<1> SUFFICES ASSUME LIInv, [LNext]_<<vars, lvars>>
             PROVE  BarInv'
  OBVIOUS
<1>1. CASE xwin_push
  BY <1>1, BarPush
<1>2. CASE skip
  BY <1>2, BarSkip
<1>3. CASE draw_widget \/ widget_draw
  BY <1>3, BarWidget
<1>4. CASE draw_widget_end
  BY <1>4, BarEnd
<1>5. CASE xdraw_context
  BY <1>5, BarContext
<1>6. CASE UNCHANGED lvars /\ (separator \/ widget_create_from_recipe \/ errx \/ widgets_created)
  <2>1. pc = "create"
    BY <1>6 DEF separator, widget_create_from_recipe, errx, widgets_created
  <2> QED
    BY <1>6, <2>1, BarWidgets
<1>7. CASE UNCHANGED lvars /\ (redraw \/ cleanup_gui)
  <2>1. pc = "shown"
    BY <1>7 DEF redraw, cleanup_gui
  <2> QED
    BY <1>7, <2>1, BarWidgets
<1>8. CASE UNCHANGED lvars /\ (widgets_free \/ widgets_freed \/ free_widget_list \/ gui_freed)
  <2>1. pc \in {"widgets_free", "gui_free"}
    BY <1>8 DEF widgets_free, widgets_freed, free_widget_list, gui_freed
  <2> QED
    BY <1>8, <2>1, BarWidgets
<1>9. CASE UNCHANGED <<vars, lvars>>
  <2>1. UNCHANGED lvars /\ UNCHANGED <<pc, tokens, lists>>
    BY <1>9 DEF vars
  <2> QED
    BY <2>1, BarWidgets
<1> QED
  BY <1>1, <1>2, <1>3, <1>4, <1>5, <1>6, <1>7, <1>8, <1>9 DEF LNext

\* The inductive invariant: of the widgets, of the order in the lists, and of the pens.
THEOREM LInvariance == LSpec => []LIInv
<1>1. LInit => LIInv
  <2>1. Init => Sorted
    <3> SUFFICES ASSUME Init PROVE Sorted
      OBVIOUS
    <3>1. \A d \in Directions : Len(lists[d]) = 0
      BY DEF Init
    <3> QED
      BY <3>1 DEF Sorted
  <2> QED
    BY <2>1, InvInit, BarInit DEF LInit, LIInv, BarInv
<1>2. LIInv /\ [LNext]_<<vars, lvars>> => LIInv'
  <2>1. IInv /\ [Next]_vars => IInv'
    BY TypeStep, HeapStep, TableStep, ListsStep, PhaseStep, NamedStep DEF IInv
  <2> QED
    BY <2>1, StepRefines, SortedStep, BarStep DEF LIInv, BarInv
<1> QED
  BY <1>1, <1>2, PTL DEF LSpec

\* For all widths, paddings, texts and lists, the widgets of a list stand side by side
\* with the spacing between two, whichever of them are enabled (draw_widget_list()).
THEOREM NextToEachOther == LSpec => []SideBySide
<1>1. LIInv => SideBySide
  BY DEF LIInv
<1> QED
  BY <1>1, LInvariance, PTL

\* The entry that is drawn is in its list, only pc "draw" draws, and no pen is left of
\* the edge it starts from (gui.c, xdraw.c).
THEOREM PensTyped == LSpec => []LTypeOK
<1>1. LIInv => LTypeOK
  <2> SUFFICES ASSUME LIInv PROVE LTypeOK
    OBVIOUS
  <2>1. TypeOK /\ PenType /\ AtInv
    BY DEF LIInv, IInv
  <2>2. /\ is_setup \in Setups /\ drawing \in Directions \cup {"none"}
        /\ busy \in BOOLEAN /\ scratchpad \in Nat /\ temp \in Nat
    BY <2>1 DEF PenType
  <2>3. ASSUME drawing # "none"
        PROVE  pc = "draw" /\ wle \in 1..(Len(lists[drawing]) + 1)
    <3>1. lists[drawing] \in Seq(1..Len(tokens))
      BY <2>1, <2>2, <2>3 DEF TypeOK
    <3>2. Len(lists[drawing]) \in Nat
      BY <3>1
    <3> QED
      BY <2>1, <2>3, <3>2 DEF PenType, AtInv
  <2>4. busy => drawing # "none" /\ wle <= Len(lists[drawing])
    BY <2>1 DEF AtInv
  <2>5. ASSUME NEW d \in Directions
        PROVE  /\ bar[d].at \in Int /\ bar[d].width \in Nat
               /\ \A k \in 1..Len(bar[d].drawn) :
                    bar[d].drawn[k] \in [widget : Nat, from : Nat, to : Nat]
    <3>1. bar[d].at \in Int /\ bar[d].width \in Nat /\ bar[d].drawn \in Seq(Item)
      BY <2>1 DEF PenType
    <3>2. \A k \in 1..Len(bar[d].drawn) : bar[d].drawn[k] \in Item
      BY <3>1
    <3> QED
      BY <3>1, <3>2 DEF Item
  <2> QED
    BY <2>1, <2>2, <2>3, <2>4, <2>5 DEF LTypeOK
<1> QED
  BY <1>1, LInvariance, PTL

-----------------------------------------------------------------------------
(* The inductive invariant of what a drawing has put into the window.        *)

\* While the widgets are made and drawn, the lists hold those that the tokens so far
\* put there.
PlaceInv ==
  pc \in {"create", "draw", "shown"} =>
    /\ pc # "create" => next = Len(tokens) + 1
    /\ pc = "create" => \A d \in Directions : Says(next, d) <=> d = direction
    /\ \A d \in Directions : \A p \in 1..Len(tokens) :
         p \in Elems(lists[d]) <=> p < next /\ tokens[p] \in Names /\ Says(p, d)

\* A drawing is going on, or is in the window; it has drawn the list of this side.
Active  == drawing # "none" \/ pc = "shown"
Done(d) ==
  pc = "shown" \/ (drawing = "CENTERED" /\ d = "L2R") \/ (drawing = "R2L" /\ d # "R2L")

\* What the window shows on a side, and the entries that have had their turn.
Shown(d)   == {bar[d].drawn[k].widget : k \in 1..Len(bar[d].drawn)}
Visited(d) == IF Done(d) THEN 1..Len(lists[d]) ELSE IF d = drawing THEN 1..(wle - 1) ELSE {}

ShownInv ==
  /\ busy => Widget(drawing) \in is_setup
  /\ Active => \A d \in Directions :
    Shown(d) = {lists[d][m] : m \in {n \in Visited(d) : tokens[lists[d][n]] \in is_setup}}

\* What is behind the last widget of a list.
WidthOf(d, drawn) ==
  LET last == drawn[Len(drawn)] IN
  IF drawn = <<>> THEN 0
  ELSE IF last.widget = lists[d][Len(lists[d])] THEN last.to ELSE last.to + Px(Spacing)

\* The pen behind the whole list, and where the lists that are done were put.
FinalInv ==
  /\ drawing # "none" /\ wle > Len(lists[drawing]) => temp = WidthOf(drawing, bar[drawing].drawn)
  /\ \A d \in Directions : Done(d) =>
       /\ bar[d].width = WidthOf(d, bar[d].drawn)
       /\ bar[d].at = BEFORE_RENDER(d, xctx_reset(d, Margin), bar[d].width)

\* How many charts of a widget its drawing updates, and which ones a rest of it updates.
Charted(name) ==
  IF name = "cpushort" THEN 0
  ELSE LET recipe == WIDGET_RECIPES[name] IN
       IF recipe = "cpu" THEN Ncpu ELSE IF recipe = "memory" THEN 1
       ELSE IF recipe = "net" THEN 2 ELSE 0
Updates(calls) == {calls[j][2] : j \in {k \in 1..Len(calls) : calls[k][1] = "chart_update"}}
Once(calls) ==
  \A j, k \in 1..Len(calls) :
    calls[j][1] = "chart_update" /\ calls[k][1] = "chart_update" /\ calls[j][2] = calls[k][2] => j = k

Call ==
  {"xdraw_printf", "xdraw_progress_bar", "half bar", "xctx_advance", "chart_update", "xdraw_chart"}
    \X Nat
Sample == {"chart"} \X Nat \X Nat

\* The charts of all widgets that are drawn, and those of the one that is being drawn
\* that are not among the calls that are left.
Past    == UNION {Charts(p, Charted(tokens[p])) : p \in UNION {Shown(d) : d \in Directions}}
Present == {<<"chart", lists[drawing][wle], n>> :
              n \in (1..Charted(Widget(drawing))) \ Updates(todo)}

\* They have their sample, no other chart has, and each has one.
SampledInv ==
  /\ sampled \in Seq(Sample) /\ \A j, k \in 1..Len(sampled) : sampled[j] = sampled[k] => j = k
  /\ busy => todo \in Seq(Call) /\ Once(todo) /\ Updates(todo) \subseteq 1..Charted(Widget(drawing))
  /\ Active => Elems(sampled) = Past \cup (IF busy THEN Present ELSE {})

-----------------------------------------------------------------------------
(* Where a widget is put.                                                   *)

LEMMA SaysFirst ==
  ASSUME NEW d PROVE Says(1, d) <=> d = "L2R"
BY DEF Says

\* A separator says where the widgets behind it go, and any other token changes nothing.
LEMMA SaysNext ==
  ASSUME NEW p \in Nat \ {0}, NEW d
  PROVE  Says(p + 1, d) <=> IF tokens[p] \in Separators THEN d = DirectionOf(tokens[p])
                            ELSE Says(p, d)
<1> DEFINE free(a, b)  == \A r \in a..b : tokens[r] \notin Separators
           last(q, b)  == tokens[q] \in Separators /\ free(q + 1, b)
<1>1. \A x \in Nat \ {0} :
        Says(x, d) <=> \/ \E q \in 1..(x - 1) : last(q, x - 1) /\ d = DirectionOf(tokens[q])
                       \/ d = "L2R" /\ free(1, x - 1)
  BY DEF Says
<1>2. Says(p + 1, d) <=> \/ \E q \in 1..p : last(q, p) /\ d = DirectionOf(tokens[q])
                         \/ d = "L2R" /\ free(1, p)
  <2>1. p + 1 \in Nat \ {0} /\ (p + 1) - 1 = p
    OBVIOUS
  <2> HIDE DEF last, free
  <2> QED
    BY <1>1, <2>1
<1>3. Says(p, d) <=> \/ \E q \in 1..(p - 1) : last(q, p - 1) /\ d = DirectionOf(tokens[q])
                     \/ d = "L2R" /\ free(1, p - 1)
  BY <1>1
<1>4. \A a \in 1..p : free(a, p) <=> free(a, p - 1) /\ tokens[p] \notin Separators
  <2>1. \A a \in 1..p : a..p = (a..(p - 1)) \cup {p}
    OBVIOUS
  <2> QED
    BY <2>1
<1>5. \A q \in 1..(p - 1) : last(q, p) <=> last(q, p - 1) /\ tokens[p] \notin Separators
  <2>1. \A q \in 1..(p - 1) : q + 1 \in 1..p
    OBVIOUS
  <2> HIDE DEF free
  <2> QED
    BY <1>4, <2>1
<1>6. last(p, p) <=> tokens[p] \in Separators
  OBVIOUS
<1>7. 1..p = (1..(p - 1)) \cup {p} /\ 1 \in 1..p
  OBVIOUS
<1> HIDE DEF last, free
<1> QED
  BY <1>2, <1>3, <1>4, <1>5, <1>6, <1>7

LEMMA NamesNoSeparators == Names \cap Separators = {}
BY DEF Names, WIDGET_RECIPES, Separators

LEMMA PlaceInit == Init => PlaceInv
<1> SUFFICES ASSUME Init PROVE PlaceInv
  OBVIOUS
<1>1. \A d \in Directions : Elems(lists[d]) = {}
  BY DEF Init, Elems
<1>2. pc = "create" /\ next = 1 /\ direction = "L2R"
  BY DEF Init
<1>3. \A d \in Directions : Says(1, d) <=> d = "L2R"
  BY SaysFirst
<1>4. \A p \in 1..Len(tokens) : ~(p < 1)
  BY WidgetsAssumption DEF Init
<1> QED
  BY <1>1, <1>2, <1>3, <1>4 DEF PlaceInv

LEMMA PlaceStep == IInv /\ PlaceInv /\ [Next]_vars => PlaceInv'
<1> SUFFICES ASSUME TypeOK, PhaseInv, PlaceInv, [Next]_vars
             PROVE  PlaceInv'
  BY DEF IInv
<1>0. /\ next \in Nat \ {0} /\ Len(tokens) \in Nat
      /\ lists \in [Directions -> Seq(1..Len(tokens))]
  BY WidgetsAssumption DEF TypeOK
<1>1. \A p, d : tokens' = tokens => (Says(p, d)' <=> Says(p, d))
  BY DEF Says
<1>2. CASE separator
  <2>1. /\ pc = "create" /\ pc' = "create" /\ next \in 1..Len(tokens) /\ tokens[next] \in Separators
        /\ direction' = DirectionOf(tokens[next]) /\ next' = next + 1
        /\ UNCHANGED <<tokens, lists>>
    BY <1>0, <1>2 DEF separator
  <2>2. \A d \in Directions : Says(next + 1, d) <=> d = DirectionOf(tokens[next])
    BY <1>0, <2>1, SaysNext
  <2>3. \A d \in Directions : Says(next, d)' <=> d = direction'
    BY <2>1, <2>2 DEF Says
  <2>4. \A d \in Directions : Elems(lists'[d]) = Elems(lists[d])
    BY <2>1 DEF Elems
  <2>5. tokens[next] \notin Names
    BY <2>1, NamesNoSeparators
  <2>6. \A p \in 1..Len(tokens) : p < next + 1 /\ tokens[p] \in Names <=> p < next /\ tokens[p] \in Names
    BY <1>0, <2>5
  <2>7. ASSUME NEW d \in Directions, NEW p \in 1..Len(tokens)
        PROVE  p \in Elems(lists'[d]) <=> p < next' /\ tokens'[p] \in Names /\ Says(p, d)'
    BY <1>1, <2>1, <2>4, <2>6 DEF PlaceInv
  <2> QED
    BY <2>1, <2>3, <2>7 DEF PlaceInv
<1>3. CASE widget_create_from_recipe
  <2>1. /\ pc = "create" /\ pc' = "create" /\ next \in 1..Len(tokens) /\ tokens[next] \in Names
        /\ lists' = [lists EXCEPT ![direction] = Append(@, next)] /\ next' = next + 1
        /\ UNCHANGED <<tokens, direction>>
        /\ direction \in Directions
    BY <1>0, <1>3 DEF widget_create_from_recipe, TypeOK
  <2>2. tokens[next] \notin Separators
    BY <2>1, NamesNoSeparators
  <2>3. \A d \in Directions : Says(next + 1, d) <=> Says(next, d)
    BY <1>0, <2>2, SaysNext
  <2>4. \A d \in Directions : Says(next, d) <=> d = direction
    BY <2>1 DEF PlaceInv
  <2>5. \A d \in Directions : Says(next, d)' <=> d = direction'
    <3>1. \A d \in Directions : Says(next, d)' <=> Says(next + 1, d)
      BY <2>1 DEF Says
    <3> QED
      BY <2>1, <2>3, <2>4, <3>1
  <2>6. /\ Elems(lists'[direction]) = Elems(lists[direction]) \cup {next}
        /\ \A d \in Directions \ {direction} : Elems(lists'[d]) = Elems(lists[d])
    <3>1. lists'[direction] = Append(lists[direction], next) /\ lists[direction] \in Seq(1..Len(tokens))
      BY <1>0, <2>1
    <3>2. Elems(Append(lists[direction], next)) = Elems(lists[direction]) \cup {next}
      BY <2>1, <3>1, ElemsAppend
    <3>3. \A d \in Directions \ {direction} : lists'[d] = lists[d]
      BY <1>0, <2>1
    <3> QED
      BY <2>1, <3>1, <3>2, <3>3 DEF Elems
  <2>7. ASSUME NEW d \in Directions, NEW p \in 1..Len(tokens)
        PROVE  p \in Elems(lists'[d]) <=> p < next' /\ tokens'[p] \in Names /\ Says(p, d)'
    <3>1. p \in Elems(lists[d]) <=> p < next /\ tokens[p] \in Names /\ Says(p, d)
      BY <2>1 DEF PlaceInv
    <3>2. p < next + 1 <=> p < next \/ p = next
      BY <1>0
    <3>3. p \in Elems(lists'[d]) <=> p \in Elems(lists[d]) \/ (p = next /\ d = direction)
      BY <2>6
    <3>4. p = next => tokens[p] \in Names /\ ~(p < next) /\ (Says(p, d) <=> d = direction)
      BY <1>0, <2>1, <2>4
    <3>5. Says(p, d)' <=> Says(p, d)
      BY <1>1, <2>1
    <3> QED
      BY <2>1, <3>1, <3>2, <3>3, <3>4, <3>5
  <2> QED
    BY <2>1, <2>5, <2>7 DEF PlaceInv
<1>4. CASE widgets_created
  <2>1. /\ pc = "create" /\ pc' = "draw" /\ next = Len(tokens) + 1
        /\ UNCHANGED <<tokens, next, lists>>
    BY <1>0, <1>4 DEF widgets_created, TypeOK
  <2> QED
    BY <1>1, <2>1 DEF PlaceInv, Elems
<1>5. CASE gui_drawn \/ redraw \/ UNCHANGED vars
  <2>1. /\ UNCHANGED <<tokens, next, direction, lists>>
        /\ pc' # pc => pc \in {"draw", "shown"} /\ pc' \in {"draw", "shown"}
    BY <1>5 DEF gui_drawn, redraw, vars
  <2> QED
    BY <1>1, <2>1 DEF PlaceInv, Elems
<1>6. CASE errx \/ cleanup_gui \/ widgets_free \/ widgets_freed \/ free_widget_list
  <2>1. pc' \in {"exited", "widgets_free", "gui_free"}
    BY <1>6 DEF errx, cleanup_gui, widgets_free, widgets_freed, free_widget_list
  <2> QED
    BY <2>1 DEF PlaceInv
<1>7. CASE gui_freed
  <2>1. CASE quit
    BY <1>7, <2>1 DEF gui_freed, PlaceInv
  <2>2. CASE ~quit
    <3>1. /\ pc' = "create" /\ tokens' \in Lists /\ next' = 1 /\ direction' = "L2R"
          /\ \A d \in Directions : lists'[d] = <<>>
      BY <1>7, <2>2 DEF gui_freed
    <3>2. \A d \in Directions : Elems(lists'[d]) = {}
      BY <3>1 DEF Elems
    <3>3. \A d \in Directions : Says(next, d)' <=> d = direction'
      BY <3>1 DEF Says
    <3>4. \A p \in 1..Len(tokens') : ~(p < 1)
      BY <3>1, WidgetsAssumption
    <3> QED
      BY <3>1, <3>2, <3>3, <3>4 DEF PlaceInv
  <2> QED
    BY <2>1, <2>2
<1> QED
  BY <1>2, <1>3, <1>4, <1>5, <1>6, <1>7 DEF Next

-----------------------------------------------------------------------------
(* What is shown, and where.                                                *)

\* The list that is drawn, and the entry of it.
LEMMA InList ==
  ASSUME LIInv, drawing # "none"
  PROVE  /\ drawing \in Directions /\ pc = "draw"
         /\ lists[drawing] \in Seq(1..Len(tokens)) /\ Len(lists[drawing]) \in Nat
         /\ wle \in 1..(Len(lists[drawing]) + 1)
         /\ busy => wle \in 1..Len(lists[drawing])
         /\ bar[drawing].drawn \in Seq(Item) /\ Len(bar[drawing].drawn) \in Nat
<1>0. PenType /\ AtInv /\ TypeOK
  BY DEF LIInv, IInv
<1>1. drawing \in Directions /\ pc = "draw" /\ wle \in Nat \ {0} /\ wle <= Len(lists[drawing]) + 1
  BY <1>0 DEF PenType, AtInv
<1>2. lists[drawing] \in Seq(1..Len(tokens)) /\ bar[drawing].drawn \in Seq(Item)
  BY <1>0, <1>1 DEF TypeOK, PenType
<1>3. Len(lists[drawing]) \in Nat /\ Len(bar[drawing].drawn) \in Nat
  BY <1>2
<1>4. busy => wle <= Len(lists[drawing])
  BY <1>0 DEF AtInv
<1> QED
  BY <1>1, <1>2, <1>3, <1>4

\* A step that is no step of a drawing leaves all as it is, or leaves nothing in the window.
LEMMA NoDrawing ==
  ASSUME LIInv, [LNext]_<<vars, lvars>>, ~xwin_push, ~skip, ~draw_widget, ~widget_draw,
         ~draw_widget_end, ~xdraw_context
  PROVE  /\ UNCHANGED lvars
         /\ \/ UNCHANGED vars
            \/ drawing = "none" /\ ~busy /\ pc' # "shown"
<1>0. drawing # "none" => pc = "draw"
  BY InList
<1>1. busy => drawing # "none"
  BY DEF LIInv, AtInv
<1>2. CASE UNCHANGED lvars /\ (separator \/ widget_create_from_recipe \/ errx \/ widgets_created)
  BY <1>0, <1>1, <1>2 DEF separator, widget_create_from_recipe, errx, widgets_created
<1>3. CASE UNCHANGED lvars /\ (redraw \/ cleanup_gui)
  BY <1>0, <1>1, <1>3 DEF redraw, cleanup_gui
<1>4. CASE UNCHANGED lvars /\ (widgets_free \/ widgets_freed \/ free_widget_list \/ gui_freed)
  BY <1>0, <1>1, <1>4 DEF widgets_free, widgets_freed, free_widget_list, gui_freed
<1>5. CASE UNCHANGED <<vars, lvars>>
  BY <1>5
<1> QED
  BY <1>2, <1>3, <1>4, <1>5 DEF LNext

\* The end of a widget's drawing: it is put behind the last one of its list.
LEMMA EndFacts ==
  ASSUME LIInv, draw_widget_end
  PROVE  \E width \in Nat :
           LET item == [widget |-> lists[drawing][wle], from |-> temp, to |-> temp + width] IN
           /\ width = scratchpad + Px(Padding.right) /\ item \in Item
           /\ temp' = IF wle < Len(lists[drawing]) THEN temp + width + Px(Spacing) ELSE temp + width
           /\ bar'[drawing].drawn = Append(bar[drawing].drawn, item)
           /\ bar'[drawing].width = bar[drawing].width
           /\ \A d \in Directions \ {drawing} : bar'[d] = bar[d]
<1> DEFINE width == xctx_complete("L2R", scratchpad, Padding)
           item  == [widget |-> lists[drawing][wle], from |-> temp, to |-> temp + width]
<1>0. PenType /\ busy /\ drawing # "none"
  BY DEF LIInv, AtInv, draw_widget_end
<1>1. scratchpad \in Nat /\ temp \in Nat
  BY <1>0 DEF PenType
<1>2. width = scratchpad + Px(Padding.right) /\ Px(Padding.right) \in Nat /\ Px(Spacing) \in Nat
  BY <1>1, Pens
<1>3. width \in Nat
  BY <1>1, <1>2
<1> HIDE DEF width
<1>4. BEFORE_RENDER("L2R", temp, width) = temp /\ AFTER_RENDER("L2R", temp, width) = temp + width
  BY <1>1, <1>3, Pens
<1>5. temp + width \in Nat
  BY <1>1, <1>3
<1>6. AFTER_RENDER("L2R", temp + width, Px(Spacing)) = temp + width + Px(Spacing)
  BY <1>2, <1>5, Pens
<1>7. /\ bar' = [bar EXCEPT ![drawing].drawn = Append(@, item)]
      /\ temp' = IF wle < Len(lists[drawing]) THEN temp + width + Px(Spacing) ELSE temp + width
  BY <1>4, <1>6 DEF draw_widget_end, Drawn, width
<1>8. lists[drawing][wle] \in Nat /\ drawing \in Directions
  BY <1>0, InList
<1>9. item \in Item
  BY <1>1, <1>5, <1>8 DEF Item
<1>10. /\ bar'[drawing].drawn = Append(bar[drawing].drawn, item)
       /\ bar'[drawing].width = bar[drawing].width
       /\ \A d \in Directions \ {drawing} : bar'[d] = bar[d]
  BY <1>0, <1>7, <1>8 DEF PenType
<1> QED
  BY <1>2, <1>3, <1>7, <1>9, <1>10

\* The end of a list: it is put into the window.
LEMMA ContextFacts ==
  ASSUME LIInv, xdraw_context
  PROVE  /\ wle = Len(lists[drawing]) + 1 /\ wle' = 1 /\ temp' = 0 /\ ~busy /\ busy' = busy
         /\ \A d \in Directions : bar'[d].drawn = bar[d].drawn
         /\ \A d \in Directions \ {drawing} : bar'[d] = bar[d]
         /\ bar'[drawing].width = temp
         /\ bar'[drawing].at = BEFORE_RENDER(drawing, xctx_reset(drawing, Margin), temp)
         /\ drawing = "R2L" => drawing' = "none" /\ pc' = "shown"
         /\ drawing = "L2R" => drawing' = "CENTERED" /\ pc' = "draw"
         /\ drawing = "CENTERED" => drawing' = "R2L" /\ pc' = "draw"
         /\ UNCHANGED <<tokens, lists, is_setup, sampled, todo, scratchpad>>
<1>0. PenType /\ drawing # "none" /\ ~busy /\ wle > Len(lists[drawing]) /\ wle' = 1
  BY DEF LIInv, xdraw_context
<1>1. drawing \in Directions /\ pc = "draw" /\ wle \in 1..(Len(lists[drawing]) + 1) /\ Len(lists[drawing]) \in Nat
  BY <1>0, InList
<1>2. temp \in Nat /\ xctx_complete("L2R", temp, ZEROPAD) = temp /\ xctx_reset("L2R", ZEROPAD) = 0
  <2>1. temp \in Nat
    BY <1>0 DEF PenType
  <2> QED
    BY <2>1, Pens
<1>3. /\ bar' = [bar EXCEPT ![drawing].width = temp,
                            ![drawing].at = BEFORE_RENDER(drawing, xctx_reset(drawing, Margin), temp)]
      /\ temp' = 0
  BY <1>2 DEF xdraw_context
<1>4. /\ \A d \in Directions : bar'[d].drawn = bar[d].drawn
      /\ \A d \in Directions \ {drawing} : bar'[d] = bar[d]
      /\ bar'[drawing].width = temp
      /\ bar'[drawing].at = BEFORE_RENDER(drawing, xctx_reset(drawing, Margin), temp)
  BY <1>0, <1>1, <1>3 DEF PenType
<1>5. /\ drawing = "R2L" => drawing' = "none" /\ pc' = "shown"
      /\ drawing = "L2R" => drawing' = "CENTERED" /\ pc' = pc
      /\ drawing = "CENTERED" => drawing' = "R2L" /\ pc' = pc
      /\ UNCHANGED <<tokens, lists, is_setup, sampled, todo, scratchpad, busy>>
  BY DEF xdraw_context, vars, gui_drawn
<1>6. wle = Len(lists[drawing]) + 1
  BY <1>0, <1>1
<1> QED
  BY <1>0, <1>1, <1>3, <1>4, <1>5, <1>6

\* What a side shows, with one more widget.
LEMMA ShownAppend ==
  ASSUME NEW s \in Seq(Item), NEW e \in Item
  PROVE  {Append(s, e)[k].widget : k \in 1..Len(Append(s, e))} =
           {s[k].widget : k \in 1..Len(s)} \cup {e.widget}
<1>1. /\ Len(Append(s, e)) = Len(s) + 1 /\ Len(s) \in Nat
      /\ Append(s, e)[Len(s) + 1] = e
      /\ \A k \in 1..Len(s) : Append(s, e)[k] = s[k]
  OBVIOUS
<1>2. 1..(Len(s) + 1) = (1..Len(s)) \cup {Len(s) + 1}
  BY <1>1
<1> QED
  BY <1>1, <1>2

LEMMA ShownEnd ==
  ASSUME LIInv, draw_widget_end
  PROVE  /\ Shown(drawing)' = Shown(drawing) \cup {lists[drawing][wle]}
         /\ \A d \in Directions \ {drawing} : Shown(d)' = Shown(d)
<1>1. drawing # "none" /\ drawing' = drawing
  BY DEF draw_widget_end, LIInv, AtInv
<1>2. drawing \in Directions /\ bar[drawing].drawn \in Seq(Item)
  BY <1>1, InList
<1>3. PICK width \in Nat :
         LET item == [widget |-> lists[drawing][wle], from |-> temp, to |-> temp + width] IN
         /\ item \in Item
         /\ bar'[drawing].drawn = Append(bar[drawing].drawn, item)
         /\ \A d \in Directions \ {drawing} : bar'[d] = bar[d]
  BY EndFacts
<1>4. \A d \in Directions \ {drawing} : Shown(d)' = Shown(d)
  BY <1>3 DEF Shown
<1>5. Shown(drawing)' = Shown(drawing) \cup {lists[drawing][wle]}
  BY <1>1, <1>2, <1>3, ShownAppend DEF Shown
<1> QED
  BY <1>4, <1>5

LEMMA ShownStep == LIInv /\ ShownInv /\ [LNext]_<<vars, lvars>> => ShownInv'
<1> SUFFICES ASSUME LIInv, ShownInv, [LNext]_<<vars, lvars>>
             PROVE  ShownInv'
  OBVIOUS
<1> DEFINE rest(l, n) == {l[m] : m \in {x \in 1..n : tokens[l[x]] \in is_setup}}
<1>1. CASE xwin_push
  <2>1. /\ busy = FALSE /\ busy' = FALSE /\ drawing' = "L2R" /\ pc' = "draw" /\ wle' = 1
        /\ \A d \in Directions : bar'[d].drawn = <<>>
    BY <1>1 DEF xwin_push, LIInv, PenType, AtInv, vars, Empty
  <2>2. \A d \in Directions : Shown(d)' = {} /\ Visited(d)' = {}
    BY <2>1 DEF Shown, Visited, Done
  <2> QED
    BY <2>1, <2>2 DEF ShownInv
<1>2. CASE skip
  <2>1. /\ drawing # "none" /\ Widget(drawing) \notin is_setup /\ wle' = wle + 1 /\ busy = FALSE
        /\ UNCHANGED <<pc, tokens, lists, is_setup, drawing, busy, bar>>
    BY <1>2 DEF skip, vars, LIInv, PenType
  <2>2. wle \in Nat \ {0} /\ Active /\ pc # "shown"
    BY <2>1, InList DEF LIInv, PenType, Active
  <2>3. \A d \in Directions : Shown(d)' = Shown(d) /\ (d # drawing => Visited(d)' = Visited(d))
    BY <2>1 DEF Shown, Visited, Done
  <2>4. Visited(drawing) = 1..(wle - 1) /\ Visited(drawing)' = 1..wle
    BY <2>1, <2>2 DEF Visited, Done, Directions
  <2>5. \A x \in 1..wle : x \in 1..(wle - 1) \/ x = wle
    BY <2>2
  <2>6. {n \in Visited(drawing)' : tokens[lists[drawing][n]] \in is_setup}
          = {n \in Visited(drawing) : tokens[lists[drawing][n]] \in is_setup}
    BY <2>1, <2>2, <2>4, <2>5 DEF Widget
  <2>7. ASSUME NEW d \in Directions
        PROVE  Shown(d)' = {lists'[d][m] : m \in {n \in Visited(d)' : tokens'[lists'[d][n]] \in is_setup'}}
    BY <2>1, <2>2, <2>3, <2>6 DEF ShownInv
  <2> QED
    BY <2>1, <2>7 DEF ShownInv
<1>3. CASE draw_widget \/ widget_draw
  <2>1. UNCHANGED <<pc, tokens, lists, is_setup, drawing, wle, bar>>
    BY <1>3 DEF draw_widget, widget_draw, vars
  <2>2. Widget(drawing) \in is_setup
    BY <1>3 DEF draw_widget, widget_draw, ShownInv
  <2>3. \A d \in Directions : Shown(d)' = Shown(d) /\ Visited(d)' = Visited(d)
    BY <2>1 DEF Shown, Visited, Done
  <2> QED
    BY <2>1, <2>2, <2>3 DEF ShownInv, Active, Widget
<1>4. CASE draw_widget_end
  <2>1. /\ busy /\ busy' = FALSE /\ drawing # "none" /\ wle' = wle + 1
        /\ UNCHANGED <<pc, tokens, lists, is_setup, drawing>>
    BY <1>4 DEF draw_widget_end, vars, LIInv, AtInv
  <2>2. /\ wle \in Nat \ {0} /\ Active /\ pc # "shown" /\ drawing \in Directions
    BY <2>1, InList DEF LIInv, PenType, Active
  <2>3. /\ Shown(drawing)' = Shown(drawing) \cup {lists[drawing][wle]}
        /\ \A d \in Directions \ {drawing} : Shown(d)' = Shown(d)
    BY <1>4, ShownEnd
  <2>4. \A d \in Directions \ {drawing} : Visited(d)' = Visited(d)
    BY <2>1 DEF Visited, Done
  <2>5. Visited(drawing) = 1..(wle - 1) /\ Visited(drawing)' = 1..wle
    BY <2>1, <2>2 DEF Visited, Done, Directions
  <2>6. 1..wle = (1..(wle - 1)) \cup {wle}
    BY <2>2
  <2>7. tokens[lists[drawing][wle]] \in is_setup
    BY <2>1 DEF ShownInv, Widget
  <2>8. Shown(drawing)' = {lists[drawing][m] : m \in {n \in 1..wle : tokens[lists[drawing][n]] \in is_setup}}
    <3>1. Shown(drawing) = {lists[drawing][m] : m \in {n \in 1..(wle - 1) : tokens[lists[drawing][n]] \in is_setup}}
      BY <2>2, <2>5 DEF ShownInv
    <3> QED
      BY <2>3, <2>6, <2>7, <3>1
  <2>9. ASSUME NEW d \in Directions
         PROVE  Shown(d)' = {lists'[d][m] : m \in {n \in Visited(d)' : tokens'[lists'[d][n]] \in is_setup'}}
    <3>1. CASE d = drawing
      BY <2>1, <2>5, <2>8, <3>1
    <3>2. CASE d # drawing
      BY <2>1, <2>2, <2>3, <2>4, <3>2 DEF ShownInv
    <3> QED
      BY <3>1, <3>2
  <2> QED
    BY <2>1, <2>9 DEF ShownInv
<1>5. CASE xdraw_context
  <2>1. drawing # "none" /\ drawing \in Directions /\ Active /\ pc = "draw"
    <3>1. drawing # "none"
      BY <1>5 DEF xdraw_context
    <3> QED
      BY <3>1, InList DEF Active
  <2>2. /\ wle = Len(lists[drawing]) + 1 /\ wle' = 1 /\ ~busy /\ busy' = busy
        /\ \A d \in Directions : bar'[d].drawn = bar[d].drawn
        /\ drawing = "R2L" => drawing' = "none" /\ pc' = "shown"
        /\ drawing = "L2R" => drawing' = "CENTERED" /\ pc' = "draw"
        /\ drawing = "CENTERED" => drawing' = "R2L" /\ pc' = "draw"
        /\ UNCHANGED <<tokens, lists, is_setup>>
    BY <1>5, ContextFacts
  <2>3. Len(lists[drawing]) \in Nat
    BY <2>1, InList
  <2>4. \A d \in Directions : Shown(d)' = Shown(d)
    BY <2>2 DEF Shown
  <2>5. \A d \in Directions : Visited(d)' = Visited(d)
    BY <2>1, <2>2, <2>3 DEF Visited, Done, Directions
  <2>6. ASSUME NEW d \in Directions
        PROVE  Shown(d)' = {lists'[d][m] : m \in {n \in Visited(d)' : tokens'[lists'[d][n]] \in is_setup'}}
    BY <2>1, <2>2, <2>4, <2>5 DEF ShownInv
  <2> QED
    BY <2>2, <2>6 DEF ShownInv
<1>6. CASE ~xwin_push /\ ~skip /\ ~draw_widget /\ ~widget_draw /\ ~draw_widget_end /\ ~xdraw_context
  <2>1. UNCHANGED lvars /\ (UNCHANGED vars \/ (drawing = "none" /\ ~busy /\ pc' # "shown"))
    BY <1>6, NoDrawing
  <2>2. CASE UNCHANGED <<vars, lvars>>
    <3>1. UNCHANGED <<pc, tokens, lists, is_setup, drawing, wle, busy, bar>>
      BY <2>2 DEF vars, lvars
    <3>2. \A d \in Directions : Shown(d)' = Shown(d) /\ Visited(d)' = Visited(d)
      BY <3>1 DEF Shown, Visited, Done
    <3> QED
      BY <3>1, <3>2 DEF ShownInv, Active, Widget
  <2>3. CASE UNCHANGED lvars /\ drawing = "none" /\ ~busy /\ pc' # "shown"
    BY <2>3 DEF lvars, ShownInv, Active
  <2> QED
    BY <2>1, <2>2, <2>3
<1> QED
  BY <1>1, <1>2, <1>3, <1>4, <1>5, <1>6

\* A list that is over when the widget at its end is not the last entry has the spacing
\* behind it: the entries have their places.
LEMMA LaterEntry ==
  ASSUME LIInv, NEW d \in Directions, NEW m \in 1..Len(lists[d]), m < Len(lists[d])
  PROVE  lists[d][m] # lists[d][Len(lists[d])]
<1>1. lists[d] \in Seq(1..Len(tokens))
  BY DEF LIInv, IInv, TypeOK
<1>2. Len(lists[d]) \in 1..Len(lists[d])
  BY <1>1
<1>3. lists[d][m] < lists[d][Len(lists[d])] /\ lists[d][m] \in Int
  BY <1>1, <1>2 DEF LIInv, Sorted
<1> QED
  BY <1>3

LEMMA FinalStep == LIInv /\ FinalInv /\ [LNext]_<<vars, lvars>> => FinalInv'
<1> SUFFICES ASSUME LIInv, FinalInv, [LNext]_<<vars, lvars>>
             PROVE  FinalInv'
  OBVIOUS
<1>0. PenType /\ AtInv /\ PenInv
  BY DEF LIInv
<1>1. CASE xwin_push
  <2>1. /\ drawing' = "L2R" /\ pc' = "draw" /\ wle' = 1 /\ temp' = 0
        /\ bar'["L2R"].drawn = <<>>
    BY <1>0, <1>1 DEF xwin_push, AtInv, vars, Empty, Directions
  <2>2. temp' = WidthOf(drawing, bar[drawing].drawn)'
    BY <2>1 DEF WidthOf
  <2>3. \A d \in Directions : ~Done(d)'
    BY <2>1 DEF Done
  <2> QED
    BY <2>2, <2>3 DEF FinalInv
<1>2. CASE skip
  <2>1. /\ drawing # "none" /\ wle' = wle + 1 /\ wle <= Len(lists[drawing])
        /\ UNCHANGED <<pc, tokens, lists, drawing, bar, temp>>
    BY <1>2 DEF skip, vars
  <2>2. /\ wle \in Nat \ {0} /\ drawing \in Directions /\ Len(lists[drawing]) \in Nat
        /\ temp \in Nat
    BY <1>0, <2>1, InList DEF PenType
  <2> DEFINE drawn == bar[drawing].drawn
             last  == drawn[Len(drawn)]
  <2>3. ASSUME wle' > Len(lists[drawing])
        PROVE  temp = WidthOf(drawing, drawn)
    <3>1. wle = Len(lists[drawing])
      BY <2>1, <2>2, <2>3
    <3>2. CASE drawn = <<>>
      BY <1>0, <2>1, <3>2 DEF PenInv, WidthOf
    <3>3. CASE drawn # <<>>
      <4>1. temp = last.to + Px(Spacing) /\ \E m \in 1..(wle - 1) : last.widget = lists[drawing][m]
        BY <1>0, <2>1, <3>3 DEF PenInv
      <4>2. last.widget # lists[drawing][Len(lists[drawing])]
        <5>1. PICK m \in 1..(wle - 1) : last.widget = lists[drawing][m]
          BY <4>1
        <5>2. m \in 1..Len(lists[drawing]) /\ m < Len(lists[drawing])
          BY <2>2, <3>1
        <5> QED
          BY <2>2, <5>1, <5>2, LaterEntry
      <4> QED
        BY <3>3, <4>1, <4>2 DEF WidthOf
    <3> QED
      BY <3>2, <3>3
  <2>4. WidthOf(drawing, bar[drawing].drawn)' = WidthOf(drawing, drawn)
    BY <2>1 DEF WidthOf, Px
  <2>5. ASSUME NEW d \in Directions, Done(d)'
        PROVE  /\ bar'[d].width = WidthOf(d, bar[d].drawn)'
               /\ bar'[d].at = BEFORE_RENDER(d, xctx_reset(d, Margin), bar[d].width)'
    <3>1. Done(d)
      BY <2>1, <2>5 DEF Done
    <3>2. bar[d].width = WidthOf(d, bar[d].drawn) /\ bar[d].at = BEFORE_RENDER(d, xctx_reset(d, Margin), bar[d].width)
      BY <3>1 DEF FinalInv
    <3> QED
      BY <2>1, <3>2 DEF WidthOf, Px, BEFORE_RENDER, xctx_reset
  <2>6. drawing' # "none" /\ wle' > Len(lists'[drawing']) => temp' = WidthOf(drawing, bar[drawing].drawn)'
    BY <2>1, <2>3, <2>4
  <2> QED
    BY <2>5, <2>6 DEF FinalInv
<1>3. CASE draw_widget \/ widget_draw
  <2>1. UNCHANGED <<pc, tokens, lists, drawing, wle, bar, temp>>
    BY <1>3 DEF draw_widget, widget_draw, vars
  <2> QED
    BY <2>1 DEF FinalInv, Done, WidthOf, Px, BEFORE_RENDER, xctx_reset
<1>4. CASE draw_widget_end
  <2>1. /\ busy /\ drawing # "none" /\ wle' = wle + 1
        /\ UNCHANGED <<pc, tokens, lists, drawing>>
    BY <1>0, <1>4 DEF draw_widget_end, vars, AtInv
  <2>2. /\ wle \in 1..Len(lists[drawing]) /\ drawing \in Directions /\ Len(lists[drawing]) \in Nat
        /\ bar[drawing].drawn \in Seq(Item) /\ pc = "draw"
    BY <2>1, InList
  <2>3. PICK width \in Nat :
           LET item == [widget |-> lists[drawing][wle], from |-> temp, to |-> temp + width] IN
           /\ item \in Item
           /\ temp' = IF wle < Len(lists[drawing]) THEN temp + width + Px(Spacing) ELSE temp + width
           /\ bar'[drawing].drawn = Append(bar[drawing].drawn, item)
           /\ \A d \in Directions \ {drawing} : bar'[d] = bar[d]
    BY <1>4, EndFacts
  <2> DEFINE item == [widget |-> lists[drawing][wle], from |-> temp, to |-> temp + width]
             new  == Append(bar[drawing].drawn, item)
  <2>4. new # <<>> /\ new[Len(new)] = item
    BY <2>2, <2>3
  <2>5. ASSUME wle' > Len(lists[drawing])
        PROVE  temp' = WidthOf(drawing, bar[drawing].drawn)'
    <3>1. wle = Len(lists[drawing])
      BY <2>1, <2>2, <2>5
    <3>2. temp' = item.to /\ item.widget = lists[drawing][Len(lists[drawing])]
      BY <2>3, <3>1
    <3>3. /\ bar'[drawing'].drawn # <<>> /\ bar'[drawing'].drawn[Len(bar'[drawing'].drawn)] = item
          /\ lists'[drawing'] = lists[drawing]
      BY <2>1, <2>3, <2>4
    <3> HIDE DEF item, new
    <3> QED
      BY <3>2, <3>3 DEF WidthOf
  <2>6. ASSUME NEW d \in Directions, Done(d)'
        PROVE  /\ bar'[d].width = WidthOf(d, bar[d].drawn)'
               /\ bar'[d].at = BEFORE_RENDER(d, xctx_reset(d, Margin), bar[d].width)'
    <3>1. Done(d) /\ d # drawing
      BY <2>1, <2>2, <2>6 DEF Done, Directions
    <3>2. bar[d].width = WidthOf(d, bar[d].drawn) /\ bar[d].at = BEFORE_RENDER(d, xctx_reset(d, Margin), bar[d].width)
      BY <3>1 DEF FinalInv
    <3>3. bar'[d] = bar[d]
      BY <2>3, <3>1
    <3> QED
      BY <2>1, <3>2, <3>3 DEF WidthOf, Px, BEFORE_RENDER, xctx_reset
  <2>7. wle' > Len(lists'[drawing']) => temp' = WidthOf(drawing, bar[drawing].drawn)'
    BY <2>1, <2>5
  <2> QED
    BY <2>6, <2>7 DEF FinalInv
<1>5. CASE xdraw_context
  <2>1. drawing \in Directions /\ drawing # "none" /\ wle > Len(lists[drawing]) /\ pc = "draw"
    <3>1. drawing # "none" /\ wle > Len(lists[drawing])
      BY <1>5 DEF xdraw_context
    <3> QED
      BY <3>1, InList
  <2>2. /\ wle' = 1 /\ temp' = 0
        /\ \A d \in Directions : bar'[d].drawn = bar[d].drawn
        /\ \A d \in Directions \ {drawing} : bar'[d] = bar[d]
        /\ bar'[drawing].width = temp
        /\ bar'[drawing].at = BEFORE_RENDER(drawing, xctx_reset(drawing, Margin), temp)
        /\ drawing = "R2L" => drawing' = "none" /\ pc' = "shown"
        /\ drawing = "L2R" => drawing' = "CENTERED" /\ pc' = "draw"
        /\ drawing = "CENTERED" => drawing' = "R2L" /\ pc' = "draw"
        /\ UNCHANGED <<tokens, lists>>
    BY <1>5, ContextFacts
  <2>3. drawing' # "none" => drawing' \in Directions /\ bar'[drawing'].drawn = <<>>
    BY <1>0, <2>1, <2>2 DEF LIInv, LaterInv, Directions
  <2>4. drawing' # "none" => temp' = WidthOf(drawing, bar[drawing].drawn)'
    BY <2>2, <2>3 DEF WidthOf
  <2>5. ASSUME NEW d \in Directions, Done(d)'
        PROVE  /\ bar'[d].width = WidthOf(d, bar[d].drawn)'
               /\ bar'[d].at = BEFORE_RENDER(d, xctx_reset(d, Margin), bar[d].width)'
    <3>1. d = drawing \/ Done(d)
      BY <2>1, <2>2, <2>5 DEF Done, Directions
    <3>2. WidthOf(d, bar[d].drawn)' = WidthOf(d, bar[d].drawn)
      BY <2>2 DEF WidthOf, Px
    <3>3. CASE d = drawing
      <4>1. temp = WidthOf(d, bar[d].drawn)
        BY <2>1, <3>3 DEF FinalInv
      <4>2. bar'[d].at = BEFORE_RENDER(d, xctx_reset(d, Margin), bar[d].width)'
        BY <2>2, <3>3 DEF BEFORE_RENDER, xctx_reset, Px
      <4> QED
        BY <2>2, <3>2, <3>3, <4>1, <4>2
    <3>4. CASE d # drawing
      <4>1. bar[d].width = WidthOf(d, bar[d].drawn) /\ bar[d].at = BEFORE_RENDER(d, xctx_reset(d, Margin), bar[d].width)
        BY <3>1, <3>4 DEF FinalInv
      <4>2. bar'[d] = bar[d]
        BY <2>2, <3>4
      <4> QED
        BY <3>2, <4>1, <4>2 DEF BEFORE_RENDER, xctx_reset, Px
    <3> QED
      BY <3>3, <3>4
  <2> QED
    BY <2>4, <2>5 DEF FinalInv
<1>6. CASE ~xwin_push /\ ~skip /\ ~draw_widget /\ ~widget_draw /\ ~draw_widget_end /\ ~xdraw_context
  <2>1. UNCHANGED lvars /\ (UNCHANGED vars \/ (drawing = "none" /\ ~busy /\ pc' # "shown"))
    BY <1>6, NoDrawing
  <2>2. CASE UNCHANGED <<vars, lvars>>
    <3>1. UNCHANGED <<pc, lists, drawing, wle, bar, temp>>
      BY <2>2 DEF vars, lvars
    <3> QED
      BY <3>1 DEF FinalInv, Done, WidthOf, Px, BEFORE_RENDER, xctx_reset
  <2>3. CASE UNCHANGED lvars /\ drawing = "none" /\ ~busy /\ pc' # "shown"
    BY <2>3 DEF lvars, FinalInv, Done
  <2> QED
    BY <2>1, <2>2, <2>3
<1> QED
  BY <1>1, <1>2, <1>3, <1>4, <1>5, <1>6

-----------------------------------------------------------------------------
(* The samples of the charts.                                               *)

\* Calls that update nothing.
Quiet(calls) == calls \in Seq(Call) /\ \A k \in 1..Len(calls) : calls[k][1] # "chart_update"

LEMMA CallTypes ==
  /\ {T, B, Half, Gap} \subseteq Call
  /\ \A c \in {T, B, Half, Gap} : c[1] # "chart_update"
  /\ \A k \in Nat : chart_update(k) \in Call /\ xdraw_chart(k) \in Call
  /\ \A k : /\ chart_update(k)[1] = "chart_update" /\ chart_update(k)[2] = k
            /\ xdraw_chart(k)[1] # "chart_update"
<1>1. T \in Call /\ B \in Call /\ Half \in Call /\ Gap \in Call
  BY DEF T, B, Half, Gap, Call
<1>2. T[1] # "chart_update" /\ B[1] # "chart_update" /\ Half[1] # "chart_update" /\ Gap[1] # "chart_update"
  BY DEF T, B, Half, Gap
<1>3. \A k \in Nat : chart_update(k) \in Call /\ xdraw_chart(k) \in Call
  BY DEF chart_update, xdraw_chart, Call
<1>4. \A k : /\ chart_update(k)[1] = "chart_update" /\ chart_update(k)[2] = k
            /\ xdraw_chart(k)[1] # "chart_update"
  BY DEF chart_update, xdraw_chart
<1> QED
  BY <1>1, <1>2, <1>3, <1>4

LEMMA QuietCalls ==
  ASSUME NEW calls, Quiet(calls)
  PROVE  calls \in Seq(Call) /\ Once(calls) /\ Updates(calls) = {}
BY DEF Quiet, Once, Updates

LEMMA QuietBoth ==
  ASSUME NEW s, NEW t, Quiet(s), Quiet(t)
  PROVE  Quiet(s \o t)
<1>1. s \in Seq(Call) /\ t \in Seq(Call) /\ s \o t \in Seq(Call) /\ Len(s \o t) = Len(s) + Len(t)
      /\ Len(s) \in Nat /\ Len(t) \in Nat
  BY DEF Quiet
<1>2. ASSUME NEW k \in 1..Len(s \o t) PROVE (s \o t)[k][1] # "chart_update"
  <2>1. CASE k <= Len(s)
    <3>1. k \in 1..Len(s) /\ (s \o t)[k] = s[k]
      BY <1>1, <2>1
    <3> QED
      BY <3>1 DEF Quiet
  <2>2. CASE k > Len(s)
    <3>1. k - Len(s) \in 1..Len(t) /\ (s \o t)[k] = t[k - Len(s)]
      BY <1>1, <2>2
    <3> QED
      BY <3>1 DEF Quiet
  <2> QED
    BY <1>1, <2>1, <2>2
<1> QED
  BY <1>1, <1>2 DEF Quiet

\* The widgets without a chart of their own, and the one that does not draw its charts.
LEMMA QuietWidgets ==
  \A calls \in wbattery_draw \cup wbright_draw \cup wnprocs_draw \cup wtime_draw \cup wwifi_draw
               \cup wvolume_draw \cup wcpushort_draw : Quiet(calls)
<1> HIDE DEF T, B, Half, Gap
<1>1. /\ Quiet(<<T>>) /\ Quiet(<<T, T>>) /\ Quiet(<<B, T>>) /\ Quiet(<<T, B, T>>)
      /\ Quiet(<<T, B, T, T>>) /\ Quiet(<<T, Half, Gap, Half, T>>)
  BY CallTypes DEF Quiet
<1>2. ASSUME NEW calls \in wvolume_draw PROVE Quiet(calls)
  <2>1. PICK mute \in {<<T>>, <<T, T>>}, sides \in {<<B, T>>, <<T, Half, Gap, Half, T>>} :
          calls = mute \o sides
    BY DEF wvolume_draw
  <2>2. Quiet(mute) /\ Quiet(sides)
    BY <1>1
  <2> QED
    BY <2>1, <2>2, QuietBoth
<1>3. ASSUME NEW calls \in wcpushort_draw PROVE Quiet(calls)
  <2>1. PICK n \in Nat : calls = [j \in 1..n |-> T]
    <3>1. (IF Ncpu = 0 THEN 0 ELSE 2 * Ncpu - 1) \in Nat
      BY WidgetsAssumption
    <3> QED
      BY <3>1 DEF wcpushort_draw
  <2>2. calls \in Seq(Call) /\ Len(calls) = n /\ \A k \in 1..n : calls[k] = T
    BY <2>1, CallTypes
  <2> QED
    BY <2>2, CallTypes DEF Quiet
<1> QED
  BY <1>1, <1>2, <1>3 DEF wbattery_draw, wbright_draw, wnprocs_draw, wtime_draw, wwifi_draw

\* A cpu widget updates the chart of each cpu once.
LEMMA CpuCalls ==
  ASSUME NEW texts \in {1, 6}
  PROVE  /\ PerCpu(texts) \in Seq(Call) /\ Once(PerCpu(texts))
         /\ Updates(PerCpu(texts)) = 1..Ncpu
<1> DEFINE w   == texts + 3
           len == IF Ncpu = 0 THEN 1 ELSE Ncpu * w
           calls == PerCpu(texts)
<1>0. Ncpu \in Nat /\ w \in {4, 9} /\ len \in Nat /\ w \in Nat \ {0}
  BY WidgetsAssumption
<1>1. calls = [j \in 1..len |-> IF j % w = 2 THEN chart_update((j \div w) + 1)
                                ELSE IF j % w = 3 THEN xdraw_chart((j \div w) + 1) ELSE T]
  BY DEF PerCpu
<1> HIDE DEF calls
<1>2. \A j \in 1..len : (j \div w) + 1 \in Nat
  BY <1>0
<1> HIDE DEF w
<1>3. ASSUME NEW j \in 1..len PROVE calls[j] \in Call
  <2>1. T \in Call
    BY CallTypes
  <2>2. chart_update((j \div w) + 1) \in Call /\ xdraw_chart((j \div w) + 1) \in Call
    BY <1>2, CallTypes
  <2>3. calls[j] \in {chart_update((j \div w) + 1), xdraw_chart((j \div w) + 1), T}
    BY <1>1
  <2> QED
    BY <2>1, <2>2, <2>3
<1>4. calls \in Seq(Call) /\ Len(calls) = len
  <2>1. calls = [j \in 1..len |-> calls[j]]
    BY <1>1
  <2> HIDE DEF len
  <2>2. calls \in [1..len -> Call]
    BY <1>3, <2>1
  <2> QED
    BY <1>0, <2>2
<1>5. \A j \in 1..len : calls[j][1] = "chart_update" <=> j % w = 2
  BY <1>1, CallTypes
<1>6. \A j \in 1..len : j % w = 2 => calls[j][2] = (j \div w) + 1
  BY <1>1, CallTypes
<1>7. Once(calls)
  <2>1. \A j, k \in 1..len : j % w = 2 /\ k % w = 2 /\ (j \div w) + 1 = (k \div w) + 1 => j = k
    <3>1. CASE w = 4
      BY <1>0, <3>1
    <3>2. CASE w = 9
      BY <1>0, <3>2
    <3> QED
      BY <1>0, <3>1, <3>2
  <2> QED
    BY <1>4, <1>5, <1>6, <2>1 DEF Once
<1>8. Updates(calls) = 1..Ncpu
  <2>1. ASSUME NEW j \in 1..len, j % w = 2 PROVE (j \div w) + 1 \in 1..Ncpu
    <3>1. CASE w = 4
      BY <1>0, <2>1, <3>1
    <3>2. CASE w = 9
      BY <1>0, <2>1, <3>2
    <3> QED
      BY <1>0, <3>1, <3>2
  <2>2. ASSUME NEW n \in 1..Ncpu
        PROVE  \E j \in 1..len : j % w = 2 /\ (j \div w) + 1 = n
    <3>1. CASE w = 4
      <4>1. 4 * (n - 1) + 2 \in 1..len /\ (4 * (n - 1) + 2) % 4 = 2 /\ ((4 * (n - 1) + 2) \div 4) + 1 = n
        BY <1>0, <3>1
      <4> QED
        BY <3>1, <4>1
    <3>2. CASE w = 9
      <4>1. 9 * (n - 1) + 2 \in 1..len /\ (9 * (n - 1) + 2) % 9 = 2 /\ ((9 * (n - 1) + 2) \div 9) + 1 = n
        BY <1>0, <3>2
      <4> QED
        BY <3>2, <4>1
    <3> QED
      BY <1>0, <3>1, <3>2
  <2>3. Updates(calls) = {(j \div w) + 1 : j \in {k \in 1..len : k % w = 2}}
    BY <1>4, <1>5, <1>6 DEF Updates
  <2>4. \A n \in Updates(calls) : n \in 1..Ncpu
    BY <2>1, <2>3
  <2>5. \A n \in 1..Ncpu : n \in Updates(calls)
    BY <2>2, <2>3
  <2> QED
    BY <2>4, <2>5
<1> QED
  BY <1>4, <1>7, <1>8 DEF calls

\* Each drawing function updates each chart of its widget once.
LEMMA DrawCalls ==
  ASSUME NEW name \in Names, NEW calls \in draw[name]
  PROVE  calls \in Seq(Call) /\ Once(calls) /\ Updates(calls) = 1..Charted(name)
<1>1. CASE name \in {"battery", "bright", "nprocs", "time", "volume", "wifi", "cpushort"}
  <2>1. draw[name] \in {wbattery_draw, wbright_draw, wnprocs_draw, wtime_draw, wwifi_draw,
                        wvolume_draw, wcpushort_draw}
    BY <1>1 DEF draw
  <2>2. Quiet(calls)
    BY <2>1, QuietWidgets
  <2>3. 1..Charted(name) = {}
    BY <1>1 DEF Charted, WIDGET_RECIPES
  <2> QED
    BY <2>2, <2>3, QuietCalls
<1>2. CASE name = "cpu"
  <2>1. calls = PerCpu(1) /\ Charted(name) = Ncpu
    BY <1>2 DEF draw, wcpu_draw, Charted, WIDGET_RECIPES
  <2> QED
    BY <2>1, CpuCalls
<1>3. CASE name = "cpulong"
  <2>1. calls = PerCpu(6) /\ Charted(name) = Ncpu
    BY <1>3 DEF draw, wcpulong_draw, Charted, WIDGET_RECIPES
  <2> QED
    BY <2>1, CpuCalls
<1>4. CASE name = "memory"
  <2>1. calls = <<chart_update(1), T, xdraw_chart(1), T, T, T, T, T, T>> /\ Charted(name) = 1
    BY <1>4 DEF draw, wmemory_draw, Charted, WIDGET_RECIPES
  <2>2. /\ calls \in Seq(Call) /\ Len(calls) = 9 /\ calls[1] = chart_update(1)
        /\ \A k \in 2..9 : calls[k][1] # "chart_update"
    BY <2>1, CallTypes
  <2>3. \A k \in 1..9 : calls[k][1] = "chart_update" <=> k = 1
    BY <2>2, CallTypes
  <2>4. Updates(calls) = {calls[1][2]} /\ Once(calls)
    BY <2>2, <2>3 DEF Updates, Once
  <2> QED
    BY <2>1, <2>2, <2>4, CallTypes
<1>5. CASE name = "net"
  <2>1. calls = <<chart_update(1), chart_update(2), T, xdraw_chart(1), T, xdraw_chart(2), T>> /\ Charted(name) = 2
    BY <1>5 DEF draw, wnet_draw, Charted, WIDGET_RECIPES
  <2>2. /\ calls \in Seq(Call) /\ Len(calls) = 7 /\ calls[1] = chart_update(1) /\ calls[2] = chart_update(2)
        /\ \A k \in 3..7 : calls[k][1] # "chart_update"
    BY <2>1, CallTypes
  <2>3. \A k \in 1..7 : calls[k][1] = "chart_update" <=> k \in {1, 2}
    BY <2>2, CallTypes
  <2>4. Updates(calls) = {calls[1][2], calls[2][2]} /\ (calls[1][2] # calls[2][2] => Once(calls))
    BY <2>2, <2>3 DEF Updates, Once
  <2> QED
    BY <2>1, <2>2, <2>4, CallTypes
<1> QED
  BY <1>1, <1>2, <1>3, <1>4, <1>5 DEF Names, WIDGET_RECIPES

\* A call less.
LEMMA CallTail ==
  ASSUME NEW calls \in Seq(Call), calls # <<>>, Once(calls)
  PROVE  /\ Tail(calls) \in Seq(Call) /\ Once(Tail(calls)) /\ Head(calls)[2] \in Nat
         /\ Head(calls)[1] # "chart_update" => Updates(Tail(calls)) = Updates(calls)
         /\ Head(calls)[1] = "chart_update" =>
              /\ Updates(calls) = Updates(Tail(calls)) \cup {Head(calls)[2]}
              /\ Head(calls)[2] \notin Updates(Tail(calls))
<1> DEFINE rest == Tail(calls)
<1>1. /\ rest \in Seq(Call) /\ Len(rest) = Len(calls) - 1 /\ Len(calls) \in Nat \ {0}
      /\ Head(calls) = calls[1] /\ calls[1] \in Call /\ 1 \in 1..Len(calls)
      /\ \A k \in 1..Len(rest) : k + 1 \in 1..Len(calls) /\ rest[k] = calls[k + 1]
  OBVIOUS
<1> HIDE DEF rest
<1>2. Once(rest)
  <2> SUFFICES ASSUME NEW j \in 1..Len(rest), NEW k \in 1..Len(rest),
                      rest[j][1] = "chart_update", rest[k][1] = "chart_update", rest[j][2] = rest[k][2]
               PROVE  j = k
    BY DEF Once
  <2>1. j + 1 = k + 1
    BY <1>1 DEF Once
  <2> QED
    BY <1>1, <2>1
<1>3. \A n : n \in Updates(calls) <=> n \in Updates(rest) \/ (calls[1][1] = "chart_update" /\ n = calls[1][2])
  <2>1. \A n \in Updates(rest) : n \in Updates(calls)
    BY <1>1 DEF Updates
  <2>2. calls[1][1] = "chart_update" => calls[1][2] \in Updates(calls)
    BY <1>1 DEF Updates
  <2>3. ASSUME NEW n \in Updates(calls) PROVE n \in Updates(rest) \/ (calls[1][1] = "chart_update" /\ n = calls[1][2])
    <3>1. PICK k \in 1..Len(calls) : calls[k][1] = "chart_update" /\ n = calls[k][2]
      BY DEF Updates
    <3>2. CASE k # 1
      <4>1. k - 1 \in 1..Len(rest) /\ rest[k - 1] = calls[k]
        BY <1>1, <3>2
      <4> QED
        BY <3>1, <4>1 DEF Updates
    <3> QED
      BY <3>1, <3>2
  <2> QED
    BY <2>1, <2>2, <2>3
<1>4. ASSUME calls[1][1] = "chart_update", calls[1][2] \in Updates(rest) PROVE FALSE
  <2>1. PICK k \in 1..Len(rest) : rest[k][1] = "chart_update" /\ rest[k][2] = calls[1][2]
    BY <1>4 DEF Updates
  <2>2. 1 = k + 1
    BY <1>1, <1>4, <2>1 DEF Once
  <2> QED
    BY <1>1, <2>2
<1>5. calls[1][2] \in Nat
  BY <1>1 DEF Call
<1> QED
  BY <1>1, <1>2, <1>3, <1>4, <1>5 DEF rest

\* The widget that is being drawn is in none of the lists of what has been drawn.
LEMMA NotYet ==
  ASSUME LIInv, ShownInv, busy
  PROVE  \A d \in Directions : lists[drawing][wle] \notin Shown(d)
<1>1. drawing # "none" /\ Active
  BY DEF LIInv, AtInv, Active
<1>2. drawing \in Directions /\ pc = "draw" /\ wle \in 1..Len(lists[drawing]) /\ Len(lists[drawing]) \in Nat
  BY <1>1, InList
<1> SUFFICES ASSUME NEW d \in Directions, lists[drawing][wle] \in Shown(d)
             PROVE  FALSE
  OBVIOUS
<1>3. PICK m \in Visited(d) : lists[d][m] = lists[drawing][wle]
  BY <1>1 DEF ShownInv
<1>4. Visited(d) = 1..Len(lists[d]) \/ (d = drawing /\ Visited(d) = 1..(wle - 1)) \/ Visited(d) = {}
  BY DEF Visited
<1>5. d = drawing => Visited(d) = 1..(wle - 1)
  BY <1>1, <1>2 DEF Visited, Done, Directions
<1>6. m \in 1..Len(lists[d])
  BY <1>2, <1>3, <1>4
<1>7. d = drawing /\ m = wle
  BY <1>2, <1>3, <1>6 DEF LIInv, IInv, ListsInv
<1> QED
  BY <1>2, <1>3, <1>5, <1>7

\* The lists have only widgets.
LEMMA Entries ==
  ASSUME LIInv, PlaceInv, pc \in {"draw", "shown"}, NEW d \in Directions, NEW m \in 1..Len(lists[d])
  PROVE  lists[d][m] \in 1..Len(tokens) /\ lists[d][m] \in Nat /\ tokens[lists[d][m]] \in Names
<1>1. lists[d] \in Seq(1..Len(tokens))
  BY DEF LIInv, IInv, TypeOK
<1>2. lists[d][m] \in 1..Len(tokens)
  BY <1>1
<1>3. lists[d][m] \in Elems(lists[d])
  BY DEF Elems
<1> QED
  BY <1>2, <1>3 DEF PlaceInv

\* Which samples a drawing that goes on has given.
LEMMA InPast ==
  ASSUME NEW o
  PROVE  o \in Past <=> \E d \in Directions : \E p \in Shown(d) : o \in Charts(p, Charted(tokens[p]))
BY DEF Past

LEMMA SampledStep ==
  LIInv /\ PlaceInv /\ ShownInv /\ SampledInv /\ [LNext]_<<vars, lvars>> => SampledInv'
<1> SUFFICES ASSUME LIInv, PlaceInv, ShownInv, SampledInv, [LNext]_<<vars, lvars>>
             PROVE  SampledInv'
  OBVIOUS
<1>0. PenType /\ AtInv
  BY DEF LIInv
<1>1. CASE xwin_push
  <2>1. /\ ~busy /\ busy' = busy /\ sampled' = <<>>
        /\ \A d \in Directions : bar'[d].drawn = <<>>
    BY <1>0, <1>1 DEF xwin_push, AtInv, Empty
  <2>2. \A d \in Directions : Shown(d)' = {}
    BY <2>1 DEF Shown
  <2>3. Past' = {}
    BY <2>2 DEF Past
  <2>4. Elems(sampled)' = {} /\ sampled' \in Seq(Sample) /\ Len(sampled') = 0
    BY <2>1 DEF Elems
  <2> QED
    BY <2>1, <2>3, <2>4 DEF SampledInv
<1>2. CASE skip
  <2>1. /\ drawing # "none" /\ ~busy
        /\ UNCHANGED <<tokens, busy, bar, sampled>>
    BY <1>2 DEF skip, vars
  <2>2. Active
    BY <2>1 DEF Active
  <2>3. \A d \in Directions : Shown(d)' = Shown(d)
    BY <2>1 DEF Shown
  <2>4. Past' = Past
    BY <2>1, <2>3 DEF Past, Charted
  <2> QED
    BY <2>1, <2>2, <2>4 DEF SampledInv, Elems
<1>3. CASE draw_widget
  <2>1. /\ drawing # "none" /\ ~busy /\ busy' = TRUE /\ wle <= Len(lists[drawing])
        /\ todo' \in draw[Widget(drawing)]
        /\ UNCHANGED <<tokens, lists, drawing, wle, bar, sampled>>
    BY <1>3 DEF draw_widget, vars
  <2>2. /\ drawing \in Directions /\ pc = "draw" /\ wle \in 1..Len(lists[drawing]) /\ Active
    BY <2>1, InList DEF Active
  <2>3. Widget(drawing) \in Names
    BY <2>2, Entries DEF Widget
  <2>4. /\ todo' \in Seq(Call) /\ Once(todo') /\ Updates(todo') = 1..Charted(Widget(drawing))
    BY <2>1, <2>3, DrawCalls
  <2>5. \A d \in Directions : Shown(d)' = Shown(d)
    BY <2>1 DEF Shown
  <2>6. Past' = Past
    BY <2>1, <2>5 DEF Past, Charted
  <2>7. Charted(Widget(drawing))' = Charted(Widget(drawing))
    BY <2>1 DEF Charted, Widget
  <2>8. Updates(todo)' = Updates(todo') /\ Once(todo)' = Once(todo')
    BY DEF Updates, Once
  <2>9. Present' = {}
    BY <2>4, <2>7, <2>8 DEF Present
  <2> QED
    BY <2>1, <2>2, <2>4, <2>6, <2>7, <2>8, <2>9 DEF SampledInv, Elems
<1>4. CASE widget_draw
  <2> DEFINE call  == Head(todo)
             chart == <<"chart", lists[drawing][wle], call[2]>>
             n     == Charted(Widget(drawing))
  <2>1. /\ busy /\ todo # <<>> /\ busy' = busy /\ todo' = Tail(todo)
        /\ sampled' = IF call[1] = "chart_update" THEN Append(sampled, chart) ELSE sampled
        /\ UNCHANGED <<tokens, lists, drawing, wle, bar>>
    BY <1>4 DEF widget_draw, vars
  <2>2. /\ drawing # "none" /\ Active
    BY <1>0, <2>1 DEF AtInv, Active
  <2>3. /\ drawing \in Directions /\ pc = "draw" /\ wle \in 1..Len(lists[drawing])
    BY <2>1, <2>2, InList
  <2>4. /\ todo \in Seq(Call) /\ Once(todo) /\ Updates(todo) \subseteq 1..n
        /\ Elems(sampled) = Past \cup Present
    BY <2>1, <2>2 DEF SampledInv
  <2>5. /\ todo' \in Seq(Call) /\ Once(todo') /\ call[2] \in Nat
        /\ call[1] # "chart_update" => Updates(todo') = Updates(todo)
        /\ call[1] = "chart_update" =>
             Updates(todo) = Updates(todo') \cup {call[2]} /\ call[2] \notin Updates(todo')
    BY <2>1, <2>4, CallTail
  <2>6. lists[drawing][wle] \in Nat
    BY <2>3, Entries
  <2>7. \A d \in Directions : Shown(d)' = Shown(d)
    BY <2>1 DEF Shown
  <2>8. Past' = Past
    BY <2>1, <2>7 DEF Past, Charted
  <2>9. n' = n /\ Updates(todo)' = Updates(todo') /\ Once(todo)' = Once(todo')
    BY <2>1 DEF Charted, Widget, Updates, Once
  <2> HIDE DEF n
  <2>10. Present' = {<<"chart", lists[drawing][wle], k>> : k \in (1..n) \ Updates(todo')}
    BY <2>1, <2>9 DEF Present, n
  <2>11. Present = {<<"chart", lists[drawing][wle], k>> : k \in (1..n) \ Updates(todo)}
    BY DEF Present, n
  <2>12. Updates(todo') \subseteq 1..n
    BY <2>4, <2>5
  <2>13. CASE call[1] # "chart_update"
    <3>1. sampled' = sampled /\ Present' = Present
      BY <2>1, <2>5, <2>10, <2>11, <2>13
    <3> QED
      BY <2>1, <2>2, <2>4, <2>5, <2>8, <2>9, <2>12, <3>1 DEF SampledInv, Elems, n
  <2>14. CASE call[1] = "chart_update"
    <3>1. sampled \in Seq(Sample) /\ chart \in Sample
      BY <2>5, <2>6 DEF SampledInv, Sample
    <3>2. sampled' = Append(sampled, chart) /\ Elems(sampled') = Elems(sampled) \cup {chart}
      BY <2>1, <2>14, <3>1, ElemsAppend
    <3>3. Present' = Present \cup {chart}
      BY <2>4, <2>5, <2>10, <2>11, <2>14
    <3>4. chart \notin Elems(sampled)
      <4>1. chart \notin Present
        BY <2>5, <2>11, <2>14
      <4>2. chart \notin Past
        <5>1. \A p, k : chart \in Charts(p, k) => p = lists[drawing][wle]
          BY DEF Charts
        <5> QED
          BY <2>1, <5>1, InPast, NotYet
      <4> QED
        BY <2>4, <4>1, <4>2
    <3>5. ASSUME NEW j \in 1..Len(sampled'), NEW k \in 1..Len(sampled'), sampled'[j] = sampled'[k]
          PROVE  j = k
      <4>1. /\ Len(sampled') = Len(sampled) + 1 /\ Len(sampled) \in Nat /\ sampled'[Len(sampled) + 1] = chart
            /\ \A x \in 1..Len(sampled) : sampled'[x] = sampled[x] /\ sampled[x] # chart
        BY <3>1, <3>2, <3>4 DEF Elems
      <4>2. \A x \in 1..Len(sampled') : x \in 1..Len(sampled) \/ x = Len(sampled) + 1
        BY <4>1
      <4> QED
        BY <3>5, <4>1, <4>2 DEF SampledInv
    <3>6. sampled' \in Seq(Sample)
      BY <3>1, <3>2
    <3> QED
      BY <2>1, <2>4, <2>5, <2>8, <2>9, <2>12, <3>2, <3>3, <3>5, <3>6 DEF SampledInv, n, Elems
  <2> QED
    BY <2>13, <2>14
<1>5. CASE draw_widget_end
  <2> DEFINE p == lists[drawing][wle]
  <2>1. /\ busy /\ todo = <<>> /\ busy' = FALSE
        /\ UNCHANGED <<tokens, lists, drawing, sampled>>
    BY <1>5 DEF draw_widget_end, vars
  <2>2. /\ drawing # "none" /\ Active
    BY <1>0, <2>1 DEF AtInv, Active
  <2>3. drawing \in Directions
    BY <2>2, InList
  <2>4. /\ Shown(drawing)' = Shown(drawing) \cup {p}
        /\ \A d \in Directions \ {drawing} : Shown(d)' = Shown(d)
    BY <1>5, ShownEnd
  <2>5. Updates(todo) = {}
    BY <2>1 DEF Updates
  <2>6. Present = Charts(p, Charted(tokens[p]))
    BY <2>5 DEF Present, Charts, Widget
  <2>7. \A q, n : Charts(q, n)' = Charts(q, n)
    BY DEF Charts
  <2>8. \A q : Charted(tokens[q])' = Charted(tokens[q])
    BY <2>1 DEF Charted
  <2> HIDE DEF p
  <2>9. \A o : o \in Past' <=> \E d \in Directions : \E q \in Shown(d)' : o \in Charts(q, Charted(tokens[q]))
    BY <2>8 DEF Past
  <2>10. Past' = Past \cup Present
    <3>1. \A d \in Directions : \A q :
             q \in Shown(d)' <=> q \in Shown(d) \/ (d = drawing /\ q = p)
      BY <2>1, <2>3, <2>4
    <3>2. ASSUME NEW o
          PROVE  o \in Past' <=> o \in Past \/ o \in Charts(p, Charted(tokens[p]))
      BY <2>3, <2>9, <3>1, InPast
    <3> QED
      BY <2>6, <3>2
  <2> QED
    BY <2>1, <2>2, <2>10 DEF SampledInv, Elems
<1>6. CASE xdraw_context
  <2>1. drawing # "none" /\ Active
    BY <1>6 DEF xdraw_context, Active
  <2>2. /\ ~busy /\ busy' = busy /\ \A d \in Directions : bar'[d].drawn = bar[d].drawn
        /\ UNCHANGED <<tokens, sampled>>
    BY <1>6, ContextFacts
  <2>3. \A d \in Directions : Shown(d)' = Shown(d)
    BY <2>2 DEF Shown
  <2>4. Past' = Past
    BY <2>2, <2>3 DEF Past, Charted
  <2> QED
    BY <2>1, <2>2, <2>4 DEF SampledInv, Elems
<1>7. CASE ~xwin_push /\ ~skip /\ ~draw_widget /\ ~widget_draw /\ ~draw_widget_end /\ ~xdraw_context
  <2>1. UNCHANGED lvars /\ (UNCHANGED vars \/ (drawing = "none" /\ ~busy /\ pc' # "shown"))
    BY <1>7, NoDrawing
  <2>2. CASE UNCHANGED <<vars, lvars>>
    <3>1. UNCHANGED <<pc, tokens, lists, drawing, wle, busy, todo, bar, sampled>>
      BY <2>2 DEF vars, lvars
    <3>2. \A d \in Directions : Shown(d)' = Shown(d)
      BY <3>1 DEF Shown
    <3>3. Past' = Past /\ Charted(Widget(drawing))' = Charted(Widget(drawing)) /\ Updates(todo)' = Updates(todo)
          /\ (Once(todo)' <=> Once(todo)) /\ Active' = Active /\ Elems(sampled)' = Elems(sampled)
      BY <3>1, <3>2 DEF Past, Charted, Widget, Updates, Once, Active, Elems
    <3>4. Present' = Present
      BY <3>1, <3>3 DEF Present
    <3> QED
      BY <3>1, <3>3, <3>4 DEF SampledInv
  <2>3. CASE UNCHANGED lvars /\ drawing = "none" /\ ~busy /\ pc' # "shown"
    BY <2>3 DEF lvars, SampledInv, Active
  <2> QED
    BY <2>1, <2>2, <2>3
<1> QED
  BY <1>1, <1>2, <1>3, <1>4, <1>5, <1>6, <1>7

-----------------------------------------------------------------------------
(* What the window shows, for all lists and sets of enabled widgets.        *)

DInv == LIInv /\ PlaceInv /\ ShownInv /\ FinalInv /\ SampledInv

LEMMA DInit == LInit => DInv
<1> SUFFICES ASSUME LInit PROVE DInv
  OBVIOUS
<1>1. /\ Init /\ pc = "create" /\ drawing = "none" /\ ~busy /\ scratchpad = 0 /\ temp = 0
      /\ sampled = <<>> /\ \A d \in Directions : bar[d].width = 0
  <2>1. xctx_reset("L2R", ZEROPAD) = 0
    BY Pens, 0 \in Nat
  <2> QED
    BY <2>1 DEF LInit, Init, Empty
<1>2. LIInv
  <2>1. \A d \in Directions : Len(lists[d]) = 0
    BY <1>1 DEF Init
  <2> QED
    BY <1>1, <2>1, InvInit, BarInit DEF LIInv, BarInv, Sorted
<1>3. PlaceInv
  BY <1>1, PlaceInit
<1>4. ShownInv /\ FinalInv
  BY <1>1 DEF ShownInv, FinalInv, Active, Done
<1>5. SampledInv
  <2>1. sampled \in Seq(Sample) /\ Len(sampled) = 0
    BY <1>1
  <2> QED
    BY <1>1, <2>1 DEF SampledInv, Active
<1> QED
  BY <1>2, <1>3, <1>4, <1>5 DEF DInv

\* The inductive invariant of the drawings.
THEOREM DrawingInvariance == LSpec => []DInv
<1>1. LIInv /\ DInv /\ [LNext]_<<vars, lvars>> /\ LIInv' => DInv'
  <2>1. LIInv => IInv
    BY DEF LIInv
  <2> QED
    BY <2>1, StepRefines, PlaceStep, ShownStep, FinalStep, SampledStep DEF DInv
<1> QED
  BY <1>1, DInit, LInvariance, PTL DEF LSpec

\* A drawing that is over shows every enabled widget on the side that the last separator
\* before it in the settings says, and nothing else (gui_draw(), widgets_create()).
THEOREM ShowsAll == LSpec => []AllShown
<1>1. DInv => AllShown
  <2> SUFFICES ASSUME DInv, pc = "shown", NEW d \in Directions, NEW p \in 1..Len(tokens)
               PROVE  (\E k \in 1..Len(bar[d].drawn) : bar[d].drawn[k].widget = p)
                        <=> tokens[p] \in Names /\ tokens[p] \in is_setup /\ Says(p, d)
    BY DEF AllShown
  <2>1. LIInv /\ PlaceInv /\ ShownInv
    BY DEF DInv
  <2>2. (\E k \in 1..Len(bar[d].drawn) : bar[d].drawn[k].widget = p) <=> p \in Shown(d)
    BY DEF Shown
  <2>3. Active /\ Visited(d) = 1..Len(lists[d])
    BY DEF Active, Visited, Done
  <2>4. Shown(d) = {lists[d][m] : m \in {n \in 1..Len(lists[d]) : tokens[lists[d][n]] \in is_setup}}
    BY <2>1, <2>3 DEF ShownInv
  <2>5. p \in Shown(d) <=> p \in Elems(lists[d]) /\ tokens[p] \in is_setup
    BY <2>4 DEF Elems
  <2>6. p \in Elems(lists[d]) <=> p < next /\ tokens[p] \in Names /\ Says(p, d)
    BY <2>1 DEF PlaceInv
  <2>7. next = Len(tokens) + 1 /\ Len(tokens) \in Nat
    BY <2>1, WidgetsAssumption DEF PlaceInv, LIInv, IInv, TypeOK
  <2> QED
    BY <2>2, <2>5, <2>6, <2>7
<1> QED
  BY <1>1, DrawingInvariance, PTL

\* For all widths, margins and widgets, the left and the right list of a drawing that is over
\* are where the margins say, and each list is as wide as what it shows (xdraw_context(),
\* gui.c).
THEOREM MarginsKept == LSpec => []KeepsMargins
<1>1. DInv => KeepsMargins
  <2> SUFFICES ASSUME DInv, pc = "shown" PROVE KeepsMargins
    BY DEF KeepsMargins
  <2>1. PenType
    BY DEF DInv, LIInv
  <2>2. \A d \in Directions :
          /\ bar[d].width = WidthOf(d, bar[d].drawn)
          /\ bar[d].at = BEFORE_RENDER(d, xctx_reset(d, Margin), bar[d].width)
    BY DEF DInv, FinalInv, Done
  <2>3. \A d \in Directions : bar[d].width \in Nat
    BY <2>1 DEF PenType
  <2>4. Width \in Nat /\ Width \div 2 \in Int /\ Margin.left \in Nat /\ Margin.right \in Nat
    BY LayoutAssumption
  <2>5. bar["L2R"].at = Px(Margin.left)
    BY <2>2 DEF Directions, BEFORE_RENDER, xctx_reset
  <2>6. bar["R2L"].at + bar["R2L"].width = Px(Width - Margin.right)
    <3>1. bar["R2L"].at = Px(Width - Margin.right) - bar["R2L"].width /\ bar["R2L"].width \in Int
      BY <2>2, <2>3 DEF Directions, BEFORE_RENDER, xctx_reset
    <3>2. Px(Width - Margin.right) \in Int
      BY <2>4 DEF Px
    <3> QED
      BY <3>1, <3>2
  <2>7. \A d \in Directions :
          LET drawn == bar[d].drawn
              last  == drawn[Len(drawn)]
          IN  bar[d].width =
                IF drawn = <<>> THEN 0
                ELSE IF last.widget = lists[d][Len(lists[d])] THEN last.to ELSE last.to + Px(Spacing)
    BY <2>2 DEF WidthOf
  <2> QED
    BY <2>5, <2>6, <2>7 DEF KeepsMargins
<1> QED
  BY <1>1, DrawingInvariance, PTL

\* The charts that a widget's drawing updates are those that its init made.
LEMMA ChartedMade ==
  ASSUME NEW p, tokens[p] \in Names
  PROVE  /\ Charts(p, Charted(tokens[p])) \subseteq Freed(p)
         /\ tokens[p] # "cpushort" =>
              \A c \in Made(p) : c[1] = "chart" => c \in Charts(p, Charted(tokens[p]))
<1>1. CASE tokens[p] = "cpushort"
  BY <1>1 DEF Charted, Charts
<1>2. CASE tokens[p] # "cpushort"
  <2>1. NCharts(p) = Charted(tokens[p])
    BY <1>2 DEF NCharts, Recipe, Charted
  <2>2. State(p)[1] # "chart" /\ \A c \in Unfreed(p) : c[1] # "chart"
    BY DEF State, Unfreed, colors, cpu_charts
  <2> QED
    BY <2>1, <2>2 DEF Made, Freed
<1> QED
  BY <1>1, <1>2

\* For any number of cpus and any list of widgets, a drawing gives each chart that it
\* shows one sample, and touches no chart that has been freed (chart_update() in
\* widgets/*.c).
THEOREM SampledOnce == LSpec => []OneSampleEach
<1>1. DInv => OneSampleEach
  <2> SUFFICES ASSUME DInv PROVE OneSampleEach
    OBVIOUS
  <2>0. /\ LIInv /\ PlaceInv /\ ShownInv /\ SampledInv /\ AtInv
        /\ Len(sampled) \in Nat
    <3>1. sampled \in Seq(Sample)
      BY DEF DInv, SampledInv
    <3> QED
      BY <3>1 DEF DInv, LIInv
  <2>1. \A k \in 1..Len(sampled) : \A j \in 1..(k - 1) : sampled[j] # sampled[k]
    <3> SUFFICES ASSUME NEW k \in 1..Len(sampled), NEW j \in 1..(k - 1), sampled[j] = sampled[k]
                 PROVE  FALSE
      OBVIOUS
    <3>1. j \in 1..Len(sampled) /\ j # k
      BY <2>0
    <3> QED
      BY <2>0, <3>1 DEF SampledInv
  <2>2. ASSUME pc = "draw", drawing # "none", NEW k \in 1..Len(sampled)
        PROVE  sampled[k] \in heap
    <3>1. Active /\ drawing \in Directions
      BY <2>0, <2>2, InList DEF Active
    <3>2. \E p \in Linked : tokens[p] \in Names /\ sampled[k] \in Charts(p, Charted(tokens[p]))
      <4>1. sampled[k] \in Past \/ (busy /\ sampled[k] \in Present)
        <5>1. sampled[k] \in Elems(sampled)
          BY DEF Elems
        <5>2. Elems(sampled) = Past \cup (IF busy THEN Present ELSE {})
          BY <2>0, <3>1 DEF SampledInv
        <5> QED
          BY <5>1, <5>2
      <4>2. \A d \in Directions : \A m \in 1..Len(lists[d]) :
              lists[d][m] \in Linked /\ tokens[lists[d][m]] \in Names
        BY <2>0, <2>2, Entries DEF Linked, Elems
      <4>3. CASE sampled[k] \in Past
        <5>1. PICK d \in Directions : \E p \in Shown(d) : sampled[k] \in Charts(p, Charted(tokens[p]))
          BY <4>3, InPast
        <5>2. PICK p \in Shown(d) : sampled[k] \in Charts(p, Charted(tokens[p]))
          BY <5>1
        <5>3. PICK m \in Visited(d) : p = lists[d][m]
          BY <2>0, <3>1 DEF ShownInv
        <5>4. m \in 1..Len(lists[d])
          <6>1. Len(lists[drawing]) \in Nat /\ wle \in 1..(Len(lists[drawing]) + 1)
            BY <2>0, <2>2, InList
          <6> QED
            BY <5>3, <6>1 DEF Visited
        <5> QED
          BY <4>2, <5>2, <5>3, <5>4
      <4>4. CASE busy /\ sampled[k] \in Present
        <5>1. sampled[k] \in Charts(lists[drawing][wle], Charted(tokens[lists[drawing][wle]]))
          BY <4>4 DEF Present, Charts, Widget
        <5>2. wle \in 1..Len(lists[drawing])
          BY <2>0, <2>2, <4>4, InList
        <5> QED
          BY <3>1, <4>2, <5>1, <5>2
      <4> QED
        BY <4>1, <4>3, <4>4
    <3>3. PICK p \in Linked : tokens[p] \in Names /\ sampled[k] \in Charts(p, Charted(tokens[p]))
      BY <3>2
    <3>4. sampled[k] \in Of(p)
      BY <3>3, ChartedMade DEF Of
    <3>5. p \in Live /\ heap = Owned(Live, Linked) \cup LeftOver
      BY <2>0, <2>2 DEF LIInv, IInv, PhaseInv, HeapInv
    <3> QED
      BY <3>4, <3>5, OwnedFree
  <2>3. ASSUME pc = "shown", NEW d \in Directions, NEW k \in 1..Len(bar[d].drawn),
               tokens[bar[d].drawn[k].widget] # "cpushort",
               NEW c \in Made(bar[d].drawn[k].widget), c[1] = "chart"
        PROVE  \E n \in 1..Len(sampled) : sampled[n] = c
    <3> DEFINE p == bar[d].drawn[k].widget
    <3>1. p \in Shown(d) /\ Active /\ Visited(d) = 1..Len(lists[d])
      BY <2>3 DEF Shown, Active, Visited, Done
    <3>2. PICK m \in 1..Len(lists[d]) : p = lists[d][m]
      BY <2>0, <3>1 DEF ShownInv
    <3>3. tokens[p] \in Names
      BY <2>0, <2>3, <3>2, Entries
    <3> HIDE DEF p
    <3>4. c \in Charts(p, Charted(tokens[p]))
      BY <2>3, <3>3, ChartedMade DEF p
    <3>5. c \in Past
      BY <3>1, <3>4, InPast
    <3>6. Past \subseteq Elems(sampled)
      BY <2>0, <3>1 DEF SampledInv
    <3> QED
      BY <3>5, <3>6 DEF Elems
  <2> QED
    BY <2>1, <2>2, <2>3 DEF OneSampleEach
<1> QED
  BY <1>1, DrawingInvariance, PTL
=============================================================================
