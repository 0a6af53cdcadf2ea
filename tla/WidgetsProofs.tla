---------------------------- MODULE WidgetsProofs ----------------------------
(***************************************************************************)
(* What the widgets of Widgets own, and what is left of them, for every    *)
(* list of widgets, number of cpus and size of the table.                  *)
(***************************************************************************)
EXTENDS Widgets, TLAPS

Elems(s) == {s[k] : k \in 1..Len(s)}

\* The widgets that are not freed yet, and those that are in a list.
Live   == {WIDGETS[k] : k \in (i + 1)..Len(WIDGETS)}
Linked == UNION {Elems(lists[d]) : d \in Directions}

\* What a widget owns.
Of(p) == {Struct(p)} \cup Freed(p)

\* The heap holds what those own, and their entries, and what nothing frees, no more.
Owned(live, linked) == (UNION {Of(p) : p \in live}) \cup {Entry(p) : p \in linked}
HeapInv == heap = Owned(Live, Linked) \cup LeftOver

\* Each position is in the table once, and once in one of the lists.
TableInv ==
  /\ \A k \in 1..Len(WIDGETS) : WIDGETS[k] < next
  /\ \A j, k \in 1..Len(WIDGETS) : WIDGETS[j] = WIDGETS[k] => j = k

ListsInv ==
  /\ \A d \in Directions : \A k \in 1..Len(lists[d]) : lists[d][k] < next
  /\ \A d, e \in Directions : \A j \in 1..Len(lists[d]), k \in 1..Len(lists[e]) :
       lists[d][j] = lists[e][k] => d = e /\ j = k

PhaseInv ==
  /\ pc \in {"create", "draw", "shown", "exited"} => i = 0 /\ Linked \subseteq Live
  /\ pc \in {"gui_free", "closed"} => WIDGETS = <<>> /\ i = 0
  /\ pc = "closed" => Linked = {}

\* What is in a list is the position of a name.
NamedInv == \A p \in Linked : p < next /\ tokens[p] \in Names

IInv == TypeOK /\ HeapInv /\ TableInv /\ ListsInv /\ PhaseInv /\ NamedInv

-----------------------------------------------------------------------------
(* Lemmas.                                                                  *)

\* Appending adds one element.
LEMMA ElemsAppend ==
  ASSUME NEW S, NEW s \in Seq(S), NEW e \in S
  PROVE  Elems(Append(s, e)) = Elems(s) \cup {e}
BY DEF Elems

\* Taking the head away takes one element away, if it is there once.
LEMMA ElemsTail ==
  ASSUME NEW S, NEW s \in Seq(S), s # <<>>,
         \A j, k \in 1..Len(s) : s[j] = s[k] => j = k
  PROVE  /\ Head(s) = s[1] /\ 1 \in 1..Len(s)
         /\ Tail(s) \in Seq(S) /\ Len(Tail(s)) = Len(s) - 1
         /\ \A k \in 1..Len(Tail(s)) : k + 1 \in 1..Len(s) /\ Tail(s)[k] = s[k + 1]
         /\ Elems(Tail(s)) = Elems(s) \ {Head(s)}
<1>1. Head(s) = s[1] /\ 1 \in 1..Len(s)
  OBVIOUS
<1>2. Tail(s) \in Seq(S) /\ Len(Tail(s)) = Len(s) - 1
  OBVIOUS
<1>3. \A k \in 1..Len(Tail(s)) : k + 1 \in 1..Len(s) /\ Tail(s)[k] = s[k + 1]
  OBVIOUS
<1>4. Elems(Tail(s)) \subseteq Elems(s) \ {Head(s)}
  <2> SUFFICES ASSUME NEW k \in 1..Len(Tail(s))
               PROVE  Tail(s)[k] \in Elems(s) /\ Tail(s)[k] # s[1]
    BY <1>1 DEF Elems
  <2> QED
    BY <1>1, <1>3 DEF Elems
<1>5. Elems(s) \ {Head(s)} \subseteq Elems(Tail(s))
  <2> SUFFICES ASSUME NEW k \in 1..Len(s), s[k] # s[1]
               PROVE  s[k] \in Elems(Tail(s))
    BY <1>1 DEF Elems
  <2>1. PICK m \in 1..Len(Tail(s)) : k = m + 1
    <3>1. k - 1 \in 1..Len(Tail(s)) /\ k = (k - 1) + 1
      BY <1>2
    <3> QED
      BY <3>1
  <2>2. Tail(s)[m] = s[k]
    BY <2>1, <1>3
  <2> QED
    BY <2>2 DEF Elems
<1> QED
  BY <1>1, <1>2, <1>3, <1>4, <1>5

\* What a widget owns bears its position, and is neither an entry of a list nor of what
\* nothing frees.
LEMMA Owner ==
  ASSUME NEW p
  PROVE  /\ \A o \in Of(p) : o[2] = p /\ o[1] \notin {"entry", "colors", "cpu_charts"}
         /\ Entry(p)[1] = "entry" /\ Entry(p)[2] = p
         /\ \A o \in Unfreed(p) : o[1] \in {"colors", "cpu_charts"}
BY DEF Of, Struct, Freed, State, Charts, Entry, Unfreed, colors, cpu_charts

\* Its free function frees what its init function made, but for that.
LEMMA FreeUndoesInit ==
  ASSUME NEW p
  PROVE  Made(p) = Freed(p) \cup Unfreed(p)
BY DEF Freed, Made

LEMMA InLeftOver ==
  ASSUME NEW o
  PROVE  o \in LeftOver <=> \E q \in 1..(next - 1) : tokens[q] \in Names /\ o \in Unfreed(q)
BY DEF LeftOver

\* What is left over is not what a widget owns, and is not an entry.
LEMMA LeftIsApart ==
  /\ \A o \in LeftOver : o[1] \in {"colors", "cpu_charts"}
  /\ \A p : LeftOver \cap Of(p) = {} /\ Entry(p) \notin LeftOver
<1>1. \A o \in LeftOver : o[1] \in {"colors", "cpu_charts"}
  BY InLeftOver, Owner
<1>2. ASSUME NEW p PROVE LeftOver \cap Of(p) = {} /\ Entry(p) \notin LeftOver
  BY <1>1, Owner
<1> QED
  BY <1>1, <1>2

LEMMA InOwned ==
  ASSUME NEW o, NEW live, NEW linked
  PROVE  o \in Owned(live, linked) <=>
           (\E q \in live : o \in Of(q)) \/ (\E q \in linked : o = Entry(q))
<1>1. o \in UNION {Of(p) : p \in live} <=> \E q \in live : o \in Of(q)
  OBVIOUS
<1>2. o \in {Entry(p) : p \in linked} <=> \E q \in linked : o = Entry(q)
  OBVIOUS
<1>3. o \in Owned(live, linked)
        <=> o \in UNION {Of(p) : p \in live} \/ o \in {Entry(p) : p \in linked}
  BY DEF Owned
<1> QED
  BY <1>1, <1>2, <1>3

LEMMA OwnedAdd ==
  ASSUME NEW p, NEW live, NEW linked
  PROVE  Owned(live \cup {p}, linked \cup {p}) = Owned(live, linked) \cup Of(p) \cup {Entry(p)}
<1>1. ASSUME NEW o
      PROVE  o \in Owned(live \cup {p}, linked \cup {p})
               <=> o \in Owned(live, linked) \cup Of(p) \cup {Entry(p)}
  BY InOwned
<1> QED
  BY <1>1

LEMMA OwnedFree ==
  ASSUME NEW p, NEW live, NEW linked, p \in live
  PROVE  /\ Owned(live \ {p}, linked) = Owned(live, linked) \ Of(p)
         /\ Of(p) \subseteq Owned(live, linked)
<1>1. \A q : \A o \in Of(q) : o[2] = q /\ o[1] \notin {"entry", "colors", "cpu_charts"}
  BY Owner
<1>2. \A q : Entry(q)[1] = "entry"
  BY Owner
<1>3. ASSUME NEW o
      PROVE  /\ o \in Owned(live \ {p}, linked) <=> o \in Owned(live, linked) \ Of(p)
             /\ o \in Of(p) => o \in Owned(live, linked)
  BY <1>1, <1>2, InOwned
<1> QED
  BY <1>3

LEMMA OwnedUnlink ==
  ASSUME NEW p, NEW live, NEW linked, p \in linked
  PROVE  /\ Owned(live, linked \ {p}) = Owned(live, linked) \ {Entry(p)}
         /\ Entry(p) \in Owned(live, linked)
<1>1. \A q : \A o \in Of(q) : o[2] = q /\ o[1] \notin {"entry", "colors", "cpu_charts"}
  BY Owner
<1>2. \A q : Entry(q)[1] = "entry" /\ Entry(q)[2] = q
  BY Owner
<1>3. ASSUME NEW o
      PROVE  /\ o \in Owned(live, linked \ {p}) <=> o \in Owned(live, linked) \ {Entry(p)}
             /\ o = Entry(p) => o \in Owned(live, linked)
  BY <1>1, <1>2, InOwned
<1> QED
  BY <1>3

\* The heap after a step that leaves the list of tokens alone.
LEMMA HeapNext ==
  ASSUME tokens' = tokens, heap' = Owned(Live', Linked') \cup LeftOver'
  PROVE  HeapInv'
<1>1. \A p : Of(p)' = Of(p)
  BY DEF Of, Struct, Freed, State, Charts, NCharts, Recipe
<1>2. \A p : Entry(p)' = Entry(p)
  BY DEF Entry
<1> QED
  BY <1>1, <1>2 DEF HeapInv, Owned

LEMMA LeftSame ==
  ASSUME tokens' = tokens, next' = next
  PROVE  LeftOver' = LeftOver
BY DEF LeftOver, Unfreed, colors, cpu_charts, NCharts, Recipe

\* The next token: a name leaves something, a separator nothing.
LEMMA LeftNext ==
  ASSUME TypeOK, next \in 1..Len(tokens), tokens' = tokens, next' = next + 1
  PROVE  LeftOver' = LeftOver \cup (IF tokens[next] \in Names THEN Unfreed(next) ELSE {})
<1>0. next \in Nat
  BY WidgetsAssumption DEF TypeOK
<1>1. \A q : q \in 1..(next' - 1) <=> q \in 1..(next - 1) \/ q = next
  BY <1>0
<1>2. \A q : Unfreed(q)' = Unfreed(q)
  BY DEF Unfreed, colors, cpu_charts, NCharts, Recipe
<1>3. ASSUME NEW o
      PROVE  o \in LeftOver' <=> \E q \in 1..(next' - 1) : tokens[q] \in Names /\ o \in Unfreed(q)
  BY <1>2 DEF LeftOver
<1>4. ASSUME NEW o
      PROVE  o \in LeftOver' <=> o \in LeftOver \/ (tokens[next] \in Names /\ o \in Unfreed(next))
  BY <1>1, <1>3, InLeftOver
<1> QED
  BY <1>4

\* The lists of the gui, when one of them gets an element or loses its first.
LEMMA LinkedAppend ==
  ASSUME NEW S, lists \in [Directions -> Seq(S)], NEW d \in Directions, NEW e \in S,
         lists' = [lists EXCEPT ![d] = Append(@, e)]
  PROVE  /\ Linked' = Linked \cup {e}
         /\ \A c \in Directions \ {d} : lists'[c] = lists[c]
         /\ Len(lists'[d]) = Len(lists[d]) + 1
         /\ \A k \in 1..Len(lists'[d]) : 
              \/ k \in 1..Len(lists[d]) /\ lists'[d][k] = lists[d][k]
              \/ k = Len(lists[d]) + 1 /\ lists'[d][k] = e
<1>1. \A c \in Directions \ {d} : lists'[c] = lists[c]
  OBVIOUS
<1>2. lists'[d] = Append(lists[d], e) /\ lists[d] \in Seq(S)
  OBVIOUS
<1>3. Elems(lists'[d]) = Elems(lists[d]) \cup {e}
  BY <1>2, ElemsAppend
<1>4. Linked' = Linked \cup {e}
  BY <1>1, <1>3 DEF Linked
<1> QED
  BY <1>1, <1>2, <1>4

LEMMA LinkedTail ==
  ASSUME NEW S, lists \in [Directions -> Seq(S)], NEW d \in Directions, lists[d] # <<>>, ListsInv,
         lists' = [lists EXCEPT ![d] = Tail(@)]
  PROVE  /\ Linked' = Linked \ {Head(lists[d])} /\ Head(lists[d]) \in Linked
         /\ \A c \in Directions : \E n \in {0, 1} : \A k \in 1..Len(lists'[c]) :
              k + n \in 1..Len(lists[c]) /\ lists'[c][k] = lists[c][k + n]
<1>1. \A c \in Directions \ {d} : lists'[c] = lists[c]
  OBVIOUS
<1>2. lists'[d] = Tail(lists[d]) /\ lists[d] \in Seq(S)
  OBVIOUS
<1>3. \A j, k \in 1..Len(lists[d]) : lists[d][j] = lists[d][k] => j = k
  BY DEF ListsInv
<1>4. /\ Head(lists[d]) = lists[d][1] /\ 1 \in 1..Len(lists[d])
      /\ \A k \in 1..Len(lists'[d]) : k + 1 \in 1..Len(lists[d]) /\ lists'[d][k] = lists[d][k + 1]
      /\ Elems(lists'[d]) = Elems(lists[d]) \ {Head(lists[d])}
  BY <1>2, <1>3, ElemsTail
<1>5. \A c \in Directions \ {d} : Head(lists[d]) \notin Elems(lists[c])
  BY <1>4 DEF ListsInv, Elems
<1>6. Linked' = Linked \ {Head(lists[d])}
  <2>1. \A c \in Directions : Elems(lists'[c]) = Elems(lists[c]) \ {Head(lists[d])}
    <3>1. \A c \in Directions \ {d} : Elems(lists'[c]) = Elems(lists[c])
      BY <1>1
    <3> QED
      BY <3>1, <1>4, <1>5
  <2>2. ASSUME NEW o
        PROVE  /\ o \in Linked <=> \E c \in Directions : o \in Elems(lists[c])
               /\ o \in Linked' <=> \E c \in Directions : o \in Elems(lists'[c])
    BY DEF Linked
  <2>3. ASSUME NEW o
        PROVE  o \in Linked' <=> o \in Linked \ {Head(lists[d])}
    BY <2>1, <2>2
  <2> QED
    BY <2>3
<1>7. Head(lists[d]) \in Linked
  BY <1>4 DEF Linked, Elems
<1>8. \A c \in Directions \ {d} : Len(lists[c]) \in Nat
  OBVIOUS
<1>9. ASSUME NEW c \in Directions
      PROVE  \E n \in {0, 1} : \A k \in 1..Len(lists'[c]) :
               k + n \in 1..Len(lists[c]) /\ lists'[c][k] = lists[c][k + n]
  <2>1. CASE c = d
    BY <2>1, <1>4
  <2>2. CASE c # d
    <3>1. \A k \in 1..Len(lists'[c]) : k + 0 = k /\ k \in 1..Len(lists[c])
      BY <2>2, <1>1, <1>8
    <3> QED
      BY <2>2, <1>1, <3>1
  <2> QED
    BY <2>1, <2>2
<1> QED
  BY <1>6, <1>7, <1>9

-----------------------------------------------------------------------------
(* Types.                                                                   *)

LEMMA EmptyLists ==
  ASSUME NEW S
  PROVE  <<>> \in Seq(S) /\ [d \in Directions |-> <<>>] \in [Directions -> Seq(S)]
<1>1. <<>> \in Seq(S)
  OBVIOUS
<1> QED
  BY <1>1

LEMMA TypeInit == Init => TypeOK
<1> SUFFICES ASSUME Init PROVE TypeOK
  OBVIOUS
<1>1. Len(tokens) \in Nat
  BY WidgetsAssumption DEF Init
<1>2. lists \in [Directions -> Seq(1..Len(tokens))] /\ WIDGETS \in Seq(1..Len(tokens))
  BY EmptyLists DEF Init
<1>3. Len(WIDGETS) = 0
  BY DEF Init
<1>4. next \in 1..(Len(tokens) + 1) /\ i \in 0..Len(WIDGETS) /\ Len(WIDGETS) <= MAX_ALL_WIDGETS
  BY <1>1, <1>3, WidgetsAssumption DEF Init
<1>5. tokens \in Lists /\ direction \in Directions /\ pc = "create" /\ quit \in BOOLEAN
  BY DEF Init, Directions
<1> QED
  BY <1>2, <1>4, <1>5 DEF TypeOK

LEMMA TypeStep == IInv /\ [Next]_vars => TypeOK'
<1> SUFFICES ASSUME TypeOK, PhaseInv, [Next]_vars
             PROVE  TypeOK'
  BY DEF IInv
<1>0. tokens \in Seq(STRING) /\ Len(tokens) \in Nat
  BY WidgetsAssumption DEF TypeOK
<1>1. CASE separator
  BY <1>0, <1>1 DEF separator, TypeOK, Directions, DirectionOf
<1>2. CASE widget_create_from_recipe
  <2>1. next \in 1..Len(tokens) /\ next + 1 \in 1..(Len(tokens) + 1)
    BY <1>0, <1>2 DEF widget_create_from_recipe, TypeOK
  <2>2. WIDGETS' \in Seq(1..Len(tokens)) /\ Len(WIDGETS') <= MAX_ALL_WIDGETS
    BY <2>1, <1>2, WidgetsAssumption DEF widget_create_from_recipe, TypeOK
  <2>3. lists' \in [Directions -> Seq(1..Len(tokens))]
    BY <2>1, <1>2 DEF widget_create_from_recipe, TypeOK
  <2>4. i \in 0..Len(WIDGETS')
    BY <2>1, <1>2 DEF widget_create_from_recipe, TypeOK
  <2> QED
    BY <2>1, <2>2, <2>3, <2>4, <1>2 DEF widget_create_from_recipe, TypeOK
<1>3. CASE errx
  BY <1>3 DEF errx, TypeOK
<1>4. CASE widgets_created
  BY <1>4 DEF widgets_created, TypeOK
<1>5. CASE gui_drawn
  BY <1>5 DEF gui_drawn, TypeOK
<1>6. CASE redraw
  BY <1>6 DEF redraw, TypeOK
<1>7. CASE cleanup_gui
  BY <1>7 DEF cleanup_gui, TypeOK
<1>8. CASE widgets_free
  BY <1>8 DEF widgets_free, TypeOK
<1>9. CASE widgets_freed
  BY <1>9, WidgetsAssumption DEF widgets_freed, TypeOK
<1>10. CASE free_widget_list
  <2>1. PICK d \in Directions :
          lists[d] # <<>> /\ lists' = [lists EXCEPT ![d] = Tail(@)]
    BY <1>10 DEF free_widget_list
  <2>2. Tail(lists[d]) \in Seq(1..Len(tokens))
    BY <2>1 DEF TypeOK
  <2>3. lists' \in [Directions -> Seq(1..Len(tokens))]
    BY <2>1, <2>2 DEF TypeOK
  <2> QED
    BY <2>3, <1>10 DEF free_widget_list, TypeOK
<1>11. CASE gui_freed
  <2>1. WIDGETS = <<>> /\ i = 0
    BY <1>11 DEF gui_freed, PhaseInv
  <2>2. CASE quit
    BY <2>2, <1>11 DEF gui_freed, TypeOK
  <2>3. CASE ~quit
    <3>1. Len(tokens') \in Nat /\ tokens' \in Lists
      BY <2>3, <1>11, WidgetsAssumption DEF gui_freed
    <3>2. WIDGETS' \in Seq(1..Len(tokens')) /\ Len(WIDGETS') <= MAX_ALL_WIDGETS /\ i' \in 0..Len(WIDGETS')
      BY <2>1, <1>11, WidgetsAssumption DEF gui_freed
    <3>3. lists' \in [Directions -> Seq(1..Len(tokens'))]
      BY <2>3, <1>11, EmptyLists DEF gui_freed
    <3> QED
      BY <2>3, <3>1, <3>2, <3>3, <1>11 DEF gui_freed, TypeOK, Directions
  <2> QED
    BY <2>2, <2>3
<1>12. CASE UNCHANGED vars
  BY <1>12 DEF vars, TypeOK
<1> QED
  BY <1>1, <1>2, <1>3, <1>4, <1>5, <1>6, <1>7, <1>8, <1>9, <1>10, <1>11, <1>12 DEF Next

-----------------------------------------------------------------------------
(* The heap.                                                                *)

\* A step that changes nothing the heap depends on.
LEMMA HeapSame ==
  ASSUME HeapInv, UNCHANGED <<tokens, heap, WIDGETS, lists, i>>, LeftOver' = LeftOver
  PROVE  HeapInv'
<1>1. Live' = Live /\ Linked' = Linked
  BY DEF Live, Linked, Elems
<1> QED
  BY <1>1, HeapNext DEF HeapInv

\* A new widget is in the table and in a list.
LEMMA CreateSets ==
  ASSUME IInv, widget_create_from_recipe
  PROVE  Live' = Live \cup {next} /\ Linked' = Linked \cup {next}
<1>0. TypeOK /\ i = 0 /\ i' = 0
  BY DEF IInv, PhaseInv, widget_create_from_recipe
<1>1. Len(tokens) \in Nat /\ next \in 1..Len(tokens)
  BY <1>0, WidgetsAssumption DEF TypeOK, widget_create_from_recipe
<1>2. Live' = Live \cup {next}
  <2>1. Live = Elems(WIDGETS) /\ Live' = Elems(WIDGETS')
    BY <1>0 DEF Live, Elems
  <2>2. WIDGETS \in Seq(1..Len(tokens)) /\ WIDGETS' = Append(WIDGETS, next)
    BY <1>0 DEF TypeOK, widget_create_from_recipe
  <2> QED
    BY <1>1, <2>1, <2>2, ElemsAppend
<1>3. Linked' = Linked \cup {next}
  <2>1. lists \in [Directions -> Seq(1..Len(tokens))] /\ direction \in Directions
    BY <1>0 DEF TypeOK
  <2>2. lists' = [lists EXCEPT ![direction] = Append(@, next)]
    BY DEF widget_create_from_recipe
  <2> QED
    BY <1>1, <2>1, <2>2, LinkedAppend
<1> QED
  BY <1>2, <1>3

LEMMA HeapCreate == IInv /\ widget_create_from_recipe => HeapInv'
<1> SUFFICES ASSUME IInv, widget_create_from_recipe
             PROVE  HeapInv'
  OBVIOUS
<1>1. Live' = Live \cup {next} /\ Linked' = Linked \cup {next}
  BY CreateSets
<1>2. heap' = heap \cup Of(next) \cup {Entry(next)} \cup Unfreed(next)
  BY FreeUndoesInit DEF widget_create_from_recipe, Of
<1>3. LeftOver' = LeftOver \cup Unfreed(next)
  <2>1. TypeOK /\ next \in 1..Len(tokens) /\ next' = next + 1 /\ tokens[next] \in Names
    BY WidgetsAssumption DEF IInv, TypeOK, widget_create_from_recipe
  <2> QED
    BY <2>1, LeftNext DEF widget_create_from_recipe
<1>4. Owned(Live', Linked') = Owned(Live, Linked) \cup Of(next) \cup {Entry(next)}
  BY <1>1, OwnedAdd
<1>5. heap = Owned(Live, Linked) \cup LeftOver
  BY DEF IInv, HeapInv
<1>6. heap' = Owned(Live', Linked') \cup LeftOver'
  BY <1>2, <1>3, <1>4, <1>5
<1> QED
  BY <1>6, HeapNext DEF widget_create_from_recipe

LEMMA HeapFree == IInv /\ widgets_free => HeapInv'
<1> SUFFICES ASSUME IInv, widgets_free
             PROVE  HeapInv'
  OBVIOUS
<1> DEFINE p == WIDGETS[i + 1]
<1>0. TypeOK /\ HeapInv /\ TableInv
  BY DEF IInv
<1>1. i \in Nat /\ Len(WIDGETS) \in Nat /\ i < Len(WIDGETS) /\ i' = i + 1 /\ WIDGETS' = WIDGETS
  BY <1>0 DEF TypeOK, widgets_free
<1>2. i + 1 \in 1..Len(WIDGETS) /\ i + 1 \in (i + 1)..Len(WIDGETS)
  BY <1>1
<1>3. p \in Live
  BY <1>2 DEF Live
<1>4. Live' = Live \ {p}
  <2>1. Live' = {WIDGETS[k] : k \in (i + 2)..Len(WIDGETS)}
    BY <1>1 DEF Live
  <2>2. \A k \in (i + 1)..Len(WIDGETS) :
          /\ k \in 1..Len(WIDGETS)
          /\ k = i + 1 \/ k \in (i + 2)..Len(WIDGETS)
    BY <1>1
  <2>3. \A k \in (i + 2)..Len(WIDGETS) :
          k \in 1..Len(WIDGETS) /\ k # i + 1 /\ k \in (i + 1)..Len(WIDGETS)
    BY <1>1
  <2>4. \A k \in (i + 2)..Len(WIDGETS) : WIDGETS[k] # p
    BY <1>0, <1>2, <2>3 DEF TableInv
  <2> QED
    BY <2>1, <2>2, <2>3, <2>4 DEF Live
<1>5. Linked' = Linked
  BY DEF widgets_free, Linked, Elems
<1>6. heap' = heap \ Of(p)
  <2>1. Freed(p) \cup {Struct(p)} = Of(p)
    BY FreeUndoesInit DEF Of
  <2> QED
    BY <2>1 DEF widgets_free
<1>7. heap' = Owned(Live', Linked') \cup LeftOver'
  <2>1. Owned(Live', Linked') = Owned(Live, Linked) \ Of(p)
    BY <1>3, <1>4, <1>5, OwnedFree
  <2>2. LeftOver' = LeftOver /\ LeftOver \cap Of(p) = {}
    BY LeftSame, LeftIsApart DEF widgets_free
  <2> QED
    BY <1>0, <1>6, <2>1, <2>2 DEF HeapInv
<1> QED
  BY <1>7, HeapNext DEF widgets_free

LEMMA HeapUnlink == IInv /\ free_widget_list => HeapInv'
<1> SUFFICES ASSUME IInv, free_widget_list
             PROVE  HeapInv'
  OBVIOUS
<1>0. TypeOK /\ HeapInv /\ ListsInv /\ lists \in [Directions -> Seq(1..Len(tokens))]
  BY DEF IInv, TypeOK
<1>1. PICK d \in Directions :
        /\ lists[d] # <<>>
        /\ heap' = heap \ {Entry(Head(lists[d]))}
        /\ lists' = [lists EXCEPT ![d] = Tail(@)]
  BY DEF free_widget_list
<1>2. Linked' = Linked \ {Head(lists[d])} /\ Head(lists[d]) \in Linked
  BY <1>0, <1>1, LinkedTail
<1>3. Live' = Live
  BY DEF free_widget_list, Live
<1>4. heap' = Owned(Live', Linked') \cup LeftOver'
  <2>1. Owned(Live', Linked') = Owned(Live, Linked) \ {Entry(Head(lists[d]))}
    BY <1>2, <1>3, OwnedUnlink
  <2>2. LeftOver' = LeftOver /\ Entry(Head(lists[d])) \notin LeftOver
    BY LeftSame, LeftIsApart DEF free_widget_list
  <2> QED
    BY <1>0, <1>1, <2>1, <2>2 DEF HeapInv
<1> QED
  BY <1>4, HeapNext DEF free_widget_list

LEMMA HeapStep == IInv /\ [Next]_vars => HeapInv'
<1> SUFFICES ASSUME IInv, [Next]_vars
             PROVE  HeapInv'
  OBVIOUS
<1>0. HeapInv
  BY DEF IInv
<1>1. CASE separator
  <2>1. TypeOK /\ next \in 1..Len(tokens) /\ next' = next + 1 /\ tokens' = tokens
    BY <1>1, WidgetsAssumption DEF IInv, TypeOK, separator
  <2>2. tokens[next] \notin Names
    BY <1>1 DEF separator, Separators, Names, WIDGET_RECIPES
  <2>3. LeftOver' = LeftOver
    BY <2>1, <2>2, LeftNext
  <2> QED
    BY <1>0, <1>1, <2>3, HeapSame DEF separator
<1>2. CASE widget_create_from_recipe
  BY <1>2, HeapCreate
<1>3. CASE errx
  BY <1>0, <1>3, HeapSame, LeftSame DEF errx
<1>4. CASE widgets_created
  BY <1>0, <1>4, HeapSame, LeftSame DEF widgets_created
<1>5. CASE gui_drawn
  BY <1>0, <1>5, HeapSame, LeftSame DEF gui_drawn
<1>6. CASE redraw
  BY <1>0, <1>6, HeapSame, LeftSame DEF redraw
<1>7. CASE cleanup_gui
  BY <1>0, <1>7, HeapSame, LeftSame DEF cleanup_gui
<1>8. CASE widgets_free
  BY <1>8, HeapFree
<1>9. CASE widgets_freed
  <2>1. i = Len(WIDGETS) /\ WIDGETS' = <<>> /\ i' = 0 /\ Len(WIDGETS) \in Nat
    BY <1>9 DEF IInv, TypeOK, widgets_freed
  <2>2. Live = {} /\ Live' = {}
    BY <2>1 DEF Live
  <2>3. Linked' = Linked
    BY <1>9 DEF widgets_freed, Linked, Elems
  <2> QED
    BY <1>0, <1>9, <2>2, <2>3, HeapNext, LeftSame DEF widgets_freed, HeapInv
<1>10. CASE free_widget_list
  BY <1>10, HeapUnlink
<1>11. CASE gui_freed
  <2>1. WIDGETS = <<>> /\ WIDGETS' = <<>> /\ i = 0 /\ i' = 0
    BY <1>11 DEF IInv, PhaseInv, gui_freed
  <2>2. Live = {} /\ Live' = {}
    BY <2>1 DEF Live
  <2>3. \A d \in Directions : lists[d] = <<>> /\ lists'[d] = <<>>
    BY <1>11 DEF gui_freed
  <2>4. Linked = {} /\ Linked' = {}
    BY <2>3 DEF Linked, Elems
  <2>5. Owned(Live, Linked) = {} /\ (Owned(Live, Linked))' = {}
    BY <2>2, <2>4 DEF Owned
  <2>6. CASE quit
    <3>1. heap' = heap /\ LeftOver' = LeftOver
      BY <1>11, <2>6, LeftSame DEF gui_freed
    <3> QED
      BY <1>0, <2>5, <3>1 DEF HeapInv
  <2>7. CASE ~quit
    <3>1. heap' = {}
      BY <1>0, <1>11, <2>5, <2>7, LeftIsApart DEF HeapInv, gui_freed
    <3>2. next' = 1 /\ 1..(next' - 1) = {}
      BY <1>11, <2>7 DEF gui_freed
    <3>3. LeftOver' = {}
      BY <3>2 DEF LeftOver
    <3> QED
      BY <2>5, <3>1, <3>3 DEF HeapInv
  <2> QED
    BY <2>6, <2>7
<1>12. CASE UNCHANGED vars
  BY <1>0, <1>12, HeapSame, LeftSame DEF vars
<1> QED
  BY <1>1, <1>2, <1>3, <1>4, <1>5, <1>6, <1>7, <1>8, <1>9, <1>10, <1>11, <1>12 DEF Next

-----------------------------------------------------------------------------
(* The table, the lists and the phases.                                     *)

LEMMA TableStep == IInv /\ [Next]_vars => TableInv'
<1> SUFFICES ASSUME TypeOK, TableInv, PhaseInv, [Next]_vars
             PROVE  TableInv'
  BY DEF IInv
<1>0. next \in Nat /\ WIDGETS \in Seq(1..Len(tokens)) /\ Len(WIDGETS) \in Nat
  BY WidgetsAssumption DEF TypeOK
<1>1. CASE UNCHANGED WIDGETS /\ next' \in {next, next + 1}
  <2>1. \A k \in 1..Len(WIDGETS) : WIDGETS[k] \in 1..Len(tokens) /\ WIDGETS[k] < next
    BY <1>0 DEF TableInv
  <2>2. Len(tokens) \in Nat
    BY WidgetsAssumption DEF TypeOK
  <2>3. \A k \in 1..Len(WIDGETS) : WIDGETS[k] < next + 1
    BY <1>0, <2>1, <2>2
  <2> QED
    BY <1>1, <2>1, <2>3 DEF TableInv
<1>2. CASE widget_create_from_recipe
  <2>1. WIDGETS' = Append(WIDGETS, next) /\ next' = next + 1 /\ next \in 1..Len(tokens)
    BY <1>2, <1>0 DEF widget_create_from_recipe, TypeOK
  <2>2. Len(WIDGETS') = Len(WIDGETS) + 1 /\ WIDGETS'[Len(WIDGETS) + 1] = next
    BY <1>0, <2>1
  <2>3. \A k \in 1..Len(WIDGETS) :
          WIDGETS'[k] = WIDGETS[k] /\ WIDGETS[k] < next /\ WIDGETS[k] \in 1..Len(tokens)
    BY <1>0, <2>1 DEF TableInv
  <2>4. \A k \in 1..Len(WIDGETS') : k \in 1..Len(WIDGETS) \/ k = Len(WIDGETS) + 1
    BY <1>0, <2>2
  <2>5. Len(tokens) \in Nat
    BY WidgetsAssumption DEF TypeOK
  <2>6. ASSUME NEW k \in 1..Len(WIDGETS') PROVE WIDGETS'[k] < next'
    BY <1>0, <2>1, <2>2, <2>3, <2>4, <2>5
  <2>7. ASSUME NEW j \in 1..Len(WIDGETS'), NEW k \in 1..Len(WIDGETS'), WIDGETS'[j] = WIDGETS'[k]
        PROVE  j = k
    <3>1. CASE j \in 1..Len(WIDGETS) /\ k \in 1..Len(WIDGETS)
      BY <2>3, <2>7, <3>1 DEF TableInv
    <3>2. CASE ~(j \in 1..Len(WIDGETS) /\ k \in 1..Len(WIDGETS))
      BY <1>0, <2>2, <2>3, <2>4, <2>5, <2>7, <3>2
    <3> QED
      BY <3>1, <3>2
  <2> QED
    BY <2>6, <2>7 DEF TableInv
<1>3. CASE widgets_freed
  <2>1. WIDGETS' = <<>> /\ Len(WIDGETS') = 0
    BY <1>3 DEF widgets_freed
  <2> QED
    BY <2>1 DEF TableInv
<1>4. CASE gui_freed
  <2>1. WIDGETS' = <<>> /\ Len(WIDGETS') = 0
    BY <1>4 DEF gui_freed, PhaseInv
  <2> QED
    BY <2>1 DEF TableInv
<1>5. CASE separator
  BY <1>1, <1>5 DEF separator
<1>6. CASE errx \/ widgets_created
  BY <1>1, <1>6 DEF errx, widgets_created
<1>7. CASE gui_drawn \/ redraw \/ cleanup_gui
  BY <1>1, <1>7 DEF gui_drawn, redraw, cleanup_gui
<1>8. CASE widgets_free \/ free_widget_list
  BY <1>1, <1>8 DEF widgets_free, free_widget_list
<1>9. CASE UNCHANGED vars
  BY <1>1, <1>9 DEF vars
<1> QED
  BY <1>2, <1>3, <1>4, <1>5, <1>6, <1>7, <1>8, <1>9 DEF Next

LEMMA ListsStep == IInv /\ [Next]_vars => ListsInv'
<1> SUFFICES ASSUME TypeOK, ListsInv, [Next]_vars
             PROVE  ListsInv'
  BY DEF IInv
<1>0. /\ next \in Nat /\ Len(tokens) \in Nat
      /\ lists \in [Directions -> Seq(1..Len(tokens))]
  BY WidgetsAssumption DEF TypeOK
<1>1. \A d \in Directions :
        /\ Len(lists[d]) \in Nat
        /\ \A k \in 1..Len(lists[d]) : lists[d][k] \in 1..Len(tokens) /\ lists[d][k] < next
  <2>1. \A d \in Directions : lists[d] \in Seq(1..Len(tokens))
    BY <1>0
  <2> QED
    BY <2>1 DEF ListsInv
<1>2. CASE UNCHANGED lists /\ next' \in {next, next + 1}
  <2>1. \A d \in Directions : \A k \in 1..Len(lists[d]) : lists[d][k] < next + 1
    BY <1>0, <1>1
  <2>2. \A d \in Directions : \A k \in 1..Len(lists'[d]) : lists'[d][k] < next'
    BY <1>1, <1>2, <2>1
  <2>3. \A d, e \in Directions : \A j \in 1..Len(lists'[d]), k \in 1..Len(lists'[e]) :
          lists'[d][j] = lists'[e][k] => d = e /\ j = k
    BY <1>2 DEF ListsInv
  <2> QED
    BY <2>2, <2>3 DEF ListsInv
<1>3. CASE widget_create_from_recipe
  <2>1. next' = next + 1 /\ next \in 1..Len(tokens) /\ direction \in Directions
    BY <1>3, <1>0 DEF widget_create_from_recipe, TypeOK
  <2>2. /\ \A c \in Directions \ {direction} : lists'[c] = lists[c]
        /\ Len(lists'[direction]) = Len(lists[direction]) + 1
        /\ \A k \in 1..Len(lists'[direction]) :
             \/ k \in 1..Len(lists[direction]) /\ lists'[direction][k] = lists[direction][k]
             \/ k = Len(lists[direction]) + 1 /\ lists'[direction][k] = next
    BY <1>0, <1>3, <2>1, LinkedAppend DEF widget_create_from_recipe
  <2>3. ASSUME NEW c \in Directions, NEW k \in 1..Len(lists'[c])
        PROVE  \/ k \in 1..Len(lists[c]) /\ lists'[c][k] = lists[c][k]
               \/ c = direction /\ k = Len(lists[c]) + 1 /\ lists'[c][k] = next
    BY <2>2
  <2>4. ASSUME NEW c \in Directions, NEW k \in 1..Len(lists'[c]) PROVE lists'[c][k] < next'
    <3>1. CASE k \in 1..Len(lists[c]) /\ lists'[c][k] = lists[c][k]
      <4>1. lists[c][k] \in 1..Len(tokens) /\ lists[c][k] < next
        BY <1>1, <3>1
      <4> QED
        BY <1>0, <2>1, <3>1, <4>1
    <3>2. CASE lists'[c][k] = next
      BY <1>0, <2>1, <3>2
    <3> QED
      BY <2>3, <3>1, <3>2
  <2>5. ASSUME NEW c \in Directions, NEW e \in Directions,
               NEW j \in 1..Len(lists'[c]), NEW k \in 1..Len(lists'[e]),
               lists'[c][j] = lists'[e][k]
        PROVE  c = e /\ j = k
    <3>1. CASE j \in 1..Len(lists[c]) /\ lists'[c][j] = lists[c][j]
      <4>1. lists'[e][k] # next
        BY <1>0, <1>1, <2>5, <3>1
      <4>2. k \in 1..Len(lists[e]) /\ lists'[e][k] = lists[e][k]
        BY <2>3, <4>1
      <4>3. lists[c][j] = lists[e][k]
        BY <2>5, <3>1, <4>2
      <4> QED
        BY <3>1, <4>2, <4>3 DEF ListsInv
    <3>2. CASE c = direction /\ j = Len(lists[c]) + 1 /\ lists'[c][j] = next
      <4>1. ~(k \in 1..Len(lists[e]) /\ lists'[e][k] = lists[e][k])
        BY <1>0, <1>1, <2>5, <3>2
      <4> QED
        BY <2>3, <3>2, <4>1
    <3> QED
      BY <2>3, <3>1, <3>2
  <2> QED
    BY <2>4, <2>5 DEF ListsInv
<1>4. CASE free_widget_list
  <2>1. PICK d \in Directions : lists[d] # <<>> /\ lists' = [lists EXCEPT ![d] = Tail(@)]
    BY <1>4 DEF free_widget_list
  <2>2. \A c \in Directions : \E n \in {0, 1} : \A k \in 1..Len(lists'[c]) :
          k + n \in 1..Len(lists[c]) /\ lists'[c][k] = lists[c][k + n]
    BY <1>0, <2>1, LinkedTail
  <2>3. next' = next
    BY <1>4 DEF free_widget_list
  <2>4. ASSUME NEW c \in Directions, NEW k \in 1..Len(lists'[c]) PROVE lists'[c][k] < next'
    BY <1>1, <2>2, <2>3
  <2>5. ASSUME NEW c \in Directions, NEW e \in Directions,
               NEW j \in 1..Len(lists'[c]), NEW k \in 1..Len(lists'[e]),
               lists'[c][j] = lists'[e][k]
        PROVE  c = e /\ j = k
    <3>1. PICK n \in {0, 1} : \A x \in 1..Len(lists'[c]) :
            x + n \in 1..Len(lists[c]) /\ lists'[c][x] = lists[c][x + n]
      BY <2>2
    <3>2. PICK m \in {0, 1} : \A x \in 1..Len(lists'[e]) :
            x + m \in 1..Len(lists[e]) /\ lists'[e][x] = lists[e][x + m]
      BY <2>2
    <3>3. c = e
      <4>1. j + n \in 1..Len(lists[c]) /\ k + m \in 1..Len(lists[e])
        BY <3>1, <3>2
      <4>2. lists[c][j + n] = lists[e][k + m]
        BY <2>5, <3>1, <3>2
      <4> QED
        BY <4>1, <4>2 DEF ListsInv
    <3>4. j + n = k + n
      <4>1. j + n \in 1..Len(lists[c]) /\ k + n \in 1..Len(lists[c])
        BY <3>1, <3>3
      <4>2. lists[c][j + n] = lists[c][k + n]
        BY <2>5, <3>1, <3>3
      <4> QED
        BY <4>1, <4>2 DEF ListsInv
    <3> QED
      BY <3>3, <3>4
  <2> QED
    BY <2>4, <2>5 DEF ListsInv
<1>5. CASE gui_freed
  <2>1. \A d \in Directions : lists'[d] = <<>> /\ Len(lists'[d]) = 0
    BY <1>5 DEF gui_freed
  <2> QED
    BY <2>1 DEF ListsInv
<1>6. CASE separator
  BY <1>2, <1>6 DEF separator
<1>7. CASE errx \/ widgets_created
  BY <1>2, <1>7 DEF errx, widgets_created
<1>8. CASE gui_drawn \/ redraw \/ cleanup_gui
  BY <1>2, <1>8 DEF gui_drawn, redraw, cleanup_gui
<1>9. CASE widgets_free \/ widgets_freed
  BY <1>2, <1>9 DEF widgets_free, widgets_freed
<1>10. CASE UNCHANGED vars
  BY <1>2, <1>10 DEF vars
<1> QED
  BY <1>3, <1>4, <1>5, <1>6, <1>7, <1>8, <1>9, <1>10 DEF Next

LEMMA PhaseStep == IInv /\ [Next]_vars => PhaseInv'
<1> SUFFICES ASSUME IInv, [Next]_vars
             PROVE  PhaseInv'
  OBVIOUS
<1>0. PhaseInv
  BY DEF IInv
<1>1. CASE UNCHANGED <<WIDGETS, lists, i>> /\ (pc' = pc \/ {pc, pc'} \subseteq {"create", "draw", "shown", "exited"})
  <2>1. Live' = Live /\ Linked' = Linked
    BY <1>1 DEF Live, Linked, Elems
  <2> QED
    BY <1>0, <1>1, <2>1 DEF PhaseInv
<1>2. CASE widget_create_from_recipe
  <2>1. Live' = Live \cup {next} /\ Linked' = Linked \cup {next}
    BY <1>2, CreateSets
  <2> QED
    BY <1>0, <1>2, <2>1 DEF PhaseInv, widget_create_from_recipe
<1>3. CASE cleanup_gui
  BY <1>3 DEF cleanup_gui, PhaseInv
<1>4. CASE widgets_free
  BY <1>4 DEF widgets_free, PhaseInv
<1>5. CASE widgets_freed
  BY <1>5 DEF widgets_freed, PhaseInv
<1>6. CASE free_widget_list
  BY <1>0, <1>6 DEF free_widget_list, PhaseInv
<1>7. CASE gui_freed
  <2>1. \A d \in Directions : lists'[d] = <<>>
    BY <1>7 DEF gui_freed
  <2>2. Linked' = {}
    BY <2>1 DEF Linked, Elems
  <2> QED
    BY <1>0, <1>7, <2>2 DEF gui_freed, PhaseInv
<1>8. CASE separator
  BY <1>1, <1>8 DEF separator
<1>9. CASE errx
  BY <1>1, <1>9 DEF errx
<1>10. CASE widgets_created
  BY <1>1, <1>10 DEF widgets_created
<1>11. CASE gui_drawn
  BY <1>1, <1>11 DEF gui_drawn
<1>12. CASE redraw
  BY <1>1, <1>12 DEF redraw
<1>13. CASE UNCHANGED vars
  BY <1>1, <1>13 DEF vars
<1> QED
  BY <1>2, <1>3, <1>4, <1>5, <1>6, <1>7, <1>8, <1>9, <1>10, <1>11, <1>12, <1>13 DEF Next

\* What is in a list has a name.
LEMMA NamedStep == IInv /\ [Next]_vars => NamedInv'
<1> SUFFICES ASSUME IInv, [Next]_vars
             PROVE  NamedInv'
  OBVIOUS
<1>0. /\ NamedInv /\ next \in Nat /\ Len(tokens) \in Nat
      /\ lists \in [Directions -> Seq(1..Len(tokens))]
  BY WidgetsAssumption DEF IInv, TypeOK
<1>1. \A p \in Linked : p \in 1..Len(tokens)
  <2>1. \A d \in Directions : Elems(lists[d]) \subseteq 1..Len(tokens)
    <3> SUFFICES ASSUME NEW d \in Directions, NEW k \in 1..Len(lists[d])
                 PROVE  lists[d][k] \in 1..Len(tokens)
      BY DEF Elems
    <3>1. lists[d] \in Seq(1..Len(tokens))
      BY <1>0
    <3> QED
      BY <3>1
  <2> QED
    BY <2>1 DEF Linked
<1>2. CASE tokens' = tokens /\ Linked' \subseteq Linked /\ next' \in {next, next + 1}
  BY <1>0, <1>1, <1>2 DEF NamedInv
<1>3. CASE widget_create_from_recipe
  <2>1. Linked' = Linked \cup {next} /\ next' = next + 1 /\ tokens' = tokens /\ tokens[next] \in Names
    BY <1>3, CreateSets DEF widget_create_from_recipe
  <2> QED
    BY <1>0, <1>1, <2>1 DEF NamedInv
<1>4. CASE free_widget_list
  <2>1. PICK d \in Directions : lists[d] # <<>> /\ lists' = [lists EXCEPT ![d] = Tail(@)]
    BY <1>4 DEF free_widget_list
  <2>2. Linked' \subseteq Linked
    BY <1>0, <2>1, LinkedTail DEF IInv
  <2> QED
    BY <1>2, <1>4, <2>2 DEF free_widget_list
<1>5. CASE gui_freed
  <2>1. \A d \in Directions : lists'[d] = <<>>
    BY <1>5 DEF gui_freed
  <2>2. Linked' = {}
    BY <2>1 DEF Linked, Elems
  <2> QED
    BY <2>2 DEF NamedInv
<1>6. CASE tokens' = tokens /\ lists' = lists /\ next' \in {next, next + 1}
  BY <1>2, <1>6 DEF Linked, Elems
<1>7. CASE separator \/ errx \/ widgets_created
  BY <1>6, <1>7 DEF separator, errx, widgets_created
<1>8. CASE gui_drawn \/ redraw \/ cleanup_gui
  BY <1>6, <1>8 DEF gui_drawn, redraw, cleanup_gui
<1>9. CASE widgets_free \/ widgets_freed
  BY <1>6, <1>9 DEF widgets_free, widgets_freed
<1>10. CASE UNCHANGED vars
  BY <1>6, <1>10 DEF vars
<1> QED
  BY <1>3, <1>4, <1>5, <1>7, <1>8, <1>9, <1>10 DEF Next

-----------------------------------------------------------------------------
(* The theorems.                                                            *)

LEMMA InvInit == Init => IInv
<1> SUFFICES ASSUME Init PROVE IInv
  OBVIOUS
<1>1. TypeOK
  BY TypeInit
<1>2. Len(WIDGETS) = 0 /\ i = 0 /\ \A d \in Directions : lists[d] = <<>> /\ Len(lists[d]) = 0
  BY DEF Init
<1>3. Live = {} /\ Linked = {}
  BY <1>2 DEF Live, Linked, Elems
<1>4. HeapInv
  <2>1. next = 1 /\ 1..(next - 1) = {}
    BY DEF Init
  <2>2. LeftOver = {}
    BY <2>1 DEF LeftOver
  <2> QED
    BY <1>3, <2>2 DEF Init, HeapInv, Owned
<1>5. TableInv /\ ListsInv
  BY <1>2 DEF TableInv, ListsInv
<1>6. PhaseInv
  BY <1>3 DEF Init, PhaseInv
<1>7. NamedInv
  BY <1>3 DEF NamedInv
<1> QED
  BY <1>1, <1>4, <1>5, <1>6, <1>7 DEF IInv

\* In every state the heap holds what the widgets that are not freed own, the entries of
\* the lists, and what nothing frees of the widgets made so far, and nothing else
\* (widgets.c, widgets/*.c, gui.c).
THEOREM Inductive == Spec => []IInv
<1>1. Init => IInv
  BY InvInit
<1>2. IInv /\ [Next]_vars => IInv'
  BY TypeStep, HeapStep, TableStep, ListsStep, PhaseStep, NamedStep DEF IInv
<1> QED
  BY <1>1, <1>2, PTL DEF Spec

\* The table of widgets keeps its bound over every number of reloads (widgets.c:127).
THEOREM TypeCorrect == Spec => []TypeOK
<1>1. IInv => TypeOK
  BY DEF IInv
<1> QED
  BY <1>1, Inductive, PTL

\* widgets_free() and free_widget_list() free only what exists, for every list of
\* widgets and every number of cpus.
THEOREM NeverTwice == Spec => []FreedOnce
<1>1. IInv => FreedOnce
  <2> SUFFICES ASSUME IInv PROVE FreedOnce
    OBVIOUS
  <2>0. TypeOK /\ heap = Owned(Live, Linked) \cup LeftOver
    BY DEF IInv, HeapInv
  <2>1. ASSUME pc = "widgets_free", i < Len(WIDGETS)
        PROVE  Freed(WIDGETS[i + 1]) \cup {Struct(WIDGETS[i + 1])} \subseteq heap
    <3>1. i + 1 \in (i + 1)..Len(WIDGETS)
      BY <2>0, <2>1 DEF TypeOK
    <3>2. WIDGETS[i + 1] \in Live
      BY <3>1 DEF Live
    <3>3. Of(WIDGETS[i + 1]) \subseteq heap
      BY <2>0, <3>2, OwnedFree
    <3> QED
      BY <3>3 DEF Of
  <2>2. ASSUME NEW d \in Directions, NEW k \in 1..Len(lists[d])
        PROVE  Entry(lists[d][k]) \in heap
    <3>1. lists[d][k] \in Linked
      BY DEF Linked, Elems
    <3> QED
      BY <2>0, <3>1, OwnedUnlink
  <2> QED
    BY <2>1, <2>2 DEF FreedOnce
<1> QED
  BY <1>1, Inductive, PTL

\* When the gui is taken down, in a reload or at the end, what is left of it is what no
\* function frees, the colors of every chart that was made (chart.c:60-64) and the array
\* of every cpu widget (cpus.c:41), and nothing else.
THEOREM TakenDown == Spec => []LeavesOnlyUnfreed
<1>1. IInv => LeavesOnlyUnfreed
  <2> SUFFICES ASSUME IInv PROVE LeavesOnlyUnfreed
    OBVIOUS
  <2>0. /\ TypeOK /\ heap = Owned(Live, Linked) \cup LeftOver
        /\ TableInv /\ ListsInv /\ PhaseInv /\ NamedInv
    BY DEF IInv, HeapInv
  <2>1. Live = {} /\ Linked = {} => heap = LeftOver
    BY <2>0 DEF Owned
  <2>2. ASSUME pc = "closed" \/ (pc = "gui_free" /\ \A d \in Directions : lists[d] = <<>>)
        PROVE  heap = LeftOver
    <3>1. Len(WIDGETS) = 0 /\ i = 0
      BY <2>0, <2>2 DEF PhaseInv
    <3>2. Live = {}
      BY <3>1 DEF Live
    <3>3. Linked = {}
      <4>1. ASSUME \A d \in Directions : lists[d] = <<>> PROVE Linked = {}
        <5>1. \A d \in Directions : Elems(lists[d]) = {}
          BY <4>1 DEF Elems
        <5> QED
          BY <5>1 DEF Linked
      <4> QED
        BY <2>0, <2>2, <4>1 DEF PhaseInv
    <3> QED
      BY <2>1, <3>2, <3>3
  <2>3. ASSUME pc = "create", next = 1
        PROVE  heap = {}
    <3>1. i = 0 /\ Linked \subseteq Live
      BY <2>0, <2>3 DEF PhaseInv
    <3>2. \A k \in 1..Len(WIDGETS) : WIDGETS[k] \in 1..Len(tokens) /\ WIDGETS[k] < 1
      BY <2>0, <2>3 DEF TypeOK, TableInv
    <3>3. Len(tokens) \in Nat
      BY <2>0, WidgetsAssumption DEF TypeOK
    <3>4. \A k \in 1..Len(WIDGETS) : FALSE
      BY <3>2, <3>3
    <3>5. Live = {}
      BY <3>1, <3>4 DEF Live
    <3>6. 1..(next - 1) = {}
      BY <2>3
    <3>7. LeftOver = {}
      BY <3>6 DEF LeftOver
    <3> QED
      BY <2>1, <3>1, <3>5, <3>7
  <2> QED
    BY <2>2, <2>3 DEF LeavesOnlyUnfreed
<1> QED
  BY <1>1, Inductive, PTL

\* What gui_draw() finds in a list is there, with its state, its charts and their colors.
THEOREM NoDangling == Spec => []DrawsOnlyLive
<1>1. IInv => DrawsOnlyLive
  <2> SUFFICES ASSUME IInv, pc \in {"draw", "shown"},
                      NEW d \in Directions, NEW k \in 1..Len(lists[d])
               PROVE  {Struct(lists[d][k]), Entry(lists[d][k])} \cup Made(lists[d][k]) \subseteq heap
    BY DEF DrawsOnlyLive
  <2>0. heap = Owned(Live, Linked) \cup LeftOver /\ Linked \subseteq Live /\ NamedInv
    BY DEF IInv, HeapInv, PhaseInv
  <2>1. lists[d][k] \in Linked
    BY DEF Linked, Elems
  <2>2. Entry(lists[d][k]) \in heap
    BY <2>0, <2>1, OwnedUnlink
  <2>3. Of(lists[d][k]) \subseteq heap
    BY <2>0, <2>1, OwnedFree
  <2>4. Unfreed(lists[d][k]) \subseteq heap
    <3>1. lists[d][k] \in 1..(next - 1) /\ tokens[lists[d][k]] \in Names
      <4>1. lists[d] \in Seq(1..Len(tokens)) /\ Len(tokens) \in Nat /\ next \in Nat
        BY WidgetsAssumption DEF IInv, TypeOK
      <4>2. lists[d][k] \in Nat /\ lists[d][k] >= 1
        BY <4>1
      <4> QED
        BY <2>0, <2>1, <4>1, <4>2 DEF NamedInv
    <3> QED
      BY <2>0, <3>1, InLeftOver
  <2> QED
    BY <2>2, <2>3, <2>4, FreeUndoesInit DEF Of
<1> QED
  BY <1>1, Inductive, PTL

=============================================================================
