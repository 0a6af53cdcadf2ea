------------------------------- MODULE Xcore --------------------------------
(***************************************************************************)
(* gui/xcore.c: the connection to X, the font, the window and the group a  *)
(* drawing goes to: what each function takes, uses and gives back, in the  *)
(* order in which setup_gui() and cleanup_gui() of oxbar.c call them.      *)
(*                                                                         *)
(* A font whose size is not absolute is measured with a window of its own  *)
(* on a connection of its own, by the same functions.  A colormap is made  *)
(* with every window and freed by nothing but the end of its connection,   *)
(* so colormaps are counted.  What is drawn is in Layout and Chart; gui,   *)
(* widgets and their memory are in Widgets.                                *)
(***************************************************************************)
EXTENDS Resources, Naturals

VARIABLES
  at,         \* the function that is called next; "rest" between two drawings
  measuring,  \* within xfont_init()
  colormaps   \* per connection

xcore == <<at, measuring, colormaps>>

Connections == {"xdisp", "measure"}

This == IF measuring THEN "measure" ELSE "xdisp"

Display(con) == IF con = "xdisp" THEN {"xdisp", "con"} ELSE {"measure xdisp", "measure con"}
Con(con)     == IF con = "xdisp" THEN {"con"} ELSE {"measure con"}
Window(con)  ==
  IF con = "xdisp" THEN {"xwin", "window", "surface", "cairo"}
  ELSE {"measure xwin", "measure window", "measure surface", "measure cairo"}
Cairo(con)   == IF con = "xdisp" THEN {"cairo"} ELSE {"measure cairo"}
\* Goes when its connection goes.
Served(con)  == IF con = "xdisp" THEN {"window"} ELSE {"measure window"}

Font   == {"xfont", "pfont"}
Layout == {"layout"}
Group  == {"group"}

XcoreInit ==
  /\ at = "xdisp_init"
  /\ measuring = FALSE
  /\ colormaps = [con \in Connections |-> 0]

xdisp_init ==
  /\ at = "xdisp_init"
  /\ Calls({}, Display(This), {})
  /\ at' = IF measuring THEN "xwin_init" ELSE "xfont_init"
  /\ UNCHANGED <<measuring, colormaps>>

\* An absolute size, or one that is measured.
xfont_init ==
  /\ at = "xfont_init"
  /\ Calls({}, Font, {})
  /\ \/ at' = "xwin_init" /\ UNCHANGED measuring
     \/ at' = "xdisp_init" /\ measuring' = TRUE
  /\ UNCHANGED colormaps

\* create_xcb_window(), setup_wm_hints() and setup_cairo(); the atoms' answers are
\* freed one by one.
xwin_init ==
  /\ at = "xwin_init"
  /\ Calls(Con(This), Window(This) \cup {"xatom_reply"}, {"xatom_reply"})
  /\ colormaps' = [colormaps EXCEPT ![This] = @ + 1]
  /\ at' = IF measuring THEN "layout" ELSE "xwin_push"
  /\ UNCHANGED measuring

\* The text of xfont_init() is laid out and its height taken.
measure ==
  /\ at = "layout"
  /\ Calls(Cairo(This) \cup Font, Layout, Layout)
  /\ at' = "xwin_free"
  /\ UNCHANGED <<measuring, colormaps>>

\* Mutant: the surface is forgotten.
xwin_free_NoSurface ==
  /\ at = "xwin_free"
  /\ Calls(Con(This), {}, Window(This) \ {"surface"})
  /\ at' = IF measuring THEN "xdisp_free" ELSE "xfont_free"
  /\ UNCHANGED <<measuring, colormaps>>

xwin_free ==
  /\ at = "xwin_free"
  /\ Calls(Con(This), {}, Window(This))
  /\ at' = IF measuring THEN "xdisp_free" ELSE "xfont_free"
  /\ UNCHANGED <<measuring, colormaps>>

\* The end of cleanup_gui(), of a reload or for good.
xfont_free(reload) ==
  /\ at = "xfont_free"
  /\ Calls({}, {}, Font)
  /\ at' = IF reload THEN "xfont_init" ELSE "xdisp_free"
  /\ UNCHANGED <<measuring, colormaps>>

xdisp_free ==
  /\ at = "xdisp_free"
  /\ Calls({}, {}, Display(This) \cup (Served(This) \cap held))
  /\ colormaps' = [colormaps EXCEPT ![This] = 0]
  /\ at' = IF measuring THEN "xwin_init" ELSE "closed"
  /\ measuring' = FALSE

-----------------------------------------------------------------------------
(* A drawing.                                                               *)

gui_draw == at = "rest" /\ at' = "xwin_push" /\ UNCHANGED <<measuring, colormaps, resources>>

xwin_push ==
  /\ at = "xwin_push"
  /\ Calls(Cairo(This), Group, {})
  /\ at' = "xwin_pop"
  /\ UNCHANGED <<measuring, colormaps>>

xwin_pop ==
  /\ at = "xwin_pop"
  /\ Calls(Cairo(This) \cup Con(This), {}, Group)
  /\ at' = "rest"
  /\ UNCHANGED <<measuring, colormaps>>

\* err() or errx() ends the program in these.
MayFail == {"xdisp_init", "xfont_init", "xwin_init", "xwin_push"}
=============================================================================
