------------------------------ MODULE Process -------------------------------
(***************************************************************************)
(* What the process holds from its first call to its last: main() of       *)
(* oxbar.c, the collectors that stats.c calls one after the other, and the *)
(* connection, window and font of gui/xcore.c.                             *)
(*                                                                         *)
(* Once the threads run, the updates of the collectors go on without the   *)
(* mutex of the gui, so the calls of an update come between any two calls  *)
(* of a drawing or of a reload.  Which thread draws or reloads, the mutex  *)
(* and the signals are in Oxbar; here a drawing and a reload just happen   *)
(* one at a time, at any time.  The strings of the settings and the memory *)
(* of the widgets are in Settings and Widgets.  The conversions of         *)
(* Conversions keep no state, so that they are looked at once, when main() *)
(* starts.                                                                 *)
(***************************************************************************)
EXTENDS Collectors, Xcore, Conversions

CONSTANT MaxColormaps   \* a bound on the colormaps of a connection, hence on reloads

ASSUME ProcessAssumption == MaxColormaps \in Nat

VARIABLES
  phase,   \* how far main() is; "exited" from the middle
  turn,    \* the collector that is called next; 0 when none is
  base     \* what was held when the threads were started

vars == <<resources, collectors, xcore, phase, turn, base>>

Init ==
  /\ held = {} /\ misused = {} /\ lost = {}
  /\ CollectorsInit
  /\ XcoreInit
  /\ phase = "stats_init" /\ turn = 1
  /\ base = {}

NextTurn(then) == IF turn < Len(Order) THEN turn + 1 ELSE then

stats_init ==
  /\ phase = "stats_init"
  /\ init(Order[turn])
  /\ turn' = NextTurn(1)
  /\ phase' = IF turn < Len(Order) THEN phase ELSE "first_update"
  /\ UNCHANGED <<xcore, base>>

\* The update that ends stats_init().
first_update ==
  /\ phase = "first_update"
  /\ update(Order[turn])
  /\ turn' = NextTurn(0)
  /\ phase' = IF turn < Len(Order) THEN phase ELSE "setup"
  /\ UNCHANGED <<xcore, base>>

\* xdisp_init() and setup_gui(), a reload, a drawing, or cleanup_gui() and xdisp_free().
Gui ==
  /\ phase \in {"setup", "running", "cleanup"}
  /\ \/ xdisp_init
     \/ xfont_init
     \/ colormaps[This] < MaxColormaps /\ xwin_init
     \/ measure
     \/ xwin_free
     \/ xfont_free(phase = "running")
     \/ xdisp_free
     \/ xwin_push
     \/ xwin_pop
  /\ UNCHANGED <<collectors, phase, turn, base>>

\* The three threads are started.
pthread_create ==
  /\ phase = "setup" /\ at = "rest"
  /\ phase' = "running" /\ base' = held
  /\ UNCHANGED <<resources, collectors, xcore, turn>>

\* thread_gui() waits for the next event.  It is an object of its own each time, whatever
\* its type, and nobody frees it.  After an expose event comes a drawing.
xcb_wait_for_event ==
  /\ phase = "running"
  /\ Calls(Display("xdisp"), {"xevent"}, {})
  /\ UNCHANGED <<collectors, xcore, phase, turn, base>>

\* A drawing of the timer or of an expose event, with the mutex.
draw == phase = "running" /\ gui_draw /\ UNCHANGED <<collectors, phase, turn, base>>

\* A reload: cleanup_gui(), and setup_gui() with its drawing.
reload ==
  /\ phase = "running" /\ at = "rest"
  /\ colormaps["xdisp"] < MaxColormaps
  /\ at' = "xwin_free"
  /\ UNCHANGED <<resources, collectors, measuring, colormaps, phase, turn, base>>

\* The timer of thread_stats_updater().
timer ==
  /\ phase = "running" /\ turn = 0
  /\ turn' = 1
  /\ UNCHANGED <<resources, collectors, xcore, phase, base>>

stats_update ==
  /\ phase = "running" /\ turn # 0
  /\ update(Order[turn])
  /\ turn' = NextTurn(0)
  /\ UNCHANGED <<xcore, phase, base>>

\* The threads are joined: none is cancelled within an update or a drawing.
pthread_join ==
  /\ phase = "running" /\ turn = 0 /\ at = "rest"
  /\ phase' = "cleanup" /\ at' = "xwin_free"
  /\ UNCHANGED <<resources, collectors, measuring, colormaps, turn, base>>

stats_close ==
  /\ \/ phase = "cleanup" /\ at = "closed" /\ turn = 0 /\ turn' = 1 /\ phase' = "stats_close"
        /\ UNCHANGED <<resources, collectors>>
     \/ /\ phase = "stats_close"
        /\ close(Order[turn])
        /\ turn' = NextTurn(0)
        /\ phase' = IF turn < Len(Order) THEN phase ELSE "done"
  /\ UNCHANGED <<xcore, base>>

\* A call fails in a way that ends the program, which takes everything with it.
exit ==
  /\ \/ phase = "stats_init" /\ Order[turn] \in Fatal.init
     \/ phase \in {"first_update", "running"} /\ turn # 0 /\ Order[turn] \in Fatal.update
     \/ phase \in {"setup", "running"} /\ at \in MayFail
  /\ phase' = "exited"
  /\ UNCHANGED <<resources, collectors, xcore, turn, base>>

Next ==
  \/ stats_init \/ first_update \/ Gui \/ pthread_create
  \/ xcb_wait_for_event \/ draw \/ reload \/ timer \/ stats_update \/ pthread_join
  \/ stats_close \/ exit

Spec == Init /\ [][Next]_vars

-----------------------------------------------------------------------------
(* Properties.                                                              *)

PTypeOK ==
  /\ is_setup \in [CollectorNames -> BOOLEAN]
  /\ at \in MayFail \cup {"layout", "xwin_free", "xfont_free", "xdisp_free", "xwin_pop", "rest", "closed"}
  /\ measuring \in BOOLEAN
  /\ colormaps \in [Connections -> Nat]
  /\ phase \in {"stats_init", "first_update", "setup", "running", "cleanup", "stats_close", "done",
                "exited"}
  /\ turn \in 0..Len(Order)

\* What nothing in the program frees: the events of thread_gui() (oxbar.c:116) and the errors
\* of the answers about the backlight (brightness.c:85, 125).
Unfreed == {"xevent", "error"}

\* Whatever the init functions found, and wherever the calls of an update fall among
\* those of a drawing or a reload, nothing is used or given back that is not held (no
\* closed descriptor, freed answer or connection that is gone), and nothing is lost
\* but events and errors.
UsesOnlyHeld == misused = {} /\ lost \subseteq Unfreed

\* However many reloads, drawings and updates have been, the process holds between two
\* drawings what it held when its threads were started.  It does grow by what is left
\* out of that: each event, each error, and a colormap for each reload.
RunsSteady == phase = "running" /\ at = "rest" => held \ Unfreed = base \ Unfreed

\* What an init function keeps although it finds nothing to show, which its close
\* function then does not know of (battery.c:45, brightness.c:64 and 92, wifi.c:58).
Forgotten ==
  [battery |-> {"apm_dev_fd"}, brightness |-> {"x", "rec_reply", "prop_reply"}, wifi |-> {"wifi_socket"}]

\* "After exit, it cleans everything up" (CONTRIBUTING.md:31) holds when main() returns of
\* the connection, window and font, with all that is on the server, and of what the
\* collectors that are set up took.  It does not hold of what those forgot that are not
\* set up, nor of events and errors.
GivesBack ==
  phase = "done" =>
    /\ held \ Unfreed \subseteq UNION {Forgotten[c] : c \in {d \in DOMAIN Forgotten : ~is_setup[d]}}
    /\ \A con \in Connections : colormaps[con] = 0

\* The volume that is read is that of the outputs: its two indexes name a master and a
\* mute of the class "outputs".  They are found when the class is before them among the
\* devices, and only then: nobody goes back for them (volume.c:52-65).
VolumeFindsOutputs ==
  LET After(name, k) ==
        {n \in (k + 1)..Len(mixer) : mixer[n].name = name /\ mixer[n].class = mixer[k].class}
      Controls(k) == mixer[k].name = "outputs" /\ After("master", k) # {} /\ After("mute", k) # {}
      Found       == -1 \notin {outputs.class, outputs.master, outputs.mute}
  IN  /\ Found <=> \E k \in 1..Len(mixer) : Controls(k)
      /\ \A k \in 1..Len(mixer) : Controls(k) =>
           outputs.master + 1 \in After("master", k) /\ outputs.mute + 1 \in After("mute", k)
      /\ is_setup["volume"] => Found

Starts == phase = "stats_init" /\ turn = 1

\* xcore.h:83-92 of every colour of hexits: the '#' is optional, the scale of 16 is that of
\* 256 with each hexit twice, a colour without alpha is opaque, and each component is
\* the number its two hexits make; what has another length is refused.  So is what has
\* a letter that is no hexit, on the short scale anywhere ("foo"), on the long scale
\* anywhere but at the end.
ColourIsExact == Starts => \A s \in Colours : Exact(s)

\* A size has the largest suffix it has one of, or the one before, which there is, and
\* is that many of it, rounded down; it has at most four digits before the point.
SizeIsRight == Starts => \A kbytes \in Sizes : Right(kbytes)
=============================================================================
