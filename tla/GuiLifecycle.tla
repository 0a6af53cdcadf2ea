---------------------------- MODULE GuiLifecycle ----------------------------
(***************************************************************************)
(* What oxbar.c promises about its gui, without threads, locks or signals: *)
(* the gui is built by one thread, then shared: whoever uses it has it to  *)
(* himself, may take it down and build it anew, and gives it back whole;   *)
(* in the end the builder has it again and takes it down.                  *)
(***************************************************************************)
CONSTANTS Users,    \* the threads that share the gui
          Builder,  \* the thread that builds it first and frees it last
          Nobody

VARIABLES holder,   \* who has the gui
          whole,    \* the window, the font and all widgets exist
          stage     \* "setup", "shared", "teardown", then "closed" or "aborted"

lifecycle == <<holder, whole, stage>>

GuiInit == holder = Builder /\ whole = FALSE /\ stage = "setup"

Build   == stage = "setup" /\ ~whole /\ whole' = TRUE /\ UNCHANGED <<holder, stage>>

Share   == stage = "setup" /\ whole /\ stage' = "shared" /\ holder' = Nobody /\ UNCHANGED whole

Take(u) == stage = "shared" /\ holder = Nobody /\ holder' = u /\ UNCHANGED <<whole, stage>>

\* A reload, half by half.
TakeDown(u) == stage = "shared" /\ holder = u /\ whole /\ whole' = FALSE /\ UNCHANGED <<holder, stage>>
Rebuild(u)  == stage = "shared" /\ holder = u /\ ~whole /\ whole' = TRUE /\ UNCHANGED <<holder, stage>>

Give(u) == stage = "shared" /\ holder = u /\ whole /\ holder' = Nobody /\ UNCHANGED <<whole, stage>>

Retire  == stage = "shared" /\ holder = Nobody /\ whole
           /\ stage' = "teardown" /\ holder' = Builder /\ UNCHANGED whole

Dismantle == stage = "teardown" /\ whole /\ whole' = FALSE /\ UNCHANGED <<holder, stage>>

Close   == stage = "teardown" /\ ~whole /\ stage' = "closed" /\ holder' = Nobody /\ UNCHANGED whole

\* The process may end at any moment (errx(), or a signal it does not handle).
Abort   == stage \notin {"closed", "aborted"} /\ stage' = "aborted" /\ UNCHANGED <<holder, whole>>

GuiNext ==
  \/ Build \/ Share \/ Retire \/ Dismantle \/ Close \/ Abort
  \/ \E u \in Users : Take(u) \/ TakeDown(u) \/ Rebuild(u) \/ Give(u)

GuiSpec == GuiInit /\ [][GuiNext]_lifecycle
=============================================================================
