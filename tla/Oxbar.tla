------------------------------- MODULE Oxbar -------------------------------
(***************************************************************************)
(* oxbar.c: the main thread, the three threads it starts, the signals that *)
(* reach the process and the gui they all share.  Each thread has a pc     *)
(* whose labels are named after the call the thread makes next; one action *)
(* is one call (or one read of a flag), because every thread can run       *)
(* between any two of them.                                                *)
(*                                                                         *)
(* The gui is kept as the set of the parts that exist: the objects behind  *)
(* the static pointers xfont, xwin and gui, and the widgets registered in  *)
(* widgets.c.  Their contents belong to other modules.                     *)
(***************************************************************************)
EXTENDS Naturals, Sequences

CONSTANT Faults     \* the misfortunes an instance admits, see AllFaults

(* "startup":   main() fails before it waits for its threads (oxbar.c:207-221)*)
(* "config":    a bad setting is met while the gui is rebuilt or drawn, or in *)
(*              the configuration file that is read again: the code errx()es  *)
(* "xlost":     the connection to the X server breaks                         *)
(* "slowstart": main() needs more than the first 1/10 second of the signal    *)
(*              thread (oxbar.c:181) to create the other two threads          *)
AllFaults == {"startup", "config", "xlost", "slowstart"}

ASSUME FaultsAssumption == Faults \subseteq AllFaults

Workers  == {"sig", "stats", "gui"}
Threads  == Workers \cup {"main"}
NoThread == "none"
Parts    == {"xfont", "xwin", "gui", "widgets"}
Flags    == {"RELOAD", "PAUSE", "CONT", "QUIT"}

\* The signals, in the order thread_sig_handler() installs their handler.
\* "QUIT" stands for SIGINT, SIGQUIT and SIGTERM, which all set SIG_QUIT.
Signals  == <<"HUP", "QUIT", "TSTP", "CONT">>
FlagOf   == [HUP |-> "RELOAD", QUIT |-> "QUIT", TSTP |-> "PAUSE", CONT |-> "CONT"]

SetupLabels   == {"xfont_init", "xwin_init", "gui_init", "widgets_init"}
CleanupLabels == {"widgets_free", "gui_free", "xwin_free", "xfont_free"}
GuiLabels     == SetupLabels \cup CleanupLabels \cup {"gui_draw"}

MainLabels  == GuiLabels \cup {"init", "create_sig", "create_stats", "create_gui",
                 "join_gui", "join_stats", "join_sig", "close", "done"}
SigLabels   == GuiLabels \cup {"unborn", "start", "sigaction", "sleep", "lock",
                 "reload_config", "unlock", "clear_reload", "check_cont", "clear_pause",
                 "clear_cont", "check_quit", "cancel_gui", "cancel_stats",
                 "cancel_sig", "done"}
StatsLabels == {"unborn", "start", "sleep", "stats_update", "lock", "gui_draw",
                 "unlock", "done"}
GuiThreadLabels == {"unborn", "start", "wait", "lock", "gui_draw", "unlock", "done"}

\* The calls a thread can be cancelled in: they sleep, poll, read or write.
CancelPoints == GuiLabels \cup {"sleep", "wait", "stats_update", "reload_config"}

\* Where a worker owns mutex_gui.
Locked == GuiLabels \cup {"reload_config", "unlock"}

VARIABLES
  faults,     \* those of the Faults that may happen: all, or none
  pc,         \* the next call of each thread
  mutex,      \* mutex_gui: the thread that owns it
  parts,      \* the parts of the gui that exist
  cancelOff,  \* per thread: cancellation is disabled
  cancelled,  \* per thread: pthread_cancel() was called on it
  SIG,        \* SIG_RELOAD, SIG_PAUSE, SIG_CONT, SIG_QUIT
  installed,  \* how many of the Signals have their handler installed
  proc,       \* the process: running, stopped, or how it ended
  xcon,       \* the connection to the X server
  hupUnread,  \* history: no settings were read since the last SIGHUP
  lastStop    \* history: the last handled signal of SIGTSTP and SIGCONT

threadVars == <<cancelOff, cancelled>>
world      == <<faults, installed, xcon>>
history    == <<hupUnread, lastStop>>
vars       == <<pc, mutex, parts, threadVars, SIG, proc, world, history>>

Init ==
  /\ faults \in {{}, Faults}
  /\ pc = [t \in Threads |-> IF t = "main" THEN "init" ELSE "unborn"]
  /\ mutex = NoThread
  /\ parts = {}
  /\ cancelOff = [t \in Threads |-> FALSE]
  /\ cancelled = [t \in Threads |-> FALSE]
  /\ SIG = [f \in Flags |-> FALSE]
  /\ installed = 0
  /\ proc = "running"
  /\ xcon = "up"
  /\ hupUnread = FALSE
  /\ lastStop = "CONT"

Over == proc \in {"exited", "failed", "killed", "crashed"}

Goto(t, from, to) ==
  /\ proc = "running"
  /\ pc[t] = from
  /\ pc' = [pc EXCEPT ![t] = to]

\* A call that changes nothing another thread can see.
Skip(t, from, to) ==
  /\ Goto(t, from, to)
  /\ UNCHANGED <<mutex, parts, threadVars, SIG, proc, world, history>>

-----------------------------------------------------------------------------
(* The calls on the gui that several threads make.                          *)

Make(t, step, part, to) ==
  /\ Goto(t, step, to)
  /\ parts' = parts \cup {part}
  /\ UNCHANGED <<mutex, threadVars, SIG, proc, world, history>>

Free(t, step, part, to) ==
  /\ Goto(t, step, to)
  /\ parts' = parts \ {part}
  /\ UNCHANGED <<mutex, threadVars, SIG, proc, world, history>>

gui_draw(t) == Skip(t, "gui_draw", IF t = "main" THEN "create_sig" ELSE "unlock")

\* Without a connection the replies xwin_init() asks for never come: errx().
setup_gui(t) ==
  \/ Make(t, "xfont_init", "xfont", "xwin_init")
  \/ xcon = "up" /\ Make(t, "xwin_init", "xwin", "gui_init")
  \/ Make(t, "gui_init", "gui", "widgets_init")
  \/ Make(t, "widgets_init", "widgets", "gui_draw")
  \/ gui_draw(t)

\* Mutant: a reload that forgets setup_gui().
cleanup_gui_NoSetup(t) ==
  \/ Free(t, "widgets_free", "widgets", "gui_free")
  \/ Free(t, "gui_free", "gui", "xwin_free")
  \/ Free(t, "xwin_free", "xwin", "xfont_free")
  \/ Free(t, "xfont_free", "xfont", IF t = "main" THEN "close" ELSE "unlock")

cleanup_gui(t) ==
  \/ Free(t, "widgets_free", "widgets", "gui_free")
  \/ Free(t, "gui_free", "gui", "xwin_free")
  \/ Free(t, "xwin_free", "xwin", "xfont_free")
  \/ Free(t, "xfont_free", "xfont", IF t = "main" THEN "close" ELSE "xfont_init")

\* Mutant: the mutex is taken without waiting for its owner.
pthread_mutex_lock_NoWait(t, to) ==
  /\ Goto(t, "lock", to)
  /\ mutex' = t
  /\ UNCHANGED <<parts, threadVars, SIG, proc, world, history>>

pthread_mutex_lock(t, to) ==
  /\ mutex = NoThread
  /\ Goto(t, "lock", to)
  /\ mutex' = t
  /\ UNCHANGED <<parts, threadVars, SIG, proc, world, history>>

\* Mutants: cancellation stays disabled; the mutex stays locked.
pthread_mutex_unlock_NoEnable(t, to) ==
  /\ Goto(t, "unlock", to)
  /\ mutex' = NoThread
  /\ UNCHANGED <<parts, threadVars, SIG, proc, world, history>>

pthread_mutex_unlock_NoUnlock(t, to) ==
  /\ Goto(t, "unlock", to)
  /\ cancelOff' = [cancelOff EXCEPT ![t] = FALSE]
  /\ UNCHANGED <<mutex, parts, cancelled, SIG, proc, world, history>>

\* The unlock, with the setcancelstate(ENABLE) of a drawing thread after it.
pthread_mutex_unlock(t, to) ==
  /\ Goto(t, "unlock", to)
  /\ mutex' = NoThread
  /\ cancelOff' = [cancelOff EXCEPT ![t] = FALSE]
  /\ UNCHANGED <<parts, cancelled, SIG, proc, world, history>>

\* An errx() on the way: a bad setting, a call that fails, no connection to X.
MayFail(t) ==
  \/ pc[t] \in {"init", "create_sig", "create_stats", "create_gui"} /\ "startup" \in faults
  \/ pc[t] \in SetupLabels \cup {"gui_draw", "reload_config"} /\ "config" \in faults
  \/ pc[t] \in {"xfont_init", "xwin_init", "gui_draw"} /\ xcon = "down"

errx(t) ==
  /\ proc = "running"
  /\ MayFail(t)
  /\ proc' = "failed"
  /\ UNCHANGED <<pc, mutex, parts, threadVars, SIG, world, history>>

CancelPending(t) == cancelled[t] /\ ~cancelOff[t]

\* A cancelled thread ends inside the first cancellation point it comes to.
ActOnCancel(t) ==
  /\ CancelPending(t)
  /\ pc[t] \in CancelPoints
  /\ Skip(t, pc[t], "done")

-----------------------------------------------------------------------------
(* thread_stats_updater()                                                   *)

\* Mutant: cancellation is not disabled.
StatsWake_NoDisable ==
  /\ ~CancelPending("stats")
  /\ ~SIG["PAUSE"]
  /\ Skip("stats", "sleep", "stats_update")

\* The second is over and SIG_PAUSE is read; setcancelstate(DISABLE).
StatsWake ==
  /\ ~CancelPending("stats")
  /\ ~SIG["PAUSE"]
  /\ Goto("stats", "sleep", "stats_update")
  /\ cancelOff' = [cancelOff EXCEPT !["stats"] = TRUE]
  /\ UNCHANGED <<mutex, parts, cancelled, SIG, proc, world, history>>

thread_stats_updater ==
  \/ Skip("stats", "start", "sleep")
  \/ StatsWake
  \/ Skip("stats", "stats_update", "lock")
  \/ pthread_mutex_lock("stats", "gui_draw")
  \/ gui_draw("stats")
  \/ pthread_mutex_unlock("stats", "sleep")

-----------------------------------------------------------------------------
(* thread_gui()                                                             *)

\* Mutant: cancellation is not disabled.
Expose_NoDisable ==
  /\ xcon = "up"
  /\ Skip("gui", "wait", "lock")

\* An expose event is returned; setcancelstate(DISABLE).  Nothing is polled,
\* so nothing is cancelled, when the event was already queued.
Expose ==
  /\ xcon = "up"
  /\ Goto("gui", "wait", "lock")
  /\ cancelOff' = [cancelOff EXCEPT !["gui"] = TRUE]
  /\ UNCHANGED <<mutex, parts, cancelled, SIG, proc, world, history>>

thread_gui ==
  \/ Skip("gui", "start", "wait")
  \/ pthread_mutex_lock("gui", "gui_draw")
  \/ gui_draw("gui")
  \/ pthread_mutex_unlock("gui", "wait")
  \/ xcon = "down" /\ Skip("gui", "wait", "done")

-----------------------------------------------------------------------------
(* thread_sig_handler()                                                     *)

\* Mutant: one handler too many.
sigaction_OffByOne ==
  /\ Goto("sig", "sigaction", IF installed = Len(Signals) THEN "sleep" ELSE "sigaction")
  /\ installed' = installed + 1
  /\ UNCHANGED <<mutex, parts, threadVars, SIG, proc, faults, xcon, history>>

sigaction ==
  /\ Goto("sig", "sigaction", IF installed + 1 = Len(Signals) THEN "sleep" ELSE "sigaction")
  /\ installed' = installed + 1
  /\ UNCHANGED <<mutex, parts, threadVars, SIG, proc, faults, xcon, history>>

\* Mutant: a paused bar does not reload.
SigWake_NotPaused ==
  /\ ~CancelPending("sig")
  /\ "slowstart" \in faults \/ pc["gui"] # "unborn"
  /\ Skip("sig", "sleep", IF SIG["RELOAD"] /\ ~SIG["PAUSE"] THEN "lock" ELSE "check_cont")

\* The tenth of a second is over and SIG_RELOAD is read.
SigWake ==
  /\ ~CancelPending("sig")
  /\ "slowstart" \in faults \/ pc["gui"] # "unborn"
  /\ Skip("sig", "sleep", IF SIG["RELOAD"] THEN "lock" ELSE "check_cont")

settings_reload_config ==
  /\ Goto("sig", "reload_config", "widgets_free")
  /\ hupUnread' = FALSE
  /\ UNCHANGED <<mutex, parts, threadVars, SIG, proc, world, lastStop>>

ClearFlag(flag, from, to) ==
  /\ Goto("sig", from, to)
  /\ SIG' = [SIG EXCEPT ![flag] = FALSE]
  /\ UNCHANGED <<mutex, parts, threadVars, proc, world, history>>

\* main() at label l has not created thread t yet, or has joined it.
NotCreated(t, l) ==
  \/ l \in SetupLabels \cup {"init", "gui_draw", "create_sig"}
  \/ l = "create_stats" /\ t # "sig"
  \/ l = "create_gui" /\ t = "gui"

Joined(t, l) ==
  \/ l \in CleanupLabels \cup {"close", "done"}
  \/ l = "join_sig" /\ t # "sig"
  \/ l = "join_stats" /\ t = "gui"

\* pthread_cancel() on a thread that was not created reads a null pthread_t; on
\* one that was joined it is undefined and may return 0 or an error.
pthread_cancel(t, from, to) ==
  \/ /\ pc[t] # "unborn" /\ ~Joined(t, pc["main"])
     /\ Goto("sig", from, to)
     /\ cancelled' = [cancelled EXCEPT ![t] = TRUE]
     /\ UNCHANGED <<mutex, parts, cancelOff, SIG, proc, world, history>>
  \/ Joined(t, pc["main"]) /\ Skip("sig", from, to)
  \/ /\ pc[t] = "unborn" \/ Joined(t, pc["main"])
     /\ proc = "running" /\ pc["sig"] = from
     /\ proc' = IF pc[t] = "unborn" THEN "crashed" ELSE "failed"
     /\ UNCHANGED <<pc, mutex, parts, threadVars, SIG, world, history>>

thread_sig_handler ==
  \/ Skip("sig", "start", "sigaction")
  \/ sigaction
  \/ SigWake
  \/ pthread_mutex_lock("sig", "reload_config")
  \/ settings_reload_config
  \/ cleanup_gui("sig")
  \/ setup_gui("sig")
  \/ pthread_mutex_unlock("sig", "clear_reload")
  \/ ClearFlag("RELOAD", "clear_reload", "check_cont")
  \/ Skip("sig", "check_cont", IF SIG["CONT"] THEN "clear_pause" ELSE "check_quit")
  \/ ClearFlag("PAUSE", "clear_pause", "clear_cont")
  \/ ClearFlag("CONT", "clear_cont", "check_quit")
  \/ Skip("sig", "check_quit", IF SIG["QUIT"] THEN "cancel_gui" ELSE "sleep")
  \/ pthread_cancel("gui", "cancel_gui", "cancel_stats")
  \/ pthread_cancel("stats", "cancel_stats", "cancel_sig")
  \/ pthread_cancel("sig", "cancel_sig", "sleep")

-----------------------------------------------------------------------------
(* main()                                                                   *)

pthread_create(t, from, to) ==
  /\ proc = "running"
  /\ pc["main"] = from
  /\ pc' = [pc EXCEPT !["main"] = to, ![t] = "start"]
  /\ UNCHANGED <<mutex, parts, threadVars, SIG, proc, world, history>>

\* Mutant: main() does not wait for the thread.
pthread_join_NoWait(t, from, to) == Skip("main", from, to)

pthread_join(t, from, to) == pc[t] = "done" /\ Skip("main", from, to)

\* xdisp_free(), stats_close() and the return, which ends the process.
exit ==
  /\ Goto("main", "close", "done")
  /\ proc' = "exited"
  /\ UNCHANGED <<mutex, parts, threadVars, SIG, world, history>>

main ==
  \/ Skip("main", "init", "xfont_init")
  \/ setup_gui("main")
  \/ pthread_create("sig", "create_sig", "create_stats")
  \/ pthread_create("stats", "create_stats", "create_gui")
  \/ pthread_create("gui", "create_gui", "join_gui")
  \/ pthread_join("gui", "join_gui", "join_stats")
  \/ pthread_join("stats", "join_stats", "join_sig")
  \/ pthread_join("sig", "join_sig", "widgets_free")
  \/ cleanup_gui("main")
  \/ exit

-----------------------------------------------------------------------------
(* The world: signals and the X server.                                     *)

\* signal_handler(), run by main's thread, the only one that blocks nothing.
signal_handler(s) ==
  /\ proc = "running"
  /\ SIG' = [SIG EXCEPT ![FlagOf[s]] = TRUE]
  /\ hupUnread' = (hupUnread \/ s = "HUP")
  /\ lastStop' = IF s \in {"TSTP", "CONT"} THEN s ELSE lastStop
  /\ UNCHANGED <<pc, mutex, parts, threadVars, proc, world>>

\* Before its handler is installed a signal has its default effect.
DefaultAction(s) ==
  /\ \/ proc = "running" /\ s \in {"HUP", "QUIT"} /\ proc' = "killed"
     \/ proc = "running" /\ s = "TSTP" /\ proc' = "stopped"
     \/ proc = "stopped" /\ s = "CONT" /\ proc' = "running"
  /\ UNCHANGED <<pc, mutex, parts, threadVars, SIG, world, history>>

Signal ==
  \E i \in 1..Len(Signals) :
    IF i <= installed THEN signal_handler(Signals[i]) ELSE DefaultAction(Signals[i])

LoseX ==
  /\ "xlost" \in faults
  /\ proc = "running"
  /\ xcon = "up"
  /\ xcon' = "down"
  /\ UNCHANGED <<pc, mutex, parts, threadVars, SIG, proc, faults, installed, history>>

\* A process that has ended stays as it is.
Ended == Over /\ UNCHANGED vars

Program(t) ==
  \/ t = "main" /\ main
  \/ t = "sig" /\ thread_sig_handler
  \/ t = "stats" /\ thread_stats_updater
  \/ t = "gui" /\ thread_gui

Next ==
  \/ \E t \in Threads : Program(t) \/ errx(t) \/ ActOnCancel(t)
  \/ Expose
  \/ Signal
  \/ LoseX
  \/ Ended

Spec == Init /\ [][Next]_vars

\* Each thread runs.  mutex_gui is free for most of every second, so a thread
\* that waits for it gets it.  xcb_wait_for_event() polls, which is where
\* thread_gui is cancelled, whenever its queue is empty, and that recurs.  Signals,
\* expose events and faults need not happen: errx() is owed only by a
\* thread that cannot do anything else.
Fairness ==
  /\ \A t \in Threads : WF_vars(Program(t) \/ errx(t) \/ ActOnCancel(t))
  /\ \A t \in Workers : SF_vars(pc[t] = "lock" /\ Program(t)) /\ SF_vars(ActOnCancel(t))

FairSpec == Spec /\ Fairness
-----------------------------------------------------------------------------
(* Properties.                                                              *)

TypeOK ==
  /\ faults \subseteq Faults
  /\ pc \in [Threads -> MainLabels \cup SigLabels \cup StatsLabels \cup GuiThreadLabels]
  /\ pc["main"] \in MainLabels
  /\ pc["sig"] \in SigLabels
  /\ pc["stats"] \in StatsLabels
  /\ pc["gui"] \in GuiThreadLabels
  /\ mutex \in Workers \cup {NoThread}
  /\ parts \subseteq Parts
  /\ cancelOff \in [Threads -> BOOLEAN]
  /\ cancelled \in [Threads -> BOOLEAN]
  /\ SIG \in [Flags -> BOOLEAN]
  /\ installed \in 0..Len(Signals)
  /\ proc \in {"running", "stopped", "exited", "failed", "killed", "crashed"}
  /\ xcon \in {"up", "down"}
  /\ hupUnread \in BOOLEAN
  /\ lastStop \in {"TSTP", "CONT"}

\* The calls that dereference or free a part, and the call that makes it.
UsedBy == [xfont   |-> {"gui_init", "gui_draw", "xfont_free"},
           xwin    |-> {"gui_init", "gui_draw", "xwin_free"},
           gui     |-> {"widgets_init", "gui_draw", "gui_free"},
           widgets |-> {"gui_draw", "widgets_free"}]
MadeBy == [xfont |-> "xfont_init", xwin |-> "xwin_init", gui |-> "gui_init",
           widgets |-> "widgets_init"]

\* Whatever order the timer, the expose events, a reload and the shutdown come
\* in, no thread draws with, or frees, a part of the gui that is not there, and
\* none makes a part over one that still exists (cleanup_gui, setup_gui,
\* gui_draw: no use after free, no double free, no leaked window).
UsesOnlyLive ==
  \A t \in Threads, p \in Parts :
    /\ pc[t] \in UsedBy[p] => p \in parts
    /\ pc[t] = MadeBy[p] => p \notin parts

\* "guard all calls to gui" (oxbar.c:43): no two threads are inside the gui at
\* once, though main() builds it and tears it down without the mutex.
OneThreadInGui ==
  \A t, u \in Threads : pc[t] \in GuiLabels /\ pc[u] \in GuiLabels => t = u

\* No thread ends, or goes to sleep, with mutex_gui in its hands: the owner is
\* always on its way to the unlock, a cancelled owner too (oxbar.c:99, 104, 119,
\* 123: cancellation is disabled around the critical section).
MutexComesBack == mutex # NoThread => pc[mutex] \in Locked

\* main() returns only when every thread has ended, the mutex is free and
\* the whole gui is freed (oxbar.c:223-232).
CleanExit ==
  proc = "exited" =>
    /\ parts = {}
    /\ mutex = NoThread
    /\ \A t \in Workers : pc[t] = "done"

\* A thread is cancelled only between two drawings: one that has begun to
\* draw draws to the end and gives the mutex back, whatever is asked of it.
DrawsToTheEnd ==
  [][\A t \in Workers : pc[t] \in Locked /\ pc'[t] # pc[t] =>
        pc'[t] \in Locked \/ (pc[t] = "unlock" /\ mutex' = NoThread)]_vars

\* Without faults SIGINT, SIGQUIT or SIGTERM ends the program in the orderly way: the
\* threads stop at a place where they hold nothing, and main() cleans up (it may be
\* stopped by a SIGTSTP that came before the handler for it).
QuitCleansUp == faults = {} /\ SIG["QUIT"] ~> (proc = "exited" \/ proc = "stopped")

\* Whatever else goes wrong, a request to quit ends the process.
QuitEnds == SIG["QUIT"] ~> (Over \/ proc = "stopped")

\* A SIGHUP that finds no reload under way has the settings read again and
\* the gui rebuilt from them, unless the program ends first.
ReloadHonoured ==
  SIG["RELOAD"] /\ pc["sig"] \in {"sleep", "lock"} ~>
    (pc["sig"] = "unlock" \/ Over \/ proc = "stopped")

\* The bar is redrawn with new stats for ever, however often it is exposed or
\* reloaded, unless it is paused, asked to quit or gone.
StatsKeepDrawing ==
  []<>(pc["stats"] = "unlock" \/ SIG["PAUSE"] \/ SIG["QUIT"] \/ proc # "running")

-----------------------------------------------------------------------------
(* The threads implement GuiLifecycle.                                      *)

Stage ==
  IF proc = "exited" THEN "closed"
  ELSE IF Over THEN "aborted"
  ELSE IF NotCreated("sig", pc["main"]) THEN "setup"
  ELSE IF Joined("sig", pc["main"]) THEN "teardown"
  ELSE "shared"

Holder ==
  IF proc # "exited" /\ (NotCreated("sig", pc["main"]) \/ Joined("sig", pc["main"]))
  THEN "main" ELSE mutex

Lifecycle == INSTANCE GuiLifecycle
  WITH Users <- Workers, Builder <- "main", Nobody <- NoThread,
       holder <- Holder, whole <- (parts = Parts), stage <- Stage

\* Between the end of setup_gui() in main() and cleanup_gui() there, the gui is
\* whole whenever nobody has it, and only who has it takes it down; every step
\* of the threads, of a reload and of the shutdown is one of the life cycle's.
ImplementsLifecycle == Lifecycle!GuiSpec

-----------------------------------------------------------------------------
(* Claims of the documentation that the code does not keep.                 *)

\* man/oxbar.1:65-69: the configuration can be reread by sending a SIGHUP.
EveryHupRead == hupUnread ~> (~hupUnread \/ Over \/ SIG["QUIT"] \/ proc = "stopped")

\* oxbar.c:47 "continue/wakeup flag": after a SIGCONT with no further SIGTSTP
\* the bar runs again.
WakesUp ==
  lastStop = "CONT" ~> (~SIG["PAUSE"] \/ lastStop = "TSTP" \/ Over \/ proc = "stopped")
=============================================================================
