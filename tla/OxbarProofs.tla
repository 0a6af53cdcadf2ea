---------------------------- MODULE OxbarProofs ----------------------------
(***************************************************************************)
(* Proofs about Oxbar, for every set of Faults: the inductive invariant    *)
(* IInv, the safety properties that follow from it, and that the threads   *)
(* implement GuiLifecycle.                                                 *)
(***************************************************************************)
EXTENDS Oxbar, TLAPS

\* The thread that builds or frees the gui has not made part p yet when it is
\* at label l, or has freed it.
Lacks(p, l) ==
  \/ l \in {"init", "xfont_init", "close"}
  \/ l \in {"xwin_init", "xfont_free"} /\ p # "xfont"
  \/ l \in {"gui_init", "xwin_free"} /\ p \in {"gui", "widgets"}
  \/ l \in {"widgets_init", "gui_free"} /\ p = "widgets"

\* A worker owns the mutex exactly where it holds it.
MutexInv == \A t \in Workers : mutex = t <=> pc[t] \in Locked

\* Cancellation is off exactly around a drawing; the signal thread cancels
\* itself last, and goes to sleep.
CancelInv ==
  /\ \A t \in {"stats", "gui"} :
       cancelOff[t] <=> pc[t] \in {"stats_update", "lock", "gui_draw", "unlock"}
  /\ cancelled["sig"] => pc["sig"] \in {"sleep", "done"}
  /\ ~cancelOff["sig"] /\ ~cancelled["main"]

\* main() is alone until it creates a thread, and after it joined them all.
MainInv ==
  \A t \in Workers :
    /\ pc[t] = "unborn" <=> NotCreated(t, pc["main"])
    /\ Joined(t, pc["main"]) => pc[t] = "done"

\* The parts that exist are told by where main() and the signal thread are.
PartsInv ==
  \A p \in Parts :
    p \in parts <=> ~Lacks(p, pc["main"]) /\ ~Lacks(p, pc["sig"]) /\ pc["main"] # "done"

\* The process has exited exactly when main() has returned.
ExitInv == proc = "exited" <=> pc["main"] = "done"

\* The signal thread leaves its installing of handlers when all are installed.
InstallInv == pc["sig"] \in {"unborn", "start", "sigaction"} => installed < Len(Signals)

\* The inductive invariant.
IInv == TypeOK /\ MutexInv /\ CancelInv /\ MainInv /\ PartsInv /\ ExitInv /\ InstallInv

-----------------------------------------------------------------------------

\* thread_sig_handler() installs four kinds of handler.
LEMMA NSignals == Len(Signals) = 4
  BY DEF Signals

\* IInv holds when main() starts: no thread, no gui, nobody in the mutex.
LEMMA InitIInv == Init => IInv
  <1> SUFFICES ASSUME Init PROVE IInv
    OBVIOUS
  <1> USE NSignals DEF Init
  <1>1. TypeOK
    <2>1. /\ pc \in [Threads -> MainLabels \cup SigLabels \cup StatsLabels \cup GuiThreadLabels]
          /\ pc["main"] \in MainLabels /\ pc["sig"] \in SigLabels
          /\ pc["stats"] \in StatsLabels /\ pc["gui"] \in GuiThreadLabels
      BY DEF Workers, Threads, MainLabels, SigLabels, StatsLabels, GuiThreadLabels
    <2>2. cancelOff \in [Threads -> BOOLEAN] /\ cancelled \in [Threads -> BOOLEAN]
      OBVIOUS
    <2>3. SIG \in [Flags -> BOOLEAN]
      OBVIOUS
    <2>4. mutex \in Workers \cup {NoThread} /\ parts \subseteq Parts /\ installed \in 0..Len(Signals)
      BY DEF Parts
    <2>5. QED
      BY <2>1, <2>2, <2>3, <2>4 DEF TypeOK
  <1>2. MutexInv
    BY DEF MutexInv, Workers, Threads, NoThread, Locked, GuiLabels, SetupLabels, CleanupLabels
  <1>3. CancelInv
    BY DEF CancelInv, Workers, Threads
  <1>4. MainInv
    BY DEF MainInv, NotCreated, Joined, Workers, Threads, CleanupLabels
  <1>5. PartsInv
    BY DEF PartsInv, Lacks, Workers, Threads
  <1>6. ExitInv
    BY DEF ExitInv, Threads
  <1>7. InstallInv
    BY DEF InstallInv, Workers, Threads
  <1> QED
    BY <1>1, <1>2, <1>3, <1>4, <1>5, <1>6, <1>7 DEF IInv

-----------------------------------------------------------------------------
(* Each step preserves IInv.  All of its parts, the sets of labels they are *)
(* stated with and the frames of the actions are expanded here.             *)

USE DEF IInv, TypeOK, MutexInv, CancelInv, MainInv, PartsInv, ExitInv, InstallInv, Lacks, NotCreated,
  Joined, Workers, Threads, NoThread, Parts, Locked, MainLabels, SigLabels, StatsLabels,
  GuiThreadLabels, GuiLabels, SetupLabels, CleanupLabels, Goto, Skip, threadVars, world, history

\* main() makes the parts of the gui, in their order, while it is alone.
LEMMA MainSetupStep == IInv /\ setup_gui("main") => IInv'
  <1> SUFFICES ASSUME IInv, setup_gui("main") PROVE IInv'
    OBVIOUS
  <1>1. CASE Make("main", "xfont_init", "xfont", "xwin_init")
    BY <1>1 DEF Make
  <1>2. CASE xcon = "up" /\ Make("main", "xwin_init", "xwin", "gui_init")
    BY <1>2 DEF Make
  <1>3. CASE Make("main", "gui_init", "gui", "widgets_init")
    BY <1>3 DEF Make
  <1>4. CASE Make("main", "widgets_init", "widgets", "gui_draw")
    BY <1>4 DEF Make
  <1>5. CASE gui_draw("main")
    BY <1>5 DEF gui_draw
  <1> QED
    BY <1>1, <1>2, <1>3, <1>4, <1>5 DEF setup_gui

\* main() frees the parts in the opposite order, after it has joined the threads.
LEMMA MainCleanupStep == IInv /\ cleanup_gui("main") => IInv'
  <1> SUFFICES ASSUME IInv, cleanup_gui("main") PROVE IInv'
    OBVIOUS
  <1>1. CASE Free("main", "widgets_free", "widgets", "gui_free")
    BY <1>1 DEF Free
  <1>2. CASE Free("main", "gui_free", "gui", "xwin_free")
    BY <1>2 DEF Free
  <1>3. CASE Free("main", "xwin_free", "xwin", "xfont_free")
    BY <1>3 DEF Free
  <1>4. CASE Free("main", "xfont_free", "xfont", "close")
    BY <1>4 DEF Free
  <1> QED
    BY <1>1, <1>2, <1>3, <1>4 DEF cleanup_gui

\* A reload makes the parts anew, with the mutex in hand.
LEMMA SigSetupStep == IInv /\ setup_gui("sig") => IInv'
  <1> SUFFICES ASSUME IInv, setup_gui("sig") PROVE IInv'
    OBVIOUS
  <1>1. CASE Make("sig", "xfont_init", "xfont", "xwin_init")
    BY <1>1 DEF Make
  <1>2. CASE xcon = "up" /\ Make("sig", "xwin_init", "xwin", "gui_init")
    BY <1>2 DEF Make
  <1>3. CASE Make("sig", "gui_init", "gui", "widgets_init")
    BY <1>3 DEF Make
  <1>4. CASE Make("sig", "widgets_init", "widgets", "gui_draw")
    BY <1>4 DEF Make
  <1>5. CASE gui_draw("sig")
    BY <1>5 DEF gui_draw
  <1> QED
    BY <1>1, <1>2, <1>3, <1>4, <1>5 DEF setup_gui

\* A reload frees the parts first, with the mutex in hand.
LEMMA SigCleanupStep == IInv /\ cleanup_gui("sig") => IInv'
  <1> SUFFICES ASSUME IInv, cleanup_gui("sig") PROVE IInv'
    OBVIOUS
  <1>1. CASE Free("sig", "widgets_free", "widgets", "gui_free")
    BY <1>1 DEF Free
  <1>2. CASE Free("sig", "gui_free", "gui", "xwin_free")
    BY <1>2 DEF Free
  <1>3. CASE Free("sig", "xwin_free", "xwin", "xfont_free")
    BY <1>3 DEF Free
  <1>4. CASE Free("sig", "xfont_free", "xfont", "xfont_init")
    BY <1>4 DEF Free
  <1> QED
    BY <1>1, <1>2, <1>3, <1>4 DEF cleanup_gui

\* A step of main(): it creates the threads one after the other and joins them all
\* before it touches the gui again.
LEMMA MainStep == IInv /\ main => IInv'
  <1> SUFFICES ASSUME IInv, main PROVE IInv'
    OBVIOUS
  <1>1. CASE Skip("main", "init", "xfont_init")
    BY <1>1
  <1>2. CASE pthread_create("sig", "create_sig", "create_stats")
    BY <1>2 DEF pthread_create
  <1>3. CASE pthread_create("stats", "create_stats", "create_gui")
    BY <1>3 DEF pthread_create
  <1>4. CASE pthread_create("gui", "create_gui", "join_gui")
    BY <1>4 DEF pthread_create
  <1>5. CASE pthread_join("gui", "join_gui", "join_stats")
    BY <1>5 DEF pthread_join
  <1>6. CASE pthread_join("stats", "join_stats", "join_sig")
    BY <1>6 DEF pthread_join
  <1>7. CASE pthread_join("sig", "join_sig", "widgets_free")
    BY <1>7 DEF pthread_join
  <1>8. CASE exit
    BY <1>8 DEF exit
  <1> QED
    BY <1>1, <1>2, <1>3, <1>4, <1>5, <1>6, <1>7, <1>8, MainSetupStep, MainCleanupStep DEF main

\* A step of thread_stats_updater(): it disables cancellation before the lock and
\* enables it with the unlock.
LEMMA StatsStep == IInv /\ thread_stats_updater => IInv'
  <1> SUFFICES ASSUME IInv, thread_stats_updater PROVE IInv'
    OBVIOUS
  <1>1. CASE Skip("stats", "start", "sleep")
    BY <1>1
  <1>2. CASE StatsWake
    BY <1>2 DEF StatsWake
  <1>3. CASE Skip("stats", "stats_update", "lock")
    BY <1>3
  <1>4. CASE pthread_mutex_lock("stats", "gui_draw")
    BY <1>4 DEF pthread_mutex_lock
  <1>5. CASE gui_draw("stats")
    BY <1>5 DEF gui_draw
  <1>6. CASE pthread_mutex_unlock("stats", "sleep")
    BY <1>6 DEF pthread_mutex_unlock
  <1> QED
    BY <1>1, <1>2, <1>3, <1>4, <1>5, <1>6 DEF thread_stats_updater

\* A step of thread_gui(), with the same bracket around its drawing.
LEMMA GuiStep == IInv /\ thread_gui => IInv'
  <1> SUFFICES ASSUME IInv, thread_gui PROVE IInv'
    OBVIOUS
  <1>1. CASE Skip("gui", "start", "wait")
    BY <1>1
  <1>2. CASE pthread_mutex_lock("gui", "gui_draw")
    BY <1>2 DEF pthread_mutex_lock
  <1>3. CASE gui_draw("gui")
    BY <1>3 DEF gui_draw
  <1>4. CASE pthread_mutex_unlock("gui", "wait")
    BY <1>4 DEF pthread_mutex_unlock
  <1>5. CASE xcon = "down" /\ Skip("gui", "wait", "done")
    BY <1>5
  <1> QED
    BY <1>1, <1>2, <1>3, <1>4, <1>5 DEF thread_gui

\* A step of thread_sig_handler(): a reload is within the mutex, and the thread
\* cancels itself last, outside.
LEMMA SigStep == IInv /\ thread_sig_handler => IInv'
  <1> SUFFICES ASSUME IInv, thread_sig_handler PROVE IInv'
    OBVIOUS
  <1>1. CASE Skip("sig", "start", "sigaction")
    BY <1>1
  <1>2. CASE sigaction
    <2>1. TypeOK'
      BY <1>2, NSignals DEF sigaction
    <2>2. MutexInv'
      BY <1>2, NSignals DEF sigaction
    <2>3. CancelInv'
      BY <1>2, NSignals DEF sigaction
    <2>4. MainInv'
      BY <1>2, NSignals DEF sigaction
    <2>5. PartsInv'
      BY <1>2, NSignals DEF sigaction
    <2>6. ExitInv'
      BY <1>2, NSignals DEF sigaction
    <2>7. InstallInv'
      BY <1>2, NSignals DEF sigaction
    <2> QED
      BY <2>1, <2>2, <2>3, <2>4, <2>5, <2>6, <2>7
  <1>3. CASE SigWake
    <2>1. TypeOK'
      BY <1>3 DEF SigWake, CancelPending
    <2>2. MutexInv'
      BY <1>3 DEF SigWake, CancelPending
    <2>3. CancelInv'
      BY <1>3 DEF SigWake, CancelPending
    <2>4. MainInv'
      BY <1>3 DEF SigWake, CancelPending
    <2>5. PartsInv'
      BY <1>3 DEF SigWake, CancelPending
    <2>6. ExitInv'
      BY <1>3 DEF SigWake, CancelPending
    <2>7. InstallInv'
      BY <1>3 DEF SigWake, CancelPending
    <2> QED
      BY <2>1, <2>2, <2>3, <2>4, <2>5, <2>6, <2>7
  <1>4. CASE pthread_mutex_lock("sig", "reload_config")
    BY <1>4 DEF pthread_mutex_lock
  <1>5. CASE settings_reload_config
    <2>1. TypeOK'
      BY <1>5 DEF settings_reload_config
    <2>2. MutexInv'
      BY <1>5 DEF settings_reload_config
    <2>3. CancelInv'
      BY <1>5 DEF settings_reload_config
    <2>4. MainInv'
      BY <1>5 DEF settings_reload_config
    <2>5. PartsInv'
      BY <1>5 DEF settings_reload_config
    <2>6. ExitInv'
      BY <1>5 DEF settings_reload_config
    <2>7. InstallInv'
      BY <1>5 DEF settings_reload_config
    <2> QED
      BY <2>1, <2>2, <2>3, <2>4, <2>5, <2>6, <2>7
  <1>6. CASE pthread_mutex_unlock("sig", "clear_reload")
    BY <1>6 DEF pthread_mutex_unlock
  <1>7. CASE ClearFlag("RELOAD", "clear_reload", "check_cont")
    BY <1>7 DEF ClearFlag, Flags
  <1>8. CASE Skip("sig", "check_cont", IF SIG["CONT"] THEN "clear_pause" ELSE "check_quit")
    BY <1>8
  <1>9. CASE ClearFlag("PAUSE", "clear_pause", "clear_cont")
    BY <1>9 DEF ClearFlag, Flags
  <1>10. CASE ClearFlag("CONT", "clear_cont", "check_quit")
    BY <1>10 DEF ClearFlag, Flags
  <1>11. CASE Skip("sig", "check_quit", IF SIG["QUIT"] THEN "cancel_gui" ELSE "sleep")
    BY <1>11
  <1>12. CASE pthread_cancel("gui", "cancel_gui", "cancel_stats")
    <2>1. TypeOK'
      <3>1. cancelled' \in [Threads -> BOOLEAN]
        BY <1>12 DEF pthread_cancel
      <3>2. proc' \in {"running", "crashed", "failed"}
        BY <1>12 DEF pthread_cancel
      <3>3. pc' = pc \/ pc' = [pc EXCEPT !["sig"] = "cancel_stats"]
        BY <1>12 DEF pthread_cancel
      <3>4. UNCHANGED <<mutex, parts, cancelOff, SIG, faults, installed, xcon, hupUnread, lastStop>>
        BY <1>12 DEF pthread_cancel
      <3>5. QED
        BY <3>1, <3>2, <3>3, <3>4
    <2>2. MutexInv'
      BY <1>12 DEF pthread_cancel
    <2>3. CancelInv'
      BY <1>12 DEF pthread_cancel
    <2>4. MainInv'
      BY <1>12 DEF pthread_cancel
    <2>5. PartsInv'
      BY <1>12 DEF pthread_cancel
    <2>6. ExitInv'
      BY <1>12 DEF pthread_cancel
    <2>7. InstallInv'
      BY <1>12 DEF pthread_cancel
    <2> QED
      BY <2>1, <2>2, <2>3, <2>4, <2>5, <2>6, <2>7
  <1>13. CASE pthread_cancel("stats", "cancel_stats", "cancel_sig")
    <2>1. TypeOK'
      <3>1. cancelled' \in [Threads -> BOOLEAN]
        BY <1>13 DEF pthread_cancel
      <3>2. proc' \in {"running", "crashed", "failed"}
        BY <1>13 DEF pthread_cancel
      <3>3. pc' = pc \/ pc' = [pc EXCEPT !["sig"] = "cancel_sig"]
        BY <1>13 DEF pthread_cancel
      <3>4. UNCHANGED <<mutex, parts, cancelOff, SIG, faults, installed, xcon, hupUnread, lastStop>>
        BY <1>13 DEF pthread_cancel
      <3>5. QED
        BY <3>1, <3>2, <3>3, <3>4
    <2>2. MutexInv'
      BY <1>13 DEF pthread_cancel
    <2>3. CancelInv'
      BY <1>13 DEF pthread_cancel
    <2>4. MainInv'
      BY <1>13 DEF pthread_cancel
    <2>5. PartsInv'
      BY <1>13 DEF pthread_cancel
    <2>6. ExitInv'
      BY <1>13 DEF pthread_cancel
    <2>7. InstallInv'
      BY <1>13 DEF pthread_cancel
    <2> QED
      BY <2>1, <2>2, <2>3, <2>4, <2>5, <2>6, <2>7
  <1>14. CASE pthread_cancel("sig", "cancel_sig", "sleep")
    <2>1. TypeOK'
      <3>1. cancelled' \in [Threads -> BOOLEAN]
        BY <1>14 DEF pthread_cancel
      <3>2. proc' \in {"running", "crashed", "failed"}
        BY <1>14 DEF pthread_cancel
      <3>3. pc' = pc \/ pc' = [pc EXCEPT !["sig"] = "sleep"]
        BY <1>14 DEF pthread_cancel
      <3>4. UNCHANGED <<mutex, parts, cancelOff, SIG, faults, installed, xcon, hupUnread, lastStop>>
        BY <1>14 DEF pthread_cancel
      <3>5. QED
        BY <3>1, <3>2, <3>3, <3>4
    <2>2. MutexInv'
      BY <1>14 DEF pthread_cancel
    <2>3. CancelInv'
      BY <1>14 DEF pthread_cancel
    <2>4. MainInv'
      BY <1>14 DEF pthread_cancel
    <2>5. PartsInv'
      BY <1>14 DEF pthread_cancel
    <2>6. ExitInv'
      BY <1>14 DEF pthread_cancel
    <2>7. InstallInv'
      BY <1>14 DEF pthread_cancel
    <2> QED
      BY <2>1, <2>2, <2>3, <2>4, <2>5, <2>6, <2>7
  <1> QED
    BY <1>1, <1>2, <1>3, <1>4, <1>5, <1>6, <1>7, <1>8, <1>9, <1>10, <1>11, <1>12, <1>13, <1>14, SigSetupStep, SigCleanupStep DEF thread_sig_handler

\* The steps that are not a thread's own: errx(), a cancellation that takes
\* effect, an expose event, a signal, a broken connection, the end.
LEMMA ErrxStep == ASSUME NEW t \in Threads, IInv, errx(t) PROVE IInv'
  <1> QED
    BY DEF errx, MayFail

\* A thread ends by cancellation only where it does not own the mutex.
LEMMA CancelStep == ASSUME NEW t \in Threads, IInv, ActOnCancel(t) PROVE IInv'
  <1> USE DEF ActOnCancel, CancelPending, CancelPoints
  <1>1. t # "main"
    OBVIOUS
  <1>2. CASE t = "sig"
    BY <1>2
  <1>3. CASE t = "stats"
    BY <1>3
  <1>4. CASE t = "gui"
    BY <1>4
  <1> QED
    BY <1>1, <1>2, <1>3, <1>4

\* thread_gui() takes an expose event and disables cancellation.
LEMMA ExposeStep == IInv /\ Expose => IInv'
  <1> QED
    BY DEF Expose

\* A signal sets a flag, or has its default effect on the whole process.
LEMMA SignalStep == IInv /\ Signal => IInv'
  <1> SUFFICES ASSUME IInv, NEW i \in 1..Len(Signals),
                      signal_handler(Signals[i]) \/ DefaultAction(Signals[i])
               PROVE  IInv'
    BY DEF Signal
  <1>1. Signals[i] \in {"HUP", "QUIT", "TSTP", "CONT"} /\ FlagOf[Signals[i]] \in Flags
    BY NSignals DEF Signals, FlagOf, Flags
  <1>2. CASE signal_handler(Signals[i])
    <2>1. SIG' \in [Flags -> BOOLEAN]
      BY <1>1, <1>2 DEF signal_handler
    <2>2. hupUnread' \in BOOLEAN /\ lastStop' \in {"TSTP", "CONT"}
      BY <1>1, <1>2 DEF signal_handler
    <2> QED
      BY <1>2, <2>1, <2>2 DEF signal_handler
  <1>3. CASE DefaultAction(Signals[i])
    BY <1>3 DEF DefaultAction
  <1> QED
    BY <1>2, <1>3

\* IInv depends on nothing but the variables of Oxbar.
LEMMA StutterStep == IInv /\ UNCHANGED vars => IInv'
  <1> USE DEF vars
  <1> QED
    OBVIOUS

HIDE DEF IInv, TypeOK, MutexInv, CancelInv, MainInv, PartsInv, ExitInv, InstallInv, Lacks, NotCreated,
  Joined, Workers, Threads, NoThread, Parts, Locked, MainLabels, SigLabels, StatsLabels,
  GuiThreadLabels, GuiLabels, SetupLabels, CleanupLabels, Goto, Skip, threadVars, world, history

\* IInv is inductive: every step of every thread and of the world preserves it.
LEMMA NextIInv == IInv /\ [Next]_vars => IInv'
  <1> SUFFICES ASSUME IInv, [Next]_vars PROVE IInv'
    OBVIOUS
  <1>1. ASSUME NEW t \in Threads, Program(t) PROVE IInv'
    BY <1>1, MainStep, SigStep, StatsStep, GuiStep DEF Program
  <1>2. ASSUME NEW t \in Threads, errx(t) PROVE IInv'
    BY <1>2, ErrxStep
  <1>3. ASSUME NEW t \in Threads, ActOnCancel(t) PROVE IInv'
    BY <1>3, CancelStep
  <1>4. CASE Expose
    BY <1>4, ExposeStep
  <1>5. CASE Signal
    BY <1>5, SignalStep
  <1>6. CASE LoseX
    <2> USE DEF IInv, TypeOK, MutexInv, CancelInv, MainInv, PartsInv, ExitInv, InstallInv, Lacks, NotCreated,
         Joined, Workers, Threads, NoThread, Parts, Locked, MainLabels, SigLabels, StatsLabels,
         GuiThreadLabels, GuiLabels, SetupLabels, CleanupLabels, Goto, Skip, threadVars, world,
         history
    <2> QED
      BY <1>6 DEF LoseX
  <1>7. CASE Ended \/ UNCHANGED vars
    BY <1>7, StutterStep DEF Ended
  <1> QED
    BY <1>1, <1>2, <1>3, <1>4, <1>5, <1>6, <1>7 DEF Next

\* The inductive invariant holds in every state, whatever faults there are.
THEOREM Invariance == Spec => []IInv
  BY InitIInv, NextIInv, PTL DEF Spec

-----------------------------------------------------------------------------

\* Every variable keeps its type, and every thread to its own program.
THEOREM TypeCorrect == Spec => []TypeOK
  <1>1. IInv => TypeOK
    BY DEF IInv
  <1> QED
    BY <1>1, Invariance, PTL

\* mutex_gui never stays with a thread that has ended, sleeps or waits.
THEOREM MutexSafe == Spec => []MutexComesBack
  <1>1. IInv => MutexComesBack
    BY DEF IInv, TypeOK, MutexInv, MutexComesBack
  <1> QED
    BY <1>1, Invariance, PTL

\* No two threads are inside the gui at once: workers hold the mutex there,
\* and main() is there only while no other thread exists.
THEOREM GuiExclusive == Spec => []OneThreadInGui
  <1>1. IInv => OneThreadInGui
    <2> SUFFICES ASSUME IInv, NEW t \in Threads, NEW u \in Threads,
                        pc[t] \in GuiLabels, pc[u] \in GuiLabels
                 PROVE  t = u
      BY DEF OneThreadInGui
    <2>1. ASSUME NEW w \in Workers PROVE pc[w] \in GuiLabels => mutex = w
      BY DEF IInv, MutexInv, Locked
    <2>2. ASSUME NEW w \in Workers PROVE pc["main"] \in GuiLabels => pc[w] \notin GuiLabels
      BY DEF IInv, MainInv, NotCreated, Joined, GuiLabels, SetupLabels, CleanupLabels
    <2> QED
      BY <2>1, <2>2 DEF Threads
  <1> QED
    BY <1>1, Invariance, PTL

\* No thread uses or frees a part of the gui that does not exist, or makes one
\* that does: a thread at such a call is alone in the gui, and the parts that
\* exist are those its own label tells.
THEOREM NoUseAfterFree == Spec => []UsesOnlyLive
  <1>1. IInv => UsesOnlyLive
    <2> SUFFICES ASSUME IInv, NEW t \in Threads, NEW p \in Parts
                 PROVE  /\ pc[t] \in UsedBy[p] => p \in parts
                        /\ pc[t] = MadeBy[p] => p \notin parts
      BY DEF UsesOnlyLive
    <2> USE DEF IInv, PartsInv, MainInv, NotCreated, Joined, Lacks, UsedBy, MadeBy, Parts,
                SetupLabels, CleanupLabels, Workers
    <2>1. CASE t = "main"
      BY <2>1
    <2>2. CASE t = "sig"
      BY <2>2
    <2>3. CASE t \in {"stats", "gui"}
      <3>1. pc[t] \in {"unborn", "start", "sleep", "wait", "stats_update", "lock", "gui_draw",
                       "unlock", "done"}
        BY <2>3 DEF TypeOK, StatsLabels, GuiThreadLabels
      <3>2. pc[t] = "gui_draw" => mutex = t /\ ~(pc["sig"] \in GuiLabels)
        BY <2>3 DEF MutexInv, Locked, GuiLabels
      <3>3. pc[t] = "gui_draw" => p \in parts
        BY <2>3, <3>2 DEF GuiLabels, TypeOK, SigLabels, MainLabels
      <3> QED
        BY <3>1, <3>3
    <2> QED
      BY <2>1, <2>2, <2>3 DEF Threads
  <1> QED
    BY <1>1, Invariance, PTL

\* When main() has returned nothing is left: no part of the gui, no owner of
\* the mutex, no thread.
THEOREM ExitsClean == Spec => []CleanExit
  <1>1. IInv => CleanExit
    <2> SUFFICES ASSUME IInv, proc = "exited"
                 PROVE  parts = {} /\ mutex = NoThread /\ \A t \in Workers : pc[t] = "done"
      BY DEF CleanExit
    <2>1. pc["main"] = "done"
      BY DEF IInv, ExitInv
    <2>2. \A t \in Workers : pc[t] = "done"
      BY <2>1 DEF IInv, MainInv, Joined
    <2>3. mutex = NoThread
      BY <2>2 DEF IInv, TypeOK, MutexInv, Locked, GuiLabels, SetupLabels, CleanupLabels
    <2>4. parts = {}
      BY <2>1 DEF IInv, TypeOK, PartsInv
    <2> QED
      BY <2>2, <2>3, <2>4
  <1> QED
    BY <1>1, Invariance, PTL

-----------------------------------------------------------------------------
(* A drawing, once begun, is finished.                                      *)

DrawStep ==
  \A t \in Workers : pc[t] \in Locked /\ pc'[t] # pc[t] =>
    pc'[t] \in Locked \/ (pc[t] = "unlock" /\ mutex' = NoThread)

\* What a worker does after the lock stays under it until the unlock.
LEMMA WorkersDraw ==
  TypeOK /\ (thread_sig_handler \/ thread_stats_updater \/ thread_gui) => DrawStep
  <1> SUFFICES ASSUME TypeOK PROVE (thread_sig_handler \/ thread_stats_updater \/ thread_gui) => DrawStep
    OBVIOUS
  <1> USE DEF Skip, Goto, Make, Free, gui_draw, Locked, GuiLabels, SetupLabels, CleanupLabels,
         Workers, Threads
  <1> USE DEF TypeOK, DrawStep
  <1>1. thread_stats_updater => DrawStep
    BY DEF thread_stats_updater, StatsWake, pthread_mutex_lock, pthread_mutex_unlock
  <1>2. thread_gui => DrawStep
    BY DEF thread_gui, pthread_mutex_lock, pthread_mutex_unlock
  <1>3. cleanup_gui("sig") => DrawStep
    BY DEF cleanup_gui
  <1>4. setup_gui("sig") => DrawStep
    BY DEF setup_gui
  <1>5. CASE \/ pthread_mutex_lock("sig", "reload_config") \/ settings_reload_config
             \/ pthread_mutex_unlock("sig", "clear_reload")
    BY <1>5 DEF pthread_mutex_lock, pthread_mutex_unlock, settings_reload_config
  <1>6. CASE \/ ClearFlag("RELOAD", "clear_reload", "check_cont")
             \/ ClearFlag("PAUSE", "clear_pause", "clear_cont")
             \/ ClearFlag("CONT", "clear_cont", "check_quit")
    BY <1>6 DEF ClearFlag
  <1>7. CASE \/ pthread_cancel("gui", "cancel_gui", "cancel_stats")
             \/ pthread_cancel("stats", "cancel_stats", "cancel_sig")
             \/ pthread_cancel("sig", "cancel_sig", "sleep")
    BY <1>7 DEF pthread_cancel
  <1>8. (sigaction \/ SigWake) => DrawStep
    BY DEF sigaction, SigWake
  <1>9. CASE \/ Skip("sig", "start", "sigaction")
             \/ Skip("sig", "check_cont", IF SIG["CONT"] THEN "clear_pause" ELSE "check_quit")
             \/ Skip("sig", "check_quit", IF SIG["QUIT"] THEN "cancel_gui" ELSE "sleep")
    BY <1>9
  <1> HIDE DEF Skip, Goto, Make, Free, gui_draw, DrawStep
  <1>10. thread_sig_handler => DrawStep
    BY <1>3, <1>4, <1>5, <1>6, <1>7, <1>8, <1>9, Zenon DEF thread_sig_handler
  <1> QED
    BY <1>1, <1>2, <1>10

\* Whatever happens between the lock and the unlock, a request to quit or a
\* signal, the thread inside goes on to the unlock.
THEOREM DrawsAreWhole == Spec => DrawsToTheEnd
  <1>1. IInv /\ [Next]_vars => [DrawStep]_vars
    <2> SUFFICES ASSUME IInv, Next PROVE DrawStep \/ UNCHANGED vars
      OBVIOUS
    <2> USE DEF IInv
    <2>1. ASSUME NEW t \in Threads, Program(t) PROVE DrawStep
      <3>1. CASE main
        BY <3>1 DEF main, setup_gui, cleanup_gui, Make, Free, gui_draw, pthread_create, pthread_join,
                    exit, Skip, Goto, DrawStep, TypeOK, Threads, Workers, Locked, MainInv, NotCreated,
                    GuiLabels, SetupLabels, CleanupLabels
      <3> QED
        BY <2>1, <3>1, WorkersDraw DEF Program
    <2>2. ASSUME NEW t \in Threads, errx(t) PROVE DrawStep
      BY <2>2 DEF errx, DrawStep
    <2>3. ASSUME NEW t \in Threads, ActOnCancel(t) PROVE DrawStep
      <3>1. pc[t] \notin Locked
        BY <2>3 DEF ActOnCancel, CancelPending, CancelPoints, CancelInv, TypeOK, Locked,
                    StatsLabels, GuiThreadLabels, GuiLabels, SetupLabels, CleanupLabels, Threads,
                    Workers
      <3> QED
        BY <2>3, <3>1 DEF ActOnCancel, Skip, Goto, DrawStep, TypeOK, Threads, Workers
    <2>4. CASE Expose
      BY <2>4 DEF Expose, Goto, DrawStep, TypeOK, Locked, GuiLabels, SetupLabels, CleanupLabels,
                  Threads, Workers
    <2>5. CASE Signal \/ LoseX \/ Ended
      BY <2>5 DEF Signal, signal_handler, DefaultAction, LoseX, Ended, DrawStep, vars
    <2> QED
      BY <2>1, <2>2, <2>3, <2>4, <2>5 DEF Next
  <1> QED
    BY <1>1, Invariance, PTL DEF Spec, DrawsToTheEnd, DrawStep

-----------------------------------------------------------------------------
(* The threads implement GuiLifecycle.                                      *)

\* What each stage of main() means for the sharing of the gui.
LEMMA StageFacts ==
  ASSUME IInv, proc \in {"running", "stopped"}
  PROVE  /\ Stage = "setup" <=> NotCreated("sig", pc["main"])
         /\ Stage = "teardown" <=> Joined("sig", pc["main"])
         /\ Stage = "shared" <=> ~NotCreated("sig", pc["main"]) /\ ~Joined("sig", pc["main"])
         /\ Holder = IF Stage = "shared" THEN mutex ELSE "main"
  BY DEF Stage, Holder, Over, NotCreated, Joined, SetupLabels, CleanupLabels

\* A step that leaves main(), the mutex and the parts alone is a stutter.
LEMMA QuietStep ==
  ASSUME UNCHANGED <<pc["main"], mutex, parts, proc>>
  PROVE  UNCHANGED Lifecycle!lifecycle
  BY DEF Lifecycle!lifecycle, Stage, Holder, Over, NotCreated, Joined

\* A worker that has the mutex shares the gui, and it is whole when the signal
\* thread is not rebuilding it.
LEMMA SharedFacts ==
  ASSUME IInv, proc = "running", NEW t \in Workers,
         pc[t] \notin {"unborn", "done"}
  PROVE  /\ Stage = "shared" /\ Holder = mutex
         /\ pc[t] \in Locked => mutex = t
         /\ (\A p \in Parts : ~Lacks(p, pc["sig"])) => parts = Parts
  <1>1. Stage = "shared" /\ Holder = mutex
    BY StageFacts DEF IInv, MainInv, NotCreated, Joined, Workers, SetupLabels, CleanupLabels
  <1>2. pc[t] \in Locked => mutex = t
    BY DEF IInv, MutexInv
  <1>3. ~Joined("sig", pc["main"]) /\ ~NotCreated("sig", pc["main"])
    BY <1>1, StageFacts
  <1>4. \A p \in Parts : ~Lacks(p, pc["main"]) /\ pc["main"] # "done"
    BY <1>3 DEF Lacks, Joined, NotCreated, SetupLabels, CleanupLabels
  <1> QED
    BY <1>1, <1>2, <1>4 DEF IInv, PartsInv, TypeOK

\* A step of a thread that draws is a Take, a Give or nothing to the gui.
LEMMA StatsLifecycle ==
  ASSUME IInv, thread_stats_updater \/ thread_gui
  PROVE  [Lifecycle!GuiNext]_(Lifecycle!lifecycle)
  <1>1. ASSUME NEW t \in {"stats", "gui"}, pthread_mutex_lock(t, "gui_draw")
        PROVE  Lifecycle!Take(t)
    <2>1. Stage = "shared" /\ Holder = NoThread
      BY <1>1, SharedFacts DEF pthread_mutex_lock, Goto, Workers
    <2>2. Stage' = Stage /\ Holder' = t /\ parts' = parts
      BY <1>1, <2>1 DEF pthread_mutex_lock, Goto, Stage, Holder, Over, IInv, TypeOK, Threads, Workers
    <2> QED
      BY <2>1, <2>2 DEF Lifecycle!Take
  <1>2. ASSUME NEW t \in {"stats", "gui"}, NEW to, pthread_mutex_unlock(t, to)
        PROVE  Lifecycle!Give(t)
    <2>1. Stage = "shared" /\ Holder = t /\ mutex = t
      BY <1>2, SharedFacts DEF pthread_mutex_unlock, Goto, Workers, Locked
    <2>2. pc["sig"] \notin Locked
      BY <1>2, <2>1 DEF IInv, MutexInv, Workers
    <2>3. parts = Parts
      BY <1>2, <2>2, SharedFacts DEF pthread_mutex_unlock, Goto, Workers, Lacks, Locked, GuiLabels,
         SetupLabels, CleanupLabels, IInv, TypeOK, SigLabels
    <2>4. Stage' = Stage /\ Holder' = NoThread /\ parts' = parts
      BY <1>2, <2>1 DEF pthread_mutex_unlock, Goto, Stage, Holder, Over, IInv, TypeOK, Threads, Workers
    <2> QED
      BY <2>1, <2>3, <2>4 DEF Lifecycle!Give
  <1>3. ASSUME NEW t \in {"stats", "gui"}, NEW from, NEW to, Skip(t, from, to)
        PROVE  UNCHANGED Lifecycle!lifecycle
    BY <1>3, QuietStep DEF Skip, Goto, IInv, TypeOK, Threads, Workers
  <1>4. ASSUME StatsWake PROVE UNCHANGED Lifecycle!lifecycle
    BY <1>4, QuietStep DEF StatsWake, Goto, IInv, TypeOK, Threads, Workers
  <1>5. CASE thread_stats_updater
    BY <1>1, <1>2, <1>3, <1>4, <1>5 DEF thread_stats_updater, gui_draw, Lifecycle!GuiNext, Workers
  <1>6. CASE thread_gui
    BY <1>1, <1>2, <1>3, <1>6 DEF thread_gui, gui_draw, Lifecycle!GuiNext, Workers
  <1> QED
    BY <1>5, <1>6

\* A reload takes the gui whole, takes it apart and leaves it whole.
LEMMA SigLifecycle ==
  ASSUME IInv, thread_sig_handler
  PROVE  [Lifecycle!GuiNext]_(Lifecycle!lifecycle)
  <1>0. Stage = "shared" /\ Holder = mutex
    <2>1. proc = "running" /\ pc["sig"] \notin {"unborn", "done"}
      BY DEF thread_sig_handler, sigaction, SigWake, pthread_mutex_lock, settings_reload_config,
         cleanup_gui, setup_gui, gui_draw, Make, Free, pthread_mutex_unlock, ClearFlag, pthread_cancel, Skip, Goto
    <2> QED
      BY <2>1, SharedFacts DEF Workers
  <1>1. CASE pthread_mutex_lock("sig", "reload_config")
    <2>1. Stage' = Stage /\ Holder' = "sig" /\ parts' = parts /\ mutex = NoThread
      BY <1>0, <1>1 DEF pthread_mutex_lock, Goto, Stage, Holder, Over, IInv, TypeOK, Threads, Workers
    <2> QED
      BY <1>0, <2>1 DEF Lifecycle!GuiNext, Lifecycle!Take, Workers
  <1>2. CASE pthread_mutex_unlock("sig", "clear_reload")
    <2>1. mutex = "sig" /\ parts = Parts
      BY <1>2, SharedFacts DEF pthread_mutex_unlock, Goto, Workers, Locked, Lacks
    <2>2. Stage' = Stage /\ Holder' = NoThread /\ parts' = parts
      BY <1>0, <1>2 DEF pthread_mutex_unlock, Goto, Stage, Holder, Over, IInv, TypeOK, Threads, Workers
    <2> QED
      BY <1>0, <2>1, <2>2 DEF Lifecycle!GuiNext, Lifecycle!Give, Workers
  <1>3. CASE cleanup_gui("sig") \/ setup_gui("sig")
    <2>1. UNCHANGED <<pc["main"], mutex, proc>> /\ pc["sig"] \in GuiLabels /\ proc = "running"
      BY <1>3 DEF cleanup_gui, setup_gui, gui_draw, Make, Free, Skip, Goto, IInv, TypeOK, Threads,
         Workers, GuiLabels, SetupLabels, CleanupLabels
    <2>2. Stage' = Stage /\ Holder' = Holder
      BY <2>1 DEF Stage, Holder, Over
    <2>3. mutex = "sig"
      BY <2>1 DEF IInv, MutexInv, Locked, Workers
    <2> QED
      BY <1>0, <2>2, <2>3 DEF Lifecycle!GuiNext, Lifecycle!TakeDown, Lifecycle!Rebuild, Lifecycle!lifecycle, Workers
  <1>4. ASSUME UNCHANGED <<mutex, parts, proc>>, pc' = [pc EXCEPT !["sig"] = pc'["sig"]]
        PROVE  UNCHANGED Lifecycle!lifecycle
    BY <1>4, QuietStep DEF IInv, TypeOK, Threads, Workers
  <1>5. ASSUME NEW from, NEW to, Skip("sig", from, to) PROVE UNCHANGED Lifecycle!lifecycle
    BY <1>5, <1>4 DEF Skip, Goto, IInv, TypeOK, Threads, Workers
  <1>6. CASE sigaction \/ SigWake \/ settings_reload_config
    BY <1>6, <1>4 DEF sigaction, SigWake, settings_reload_config, Skip, Goto, IInv, TypeOK, Threads, Workers
  <1>7. ASSUME NEW f, NEW from, NEW to, ClearFlag(f, from, to) PROVE UNCHANGED Lifecycle!lifecycle
    BY <1>7, <1>4 DEF ClearFlag, Goto, IInv, TypeOK, Threads, Workers
  <1>8. ASSUME NEW t, NEW from, NEW to, pthread_cancel(t, from, to)
        PROVE  [Lifecycle!GuiNext]_(Lifecycle!lifecycle)
    <2>1. CASE proc' = "running"
      BY <1>8, <2>1, <1>4 DEF pthread_cancel, Skip, Goto, IInv, TypeOK, Threads, Workers
    <2>2. CASE proc' # "running"
      <3>1. proc' \in {"failed", "crashed"} /\ UNCHANGED <<pc, mutex, parts>> /\ proc = "running"
        BY <1>8, <2>2 DEF pthread_cancel, Skip, Goto
      <3>2. Stage' = "aborted" /\ Holder' = Holder
        BY <3>1 DEF Stage, Holder, Over
      <3> QED
        BY <1>0, <3>1, <3>2 DEF Lifecycle!GuiNext, Lifecycle!Abort
    <2> QED
      BY <2>1, <2>2
  <1> QED
    BY <1>1, <1>2, <1>3, <1>5, <1>6, <1>7, <1>8 DEF thread_sig_handler

\* main() builds the gui, shares it, and takes it back when all threads ended.
LEMMA MainLifecycle ==
  ASSUME IInv, main
  PROVE  [Lifecycle!GuiNext]_(Lifecycle!lifecycle)
  <1>0. proc = "running"
    BY DEF main, setup_gui, cleanup_gui, gui_draw, Make, Free, pthread_create, pthread_join, exit, Skip, Goto
  <1> USE DEF IInv, TypeOK, Threads, Workers
  <1>1. CASE setup_gui("main") \/ Skip("main", "init", "xfont_init")
    <2>1. /\ UNCHANGED <<mutex, proc>>
          /\ NotCreated("sig", pc["main"]) /\ NotCreated("sig", pc'["main"])
      BY <1>1 DEF setup_gui, gui_draw, Make, Skip, Goto, NotCreated, SetupLabels
    <2>2. /\ Stage = "setup" /\ Stage' = "setup" /\ Holder = "main" /\ Holder' = "main"
          /\ parts \subseteq parts'
      BY <1>0, <1>1, <2>1 DEF Stage, Holder, Over, setup_gui, gui_draw, Make, Skip, Goto
    <2>3. parts' \subseteq Parts
      BY <1>1 DEF setup_gui, gui_draw, Make, Skip, Parts
    <2>4. parts = Parts => parts' = Parts
      BY <2>2, <2>3
    <2>5. CASE parts # Parts /\ parts' = Parts
      BY <2>2, <2>5 DEF Lifecycle!GuiNext, Lifecycle!Build
    <2>6. CASE (parts = Parts) = (parts' = Parts)
      BY <2>2, <2>6 DEF Lifecycle!lifecycle
    <2> QED
      BY <2>4, <2>5, <2>6
  <1>2. CASE pthread_create("sig", "create_sig", "create_stats")
    <2>1. pc["main"] = "create_sig" /\ pc'["main"] = "create_stats" /\ UNCHANGED <<mutex, parts, proc>>
      BY <1>2 DEF pthread_create
    <2>2. Stage = "setup" /\ Stage' = "shared" /\ Holder = "main" /\ Holder' = mutex
      BY <1>0, <2>1 DEF Stage, Holder, Over, NotCreated, Joined, SetupLabels, CleanupLabels
    <2>3. \A t \in Workers : pc[t] = "unborn"
      BY <2>1 DEF MainInv, NotCreated
    <2>4. mutex = NoThread
      BY <2>3 DEF MutexInv, Locked, GuiLabels, SetupLabels, CleanupLabels
    <2>5. parts = Parts
      BY <2>1, <2>3 DEF PartsInv, Lacks
    <2> QED
      BY <2>1, <2>2, <2>4, <2>5 DEF Lifecycle!GuiNext, Lifecycle!Share
  <1>3. CASE \/ pthread_create("stats", "create_stats", "create_gui")
             \/ pthread_create("gui", "create_gui", "join_gui")
             \/ pthread_join("gui", "join_gui", "join_stats")
             \/ pthread_join("stats", "join_stats", "join_sig")
    <2>1. /\ UNCHANGED <<mutex, parts, proc>>
          /\ ~NotCreated("sig", pc["main"]) /\ ~NotCreated("sig", pc'["main"])
          /\ ~Joined("sig", pc["main"]) /\ ~Joined("sig", pc'["main"])
      BY <1>3 DEF pthread_create, pthread_join, Skip, Goto, NotCreated, Joined, SetupLabels, CleanupLabels
    <2> QED
      BY <2>1 DEF Stage, Holder, Over, Lifecycle!lifecycle
  <1>4. CASE pthread_join("sig", "join_sig", "widgets_free")
    <2>1. /\ pc["main"] = "join_sig" /\ pc'["main"] = "widgets_free" /\ pc["sig"] = "done"
          /\ UNCHANGED <<mutex, parts, proc>>
      BY <1>4 DEF pthread_join, Skip, Goto
    <2>2. Stage = "shared" /\ Stage' = "teardown" /\ Holder = mutex /\ Holder' = "main"
      BY <1>0, <2>1 DEF Stage, Holder, Over, NotCreated, Joined, SetupLabels, CleanupLabels
    <2>3. \A t \in Workers : pc[t] = "done"
      BY <2>1 DEF MainInv, Joined
    <2>4. mutex = NoThread
      BY <2>3 DEF MutexInv, Locked, GuiLabels, SetupLabels, CleanupLabels
    <2>5. parts = Parts
      BY <2>1 DEF PartsInv, Lacks
    <2> QED
      BY <2>1, <2>2, <2>4, <2>5 DEF Lifecycle!GuiNext, Lifecycle!Retire
  <1>5. CASE cleanup_gui("main")
    <2>1. /\ UNCHANGED <<mutex, proc>> /\ parts' \subseteq parts
          /\ Joined("sig", pc["main"]) /\ Joined("sig", pc'["main"])
          /\ ~NotCreated("sig", pc["main"]) /\ ~NotCreated("sig", pc'["main"])
      BY <1>5 DEF cleanup_gui, Free, Goto, NotCreated, Joined, SetupLabels, CleanupLabels
    <2>2. Stage = "teardown" /\ Stage' = "teardown" /\ Holder = "main" /\ Holder' = "main"
      BY <1>0, <2>1 DEF Stage, Holder, Over
    <2> QED
      BY <2>1, <2>2 DEF Lifecycle!GuiNext, Lifecycle!Dismantle, Lifecycle!lifecycle
  <1>6. CASE exit
    <2>1. /\ pc["main"] = "close" /\ proc' = "exited" /\ UNCHANGED <<mutex, parts>>
      BY <1>6 DEF exit, Goto
    <2>2. \A t \in Workers : pc[t] = "done"
      BY <2>1 DEF MainInv, Joined
    <2>3. mutex = NoThread
      BY <2>2 DEF MutexInv, Locked, GuiLabels, SetupLabels, CleanupLabels
    <2>4. parts # Parts
      BY <2>1 DEF PartsInv, Lacks, Parts
    <2>5. Stage = "teardown" /\ Stage' = "closed" /\ Holder' = NoThread
      BY <1>0, <2>1, <2>3 DEF Stage, Holder, Over, NotCreated, Joined, SetupLabels, CleanupLabels
    <2> QED
      BY <2>1, <2>4, <2>5 DEF Lifecycle!GuiNext, Lifecycle!Close
  <1> QED
    BY <1>1, <1>2, <1>3, <1>4, <1>5, <1>6 DEF main

\* The end of the process by errx() or by a signal is the life cycle's Abort; a
\* signal that only stops or continues the process, or is handled, is a stutter.
LEMMA WorldLifecycle ==
  ASSUME IInv, (\E t \in Threads : errx(t) \/ ActOnCancel(t)) \/ Expose \/ Signal \/ LoseX \/ Ended
  PROVE  [Lifecycle!GuiNext]_(Lifecycle!lifecycle)
  <1>1. ASSUME UNCHANGED <<pc["main"], mutex, parts>>, proc \in {"running", "stopped"},
               proc' \in {"failed", "killed", "crashed"}
        PROVE  Lifecycle!Abort
    BY <1>1 DEF Lifecycle!Abort, Stage, Holder, Over, NotCreated, Joined
  <1>2. ASSUME UNCHANGED <<pc["main"], mutex, parts>>, proc \in {"running", "stopped"},
               proc' \in {"running", "stopped"}
        PROVE  UNCHANGED Lifecycle!lifecycle
    BY <1>2 DEF Lifecycle!lifecycle, Stage, Holder, Over, NotCreated, Joined
  <1>3. ASSUME NEW t \in Threads, errx(t) PROVE Lifecycle!Abort
    BY <1>1, <1>3 DEF errx
  <1>4. ASSUME NEW t \in Threads, ActOnCancel(t) PROVE UNCHANGED Lifecycle!lifecycle
    BY <1>4, QuietStep DEF ActOnCancel, CancelPending, Skip, Goto, IInv, TypeOK, CancelInv, Threads, Workers
  <1>5. CASE Expose \/ LoseX \/ Ended
    BY <1>5, QuietStep DEF Expose, LoseX, Ended, vars, Goto, IInv, TypeOK, Threads, Workers
  <1>6. CASE Signal
    <2>1. UNCHANGED <<pc["main"], mutex, parts>> /\ proc \in {"running", "stopped"}
      BY <1>6 DEF Signal, signal_handler, DefaultAction
    <2>2. proc' \in {"failed", "killed", "crashed"} \/ proc' \in {"running", "stopped"}
      BY <1>6 DEF Signal, signal_handler, DefaultAction
    <2> QED
      BY <2>1, <2>2, <1>1, <1>2 DEF Lifecycle!GuiNext
  <1> QED
    BY <1>3, <1>4, <1>5, <1>6 DEF Lifecycle!GuiNext

\* Every behaviour of the threads is, seen through Stage, Holder and the parts,
\* a behaviour of GuiLifecycle.
THEOREM Refinement == Spec => ImplementsLifecycle
  <1>1. Init => Lifecycle!GuiInit
    BY DEF Init, Lifecycle!GuiInit, Stage, Holder, Over, NotCreated, Threads, Parts
  <1>2. IInv /\ [Next]_vars => [Lifecycle!GuiNext]_(Lifecycle!lifecycle)
    <2>1. ASSUME IInv, Next PROVE [Lifecycle!GuiNext]_(Lifecycle!lifecycle)
      BY <2>1, MainLifecycle, SigLifecycle, StatsLifecycle, WorldLifecycle DEF Next, Program
    <2>2. ASSUME UNCHANGED vars PROVE UNCHANGED Lifecycle!lifecycle
      BY <2>2, QuietStep DEF vars
    <2> QED
      BY <2>1, <2>2
  <1> QED
    BY <1>1, <1>2, Invariance, PTL DEF Spec, ImplementsLifecycle, Lifecycle!GuiSpec
=============================================================================
