# oxbar in TLA+

A formal model of oxbar (an X11 status bar for OpenBSD, about 5000 lines of C):
TLA+ modules translated from the source, TLC configurations that check them on
small instances, and proofs for every value of their constants, checked by TLAPS.

`PROJECT.json` lists the components, the runs, the mutants, the source lines of
every definition, the hazards, the findings and the theorems.

    tlc -config MCSettings_reload.cfg MCSettings     # a run
    tlapm SettingsProofs.tla                         # a module of proofs

## 1. The system

oxbar reads statistics of the machine once a second and draws them into a thin
window. The process has a main thread and three others that share three things
without owning them: `mutex_gui`, the static pointers to the gui (`xfont`, `xwin`,
`gui`, and the widgets of `widgets.c`), and the global `OXSTATS`.

| component | state | operations | what makes it correct |
|---|---|---|---|
| threads and signals (`oxbar.c`) | four threads, `mutex_gui`, `SIG_*` flags, the pointers to the gui | the update on the timer, the redraw on an expose event, the reload on a SIGHUP, pause and continue, quitting by cancelling and joining | nobody uses a freed part of the gui; the mutex always comes back; a request to quit ends in an orderly exit; a reload is carried out |
| charts (`gui/chart.c`, `xdraw_chart`) | a ring of samples and an index | `chart_init`, `chart_update`, `chart_get_minmax`, `chart_free`, drawing | the ring is a sliding window, drawn oldest first; bars stay inside and stand on each other |
| stats (`stats/*.c`) | `OXSTATS`, raw counters, descriptors and answers, `is_setup` | `*_init`, `*_update`, `*_close`, one after the other | differences are right when counters wrap; what is drawn is of one update; nothing is used that is not open, nothing adds up, what is taken is given back; the mixer's outputs are found |
| settings (`settings.c`) | one struct of strings and integers | defaults, file with themes, command line, reload; what is derived for an unset value is stored in it | the lines that count decide, the command line wins, no string in use is freed |
| widget registry (`widgets.c`) | recipes, the table of created widgets | `widgets_init`, `widgets_free` | each widget is freed once, by the recipe that made it |
| gui (`gui/gui.c`) | three lists of widgets | `gui_init`, `gui_add_widget`, `gui_draw`, `gui_free` | drawn in the order of the list, with space between them |
| pens (`gui/xdraw.c`) | offset, direction, padding of a context | advance, text, bar, chart, complete, copy to the window | a context is as wide as what is in it |
| widgets (`widgets/*.c`) | charts of cpu, memory, net | init, draw, free | a sample per drawing; free undoes init |
| X wrappers (`gui/xcore.c`) | display, window, font, group | init, push, pop, free; a font is measured with a second display and window | each call finds what it needs, a reload leaves what it found |
| conversions (`hex2rgba`, `fmt_memory`, `memory.c`) | | colour to components, kilobytes to text, pages to percents | the number that is meant |

How they interact:

- main builds the gui (`setup_gui`), starts the signal thread, the stats thread and
  the gui thread, joins them in the order gui, stats, signal, and frees everything.
- The stats thread calls `stats_update()` **without** the mutex, then draws with it.
- The gui thread waits for X events and draws, with the mutex, when one is an expose.
- The signal handler, run by the main thread, sets flags. The signal thread polls
  them ten times a second; it reloads with the mutex and cancels the others.
- A drawing reads `OXSTATS`, pushes a sample into every chart, and stores inherited
  colours in the settings.
- A reload reads the file into the settings, frees all widgets and charts and makes
  them again, and stores the geometry it derives in the settings.

What is hard to test in this: the interleavings of drawing, reload and shutdown;
cancellation in the middle of a critical section; signals that come between two
statements; the connection to X that breaks; samples that mix two updates; the
wrap of the ring; settings that are read again after they were written to; devices that
are missing, or answer once and not again; what adds up over a year of reloads. Every
hazard is listed in `PROJECT.json`, with the properties that would catch it.

## 2. The modules

| module | models | lives on |
|---|---|---|
| `Oxbar` | `oxbar.c`: every call of the four threads that others can notice, signals, failures | `GuiLifecycle` as its abstract specification |
| `GuiLifecycle` | what `oxbar.c` promises: the gui is built, shared by one holder at a time, given back whole, dismantled | |
| `Chart` | `chart.c` and `xdraw_chart()` | `ChartHistory` |
| `ChartHistory` | what a chart promises: the last N samples, oldest first | |
| `Sampling` | how values get from the collectors through `OXSTATS` into charts, from three threads | the window of `ChartHistory`, the mutex of `Oxbar` |
| `Settings` | `settings.c`, and what `oxbar.c` and `gui.c` store in the settings | `Oxbar`: one thread at a time |
| `Widgets` | `widgets.c`, the init and free of `widgets/*.c`, the lists of `gui.c` | |
| `Layout` | `gui_draw()`, the pens of `xdraw.c`, the drawing functions of `widgets/*.c` | `Widgets`, which it extends and implements |
| `NetChart` | `net.c` and `wnet_draw()`, from the kernel's counters to a chart | `Chart`, which it extends |
| `CpuPercents`, `MemoryPercents` | the arithmetic of `cpu.c` and `memory.c`, as operators | the samples of `MCChart` |
| `Resources` | what the process holds, and what a row of calls needs, takes and gives back | |
| `Collectors` | the init, update and close functions of `stats/*.c` | `Resources` |
| `Xcore` | `gui/xcore.c`: the display, window, font and group | `Resources` |
| `Process` | `main()`, `stats.c`, and what the process holds from its first call to its last | `Collectors` and `Xcore`, which it composes |
| `Conversions` | `hex2rgba()` and `fmt_memory()`, as operators | `Process`, where their properties are |
| `MC*` | instances for TLC | |
| `*Proofs` | theorems and proofs of the module of that name | |

### Oxbar

`pc[t]` names the call thread t makes next, and an action is a call. A call that
others cannot notice is a `Skip`; the calls of `setup_gui()` and `cleanup_gui()` are
actions of their own that add a member to `parts` or remove one. `SIG` holds
the four flags, `cancelOff` and `cancelled` the cancellation state of POSIX: a
thread that is cancelled, with cancellation enabled, ends inside the first
cancellation point it comes to (`ActOnCancel`). `setcancelstate(DISABLE)` is part of
the step before it, `setcancelstate(ENABLE)` of the unlock before it: nothing of
either thread is visible between them but the end at a cancellation point, and there
is none. `pthread_cancel()` of a thread that was not created reads a null
pointer, of one that was joined is undefined: success, failure, both are possible.

Signals (`Signal`) come at any time and in any number. Before its handler is
installed a signal has the default effect: it kills or stops the process.

`Faults` says which misfortunes an instance admits: `startup` (main fails before it
waits), `config` (a bad setting while the gui is rebuilt or drawn: `errx`), `xlost`
(the connection breaks), `slowstart` (main needs more than 1/10 second to create
the threads). A behaviour has all of these or none (`faults`): what is promised only of a bar
without faults is checked in the same run as what holds with them.

### Chart

`values` and `current` are the members of `struct chart`; heights are counted in
units of the values, so that a column is `Full` high and no division is needed. The
percentages of a sample may miss 100 by `Slack`: `cpu.c` adds half a tenth to each of
them (`CpuPercents`, which makes the samples of the run), `memory.c` rounds three floats. The mutex is held throughout, so `chart_update()`
is a step. `Walk` is the walk of `xdraw_chart()` around the ring, with its own wrap;
`YTop`, `YBottom`, `Bars` are its rectangles.

### Sampling

A value is represented by the number of the update it was read in, so that a
sample shows where it came from. `Store` is a collector's assignment, `Load` a
widget's read, `chart_update` pushes what was read. Any value of the collector at
work may be stored next, and any value of the widget at work read next: C orders
neither.

### Settings

A string is a pointer `<<key, index>>` into the strings that were allocated for a key,
so that `free()`, sharing and leaks can be told. A key stands for all those treated
as it is: `font.desc` for the strings with a switch of their own, which frees the
old string; the colours for all others; `window.h`, `window.y`, `window.w` for the integers, which
are the ones something is derived for. `x >= 0` and the other ranges of `strtonum` are
left to "bad" lines. A reload may find any file: the user edits it.

### Widgets and Layout

A widget is known by the position of its name in the settings, an object on the heap
by what it is and whose. `separator`, `widget_create_from_recipe` and `errx` are the
loop of `widgets_create()`, a token each; `widgets_free` is a turn of its loop,
`free_widget_list` an entry. `cleanup_gui` is a reload or the end; after a reload the
settings may name any list. `Made` and `Freed` are what a recipe's two functions do, and
`Unfreed` is where they differ: the colors of a chart (`chart.c:60-66`) and the array of a cpu
widget's charts (`cpus.c:41`), which no function frees. A gui that is taken down leaves them.
With the next gui they are dropped from the heap of the model: nothing refers to them, and how many
pile up over the reloads is not counted.

Layout replaces the step `gui_drawn` by the calls of `gui_draw()`: a scratchpad per
widget, one per list, and the root context the list is copied to, in half pixels. `draw`
gives the calls each drawing function may make; a call moves the pen, and
`chart_update` adds to `sampled`. `ImplementsWidgets` says that everything else is Widgets.

### NetChart

`came` is what came in since the last update, counted without wrapping, and
`came_before` the same of the interval before; the code's counters are compared with
them. `Replug` takes the interface out of the kernel's list, or puts one there whose
counters start anew: the difference that follows is no traffic, and nothing is claimed of it. `net_init` and `stats_update` are the two updates of `stats_init()`,
then those of the timer; a drawing follows each but the first.

### Resources, Collectors, Xcore and Process

`held` is what the process holds: descriptors, connections, answers of X, memory. A resource
is called what the code calls the variable that refers to it, so assigning to that variable while
the resource is held means that it is `lost`. `Assigns(variables, needs, takes, gives)` is a row of
calls without a visible step between them, `Calls` the same where they assign to the variables only of
what they take; what is used or given back though not held is `misused`. A disjunct of an init function is one of its returns. What the kernel and X answer is
any answer; where a reply is missing, xcb may have stored an error that it allocated
(`PropAnswers`). `find_outputs` is the loop of `volume_init()` over any of the `Mixers`.

Xcore is the order in which `oxbar.c` calls `xcore.c`: `at` is the function that is next. A
font without an absolute size is measured by the same functions, on a display and a window of
its own (`measuring`). The server's colormaps are counted, since one comes with each window and goes
with the connection only; `MaxColormaps` bounds them, hence the reloads.

Process interleaves the two as the threads do: an update is made collector by collector
without the mutex, a drawing or a reload function by function, one at a time, since Oxbar
shows that they exclude each other. `xcb_wait_for_event` takes the event that `thread_gui()` gets,
of whatever type, and never frees; the variable is assigned to again by the next. `phase` is how far `main()` is; `exit` is every `err` and `errx`.

### Conversions and MemoryPercents

A character of a colour is a hexit, `#` or some other letter; `hex2rgba` reads fields of one or
two characters as `sscanf()` does. `fmt_memory` is the loop over the suffixes: `left` has the
quotients, `Goes` is its condition. Neither keeps state, so Process looks at them once, in its first state; `Colours` and `Sizes` are what they are given. `memory_update` counts in 0.05%, the unit of `MCChart`,
whose samples it makes together with `cpu_update`.

## 3. The runs

| run | instance | what it shows |
|---|---|---|
| `oxbar` | all faults or none, any signals, fairness | see below; a request to quit ends the process whatever goes wrong: no thread waits for ever; without faults it leads to the orderly exit, a SIGHUP found by the poll to a rebuilt gui, and the bar keeps being updated |
| `oxbar_lost_hup` | violation | a SIGHUP during a reload is lost |
| `oxbar_lost_wakeup` | violation | a SIGCONT can leave the bar paused |
| `chart_percent` | 3 samples of 3 series, 0.05% units, as `cpu.c` and `memory.c` make them | the window, the drawing order and the stacking survive wraps, reloads and rounding |
| `net_chart` | counters of 2 bits, 3 samples | a sample is the traffic between two updates, however counters wrap and wherever they start, unless the interface was away; bars stay in a chart scaled by its own maximum |
| `net_rollover` | violation | the difference of packets is one short when their counter wraps |
| `bar` | 585 lists of up to 3 tokens of 8, 2 cpus, a table of 2 widgets, 2 sets of enabled ones | see below |
| `sampling_order` | 3 values, 2 charts of 3 samples, 4 updates | charts run forward in time; a drawing mixes two updates at most; the timer's is whole; nothing goes undrawn |
| `sampling_torn` | violation | a sample of two updates |
| `settings_reload` | 179 files, 8 command lines, a reload | the file's lines that count decide; the command line wins at the start; nothing dangles |
| `settings_height` | violation | the height of the old font stays |
| `process` | every answer of the kernel and X, 6 mixers, 3 colormaps a connection; about 3000 colours and sizes | see below |

`oxbar` checks that no call uses or frees a part that is not there or makes
one over one that is (`UsesOnlyLive`), that no two threads are inside the gui
(`OneThreadInGui`), that a drawing is never cut short by a cancellation (`DrawsToTheEnd`), and
that every step is one of `GuiLifecycle`. `MutexComesBack` and `CleanExit` of Oxbar are proved
only: they follow from the same invariant.

`bar` checks that what is drawn or freed is there (`OnlyLive`); that what is left when the gui is
taken down is the colors and arrays that no function frees, all of them and nothing more
(`LeavesOnlyUnfreed`); that a drawing shows what the separators say and nothing else (`AllShown`), side
by side (`SideBySide`), the left list from the left margin and the right list to the right one
(`KeepsMargins`, which says nothing of where the centered list is); and that each chart it draws gets
one sample (`OneSampleEach`).

`process` checks that nothing is used or given back that is not held, and nothing lost but the
events and errors of X (`UsesOnlyHeld`); that between two drawings the process holds, those apart,
what it did when its threads were started (`RunsSteady`); and that at the end it has given back
all but those and what three collectors forget when they find nothing to show (`GivesBack`). The
process does grow while it runs: by each event (`oxbar.c:116`), each error (`brightness.c:125`), and
a colormap on the server for each reload. The three properties say that this is all, of what the
collectors, `xcore.c` and the gui thread take; the memory of widgets and settings is in Widgets and
Settings. The run also checks that the volume shown is of a master and a mute
of the outputs (`VolumeFindsOutputs`); that colours of hexits are what `xcore.h` says and others
are refused (`ColourIsExact`); and that a size has the suffix it should (`SizeIsRight`).

**Bounds.** Oxbar has none: its threads are four, its flags Boolean, and the whole
state space is searched. Charts of 3 samples wrap after 3 updates, and
runs are endless, so every position of the ring meets every window of the data; the
values include bars of one unit, one over 100%, zeros, and sums that miss 100 both ways.
NetChart's counters wrap within two updates, and start anywhere. Three tokens
have two widgets of one list, the same one twice, one that is not enabled at
either end, a separator repeated, an unknown name, and one widget too many; reloads
are endless. `MaxUpdates = 4` lets a drawing outlast an update, the updater wait for it and
start another, with charts that wrap once. One reload in Settings is enough for a
file that differs from the first, since a second reload starts from the
same kind of state; the proofs need no bound. Files have up to four lines: a global
one, two sections, either of which is the one asked for, and two lines of one key.
`MaxColormaps = 3` has two reloads on one connection: the second finds what the first left.
The mixers have a second class, controls before their class, two of one control, and too
little. The sizes are all to 3000 kilobytes and those around every power of 1024 to the
largest `int`; the colours are all of up to four characters of five kinds, and those of five,
six and eight characters, with and without a `#`, that have each component at its ends.

**Deadlock** is checked for Oxbar, where a process that has ended stutters on
purpose, and for Sampling. It is not for Chart and Widgets (`errx` ends the program), nor for
Settings and Process (the program may exit, and reloads are bounded).

**Fairness** (`Oxbar!Fairness`). Each thread that can run does, in the end (weak
fairness). Strong fairness is assumed of taking the mutex: it is free for most of
every second, as a drawing takes milliseconds. It is assumed of acting on a
cancellation, since `xcb_wait_for_event` polls, which is a cancellation point,
whenever its queue is empty, and it is again and again. Nothing is assumed of
signals, expose events and faults.

**Mutants.** Beside each property stands the mutated operator a plausible bug would
be, and `PROJECT.json` names it; TLC finds the property violated by it.

## 4. What is proved

All theorems are about the modules' `Spec` (`LSpec` of Layout, `NSpec` of NetChart), for
all values of the constants that the named assumptions admit.

**OxbarProofs** (any set of faults). `TypeCorrect`, `MutexSafe` (`MutexComesBack`),
`GuiExclusive` (`OneThreadInGui`), `NoUseAfterFree` (`UsesOnlyLive`), `ExitsClean`
(`CleanExit`), `DrawsAreWhole` (`DrawsToTheEnd`), `Refinement` (`ImplementsLifecycle`). None
of them is inductive: that the parts exist where they are used needs
`PartsInv`, which reads the set of parts off the places of main and of the signal
thread; this needs `MutexInv` (who owns the mutex is who is in its section) and
`MainInv` (main is alone before it creates and after it joins); and that needs `CancelInv`
(cancellation is off in the section; the signal thread cancels itself last and
does not reload again).

**ChartProofs** (any size, any data). `TypeCorrect`; `Refinement`: the ring implements
the window of `ChartHistory`. The argument is that position k of the window is the
ring's `current + k`, wrapped, and that the new `current` is the one position that
changes. `OldestFirst` (`DrawnOldestFirst`), `RightScale` (`ScaleIsRight`), `PercentsFit`
(`BarsFit`): what `Walk`, `chart_get_minmax` and `YBottom` compute is proved by induction over
columns and series, see below. `PercentsFit` assumes `PercentChart`: no value of a sample is
more than 100% but for `Slack`.

**SamplingProofs** (any values, collectors, widgets, sizes). `Invariance`, `TypeCorrect`,
`Ordered` (`SamplesInOrder`), `TwoUpdates` (`DrawingSpansTwoUpdates`), `TimerWhole`
(`TimerDrawsItsUpdate`), `QuietCurrent` (`QuietIsCurrent`). The invariant says of which
update each value is: in `OXSTATS` the current one where it was written
and the one before elsewhere (`StatsInv`); in a drawing one of the last two, and not
newer than `OXSTATS` (`SeenInv`); at the end of a chart not newer than what is read for
it next (`OrderInv`). `CurrentInv` follows a reload through the charts.

**SettingsProofs** (any files, command lines, widgets, number of reloads).
`Invariance`, `TypeCorrect`, `NoDanglingEver` (`NoDangling`), `FileApplied`
(`FileIsApplied`), `CommandLineFirst` (`CommandLineWins`), `BottomAlways` (`BottomIsBottom`). That nothing dangles
rests on `OwnInv`: only strings of the font's description are ever freed, the font
points to the last of them, and no other key points to any. `ParseInv` says that
`parse_lines`, a flag that is updated line by line, is what the definition of a line that
counts makes of the lines so far; `OptionsInv` and `OnceInv` do the same for options. `BottomInv` says that once the
file was read in a reload, `window.y` is -1 exactly if the last line that counts asks for
the bottom (`Asks`).

**WidgetsProofs** (any lists, cpus and size of the table). `Inductive`, `TypeCorrect`,
`NeverTwice` (`FreedOnce`), `TakenDown` (`LeavesOnlyUnfreed`), `NoDangling` (`DrawsOnlyLive`). The
invariant says what the heap is at every step (`HeapInv`): what the widgets that are not
freed yet own, the entries of the lists, and what no function frees of the widgets made so far
(`LeftOver`). That a step frees just that needs
`TableInv` and `ListsInv` (a position is in the table once and in one list once) and
`PhaseInv` (the lists hold no widget that is not in the table, until it is emptied); that
`LeftOver` covers all widgets needs `NamedInv` (a widget's token is a name).

**LayoutProofs** (any widths, paddings, texts, drawing functions). `DrawingRefines`
(`ImplementsWidgets`), `DrawnSafely` (`OnlyLive` and `LeavesOnlyUnfreed`, from WidgetsProofs),
`LInvariance`, `NextToEachOther` (`SideBySide`), `PensTyped` (`LTypeOK`). `PenInv` says where
the pen of a list is: behind the spacing after the last widget that was drawn, unless
no entry is left. That the order is that of the settings needs `Sorted`, of the lists.
`DrawingInvariance`, `ShowsAll` (`AllShown`), `MarginsKept` (`KeepsMargins`), `SampledOnce`
(`OneSampleEach`) follow a drawing from its first list to its last: `PlaceInv` says which position
of the settings is in which list, `ShownInv` that what a list has drawn is its enabled entries
up to `wle`, `FinalInv` that a list that is finished is as wide as that and, if it is the left or
the right one, at its margin, and `SampledInv` that
`sampled` is, without repetition, the charts of the widgets drawn and of the calls made of the
present one.

**NetChartProofs** (any width of the counters, any traffic). `NetInvariance`,
`ShowsTraffic` (`DifferenceIsTraffic`), `CountsPackets` (`PacketsBarelyOff`: how far the code misses `HandlesRollover`), `IsAChart`, `NetFits`
(`BarsStayInChart`: bars in a chart scaled by its own maximum, from `RightScale`). `AheadInv`
says that a counter and what was last read of it differ by `came`, modulo M: of
the interface only as long as it was in the list.

**ProcessProofs** (any mixers, any number of reloads). `Invariance`, `TypeCorrect`,
`NothingMisused` (`UsesOnlyHeld`), `Steady` (`RunsSteady`), `EverythingBack` (`GivesBack`). The
invariant says of each resource when it is held: one of a collector that is set up from its init to its
close (`CInv`, with a part per collector), one of the gui by the function that is called next (`GInv`),
one that a call takes for itself never (`HeldType`). Of events and errors, which may be held at any
time, it says nothing: the properties are of what is held apart from them (`Unfreed`), and that a step
that touches only them leaves the rest is `BaseSame` and `SidesSame`. `FInv` says which functions can be
next in each phase, `BInv` that what was held when the threads started is what is held at rest.
`VolumeRight` (`VolumeFindsOutputs`): `find_outputs` after n devices is what a definition without
recursion (`FoundIn`) says of the first n, by induction. `ColoursExact` (`ColourIsExact`), for every
sequence of characters, and `SizesRight` (`SizeIsRight`), for every `int` that is not negative: `LeftIs`
turns the loop's quotients into one division each.

**Recursion.** The loops of the C code over samples, series and devices are recursive functions
`f[n \in 0..N] == IF n = 0 THEN .. ELSE .. f[n - 1] ..`, which TLA+ defines as a `CHOOSE`. That
there is such a function at all is the lemma `Recursion`, for every step function (`Rule`, `GoesBy`); the
induction itself is `Induction`, over the numbers that satisfy the goal as a *set*. Both are
proved from `WFMin` and `NatLessThanWellFounded` of the library, which take no operator as a
parameter, where its induction theorems do.

**Assumptions.** The theorems rest on those named in the modules, and TLC evaluates each on its
instance: sizes are natural numbers, and a chart has no more series than samples; no
percentage is above `Hundred` by more than `Slack` (`PercentChart`, a hypothesis of `PercentsFit`; `MCChart` has
TLC evaluate it on samples that `CpuPercents` and `MemoryPercents` made); a colour is a sequence of the
characters above; a number of kilobytes is an `int` and not negative.

**Only model-checked.** Liveness (`QuitCleansUp`, `QuitEnds`, `ReloadHonoured`,
`StatsKeepDrawing`), because the prover has no `ENABLED`. That the arithmetic of `CpuPercents`
and `MemoryPercents` gives no percentage above that: `PercentChart`, evaluated on the inputs of `MCChart`. All invariants and action properties of the passing runs
are theorems.

## 5. Findings

- `oxbar.c:188`: `SIG_RELOAD` is cleared after the reload, so a SIGHUP that is handled
  after the file was read and before the flag is cleared is lost (`EveryHupRead`).
- `oxbar.c:191-192`: `SIG_PAUSE` and `SIG_CONT` are cleared in two steps. A SIGTSTP and a
  SIGCONT between them leave the bar paused (`WakesUp`).
- `oxbar.c:100`: `stats_update()` writes without the mutex while another thread may be
  drawing, so that a sample mixes two updates (`SamplesAreWhole`, against `chart.h:26`).
- `oxbar.c:66`: the height derived for a font is stored over the -1 and outlives the
  font (`HeightFollowsFont`, against `man/oxbar.1:528`). Colours inherited from the font
  (`gui.c:101`) have the same fate.
- `net.c:65`: the difference of packets is one less than what came in when the counter has wrapped
  (`HandlesRollover`, against `net.h:34`, "handles rollover").

More that the models and properties describe as the code behaves, and no run refutes:

- `oxbar.c:116`: when the connection to X breaks, the gui thread returns and main's first
  join succeeds, against the comment of line 223 ("only from signal handler"); a later
  SIGTERM then cancels a joined thread, which is undefined (`pthread_cancel` of Oxbar).
- `battery.c:45`, `brightness.c:64`, `brightness.c:92`, `wifi.c:58`: a collector that finds
  nothing to show keeps a descriptor, or a connection to X with up to two answers (`Forgotten`).
- `oxbar.c:116`: no event that `xcb_wait_for_event()` returns is freed, and `brightness.c:31`: nor is
  an error that comes instead of an answer; the first adds up while the bar runs. Against
  `CONTRIBUTING.md:31`, "After exit, it cleans everything up" (`Unfreed` of Process).
- `chart.c:60`, `chart.c:64`, `cpus.c:41`: the colors of a chart and the array of a cpu widget's charts are
  not freed, with each reload anew, against `chart.h:77`, "Free all allocated memory with a chart"
  (`Unfreed` of Widgets; `LeavesOnlyUnfreed` says that they are left, and nothing else).
- `settings.c:352`: a string that is replaced is not freed, against the comment at `settings.c:219`,
  nor are the strings in use at the end.
- `volume.c:47`: descriptor 0 is taken for a failure.
- `xcore.c:170`: each reload leaves a colormap on the server (`colormaps`).
- `xcore.c:291`: the strut of the window is `y + h` at the top also for a bar at the bottom, and
  is passed as 32-bit items (line 305) from an array of `unsigned long`.
- `xcore.c:410`: the last character of a colour of 6 or 8 may be no hexit ("ff000g"), since
  `sscanf()` ends the field there (`hex2rgba`).
- `memory.c:66`: the total the percentages are of counts active memory twice, as it is part
  of `t_rm` (`memory_update`).
- `util.c:53` (widgets): exactly 1024 kilobytes are "1024k" (`fmt_memory`).
- `brightness.c:104` reads one byte of a 32-bit value.
- `xdraw.c:129`: the centered list is moved to the left by the whole left margin, so that
  its middle is not that of the window; `man/oxbar.1:1151` has it "in the exact center of the
  display". No property says where it is.
- `cpu.c:73`: without a tick between two updates, as between the two of the start, all
  percentages are 0.05, which `chart.h:26` does not allow for (`Whole`, the premise of
  `BarsAreStacked`).

## 6. What is not modelled

- `chart_print`, the drivers (`*.d.c`), the unit tests, build files: no logic of the bar.
- Calls into xcb, cairo, pango, apm, the mixer: external; Oxbar has their failure, Process
  what they give and take, neither their arguments (the geometry and hints of the window).
- How much of what nothing frees adds up: Widgets and Process say what it is, not how many.
- A `y` of -1 that only the command line gives: nobody derives it again after a reload, and
  `BottomIsBottom` is of a bar that the file puts at the bottom.
- The figures of battery, brightness, volume, wifi and swap, and what X or the kernel loses
  when a process ends.
- The wording of the widgets' texts: Layout takes any width for a text.
- In Layout: heights, colours, the header line, what cuts a bar off that is wider than
  the window; in NetChart the walk through the kernel's message, and the other direction.
- In Settings: the parsing of a key, a value, a padding, a header style; only
  whether it succeeds.
- In Sampling, a list of widgets that names the same one twice: each has charts of its
  own and reads `OXSTATS` for itself (`bar` has such lists).
- The parts planned below.

## 7. Plan

Done, in this order: Oxbar and GuiLifecycle, Chart and ChartHistory, Sampling,
Settings, Widgets, Layout and NetChart, with the proofs of each; CpuPercents;
Resources, Collectors, Xcore and Process with their proofs; Conversions and MemoryPercents.

What is left, the most important first:

1. `CpuPercents` and `MemoryPercents` for all counters: that no percentage is above 100 but for
   what is rounded, as a theorem, so that `PercentsFit` needs no assumption of the data. `nticks`
   folds over a set; the prover needs it as a sum over the states in their order.
2. Compositions: CpuPercents under Sampling (a drawing's percentages come from two
   consecutive snapshots); Settings under Oxbar (the reload of Oxbar as the reload of
   Settings).
