------------------------------ MODULE Settings ------------------------------
(***************************************************************************)
(* settings.c: the one global struct settings, set from the defaults, the  *)
(* config file with its themes and the command line, read again from the   *)
(* file on a SIGHUP, and written to by oxbar.c and gui.c, which store what *)
(* they derive for an unset value where it was unset.                      *)
(*                                                                         *)
(* A key stands for all keys that are treated as it is: "font.desc" for    *)
(* the strings that have a switch of their own, the other strings are the  *)
(* colours; "window.*" for the integers.  A string is a pointer, so that   *)
(* who frees it and who shares it can be told.  All of this is run by one  *)
(* thread at a time: main() before the others are created, then the signal *)
(* thread with mutex_gui (module Oxbar).                                   *)
(***************************************************************************)
EXTENDS Integers, Sequences

CONSTANTS WidgetColors,   \* the fgcolor keys of the widgets that are drawn
          Strings,        \* values of strings, Unset among them
          DefaultFont, DefaultColor,
          Files,          \* what the config file may be: [exists, lines]
          Args,           \* command lines: [theme, options]
          Height,         \* of the font, per font.desc, with padding and margin
          DisplayWidth, DisplayHeight,
          MaxReloads      \* bound: SIGHUPs

Unset   == ""
NoTheme == ""
Derive  == -1

StringKeys == {"font.desc", "font.fgcolor"} \cup WidgetColors
IntKeys    == {"window.h", "window.y", "window.w"}
Keys       == StringKeys \cup IntKeys

\* key = value, with a value of the key's type.  No line can make a string empty:
\* parse_keyvalue() wants a character at least.
IsSet(l) ==
  /\ l.key \in Keys
  /\ l.key \in StringKeys => l.value \in Strings \ {Unset}
  /\ l.key \in IntKeys => l.value \in Int

ASSUME SettingsAssumption ==
  /\ WidgetColors \cap ({"font.desc", "font.fgcolor"} \cup IntKeys) = {}
  /\ Unset \in Strings
  /\ DefaultFont \in Strings \ {Unset} /\ DefaultColor \in Strings \ {Unset}
  /\ \A f \in Files : \A i \in 1..Len(f.lines) :
       /\ f.lines[i].is \in {"set", "theme", "bad"}
       /\ f.lines[i].is = "set" => IsSet(f.lines[i])
  /\ \A f \in Files : f.exists \in BOOLEAN /\ Len(f.lines) \in Nat
  /\ \A a \in Args : Len(a.options) \in Nat
  /\ \A a \in Args : \A i \in 1..Len(a.options) :
       IsSet(a.options[i]) /\ a.options[i].switch \in BOOLEAN
  /\ Height \in [Strings -> Int]
  /\ DisplayWidth \in Int /\ DisplayHeight \in Int
  /\ MaxReloads \in Nat

VARIABLES
  args,         \* argv
  pc,           \* where the thread is
  loads,        \* completed or begun reloads
  strings,      \* per key, the strings that were ever allocated for it
  ptr,          \* per string key, the string it points to: <<key, index>>
  freed,        \* the strings that were freed
  window,       \* the integer keys
  text,         \* the lines of the file that is being read
  at,           \* the line that is read next
  parse_lines,
  found_theme,
  optind,       \* the option that is parsed next
  old           \* only for the properties: the settings when the file was opened

memory == <<strings, ptr, freed>>
scan == <<text, at, parse_lines, found_theme>>
vars == <<args, pc, loads, memory, window, scan, optind, old>>

Current(k) == IF k \in IntKeys THEN window[k] ELSE strings[ptr[k][1]][ptr[k][2]]

-----------------------------------------------------------------------------
(* settings_init(): the defaults, then the file, then the command line.     *)

Init ==
  /\ args \in Args
  /\ strings = [k \in StringKeys |->
       IF k = "font.desc" THEN <<DefaultFont>>
       ELSE IF k = "font.fgcolor" THEN <<DefaultColor>> ELSE <<Unset>>]
  /\ ptr = [k \in StringKeys |-> <<k, 1>>]
  /\ freed = {}
  /\ window = [k \in IntKeys |-> IF k = "window.y" THEN 0 ELSE Derive]
  /\ pc = "open" /\ loads = 0 /\ optind = 1
  /\ text = <<>> /\ at = 1 /\ parse_lines = TRUE /\ found_theme = FALSE
  /\ old = [k \in Keys |-> Current(k)]

\* After the file comes the command line, but only the first time.
\* Mutant: the command line is not parsed after the file.
AfterLoad_Setup == "setup"

AfterLoad == IF loads = 0 THEN "cmdline" ELSE "setup"

\* Mutants: a failure of strdup is not noticed; the string that is replaced is
\* freed, as the comments of settings.c say.
KMS_STRING_Unchecked(k, v) ==
  /\ ptr' = [ptr EXCEPT ![k] = <<k, Len(strings[k]) + 1>>]
  /\ UNCHANGED <<strings, freed>>

KMS_STRING_Frees(k, v) ==
  /\ freed' = freed \cup {ptr[k]}
  /\ strings' = [strings EXCEPT ![k] = Append(@, v)]
  /\ ptr' = [ptr EXCEPT ![k] = <<k, Len(strings[k]) + 1>>]

\* The old string is not freed.
KMS_STRING(k, v) ==
  /\ strings' = [strings EXCEPT ![k] = Append(@, v)]
  /\ ptr' = [ptr EXCEPT ![k] = <<k, Len(strings[k]) + 1>>]
  /\ UNCHANGED freed

settings_set_one_keyvalue(k, v) ==
  IF k \in IntKeys
  THEN window' = [window EXCEPT ![k] = v] /\ UNCHANGED memory
  ELSE KMS_STRING(k, v) /\ UNCHANGED window

\* fopen() finds the file, whatever has become of it since the last time.
fopen ==
  /\ pc = "open" /\ pc' = "read"
  /\ \E f \in Files : f.exists /\ text' = f.lines
  /\ at' = 1 /\ parse_lines' = TRUE /\ found_theme' = FALSE
  /\ old' = [k \in Keys |-> Current(k)]
  /\ UNCHANGED <<args, loads, memory, window, optind>>

\* There is no file: a theme cannot be had, else nothing changes.
fopen_fails ==
  /\ pc = "open"
  /\ \E f \in Files : ~f.exists
  /\ pc' = IF args.theme = NoTheme THEN AfterLoad ELSE "exited"
  /\ text' = <<>> /\ at' = 1 /\ parse_lines' = TRUE /\ found_theme' = FALSE
  /\ old' = [k \in Keys |-> Current(k)]
  /\ UNCHANGED <<args, loads, memory, window, optind>>

Line == text[at]

\* Mutant: the theme of another name does not end the one that is read.
theme_line_Keeps ==
  LET match == args.theme # NoTheme /\ Line.key = args.theme IN
  /\ pc = "read" /\ at <= Len(text)
  /\ Line.is = "theme"
  /\ parse_lines' = (parse_lines \/ match)
  /\ found_theme' = (found_theme \/ match)
  /\ at' = at + 1
  /\ UNCHANGED <<args, pc, loads, memory, window, text, optind, old>>

\* A line that starts a theme.
theme_line ==
  LET match == args.theme # NoTheme /\ Line.key = args.theme IN
  /\ pc = "read" /\ at <= Len(text)
  /\ Line.is = "theme"
  /\ parse_lines' = match
  /\ found_theme' = (found_theme \/ match)
  /\ at' = at + 1
  /\ UNCHANGED <<args, pc, loads, memory, window, text, optind, old>>

\* A line of the globals or of the theme.
settings_set_keyvalue ==
  /\ pc = "read" /\ at <= Len(text)
  /\ Line.is = "set" /\ parse_lines
  /\ settings_set_one_keyvalue(Line.key, Line.value)
  /\ at' = at + 1
  /\ UNCHANGED <<args, pc, loads, text, parse_lines, found_theme, optind, old>>

\* A line of another theme, not even looked at.
skip_line ==
  /\ pc = "read" /\ at <= Len(text)
  /\ Line.is # "theme" /\ ~parse_lines
  /\ at' = at + 1
  /\ UNCHANGED <<args, pc, loads, memory, window, text, parse_lines, found_theme, optind, old>>

\* An unknown key, or a value that does not parse.
settings_set_keyvalue_errx ==
  /\ pc = "read" /\ at <= Len(text)
  /\ Line.is = "bad" /\ parse_lines
  /\ pc' = "exited"
  /\ UNCHANGED <<args, loads, memory, window, scan, optind, old>>

\* The end of the file; the theme must have been in it.
feof ==
  /\ pc = "read" /\ at > Len(text)
  /\ pc' = IF args.theme = NoTheme \/ found_theme THEN AfterLoad ELSE "exited"
  /\ UNCHANGED <<args, loads, memory, window, scan, optind, old>>

\* An option: a switch of its own frees the string it replaces, -S does not.
settings_parse_cmdline ==
  LET o == args.options[optind] IN
  /\ pc = "cmdline" /\ optind <= Len(args.options)
  /\ IF o.switch /\ o.key = "font.desc"
     THEN /\ freed' = freed \cup {ptr[o.key]}
          /\ strings' = [strings EXCEPT ![o.key] = Append(@, o.value)]
          /\ ptr' = [ptr EXCEPT ![o.key] = <<o.key, Len(strings[o.key]) + 1>>]
          /\ UNCHANGED window
     ELSE settings_set_one_keyvalue(o.key, o.value)
  /\ optind' = optind + 1
  /\ UNCHANGED <<args, pc, loads, scan, old>>

settings_init_returns ==
  /\ pc = "cmdline" /\ optind > Len(args.options)
  /\ pc' = "setup"
  /\ UNCHANGED <<args, loads, memory, window, scan, optind, old>>

-----------------------------------------------------------------------------
(* What uses the settings, and writes to them.                              *)

\* draw_widget(): a widget without a colour gets the pointer to the font's.
gui_draw ==
  /\ ptr' = [k \in StringKeys |-> IF k \in WidgetColors /\ Current(k) = Unset
                                  THEN ptr["font.fgcolor"] ELSE ptr[k]]
  /\ UNCHANGED <<strings, freed>>

\* Mutant: the bar is aligned before its height is known.
setup_gui_YFirst ==
  LET h == IF window["window.h"] = Derive THEN Height[Current("font.desc")] ELSE window["window.h"]
  IN
  /\ pc = "setup" /\ pc' = "running"
  /\ window' = [k \in IntKeys |->
       IF window[k] # Derive THEN window[k]
       ELSE CASE k = "window.h" -> h
              [] k = "window.y" -> DisplayHeight - window["window.h"]
              [] k = "window.w" -> DisplayWidth]
  /\ gui_draw
  /\ UNCHANGED <<args, loads, scan, optind, old>>

\* setup_gui(): what is to be derived is, from the font and the display, and
\* stored over the -1 that said so; then the first drawing.
setup_gui ==
  LET h == IF window["window.h"] = Derive THEN Height[Current("font.desc")] ELSE window["window.h"]
  IN
  /\ pc = "setup" /\ pc' = "running"
  /\ window' = [k \in IntKeys |->
       IF window[k] # Derive THEN window[k]
       ELSE IF k = "window.h" THEN h
       ELSE IF k = "window.y" THEN DisplayHeight - h
       ELSE DisplayWidth]
  /\ gui_draw
  /\ UNCHANGED <<args, loads, scan, optind, old>>

\* A SIGHUP.
reload ==
  /\ pc = "running" /\ loads < MaxReloads
  /\ pc' = "open" /\ loads' = loads + 1
  /\ UNCHANGED <<args, memory, window, scan, optind, old>>

Next ==
  \/ fopen \/ fopen_fails \/ feof
  \/ theme_line \/ settings_set_keyvalue \/ skip_line \/ settings_set_keyvalue_errx
  \/ settings_parse_cmdline \/ settings_init_returns
  \/ setup_gui \/ reload

Spec == Init /\ [][Next]_vars

-----------------------------------------------------------------------------
(* Properties.                                                              *)

IsString(p) == p[1] \in StringKeys /\ p[2] \in 1..Len(strings[p[1]])

TypeOK ==
  /\ args \in Args
  /\ pc \in {"open", "read", "cmdline", "setup", "running", "exited"}
  /\ loads \in 0..MaxReloads
  /\ strings \in [StringKeys -> Seq(Strings)]
  /\ ptr \in [StringKeys -> StringKeys \X Nat]
  /\ \A k \in StringKeys : IsString(ptr[k])
  /\ freed \subseteq StringKeys \X Nat
  /\ window \in [IntKeys -> Int]
  /\ text = <<>> \/ \E f \in Files : text = f.lines
  /\ at \in 1..(Len(text) + 1)
  /\ parse_lines \in BOOLEAN /\ found_theme \in BOOLEAN
  /\ optind \in 1..(Len(args.options) + 1)

\* No key points to a freed string, though the colours of widgets share the font's
\* and a switch frees what it replaces.
NoDangling == \A k \in StringKeys : ptr[k] \notin freed

\* Line i counts: it is before any theme, or the theme it is in is the one asked for.
Applies(i) ==
  \A j \in 1..(i - 1) :
    text[j].is = "theme" /\ (\A m \in (j + 1)..(i - 1) : text[m].is # "theme") =>
      args.theme # NoTheme /\ text[j].key = args.theme

Sets(i, k) == text[i].is = "set" /\ text[i].key = k /\ Applies(i)

\* The lines that count, the last one of a key, and nothing else of the file decide;
\* a key it does not set keeps the value it had.
FileIsApplied ==
  pc = "read" \/ (pc = "cmdline" /\ optind = 1) \/ (pc = "setup" /\ loads > 0) =>
    \A k \in Keys :
      /\ \A i \in 1..(at - 1) :
           Sets(i, k) /\ (\A j \in (i + 1)..(at - 1) : ~Sets(j, k)) => Current(k) = text[i].value
      /\ (\A i \in 1..(at - 1) : ~Sets(i, k)) => Current(k) = old[k]

\* At the start the command line wins over the file, the last option of a key over
\* the others.
CommandLineWins ==
  pc = "setup" /\ loads = 0 =>
    \A i \in 1..Len(args.options) :
      (\A j \in (i + 1)..Len(args.options) : args.options[j].key # args.options[i].key) =>
        Current(args.options[i].key) = args.options[i].value

\* A bar that the file puts at the bottom of the display is there, whatever height
\* was derived for it.
BottomIsBottom ==
  /\ pc = "running"
  /\ \E i \in 1..Len(text) :
       /\ Sets(i, "window.y") /\ text[i].value = Derive
       /\ \A j \in (i + 1)..Len(text) : ~Sets(j, "window.y")
  /\ loads = 0 => \A i \in 1..Len(args.options) : args.options[i].key # "window.y"
  => window["window.y"] + window["window.h"] = DisplayHeight

-----------------------------------------------------------------------------
(* A claim of the documentation that the code does not keep.                *)

NeverSet(k) ==
  /\ \A f \in Files : \A i \in 1..Len(f.lines) : f.lines[i].is = "set" => f.lines[i].key # k
  /\ \A a \in Args : \A i \in 1..Len(a.options) : a.options[i].key # k

\* man/oxbar.1, window.h: "If set to -1, derive the height from the font described
\* and any margins/paddings specified", and -1 is the default.
HeightFollowsFont ==
  NeverSet("window.h") /\ pc = "running" => window["window.h"] = Height[Current("font.desc")]
=============================================================================
