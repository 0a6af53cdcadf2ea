--------------------------- MODULE SettingsProofs ---------------------------
(***************************************************************************)
(* Proofs about Settings, for any files, command lines, widgets and number *)
(* of reloads.                                                             *)
(***************************************************************************)
EXTENDS Settings, TLAPS

\* The font has a string of its own, the last one that was made for it; only its
\* strings are freed, and no other key points to any of them.
OwnInv ==
  /\ ptr["font.desc"] = <<"font.desc", Len(strings["font.desc"])>>
  /\ \A k \in StringKeys \ {"font.desc"} : ptr[k][1] # "font.desc"
  /\ \A p \in freed : p[1] = "font.desc" /\ p[2] < Len(strings["font.desc"])

\* parse_lines is what the lines so far make of it.
ParseInv == pc = "read" => (parse_lines <=> Applies(at))

\* The command line is parsed once, before any reload, from its first option on.
OnceInv ==
  /\ pc = "cmdline" => loads = 0
  /\ loads = 0 /\ pc \in {"open", "read"} => optind = 1
  /\ pc = "setup" /\ loads = 0 => optind = Len(args.options) + 1

\* The options so far are in force.
OptionsInv ==
  loads = 0 /\ pc \in {"cmdline", "setup"} =>
    \A i \in 1..(optind - 1) :
      (\A j \in (i + 1)..(optind - 1) : args.options[j].key # args.options[i].key) =>
        Current(args.options[i].key) = args.options[i].value

\* The conclusion of FileIsApplied.
Applied ==
  \A k \in Keys :
    /\ \A i \in 1..(at - 1) :
         Sets(i, k) /\ (\A j \in (i + 1)..(at - 1) : ~Sets(j, k)) => Current(k) = text[i].value
    /\ (\A i \in 1..(at - 1) : ~Sets(i, k)) => Current(k) = old[k]

\* The two halves of TypeOK: the settings, and the parser's place.
MemoryOK ==
  /\ strings \in [StringKeys -> Seq(Strings)]
  /\ ptr \in [StringKeys -> StringKeys \X Nat]
  /\ \A k \in StringKeys : IsString(ptr[k])
  /\ freed \subseteq StringKeys \X Nat
  /\ window \in [IntKeys -> Int]

ControlOK ==
  /\ args \in Args
  /\ pc \in {"open", "read", "cmdline", "setup", "running", "exited"}
  /\ loads \in 0..MaxReloads
  /\ text = <<>> \/ \E f \in Files : text = f.lines
  /\ at \in 1..(Len(text) + 1)
  /\ parse_lines \in BOOLEAN /\ found_theme \in BOOLEAN
  /\ optind \in 1..(Len(args.options) + 1)

IInv ==
  /\ MemoryOK /\ ControlOK /\ OwnInv
  /\ ParseInv /\ OnceInv /\ OptionsInv /\ FileIsApplied

-----------------------------------------------------------------------------
(* Lemmas about the settings.                                               *)

\* A string that is made for key k: k has its value, every other key the value it
\* had, also one that points to an older string of k.
LEMMA Strdup ==
  ASSUME NEW k \in StringKeys, NEW v \in Strings, MemoryOK, OwnInv,
         strings' = [strings EXCEPT ![k] = Append(@, v)],
         ptr' = [ptr EXCEPT ![k] = <<k, Len(strings[k]) + 1>>],
         freed' = freed \/ (k = "font.desc" /\ freed' = freed \cup {ptr[k]}),
         window' = window
  PROVE  /\ MemoryOK' /\ OwnInv'
         /\ Current(k)' = v
         /\ \A j \in Keys \ {k} : Current(j)' = Current(j)
<1> USE DEF MemoryOK, OwnInv
<1>1. k \notin IntKeys
  BY SettingsAssumption DEF SettingsAssumption, StringKeys, IntKeys
<1>2. Len(strings[k]) \in Nat /\ strings[k] \in Seq(Strings)
  OBVIOUS
<1>3. /\ strings'[k] = Append(strings[k], v) /\ strings'[k] \in Seq(Strings)
      /\ Len(strings'[k]) = Len(strings[k]) + 1
      /\ strings'[k][Len(strings[k]) + 1] = v
      /\ \A n \in 1..Len(strings[k]) : strings'[k][n] = strings[k][n]
  BY <1>2
<1>4. \A j \in StringKeys \ {k} : strings'[j] = strings[j] /\ ptr'[j] = ptr[j]
  OBVIOUS
<1>5. ptr'[k] = <<k, Len(strings[k]) + 1>>
  OBVIOUS
<1>6. ASSUME NEW j \in StringKeys PROVE IsString(ptr[j])'
  <2>1. CASE j = k
    BY <1>2, <1>3, <1>5, <2>1 DEF IsString
  <2>2. CASE j # k
    <3>1. ptr'[j] = ptr[j] /\ IsString(ptr[j])
      BY <1>4, <2>2
    <3>2. Len(strings'[ptr[j][1]]) \in Nat /\ Len(strings'[ptr[j][1]]) >= Len(strings[ptr[j][1]])
      BY <1>2, <1>3, <1>4, <3>1 DEF IsString
    <3> QED
      BY <3>1, <3>2 DEF IsString
  <2> QED
    BY <2>1, <2>2
<1>7. MemoryOK'
  <2>1. strings' \in [StringKeys -> Seq(Strings)]
    BY <1>3
  <2>2. ptr' \in [StringKeys -> StringKeys \X Nat]
    <3>1. <<k, Len(strings[k]) + 1>> \in StringKeys \X Nat
      BY <1>2
    <3> QED
      BY <3>1
  <2>3. freed' \subseteq StringKeys \X Nat
    OBVIOUS
  <2> QED
    BY <1>6, <2>1, <2>2, <2>3
<1>8. OwnInv'
  BY <1>2, <1>3, <1>4, <1>5 DEF StringKeys
<1>9. Current(k)' = v
  BY <1>1, <1>3, <1>5 DEF Current
<1>10. ASSUME NEW j \in Keys \ {k} PROVE Current(j)' = Current(j)
  <2>1. CASE j \in IntKeys
    BY <2>1 DEF Current
  <2>2. CASE j \notin IntKeys
    <3>1. j \in StringKeys /\ IsString(ptr[j]) /\ ptr'[j] = ptr[j]
      BY <1>4, <2>2 DEF Keys
    <3>2. strings'[ptr[j][1]][ptr[j][2]] = strings[ptr[j][1]][ptr[j][2]]
      BY <1>3, <1>4, <3>1 DEF IsString
    <3> QED
      BY <2>2, <3>1, <3>2 DEF Current
  <2> QED
    BY <2>1, <2>2
<1> QED
  BY <1>7, <1>8, <1>9, <1>10

\* A key is set, and no other changes.
LEMMA SetKey ==
  ASSUME NEW k \in Keys, NEW v, MemoryOK, OwnInv,
         k \in StringKeys => v \in Strings, k \in IntKeys => v \in Int,
         settings_set_one_keyvalue(k, v)
  PROVE  /\ MemoryOK' /\ OwnInv'
         /\ Current(k)' = v
         /\ \A j \in Keys \ {k} : Current(j)' = Current(j)
<1>1. CASE k \in IntKeys
  BY <1>1 DEF settings_set_one_keyvalue, memory, MemoryOK, OwnInv, IsString, Current
<1>2. CASE k \notin IntKeys
  <2>1. k \in StringKeys
    BY <1>2 DEF Keys
  <2>2. /\ strings' = [strings EXCEPT ![k] = Append(@, v)]
        /\ ptr' = [ptr EXCEPT ![k] = <<k, Len(strings[k]) + 1>>]
        /\ freed' = freed /\ window' = window
    BY <1>2 DEF settings_set_one_keyvalue, KMS_STRING
  <2> QED
    BY <2>1, <2>2, Strdup
<1> QED
  BY <1>1, <1>2

\* Nothing of the settings changes.
LEMMA SameMemory ==
  ASSUME UNCHANGED <<memory, window>>
  PROVE  /\ MemoryOK => MemoryOK'
         /\ OwnInv => OwnInv'
         /\ \A k \in Keys : Current(k)' = Current(k)
  BY DEF memory, MemoryOK, OwnInv, IsString, Current

\* Which lines count, as far as line n, depends on the text and the theme alone.
LEMMA SameText ==
  ASSUME UNCHANGED <<args, text>>
  PROVE  /\ \A i \in Nat : Applies(i)' <=> Applies(i)
         /\ \A i \in Nat : \A k \in Keys : Sets(i, k)' <=> Sets(i, k)
  BY DEF Applies, Sets

\* The lines are fine: a line that is set has a key, and a value of its type.
LEMMA LineIsSet ==
  ASSUME ControlOK, NEW i \in 1..Len(text), text[i].is = "set"
  PROVE  /\ text[i].key \in Keys
         /\ text[i].key \in StringKeys => text[i].value \in Strings
         /\ text[i].key \in IntKeys => text[i].value \in Int
<1>1. CASE text = <<>>
  BY <1>1
<1>2. ASSUME NEW f \in Files, text = f.lines PROVE IsSet(text[i])
  BY <1>2, SettingsAssumption DEF SettingsAssumption
<1> QED
  BY <1>1, <1>2 DEF ControlOK, IsSet

\* A line that counts decides for its key, and one that does not count changes
\* nothing.
LEMMA OneLine ==
  ASSUME at \in Nat \ {0}, Applied, UNCHANGED <<args, text, old>>, at' = at + 1,
         \A k \in Keys : Sets(at, k) => Current(k)' = text[at].value,
         \A k \in Keys : ~Sets(at, k) => Current(k)' = Current(k)
  PROVE  Applied'
<1>1. \A i \in 1..at : \A k \in Keys : Sets(i, k)' <=> Sets(i, k)
  BY SameText
<1> SUFFICES ASSUME NEW k \in Keys
             PROVE  /\ \A i \in 1..at :
                         Sets(i, k) /\ (\A j \in (i + 1)..at : ~Sets(j, k))
                           => Current(k)' = text[i].value
                    /\ (\A i \in 1..at : ~Sets(i, k)) => Current(k)' = old[k]
  BY <1>1 DEF Applied
<1>2. CASE Sets(at, k)
  BY <1>2
<1>3. CASE ~Sets(at, k)
  <2>1. ASSUME NEW i \in 1..at, Sets(i, k), \A j \in (i + 1)..at : ~Sets(j, k)
        PROVE  Current(k)' = text[i].value
    <3>1. i \in 1..(at - 1) /\ \A j \in (i + 1)..(at - 1) : ~Sets(j, k)
      BY <1>3, <2>1
    <3> QED
      BY <1>3, <2>1, <3>1 DEF Applied
  <2>2. ASSUME \A i \in 1..at : ~Sets(i, k) PROVE Current(k)' = old[k]
    BY <1>3, <2>2 DEF Applied
  <2> QED
    BY <2>1, <2>2
<1> QED
  BY <1>2, <1>3

\* The section of the line after one that starts no theme is the same.
LEMMA SameSection ==
  ASSUME at \in Nat \ {0}, text[at].is # "theme"
  PROVE  Applies(at + 1) <=> Applies(at)
<1>1. ASSUME Applies(at), NEW j \in 1..((at + 1) - 1), text[j].is = "theme",
             \A m \in (j + 1)..((at + 1) - 1) : text[m].is # "theme"
      PROVE  args.theme # NoTheme /\ text[j].key = args.theme
  <2>1. j \in 1..(at - 1) /\ \A m \in (j + 1)..(at - 1) : text[m].is # "theme"
    BY <1>1
  <2> QED
    BY <1>1, <2>1 DEF Applies
<1>2. ASSUME Applies(at + 1), NEW j \in 1..(at - 1), text[j].is = "theme",
             \A m \in (j + 1)..(at - 1) : text[m].is # "theme"
      PROVE  args.theme # NoTheme /\ text[j].key = args.theme
  <2>1. j \in 1..((at + 1) - 1) /\ \A m \in (j + 1)..((at + 1) - 1) : text[m].is # "theme"
    BY <1>2
  <2> QED
    BY <1>2, <2>1 DEF Applies
<1> QED
  BY <1>1, <1>2 DEF Applies

\* The section after a line that starts a theme is that theme.
LEMMA NewSection ==
  ASSUME at \in Nat \ {0}, text[at].is = "theme"
  PROVE  Applies(at + 1) <=> args.theme # NoTheme /\ text[at].key = args.theme
<1>1. at \in 1..((at + 1) - 1) /\ \A m \in (at + 1)..((at + 1) - 1) : text[m].is # "theme"
  OBVIOUS
<1>2. ASSUME NEW j \in 1..((at + 1) - 1), \A m \in (j + 1)..((at + 1) - 1) : text[m].is # "theme"
      PROVE  j = at
  BY <1>2
<1> QED
  BY <1>1, <1>2 DEF Applies

-----------------------------------------------------------------------------
(* Each step preserves IInv.                                                *)

\* IInv holds of the defaults.
LEMMA InitIInv == Init => IInv
<1> SUFFICES ASSUME Init PROVE IInv
  OBVIOUS
<1> USE DEF Init
<1>1. \A k \in StringKeys : strings[k] \in Seq(Strings) /\ Len(strings[k]) = 1
  BY SettingsAssumption DEF SettingsAssumption
<1>2. MemoryOK
  <2>1. "font.desc" \in StringKeys /\ "font.fgcolor" \in StringKeys
    BY DEF StringKeys
  <2>2. window \in [IntKeys -> Int]
    BY DEF Derive
  <2> QED
    BY <1>1, <2>1, <2>2 DEF MemoryOK, IsString
<1>3. ControlOK
  <2>1. Len(args.options) \in Nat /\ MaxReloads \in Nat
    BY SettingsAssumption DEF SettingsAssumption
  <2>2. /\ args \in Args /\ pc = "open" /\ loads = 0 /\ optind = 1 /\ at = 1
        /\ text = <<>> /\ parse_lines = TRUE /\ found_theme = FALSE /\ Len(text) = 0
    OBVIOUS
  <2> HIDE DEF Init
  <2>3. at \in 1..(Len(text) + 1) /\ optind \in 1..(Len(args.options) + 1) /\ loads \in 0..MaxReloads
    BY <2>1, <2>2
  <2> QED
    BY <2>2, <2>3 DEF ControlOK
<1>4. OwnInv
  BY <1>1 DEF OwnInv, StringKeys
<1>5. ParseInv /\ OnceInv /\ OptionsInv /\ FileIsApplied
  BY DEF ParseInv, OnceInv, OptionsInv, FileIsApplied
<1> QED
  BY <1>2, <1>3, <1>4, <1>5 DEF IInv

\* The file is opened: no line was read yet.
LEMMA OpenStep == IInv /\ (fopen \/ fopen_fails) => IInv'
<1> SUFFICES ASSUME IInv, fopen \/ fopen_fails PROVE IInv'
  OBVIOUS
<1> USE DEF IInv
<1>1. /\ pc = "open" /\ pc' \in {"read", "exited", "cmdline", "setup"}
      /\ pc' = "cmdline" => loads = 0
      /\ pc' = "setup" => loads # 0
      /\ at' = 1 /\ parse_lines' = TRUE /\ found_theme' = FALSE
      /\ old' = [k \in Keys |-> Current(k)]
      /\ UNCHANGED <<args, loads, memory, window, optind>>
      /\ text' = <<>> \/ \E f \in Files : text' = f.lines
  BY DEF fopen, fopen_fails, AfterLoad
<1>2. MemoryOK' /\ OwnInv' /\ \A k \in Keys : Current(k)' = Current(k)
  BY <1>1, SameMemory
<1>3. Len(text') \in Nat
  BY <1>1, SettingsAssumption DEF SettingsAssumption
<1>4. ControlOK'
  <2>1. at' \in 1..(Len(text') + 1)
    BY <1>1, <1>3
  <2> QED
    BY <1>1, <2>1 DEF ControlOK
<1>5. ParseInv'
  BY <1>1 DEF ParseInv, Applies
<1>6. OnceInv'
  BY <1>1 DEF OnceInv
<1>7. OptionsInv'
  BY <1>1 DEF OptionsInv, OnceInv
<1>8. Applied'
  BY <1>1, <1>2 DEF Applied
<1> QED
  BY <1>2, <1>4, <1>5, <1>6, <1>7, <1>8 DEF FileIsApplied, Applied

\* A line that starts a theme.
LEMMA ThemeStep == IInv /\ theme_line => IInv'
<1> SUFFICES ASSUME IInv, theme_line PROVE IInv'
  OBVIOUS
<1> USE DEF IInv
<1>1. /\ pc = "read" /\ pc' = pc /\ at <= Len(text) /\ text[at].is = "theme"
      /\ parse_lines' = (args.theme # NoTheme /\ text[at].key = args.theme)
      /\ found_theme' \in BOOLEAN /\ at' = at + 1
      /\ UNCHANGED <<args, loads, memory, window, text, optind, old>>
  BY DEF theme_line, Line, ControlOK
<1>2. MemoryOK' /\ OwnInv' /\ \A k \in Keys : Current(k)' = Current(k)
  BY <1>1, SameMemory
<1>3. at \in Nat \ {0} /\ Len(text) \in Nat
  BY SettingsAssumption DEF ControlOK, SettingsAssumption
<1>4. ControlOK'
  BY <1>1, <1>2, <1>3 DEF ControlOK
<1>5. ParseInv'
  BY <1>1, <1>3, NewSection DEF ParseInv, Applies
<1>6. OnceInv' /\ OptionsInv'
  BY <1>1 DEF OnceInv, OptionsInv
<1>7. Applied'
  <2>1. Applied
    BY <1>1 DEF FileIsApplied, Applied
  <2>2. \A k \in Keys : ~Sets(at, k)
    BY <1>1 DEF Sets
  <2> QED
    BY <1>1, <1>2, <1>3, <2>1, <2>2, OneLine
<1> QED
  BY <1>2, <1>4, <1>5, <1>6, <1>7 DEF FileIsApplied, Applied

\* A line that counts sets its key.
LEMMA LineStep == IInv /\ settings_set_keyvalue => IInv'
<1> SUFFICES ASSUME IInv, settings_set_keyvalue PROVE IInv'
  OBVIOUS
<1> USE DEF IInv
<1>0. PICK k, v : k = text[at].key /\ v = text[at].value
  OBVIOUS
<1>1. /\ pc = "read" /\ pc' = pc /\ at <= Len(text) /\ text[at].is = "set" /\ parse_lines
      /\ settings_set_one_keyvalue(k, v)
      /\ at' = at + 1
      /\ UNCHANGED <<args, loads, text, parse_lines, found_theme, optind, old>>
  BY <1>0 DEF settings_set_keyvalue, Line
<1>2. at \in Nat \ {0} /\ Len(text) \in Nat /\ at \in 1..Len(text)
  BY <1>1, SettingsAssumption DEF ControlOK, SettingsAssumption
<1>3. k \in Keys /\ (k \in StringKeys => v \in Strings) /\ (k \in IntKeys => v \in Int)
  BY <1>0, <1>1, <1>2, LineIsSet
<1>4. /\ MemoryOK' /\ OwnInv' /\ Current(k)' = v
      /\ \A j \in Keys \ {k} : Current(j)' = Current(j)
  BY <1>1, <1>3, SetKey
<1>5. ControlOK'
  BY <1>1, <1>2, <1>4 DEF ControlOK
<1>6. ParseInv'
  BY <1>1, <1>2, SameSection, SameText DEF ParseInv
<1>7. OnceInv' /\ OptionsInv'
  BY <1>1 DEF OnceInv, OptionsInv
<1>8. Applied'
  <2>1. Applied
    BY <1>1 DEF FileIsApplied, Applied
  <2>2. \A j \in Keys : Sets(at, j) <=> j = k
    BY <1>0, <1>1 DEF Sets, ParseInv
  <2>3. /\ \A j \in Keys : Sets(at, j) => Current(j)' = text[at].value
        /\ \A j \in Keys : ~Sets(at, j) => Current(j)' = Current(j)
    BY <1>0, <1>4, <2>2
  <2> QED
    BY <1>1, <1>2, <2>1, <2>3, OneLine
<1> QED
  BY <1>4, <1>5, <1>6, <1>7, <1>8 DEF FileIsApplied, Applied

\* A line of another theme.
LEMMA SkipStep == IInv /\ skip_line => IInv'
<1> SUFFICES ASSUME IInv, skip_line PROVE IInv'
  OBVIOUS
<1> USE DEF IInv
<1>1. /\ pc = "read" /\ pc' = pc /\ at <= Len(text) /\ text[at].is # "theme" /\ ~parse_lines
      /\ at' = at + 1
      /\ UNCHANGED <<args, loads, memory, window, text, parse_lines, found_theme, optind, old>>
  BY DEF skip_line, Line
<1>2. MemoryOK' /\ OwnInv' /\ \A k \in Keys : Current(k)' = Current(k)
  BY <1>1, SameMemory
<1>3. at \in Nat \ {0} /\ Len(text) \in Nat
  BY SettingsAssumption DEF ControlOK, SettingsAssumption
<1>4. ControlOK'
  BY <1>1, <1>2, <1>3 DEF ControlOK
<1>5. ParseInv'
  BY <1>1, <1>3, SameSection, SameText DEF ParseInv
<1>6. OnceInv' /\ OptionsInv'
  BY <1>1 DEF OnceInv, OptionsInv
<1>7. Applied'
  <2>1. Applied
    BY <1>1 DEF FileIsApplied, Applied
  <2>2. \A k \in Keys : ~Sets(at, k)
    BY <1>1 DEF Sets, ParseInv
  <2> QED
    BY <1>1, <1>2, <1>3, <2>1, <2>2, OneLine
<1> QED
  BY <1>2, <1>4, <1>5, <1>6, <1>7 DEF FileIsApplied, Applied

\* The end of the file, or a line that ends the program.
LEMMA EndStep == IInv /\ (feof \/ settings_set_keyvalue_errx) => IInv'
<1> SUFFICES ASSUME IInv, feof \/ settings_set_keyvalue_errx PROVE IInv'
  OBVIOUS
<1> USE DEF IInv
<1>1. /\ pc = "read" /\ pc' \in {"exited", "cmdline", "setup"}
      /\ pc' = "cmdline" => loads = 0
      /\ pc' = "setup" => loads # 0
      /\ UNCHANGED <<args, loads, memory, window, scan, optind, old>>
  BY DEF feof, settings_set_keyvalue_errx, AfterLoad
<1>2. MemoryOK' /\ OwnInv' /\ \A k \in Keys : Current(k)' = Current(k)
  BY <1>1, SameMemory
<1>3. ControlOK'
  BY <1>1 DEF ControlOK, scan
<1>4. ParseInv' /\ OnceInv'
  BY <1>1 DEF ParseInv, OnceInv
<1>5. OptionsInv'
  BY <1>1 DEF OptionsInv, OnceInv
<1>6. FileIsApplied'
  <2>1. Applied
    BY <1>1 DEF FileIsApplied, Applied
  <2>2. /\ args' = args /\ text' = text /\ at' = at /\ old' = old /\ at \in Nat
    BY <1>1, SettingsAssumption DEF scan, ControlOK, SettingsAssumption
  <2>3. Applied'
    BY <1>2, <2>1, <2>2 DEF Applied, Sets, Applies
  <2> QED
    BY <2>3 DEF FileIsApplied, Applied
<1> QED
  BY <1>2, <1>3, <1>4, <1>5, <1>6

\* An option sets its key, with or without freeing what was there.
LEMMA OptionStep == IInv /\ settings_parse_cmdline => IInv'
<1> SUFFICES ASSUME IInv, settings_parse_cmdline PROVE IInv'
  OBVIOUS
<1> USE DEF IInv
<1>0. PICK k, v : k = args.options[optind].key /\ v = args.options[optind].value
  OBVIOUS
<1>1. /\ pc = "cmdline" /\ pc' = pc /\ optind <= Len(args.options) /\ optind' = optind + 1
      /\ UNCHANGED <<args, loads, scan, old>>
  BY DEF settings_parse_cmdline
<1>2. /\ Len(args.options) \in Nat /\ optind \in 1..Len(args.options)
      /\ k \in Keys /\ (k \in StringKeys => v \in Strings) /\ (k \in IntKeys => v \in Int)
  BY <1>0, <1>1, SettingsAssumption DEF ControlOK, SettingsAssumption, IsSet
<1>3. /\ MemoryOK' /\ OwnInv' /\ Current(k)' = v
      /\ \A j \in Keys \ {k} : Current(j)' = Current(j)
  <2>1. CASE settings_set_one_keyvalue(k, v)
    BY <1>2, <2>1, SetKey
  <2>2. CASE /\ k = "font.desc" /\ freed' = freed \cup {ptr[k]} /\ window' = window
             /\ strings' = [strings EXCEPT ![k] = Append(@, v)]
             /\ ptr' = [ptr EXCEPT ![k] = <<k, Len(strings[k]) + 1>>]
    <3>1. k \in StringKeys
      BY <2>2 DEF StringKeys
    <3> QED
      BY <1>2, <2>2, <3>1, Strdup
  <2>3. \/ settings_set_one_keyvalue(k, v)
        \/ /\ k = "font.desc" /\ freed' = freed \cup {ptr[k]} /\ window' = window
           /\ strings' = [strings EXCEPT ![k] = Append(@, v)]
           /\ ptr' = [ptr EXCEPT ![k] = <<k, Len(strings[k]) + 1>>]
    BY <1>0 DEF settings_parse_cmdline
  <2> QED
    BY <2>1, <2>2, <2>3
<1>4. ControlOK'
  BY <1>1, <1>2 DEF ControlOK, scan
<1>5. ParseInv' /\ OnceInv'
  BY <1>1 DEF ParseInv, OnceInv
<1>6. OptionsInv'
  <2> SUFFICES ASSUME NEW i \in 1..optind,
                      \A j \in (i + 1)..optind : args.options[j].key # args.options[i].key
               PROVE  \A j \in Keys : j = args.options[i].key => Current(j)' = args.options[i].value
    <3>1. \A i \in 1..optind : args.options[i].key \in Keys
      BY <1>2, SettingsAssumption DEF ControlOK, SettingsAssumption, IsSet
    <3>2. optind \in Nat /\ optind' - 1 = optind /\ args' = args
      BY <1>1, <1>2
    <3> QED
      BY <3>1, <3>2 DEF OptionsInv, Current
  <2>1. CASE i = optind
    BY <1>0, <1>2, <1>3, <2>1
  <2>2. CASE i # optind
    <3>1. /\ i \in 1..(optind - 1) /\ optind \in (i + 1)..optind
          /\ \A j \in (i + 1)..(optind - 1) : args.options[j].key # args.options[i].key
      BY <1>2, <2>2
    <3>2. Current(args.options[i].key) = args.options[i].value
      BY <1>1, <3>1 DEF OptionsInv, OnceInv
    <3>3. args.options[i].key # k
      BY <1>0, <3>1
    <3> QED
      BY <1>3, <3>2, <3>3
  <2> QED
    BY <2>1, <2>2
<1>7. FileIsApplied'
  BY <1>1, <1>2 DEF FileIsApplied
<1> QED
  BY <1>3, <1>4, <1>5, <1>6, <1>7

\* The end of the options.
LEMMA ReturnStep == IInv /\ settings_init_returns => IInv'
<1> SUFFICES ASSUME IInv, settings_init_returns PROVE IInv'
  OBVIOUS
<1> USE DEF IInv
<1>1. /\ pc = "cmdline" /\ pc' = "setup" /\ optind > Len(args.options) /\ loads = 0
      /\ UNCHANGED <<args, loads, memory, window, scan, optind, old>>
  BY DEF settings_init_returns, OnceInv
<1>2. MemoryOK' /\ OwnInv' /\ \A k \in Keys : Current(k)' = Current(k)
  BY <1>1, SameMemory
<1>3. ControlOK'
  BY <1>1 DEF ControlOK, scan
<1>4. optind = Len(args.options) + 1
  BY <1>1, SettingsAssumption DEF ControlOK, SettingsAssumption
<1>5. ParseInv' /\ OnceInv' /\ FileIsApplied'
  BY <1>1, <1>4 DEF ParseInv, OnceInv, FileIsApplied
<1>6. OptionsInv'
  BY <1>1 DEF OptionsInv, Current, memory
<1> QED
  BY <1>2, <1>3, <1>5, <1>6

\* What is derived is stored, and colours come to be shared: the font's string is
\* not among them.
LEMMA SetupStep == IInv /\ setup_gui => IInv'
<1> SUFFICES ASSUME IInv, setup_gui PROVE IInv'
  OBVIOUS
<1> USE DEF IInv
<1>1. /\ pc' = "running" /\ UNCHANGED <<args, loads, scan, optind, old, strings, freed>>
      /\ ptr' = [k \in StringKeys |-> IF k \in WidgetColors /\ Current(k) = Unset
                                      THEN ptr["font.fgcolor"] ELSE ptr[k]]
  BY DEF setup_gui, gui_draw
<1>2. /\ "font.desc" \in StringKeys /\ "font.fgcolor" \in StringKeys
      /\ "font.desc" \notin WidgetColors /\ "font.desc" \notin IntKeys
  BY SettingsAssumption DEF SettingsAssumption, StringKeys, IntKeys
<1>3. \A k \in StringKeys : ptr'[k] = ptr[k] \/ (k \in WidgetColors /\ ptr'[k] = ptr["font.fgcolor"])
  BY <1>1
<1>4. window' \in [IntKeys -> Int]
  <2>1. Current("font.desc") \in Strings
    BY <1>2 DEF Current, MemoryOK, IsString
  <2>2. Height[Current("font.desc")] \in Int
    BY <2>1, SettingsAssumption DEF SettingsAssumption
  <2>3. PICK h : h = IF window["window.h"] = Derive THEN Height[Current("font.desc")]
                     ELSE window["window.h"]
    OBVIOUS
  <2>4. h \in Int
    BY <2>2, <2>3 DEF MemoryOK, IntKeys
  <2>5. window' = [k \in IntKeys |->
          IF window[k] # Derive THEN window[k]
          ELSE IF k = "window.h" THEN h
          ELSE IF k = "window.y" THEN DisplayHeight - h
          ELSE DisplayWidth]
    BY <2>3 DEF setup_gui
  <2>6. DisplayHeight - h \in Int /\ DisplayWidth \in Int
    BY <2>4, SettingsAssumption DEF SettingsAssumption
  <2>7. \A k \in IntKeys : window[k] \in Int
    BY DEF MemoryOK
  <2> QED
    BY <2>4, <2>5, <2>6, <2>7
<1>5. MemoryOK'
  <2>1. \A k \in StringKeys : ptr'[k] \in StringKeys \X Nat /\ IsString(ptr[k])' 
    BY <1>1, <1>2, <1>3 DEF MemoryOK, IsString
  <2> QED
    BY <1>1, <1>4, <2>1 DEF MemoryOK
<1>6. OwnInv'
  BY <1>1, <1>2, <1>3 DEF OwnInv
<1>7. ControlOK'
  BY <1>1 DEF ControlOK, scan
<1>8. ParseInv' /\ OnceInv' /\ OptionsInv' /\ FileIsApplied'
  BY <1>1 DEF ParseInv, OnceInv, OptionsInv, FileIsApplied
<1> QED
  BY <1>5, <1>6, <1>7, <1>8

\* A SIGHUP: from then on it is no longer the first load.
LEMMA ReloadStep == IInv /\ reload => IInv'
<1> SUFFICES ASSUME IInv, reload PROVE IInv'
  OBVIOUS
<1> USE DEF IInv
<1>1. /\ pc' = "open" /\ loads < MaxReloads /\ loads' = loads + 1
      /\ UNCHANGED <<args, memory, window, scan, optind, old>>
  BY DEF reload
<1>2. MemoryOK' /\ OwnInv'
  BY <1>1, SameMemory
<1>3. loads' \in 0..MaxReloads /\ loads' # 0
  BY <1>1, SettingsAssumption DEF ControlOK, SettingsAssumption
<1>4. ControlOK'
  BY <1>1, <1>3 DEF ControlOK, scan
<1>5. ParseInv' /\ OnceInv' /\ OptionsInv' /\ FileIsApplied'
  BY <1>1, <1>3 DEF ParseInv, OnceInv, OptionsInv, FileIsApplied
<1> QED
  BY <1>2, <1>4, <1>5

\* Nothing happens.
LEMMA StutterStep == IInv /\ UNCHANGED vars => IInv'
<1> SUFFICES ASSUME IInv, UNCHANGED vars PROVE IInv'
  OBVIOUS
<1> USE DEF IInv
<1>1. UNCHANGED <<args, pc, loads, memory, window, text, at, parse_lines, found_theme, optind, old>>
  BY DEF vars, scan
<1>2. MemoryOK' /\ OwnInv' /\ \A k \in Keys : Current(k)' = Current(k)
  BY <1>1, SameMemory
<1>3. ControlOK' /\ OnceInv'
  BY <1>1 DEF ControlOK, OnceInv
<1>4. ParseInv'
  BY <1>1 DEF ParseInv, Applies
<1>5. OptionsInv'
  BY <1>1 DEF OptionsInv, Current, memory
<1>6. FileIsApplied'
  BY <1>1 DEF FileIsApplied, Sets, Applies, Current, memory
<1> QED
  BY <1>2, <1>3, <1>4, <1>5, <1>6

-----------------------------------------------------------------------------
(* The theorems.                                                            *)

\* The invariant of the settings holds at every step.
THEOREM Invariance == Spec => []IInv
<1>1. Init => IInv
  BY InitIInv
<1>2. IInv /\ [Next]_vars => IInv'
  BY OpenStep, ThemeStep, LineStep, SkipStep, EndStep, OptionStep, ReturnStep,
     SetupStep, ReloadStep, StutterStep DEF Next
<1> QED
  BY <1>1, <1>2, PTL DEF Spec

\* Every variable has its type; every string key points to a string that was made.
THEOREM TypeCorrect == Spec => []TypeOK
<1>1. IInv => TypeOK
  BY DEF IInv, MemoryOK, ControlOK, TypeOK
<1> QED
  BY <1>1, Invariance, PTL

\* No key of settings ever points to freed memory, though -f frees the font it
\* replaces and gui_draw() makes widgets share the font's colour.
THEOREM NoDanglingEver == Spec => []NoDangling
<1>1. IInv => NoDangling
  BY DEF IInv, OwnInv, NoDangling
<1> QED
  BY <1>1, Invariance, PTL

\* After any part of any file, the settings are those its lines say, and those from
\* before where no line that counts says anything.
THEOREM FileApplied == Spec => []FileIsApplied
<1>1. IInv => FileIsApplied
  BY DEF IInv
<1> QED
  BY <1>1, Invariance, PTL

\* At the start, the last option of a key is in force, whatever the file says.
THEOREM CommandLineFirst == Spec => []CommandLineWins
<1>1. IInv => CommandLineWins
  <2> SUFFICES ASSUME IInv, pc = "setup", loads = 0 PROVE CommandLineWins
    BY DEF CommandLineWins
  <2>1. optind = Len(args.options) + 1 /\ Len(args.options) \in Nat
    BY SettingsAssumption DEF IInv, OnceInv, ControlOK, SettingsAssumption
  <2>2. optind - 1 = Len(args.options)
    BY <2>1
  <2> QED
    BY <2>2 DEF IInv, OptionsInv, CommandLineWins, Current
<1> QED
  BY <1>1, Invariance, PTL

-----------------------------------------------------------------------------
(* The bar at the bottom.                                                   *)

\* The file puts the bar at the bottom, and no option puts it elsewhere.
Asks ==
  /\ \E i \in 1..Len(text) :
       /\ Sets(i, "window.y") /\ text[i].value = Derive
       /\ \A j \in (i + 1)..Len(text) : ~Sets(j, "window.y")
  /\ loads = 0 => \A i \in 1..Len(args.options) : args.options[i].key # "window.y"

\* From the end of the file on the -1 stays until it is replaced.
BottomInv ==
  /\ pc \in {"cmdline", "setup"} /\ Asks => window["window.y"] = Derive
  /\ pc = "running" /\ Asks => window["window.y"] + window["window.h"] = DisplayHeight

LEMMA BottomStep == IInv /\ BottomInv /\ [Next]_vars => BottomInv'
<1> SUFFICES ASSUME IInv, BottomInv, [Next]_vars PROVE BottomInv'
  OBVIOUS
<1>0. /\ "window.y" \in IntKeys /\ "window.h" \in IntKeys /\ "window.y" \in Keys
      /\ window \in [IntKeys -> Int]
      /\ Len(text) \in Nat /\ at \in 1..(Len(text) + 1)
  BY SettingsAssumption DEF IntKeys, Keys, IInv, MemoryOK, ControlOK
<1>1. UNCHANGED <<text, args, loads>> => (Asks' <=> Asks)
  BY DEF Asks, Sets, Applies
<1>2. CASE fopen \/ reload \/ theme_line \/ settings_set_keyvalue \/ skip_line
           \/ settings_set_keyvalue_errx
  <2>1. pc' \in {"open", "read", "exited"}
    BY <1>2 DEF fopen, reload, theme_line, settings_set_keyvalue, skip_line, settings_set_keyvalue_errx
  <2> QED
    BY <2>1 DEF BottomInv
<1>3. CASE fopen_fails
  <2>1. text' = <<>> /\ pc' \in {"exited", "cmdline", "setup"}
    BY <1>3 DEF fopen_fails, AfterLoad
  <2>2. ~Asks'
    BY <2>1 DEF Asks
  <2> QED
    BY <2>1, <2>2 DEF BottomInv
<1>4. CASE feof
  <2>1. /\ pc = "read" /\ at > Len(text) /\ pc' \in {"exited", "cmdline", "setup"}
        /\ UNCHANGED <<text, args, loads, window>>
    BY <1>4 DEF feof, AfterLoad, scan
  <2>2. at - 1 = Len(text)
    BY <1>0, <2>1
  <2>3. Applied
    BY <2>1 DEF IInv, FileIsApplied, Applied
  <2>4. Asks => Current("window.y") = Derive
    BY <1>0, <2>2, <2>3 DEF Asks, Applied
  <2> QED
    BY <1>0, <1>1, <2>1, <2>4 DEF BottomInv, Current
<1>5. CASE settings_parse_cmdline
  <2>1. /\ pc = "cmdline" /\ pc' = pc /\ optind \in 1..Len(args.options) /\ loads = 0
        /\ UNCHANGED <<text, args, loads>>
    <3>1. Len(args.options) \in Nat
      BY SettingsAssumption DEF IInv, ControlOK
    <3> QED
      BY <1>5, <3>1 DEF settings_parse_cmdline, scan, IInv, OnceInv, ControlOK
  <2>2. window' = window \/ \E v : window' = [window EXCEPT ![args.options[optind].key] = v]
    BY <1>5 DEF settings_parse_cmdline, settings_set_one_keyvalue
  <2>3. Asks => args.options[optind].key # "window.y"
    BY <2>1 DEF Asks
  <2>4. Asks => window'["window.y"] = window["window.y"]
    BY <1>0, <2>2, <2>3
  <2> QED
    BY <1>1, <2>1, <2>4 DEF BottomInv
<1>6. CASE settings_init_returns
  <2>1. pc = "cmdline" /\ pc' = "setup" /\ UNCHANGED <<text, args, loads, window>>
    BY <1>6 DEF settings_init_returns, scan
  <2> QED
    BY <1>1, <2>1 DEF BottomInv
<1>7. CASE setup_gui
  <2>1. pc = "setup" /\ pc' = "running" /\ UNCHANGED <<text, args, loads>>
    BY <1>7 DEF setup_gui, scan
  <2>2. PICK h : h = IF window["window.h"] = Derive THEN Height[Current("font.desc")]
                     ELSE window["window.h"]
    OBVIOUS
  <2>3. window' = [k \in IntKeys |->
          IF window[k] # Derive THEN window[k]
          ELSE IF k = "window.h" THEN h
          ELSE IF k = "window.y" THEN DisplayHeight - h
          ELSE DisplayWidth]
    BY <1>7, <2>2 DEF setup_gui
  <2>4. h \in Int /\ DisplayHeight \in Int
    <3>1. Current("font.desc") \in Strings
      BY SettingsAssumption DEF Current, IInv, MemoryOK, IsString, StringKeys, IntKeys
    <3>2. Height[Current("font.desc")] \in Int /\ window["window.h"] \in Int
      BY <1>0, <3>1, SettingsAssumption
    <3> QED
      BY <2>2, <3>2, SettingsAssumption
  <2>5. window'["window.h"] = h
    BY <1>0, <2>2, <2>3
  <2>6. Asks => window'["window.y"] = DisplayHeight - h
    BY <1>0, <2>1, <2>3 DEF BottomInv
  <2> QED
    BY <1>1, <2>1, <2>4, <2>5, <2>6 DEF BottomInv
<1>8. CASE UNCHANGED vars
  <2>1. UNCHANGED <<pc, text, args, loads, window>>
    BY <1>8 DEF vars, scan
  <2> QED
    BY <1>1, <2>1 DEF BottomInv
<1> QED
  BY <1>2, <1>3, <1>4, <1>5, <1>6, <1>7, <1>8 DEF Next

\* For any font, display and file, a bar that the file puts at the bottom ends where the
\* display does, after every reload (setup_gui() of oxbar.c).
THEOREM BottomAlways == Spec => []BottomIsBottom
<1>1. Init => BottomInv
  BY DEF Init, BottomInv
<1>2. IInv /\ BottomInv => BottomIsBottom
  BY DEF BottomInv, BottomIsBottom, Asks
<1> QED
  BY <1>1, <1>2, BottomStep, Invariance, PTL DEF Spec
=============================================================================
