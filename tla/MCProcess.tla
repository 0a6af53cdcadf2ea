----------------------------- MODULE MCProcess ------------------------------
EXTENDS Process

Device(name, class) == [name |-> name, class |-> class]

\* Mixers with a second class, with the controls before the class, with two of a control,
\* and with too little.
MCMixers ==
  {<<Device("outputs", 0), Device("master", 0), Device("mute", 0)>>,
   <<Device("inputs", 0), Device("outputs", 1), Device("master", 0), Device("mute", 0),
     Device("master", 1), Device("mute", 1)>>,
   <<Device("outputs", 1), Device("mute", 1), Device("master", 1), Device("master", 1),
     Device("mute", 0)>>,
   <<Device("master", 0), Device("mute", 0), Device("outputs", 0)>>,
   <<Device("outputs", 0), Device("master", 0), Device("inputs", 1), Device("mute", 1)>>,
   <<Device("inputs", 0), Device("master", 0), Device("mute", 0)>>}

-----------------------------------------------------------------------------
(* What the conversions are given.                                          *)

Strings(chars, lengths) == UNION {[1..n -> chars] : n \in lengths}

MCColours ==
  Strings({0, 9, 15, Pound, Other}, 0..4) \cup Strings({0, 7, 15}, {5, 6}) \cup Strings({1, 14}, {8})
  \cup {<<Pound>> \o s : s \in Strings({0, 9, 15, Other}, {3, 6})}

\* Around every power of 1024 that an int of kilobytes reaches, and its largest.
MCSizes ==
  (0..3000) \cup UNION {{k * p - 1, k * p, k * p + 1} : k \in {1, 2, 3, 1000, 1023}, p \in {1024, 1048576}}
  \cup {1073741823, 1073741824, 1073741825, 2147483646, 2147483647}
=============================================================================
