---------------------------- MODULE ChartHistory ----------------------------
(***************************************************************************)
(* What a chart promises: it shows the last N samples, oldest first, and a *)
(* new sample pushes the oldest out.                                       *)
(***************************************************************************)
EXTENDS Naturals

CONSTANTS N,        \* how many samples are shown
          Sample,   \* the samples
          Zero      \* what is shown before there are N samples

VARIABLES window,   \* the samples shown, from left to right
          ended     \* the program has refused a sample and ended

Blank == [i \in 1..N |-> Zero]

HistoryInit == window = Blank /\ ended = FALSE

Push(d) ==
  /\ ~ended
  /\ window' = [i \in 1..N |-> IF i = N THEN d ELSE window[i + 1]]
  /\ UNCHANGED ended

Clear  == ~ended /\ window' = Blank /\ UNCHANGED ended
Refuse == ~ended /\ ended' = TRUE /\ UNCHANGED window

HistoryNext == (\E d \in Sample : Push(d)) \/ Clear \/ Refuse

HistorySpec == HistoryInit /\ [][HistoryNext]_<<window, ended>>
=============================================================================
