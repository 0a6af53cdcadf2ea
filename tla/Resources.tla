----------------------------- MODULE Resources ------------------------------
(***************************************************************************)
(* What the process holds: open descriptors, connections to X and what     *)
(* was made on them, memory.  A resource is known by the variable of the   *)
(* program that refers to it, so to assign to that variable while the      *)
(* resource is held is to lose it.                                         *)
(***************************************************************************)
VARIABLES
  held,     \* the resources that are held
  misused,  \* those used or given back when not held
  lost      \* those whose variable was assigned to when they were held

resources == <<held, misused, lost>>

\* Some calls in a row: the variables they assign to, what they need, what they take,
\* what they give back.
Assigns(variables, needs, takes, gives) ==
  /\ misused' = misused \cup ((needs \cup gives) \ (held \cup takes))
  /\ lost' = lost \cup (held \cap (variables \cup takes))
  /\ held' = ((held \ variables) \cup takes) \ gives

\* The same, where they assign to those only of what they take.
Calls(needs, takes, gives) == Assigns({}, needs, takes, gives)
=============================================================================
