---------------------------- MODULE CpuPercents -----------------------------
(***************************************************************************)
(* stats/cpu.c: from the tick counters of a cpu to percentages, in units   *)
(* of 0.05%, rounded down where the code has a float.                      *)
(***************************************************************************)
EXTENDS Integers, Functions

CONSTANTS CPUSTATES,  \* the states a cpu may be in
          U           \* 2^64: u_int64_t

INT64_MAX == (U \div 2) - 1

\* The ticks since the last update: in each state, and in all of them.
calc_diffs(new, old) ==
  [s \in CPUSTATES |-> IF new[s] < old[s] THEN (INT64_MAX - old[s] + new[s]) % U
                                          ELSE new[s] - old[s]]

nticks(diffs) == FoldFunction(LAMBDA a, b : (a + b) % U, 0, diffs)

\* ((diff * 1000 + total / 2) / total) / 10: half a tenth more than the share.
calc_percents(diffs, total) ==
  LET ticks == IF total = 0 THEN 1 ELSE total IN
  [s \in CPUSTATES |-> ((2000 * diffs[s]) \div ticks) + 1]

cpu_update(current, raw) ==
  LET diffs == calc_diffs(current, raw) IN calc_percents(diffs, nticks(diffs))
=============================================================================
