--------------------------- MODULE MemoryPercents ---------------------------
(***************************************************************************)
(* stats/memory.c: from the pages of vmtotal to kilobytes and percentages, *)
(* in units of 0.05%, rounded down where the code has a float.  Active     *)
(* memory is part of t_rm, but all three are shares of their sum.          *)
(*                                                                         *)
(* The figures of the swap devices (lines 73-96) are shown by no widget.   *)
(***************************************************************************)
EXTENDS Integers

\* sys_pageshift: how often a page can be halved, but ten times, for kilobytes.
memory_init(pgsize) == (CHOOSE n \in 10..30 : 2^n <= pgsize /\ pgsize < 2^(n + 1)) - 10

memory_update(vminfo, sys_pageshift) ==
  LET kbytes(pages) == pages * 2^sys_pageshift
      total_mem     == kbytes(vminfo.t_arm) + kbytes(vminfo.t_free) + kbytes(vminfo.t_rm)
      pct(pages)    == (2000 * kbytes(pages)) \div total_mem
  IN  [active |-> kbytes(vminfo.t_arm), free |-> kbytes(vminfo.t_free), total |-> kbytes(vminfo.t_rm),
       active_pct |-> pct(vminfo.t_arm), free_pct |-> pct(vminfo.t_free), total_pct |-> pct(vminfo.t_rm)]

\* What wmemory_draw() gives its chart.
memory_sample(stats) ==
  [j \in 0..2 |-> IF j = 0 THEN stats.active_pct ELSE IF j = 1 THEN stats.total_pct ELSE stats.free_pct]
=============================================================================
