------------------------------ MODULE MCChart ------------------------------
(* An instance of Chart: percents of three series, in units of 0.05%.  As   *)
(* cpu_update() makes them from all ticks of an update, none at all         *)
(* included, it adds a unit to each series, and what is rounded down is     *)
(* less than one, so a sample misses 100% by NSeries, unless there were no  *)
(* ticks.  As memory_update() makes them, each is rounded down.  One sample *)
(* is negative.                                                             *)
EXTENDS Chart

CpuPercents == INSTANCE CpuPercents WITH CPUSTATES <- Series, U <- 64

MemoryPercents == INSTANCE MemoryPercents

\* A machine that has all memory free, all in use, and one in between.
Vmtotals ==
  {[t_arm |-> 0, t_rm |-> 0, t_free |-> 9], [t_arm |-> 7, t_rm |-> 7, t_free |-> 0],
   [t_arm |-> 2, t_rm |-> 3, t_free |-> 2]}

MCPercentSamples ==
  {CpuPercents!cpu_update(new, [j \in Series |-> 5]) :
     new \in [Series -> {5, 6}] \cup {[j \in Series |-> 5 + j * j]}}
  \cup {MemoryPercents!memory_sample(
          MemoryPercents!memory_update(vminfo, MemoryPercents!memory_init(4096))) : vminfo \in Vmtotals}
  \cup {[j \in Series |-> j - 1]}

\* They are what the theorem PercentsFit of ChartProofs is about.
ASSUME MCPercentChart == PercentChart
=============================================================================
