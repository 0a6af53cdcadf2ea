------------------------------ MODULE NetChart -------------------------------
(***************************************************************************)
(* From the counters of the kernel to a chart of the net widget:           *)
(* stats/net.c, the calls that lead to it, wnet_draw() of widgets/net.c    *)
(* and its chart (Chart).  One direction is enough: what is done for the   *)
(* bytes and packets that go out is the same.  The steps here are of one   *)
(* thread; how it meets others is in Sampling.                             *)
(*                                                                         *)
(* Counters are unsigned and wrap at M.  The kernel's own (ips_total, and  *)
(* ifi_ibytes of the interface) go on while the program does something     *)
(* else; came and came_before are what really came in since the last       *)
(* update and between the two before it, which no counter knows.           *)
(***************************************************************************)
EXTENDS Chart

CONSTANTS M,        \* 2^64: u_long and uint64_t
          Bursts    \* what may come in at a time

ULONG_MAX == M - 1

ASSUME NetChartAssumption ==
  /\ M \in Nat /\ M > 1
  /\ Bursts \subseteq 1..ULONG_MAX
  /\ ~Percents /\ NSeries = 1
  /\ Samples = [Series -> 0..ULONG_MAX]

VARIABLES
  pc,
  listed,        \* the interface is in the kernel's list
  ips_total, ifi_ibytes,
  came, came_before,
  same,          \* it was in the list, and the same one, since the update before the last
  packets_in, packets_in_new, bytes_in, bytes_in_new    \* struct net_stats

kernel == <<listed, ips_total, ifi_ibytes>>
stats  == <<packets_in, packets_in_new, bytes_in, bytes_in_new>>
ghosts == <<came, came_before, same>>
nvars  == <<pc, kernel, stats, ghosts, vars>>

\* The machine has been up for any time.
NInit ==
  /\ Init
  /\ pc = "net_init"
  /\ listed = TRUE
  /\ ips_total \in 0..ULONG_MAX
  /\ ifi_ibytes \in 0..ULONG_MAX
  /\ came = 0 /\ came_before = 0
  /\ same = <<TRUE, TRUE>>
  /\ packets_in = 0 /\ packets_in_new = 0
  /\ bytes_in = 0 /\ bytes_in_new = 0

-----------------------------------------------------------------------------
(* The kernel.                                                              *)

Traffic(n) ==
  /\ came + n < M
  /\ came' = came + n
  /\ ips_total' = (ips_total + n) % M
  /\ ifi_ibytes' = IF listed THEN (ifi_ibytes + n) % M ELSE ifi_ibytes
  /\ UNCHANGED <<pc, listed, stats, came_before, same, vars>>

\* The interface is taken away, or another of its name is put in its place.
Replug ==
  /\ listed' = ~listed
  /\ ifi_ibytes' = 0
  /\ same' = <<FALSE, same[2]>>
  /\ UNCHANGED <<pc, ips_total, came, came_before, stats, vars>>

-----------------------------------------------------------------------------
(* net_update()                                                             *)

\* Of two u_long: one less than what came in when the counter has wrapped.
packets_new(new, old) == IF new < old THEN ULONG_MAX - old + new ELSE new - old

\* Of two uint64_t.
bytes_new(new, old) == (new - old) % M

net_update_packets ==
  /\ packets_in_new' = packets_new(ips_total, packets_in)
  /\ packets_in' = ips_total

\* The interface is found in the list by its name, or nothing is done.
net_update_bytes ==
  IF listed
  THEN /\ bytes_in_new' = bytes_new(ifi_ibytes, bytes_in)
       /\ bytes_in' = ifi_ibytes
  ELSE UNCHANGED <<bytes_in, bytes_in_new>>

net_update ==
  /\ net_update_packets
  /\ net_update_bytes
  /\ came_before' = came
  /\ came' = 0
  /\ same' = <<listed, same[1] /\ listed>>

-----------------------------------------------------------------------------
(* The program.                                                             *)

\* Mutant: the widgets are drawn after the first update.
net_init_Drawn ==
  /\ pc = "net_init" /\ pc' = "draw"
  /\ net_update
  /\ UNCHANGED <<kernel, vars>>

\* net_init() has the name of the interface (get_egress()).
net_init ==
  /\ pc = "net_init" /\ pc' = "stats_init"
  /\ net_update
  /\ UNCHANGED <<kernel, vars>>

\* stats_update(), at the end of stats_init() and on the timer; a drawing comes next.
stats_update ==
  /\ pc \in {"stats_init", "idle"} /\ pc' = "draw"
  /\ net_update
  /\ UNCHANGED <<kernel, vars>>

wnet_draw ==
  /\ pc = "draw" /\ pc' = "idle"
  /\ chart_update([j \in Series |-> bytes_in_new])
  /\ UNCHANGED <<kernel, stats, ghosts>>

\* An expose event; a reload.
Expose ==
  /\ pc = "idle" /\ pc' = "draw"
  /\ UNCHANGED <<kernel, stats, ghosts, vars>>

Reload ==
  /\ pc = "idle" /\ pc' = "draw"
  /\ Renew
  /\ UNCHANGED <<kernel, stats, ghosts>>

NNext ==
  \/ \E n \in Bursts : Traffic(n)
  \/ Replug \/ net_init \/ stats_update \/ wnet_draw \/ Expose \/ Reload

NSpec == NInit /\ [][NNext]_nvars

-----------------------------------------------------------------------------
(* Properties.                                                              *)

NTypeOK ==
  /\ pc \in {"net_init", "stats_init", "draw", "idle"}
  /\ listed \in BOOLEAN /\ same \in BOOLEAN \X BOOLEAN
  /\ \A c \in {ips_total, ifi_ibytes, came, came_before, packets_in, packets_in_new,
              bytes_in, bytes_in_new} : c \in 0..ULONG_MAX

\* The newest sample is what came in between the last two updates: not what came
\* before the program was started, whatever the counters were then and however often
\* they wrapped; unless the interface was away or another.
DifferenceIsTraffic ==
  pc = "idle" /\ same[2] => values[current] = [j \in Series |-> came_before]

\* net.h:34: "diff since last update (handles rollover)": the new packets are those that
\* came in between the last two updates.  When the counter has wrapped they are one
\* less (net.c:65).
HandlesRollover == pc \in {"draw", "idle"} => packets_in_new = came_before

\* How far off the packets are: one less than what came in, and only if the counter is
\* past zero since the last update.
PacketsBarelyOff ==
  pc \in {"draw", "idle"} =>
    \/ packets_in_new = came_before
    \/ packets_in < came_before /\ packets_in_new = came_before - 1
=============================================================================
