--------------------------- MODULE NetChartProofs ----------------------------
(***************************************************************************)
(* What a chart of the net widget shows is the traffic between two         *)
(* updates, for every width of the counters, whatever comes in, and        *)
(* however often the counters wrap.                                        *)
(***************************************************************************)
EXTENDS NetChart, ChartProofs

\* A counter of the kernel is n ahead of what was read of it.
Ahead(new, old, n) == new = IF old + n < M THEN old + n ELSE old + n - M

\* The counters are ahead of the last update by what came in since: that of the
\* interface if it was there all the time.
AheadInv ==
  /\ pc # "net_init" => Ahead(ips_total, packets_in, came)
  /\ same[1] => listed /\ (pc # "net_init" => Ahead(ifi_ibytes, bytes_in, came))

\* What the next drawing will read, and what the last one has put into the chart.
BytesInv  == pc \in {"draw", "idle"} /\ same[2] => bytes_in_new = came_before

NInv == NTypeOK /\ TypeOK /\ AheadInv /\ BytesInv /\ DifferenceIsTraffic /\ PacketsBarelyOff

-----------------------------------------------------------------------------
(* Lemmas.                                                                  *)

\* Subtraction of unsigned numbers, when it wraps and when it does not.
LEMMA Wraps ==
  ASSUME NEW m \in Nat, m > 1, NEW x \in 0..(m - 1), NEW y \in 0..(m - 1)
  PROVE  /\ (x + y) % m = IF x + y < m THEN x + y ELSE x + y - m
         /\ (x - y) % m = IF x >= y THEN x - y ELSE x - y + m
         /\ (x + y) % m \in 0..(m - 1) /\ (x - y) % m \in 0..(m - 1)
OBVIOUS

\* More traffic puts the counter ahead by that much more.
LEMMA AheadMore ==
  ASSUME NEW new \in 0..ULONG_MAX, NEW old \in 0..ULONG_MAX, NEW n \in 0..ULONG_MAX,
         NEW k \in 0..ULONG_MAX, n + k < M, Ahead(new, old, n)
  PROVE  Ahead((new + k) % M, old, n + k)
<1>1. (new + k) % M = IF new + k < M THEN new + k ELSE new + k - M
  BY Wraps, NetChartAssumption DEF ULONG_MAX
<1> QED
  BY <1>1, NetChartAssumption DEF Ahead, ULONG_MAX

\* net_update() of bytes: the difference is what came in, though the counter wrapped.
LEMMA BytesAreTraffic ==
  ASSUME NEW new \in 0..ULONG_MAX, NEW old \in 0..ULONG_MAX, NEW n \in 0..ULONG_MAX,
         Ahead(new, old, n)
  PROVE  bytes_new(new, old) = n
<1>1. (new - old) % M = IF new >= old THEN new - old ELSE new - old + M
  BY Wraps, NetChartAssumption DEF ULONG_MAX
<1> QED
  BY <1>1, NetChartAssumption DEF Ahead, ULONG_MAX, bytes_new

\* And of packets: one is missing when the counter wrapped.
LEMMA PacketsAreTraffic ==
  ASSUME NEW new \in 0..ULONG_MAX, NEW old \in 0..ULONG_MAX, NEW n \in 0..ULONG_MAX,
         Ahead(new, old, n)
  PROVE  \/ packets_new(new, old) = n
         \/ new < n /\ packets_new(new, old) = n - 1
BY NetChartAssumption DEF Ahead, ULONG_MAX, packets_new

\* The difference of any two readings is a counter.
LEMMA Differences ==
  ASSUME NEW new \in 0..ULONG_MAX, NEW old \in 0..ULONG_MAX
  PROVE  bytes_new(new, old) \in 0..ULONG_MAX /\ packets_new(new, old) \in 0..ULONG_MAX
<1>1. (new - old) % M \in 0..(M - 1)
  BY Wraps, NetChartAssumption DEF ULONG_MAX
<1> QED
  BY <1>1, NetChartAssumption DEF bytes_new, packets_new, ULONG_MAX

-----------------------------------------------------------------------------
(* The chart of the widget is a Chart.                                      *)

LEMMA SampleIsData ==
  ASSUME bytes_in_new \in 0..ULONG_MAX
  PROVE  [j \in Series |-> bytes_in_new] \in Samples
BY NetChartAssumption

LEMMA ChartStep == NTypeOK /\ [NNext]_nvars => [Next]_vars
<1> SUFFICES ASSUME NTypeOK, [NNext]_nvars
             PROVE  [Next]_vars
  OBVIOUS
<1>1. CASE \E n \in Bursts : Traffic(n)
  BY <1>1 DEF Traffic
<1>2. CASE Replug \/ net_init \/ stats_update \/ Expose
  BY <1>2 DEF Replug, net_init, stats_update, Expose
<1>3. CASE wnet_draw
  <2>1. chart_update([j \in Series |-> bytes_in_new])
    BY <1>3 DEF wnet_draw
  <2> QED
    BY <2>1, SampleIsData DEF NTypeOK, Next
<1>4. CASE Reload
  BY <1>4 DEF Reload, Next
<1>5. CASE UNCHANGED nvars
  BY <1>5 DEF nvars
<1> QED
  BY <1>1, <1>2, <1>3, <1>4, <1>5 DEF NNext

-----------------------------------------------------------------------------
(* The steps.                                                               *)

LEMMA NetInit == NInit => NInv
<1> SUFFICES ASSUME NInit PROVE NInv
  OBVIOUS
<1>1. 0 \in 0..ULONG_MAX
  BY NetChartAssumption DEF ULONG_MAX
<1>2. same \in BOOLEAN \X BOOLEAN /\ same[1] = TRUE
  BY DEF NInit
<1>3. NTypeOK
  BY <1>1, <1>2 DEF NInit, NTypeOK
<1>4. TypeOK
  BY TypeInitially DEF NInit
<1>5. AheadInv /\ BytesInv /\ DifferenceIsTraffic /\ PacketsBarelyOff
  BY DEF NInit, AheadInv, BytesInv, DifferenceIsTraffic, PacketsBarelyOff
<1> QED
  BY <1>3, <1>4, <1>5 DEF NInv

LEMMA NetTraffic ==
  ASSUME NInv, NEW n \in Bursts, Traffic(n)
  PROVE  NTypeOK' /\ AheadInv' /\ BytesInv' /\ DifferenceIsTraffic' /\ PacketsBarelyOff'
<1>0. /\ NTypeOK /\ AheadInv /\ BytesInv /\ DifferenceIsTraffic /\ PacketsBarelyOff
      /\ came + n < M /\ came' = came + n /\ ips_total' = (ips_total + n) % M
      /\ ifi_ibytes' = IF listed THEN (ifi_ibytes + n) % M ELSE ifi_ibytes
      /\ UNCHANGED <<pc, listed, came_before, same, packets_in, packets_in_new, bytes_in,
                     bytes_in_new, values, current>>
  BY DEF NInv, Traffic, stats, vars
<1>1. /\ {ips_total, ifi_ibytes, came, packets_in, bytes_in} \subseteq 0..ULONG_MAX
      /\ n \in 0..ULONG_MAX
  BY <1>0, NetChartAssumption DEF NTypeOK
<1>2. /\ came' \in 0..ULONG_MAX /\ ips_total' \in 0..ULONG_MAX /\ ifi_ibytes' \in 0..ULONG_MAX
  <2>1. (ips_total + n) % M \in 0..(M - 1) /\ (ifi_ibytes + n) % M \in 0..(M - 1)
    BY <1>1, Wraps, NetChartAssumption DEF ULONG_MAX
  <2> QED
    BY <1>0, <1>1, <2>1, NetChartAssumption DEF ULONG_MAX
<1>3. NTypeOK'
  BY <1>0, <1>2 DEF NTypeOK
<1>4. AheadInv'
  <2>1. Ahead(ips_total, packets_in, came) => Ahead((ips_total + n) % M, packets_in, came + n)
    BY <1>0, <1>1, AheadMore
  <2>2. Ahead(ifi_ibytes, bytes_in, came) => Ahead((ifi_ibytes + n) % M, bytes_in, came + n)
    BY <1>0, <1>1, AheadMore
  <2> QED
    BY <1>0, <2>1, <2>2 DEF AheadInv, Ahead
<1>5. BytesInv' /\ DifferenceIsTraffic' /\ PacketsBarelyOff'
  BY <1>0 DEF BytesInv, DifferenceIsTraffic, PacketsBarelyOff
<1> QED
  BY <1>3, <1>4, <1>5

LEMMA NetReplug ==
  ASSUME NInv, Replug
  PROVE  NTypeOK' /\ AheadInv' /\ BytesInv' /\ DifferenceIsTraffic' /\ PacketsBarelyOff'
<1>0. /\ NTypeOK /\ AheadInv /\ BytesInv /\ DifferenceIsTraffic /\ PacketsBarelyOff
      /\ listed' = ~listed /\ ifi_ibytes' = 0 /\ same' = <<FALSE, same[2]>>
      /\ UNCHANGED <<pc, ips_total, came, came_before, packets_in, packets_in_new, bytes_in,
                     bytes_in_new, values, current>>
  BY DEF NInv, Replug, stats, vars
<1>1. same'[1] = FALSE /\ same'[2] = same[2] /\ same' \in BOOLEAN \X BOOLEAN
  BY <1>0 DEF NTypeOK
<1>2. NTypeOK'
  <2>1. ifi_ibytes' \in 0..ULONG_MAX
    BY <1>0, NetChartAssumption DEF ULONG_MAX
  <2>2. listed' \in BOOLEAN
    BY <1>0
  <2> QED
    BY <1>0, <1>1, <2>1, <2>2 DEF NTypeOK
<1>3. AheadInv'
  BY <1>0, <1>1 DEF AheadInv, Ahead
<1>4. BytesInv' /\ DifferenceIsTraffic' /\ PacketsBarelyOff'
  BY <1>0, <1>1 DEF BytesInv, DifferenceIsTraffic, PacketsBarelyOff
<1> QED
  BY <1>2, <1>3, <1>4

\* net_update(), the first and any other.
LEMMA NetUpdate ==
  ASSUME NInv, net_init \/ stats_update
  PROVE  NTypeOK' /\ AheadInv' /\ BytesInv' /\ DifferenceIsTraffic' /\ PacketsBarelyOff'
<1>0. /\ NTypeOK /\ AheadInv
      /\ packets_in_new' = packets_new(ips_total, packets_in) /\ packets_in' = ips_total
      /\ listed => bytes_in_new' = bytes_new(ifi_ibytes, bytes_in) /\ bytes_in' = ifi_ibytes
      /\ ~listed => UNCHANGED <<bytes_in, bytes_in_new>>
      /\ came_before' = came /\ came' = 0
      /\ same' = <<listed, same[1] /\ listed>>
      /\ UNCHANGED <<listed, ips_total, ifi_ibytes, values, current>>
  BY DEF NInv, net_init, stats_update, net_update, net_update_packets, net_update_bytes,
     kernel, vars
<1>1. /\ {ips_total, ifi_ibytes, came, packets_in, bytes_in} \subseteq 0..ULONG_MAX
      /\ 0 \in 0..ULONG_MAX
  BY <1>0, NetChartAssumption DEF NTypeOK, ULONG_MAX
<1>2. /\ packets_new(ips_total, packets_in) \in 0..ULONG_MAX
      /\ bytes_new(ifi_ibytes, bytes_in) \in 0..ULONG_MAX
  BY <1>1, Differences
<1>3. /\ same' \in BOOLEAN \X BOOLEAN
      /\ same'[1] => listed
      /\ same'[2] => same[1] /\ listed
  BY <1>0 DEF NTypeOK
<1>4. /\ net_init => pc = "net_init" /\ pc' = "stats_init"
      /\ stats_update => pc # "net_init" /\ pc' = "draw"
  BY DEF net_init, stats_update
<1>5. NTypeOK'
  <2>1. pc' \in {"net_init", "stats_init", "draw", "idle"}
    BY <1>4
  <2> QED
    BY <1>0, <1>1, <1>2, <1>3, <2>1 DEF NTypeOK
<1>6. AheadInv'
  <2>1. \A x \in 0..ULONG_MAX : x + 0 < M /\ x + 0 = x
    BY NetChartAssumption DEF ULONG_MAX
  <2>2. Ahead(ips_total, ips_total, 0) /\ Ahead(ifi_ibytes, ifi_ibytes, 0)
    BY <1>1, <2>1 DEF Ahead
  <2>3. Ahead(ips_total', packets_in', came') /\ (listed => Ahead(ifi_ibytes', bytes_in', came'))
    BY <1>0, <2>2 DEF Ahead
  <2> QED
    BY <1>0, <1>3, <2>3 DEF AheadInv, Ahead
<1>7. BytesInv'
  <2>1. CASE net_init
    BY <1>4, <2>1 DEF BytesInv
  <2>2. CASE stats_update
    <3> SUFFICES ASSUME same'[2] PROVE bytes_in_new' = came
      BY <1>0 DEF BytesInv
    <3>1. Ahead(ifi_ibytes, bytes_in, came)
      BY <1>0, <1>3, <1>4, <2>2 DEF AheadInv
    <3>2. bytes_new(ifi_ibytes, bytes_in) = came
      BY <1>1, <3>1, BytesAreTraffic
    <3> QED
      BY <1>0, <1>3, <3>2
  <2> QED
    BY <2>1, <2>2
<1>8. PacketsBarelyOff'
  <2>1. CASE net_init
    BY <1>4, <2>1 DEF PacketsBarelyOff
  <2>2. CASE stats_update
    <3>1. Ahead(ips_total, packets_in, came)
      BY <1>0, <1>4, <2>2 DEF AheadInv
    <3>2. \/ packets_new(ips_total, packets_in) = came
          \/ ips_total < came /\ packets_new(ips_total, packets_in) = came - 1
      BY <1>1, <3>1, PacketsAreTraffic
    <3> QED
      BY <1>0, <3>2 DEF PacketsBarelyOff
  <2> QED
    BY <2>1, <2>2
<1>9. DifferenceIsTraffic'
  BY <1>4 DEF DifferenceIsTraffic
<1> QED
  BY <1>5, <1>6, <1>7, <1>8, <1>9

\* A drawing, and what leads to one.
LEMMA NetDraw ==
  ASSUME NInv, wnet_draw \/ Expose \/ Reload
  PROVE  NTypeOK' /\ AheadInv' /\ BytesInv' /\ DifferenceIsTraffic' /\ PacketsBarelyOff'
<1>0. /\ NTypeOK /\ TypeOK /\ AheadInv /\ BytesInv /\ PacketsBarelyOff
      /\ UNCHANGED <<listed, ips_total, ifi_ibytes, came, came_before, same, packets_in,
                     packets_in_new, bytes_in, bytes_in_new>>
      /\ pc \in {"draw", "idle"} /\ pc' \in {"draw", "idle"}
  BY DEF NInv, wnet_draw, Expose, Reload, kernel, stats, ghosts
<1>1. NTypeOK' /\ AheadInv' /\ BytesInv' /\ PacketsBarelyOff'
  BY <1>0 DEF NTypeOK, AheadInv, Ahead, BytesInv, PacketsBarelyOff
<1>2. DifferenceIsTraffic'
  <2>1. CASE wnet_draw
    <3>1. /\ chart_update([j \in Series |-> bytes_in_new]) /\ pc = "draw"
      BY <2>1 DEF wnet_draw
    <3>2. current' \in DOMAIN values /\ values'[current'] = [j \in Series |-> bytes_in_new]
      <4>1. (current + 1) % NSamples \in DOMAIN values
        BY <1>0, RingStep, ChartAssumption DEF TypeOK, Index
      <4> QED
        BY <3>1, <4>1 DEF chart_update
    <3>3. same[2] => bytes_in_new = came_before
      BY <1>0, <3>1 DEF BytesInv
    <3> QED
      BY <1>0, <3>2, <3>3 DEF DifferenceIsTraffic
  <2>2. CASE Expose \/ Reload
    BY <2>2 DEF Expose, Reload, DifferenceIsTraffic
  <2> QED
    BY <2>1, <2>2
<1> QED
  BY <1>1, <1>2

LEMMA NetStep == NInv /\ [NNext]_nvars => NInv'
<1> SUFFICES ASSUME NInv, [NNext]_nvars
             PROVE  NInv'
  OBVIOUS
<1>0. TypeOK'
  BY ChartStep, TypeKept DEF NInv
<1>1. CASE \E n \in Bursts : Traffic(n)
  BY <1>0, <1>1, NetTraffic DEF NInv
<1>2. CASE Replug
  BY <1>0, <1>2, NetReplug DEF NInv
<1>3. CASE net_init \/ stats_update
  BY <1>0, <1>3, NetUpdate DEF NInv
<1>4. CASE wnet_draw \/ Expose \/ Reload
  BY <1>0, <1>4, NetDraw DEF NInv
<1>5. CASE UNCHANGED nvars
  <2>1. UNCHANGED <<pc, listed, ips_total, ifi_ibytes, came, came_before, same, packets_in,
                    packets_in_new, bytes_in, bytes_in_new, values, current>>
    BY <1>5 DEF nvars, kernel, stats, ghosts, vars
  <2> QED
    BY <1>0, <2>1 DEF NInv, NTypeOK, AheadInv, Ahead, BytesInv, DifferenceIsTraffic,
       PacketsBarelyOff
<1> QED
  BY <1>1, <1>2, <1>3, <1>4, <1>5 DEF NNext

-----------------------------------------------------------------------------
(* The theorems.                                                            *)

\* For counters of every width and traffic of every kind: counters, samples and the
\* chart are what they say, and the differences are what came in.
THEOREM NetInvariance == NSpec => []NInv
BY NetInit, NetStep, PTL DEF NSpec

\* The newest sample of a net chart is what came in between the last two updates, however
\* often the counters wrapped, unless the interface was away (net.c, widgets/net.c).
THEOREM ShowsTraffic == NSpec => []DifferenceIsTraffic
<1>1. NInv => DifferenceIsTraffic
  BY DEF NInv
<1> QED
  BY <1>1, NetInvariance, PTL

\* Packets are not what came in when their counter wrapped (net.c:65, HandlesRollover), but
\* never off by more than one, and right when it did not wrap.
THEOREM CountsPackets == NSpec => []PacketsBarelyOff
<1>1. NInv => PacketsBarelyOff
  BY DEF NInv
<1> QED
  BY <1>1, NetInvariance, PTL

\* The chart of the net widget is used as a Chart: what ChartProofs says holds of it.
THEOREM IsAChart == NSpec => Spec
<1>1. NInit => Init
  BY DEF NInit
<1>2. NInv => NTypeOK
  BY DEF NInv
<1> QED
  BY <1>1, <1>2, NetInvariance, ChartStep, PTL DEF NSpec, Spec

\* No bar of a net chart leaves it, whatever came in and whatever is still in the window
\* that it is scaled by (xdraw_chart()).
THEOREM NetFits == NSpec => []BarsStayInChart
<1>1. TypeOK /\ ScaleIsRight => BarsStayInChart
  <2> USE ChartAssumption DEF ChartAssumption
  <2> SUFFICES ASSUME TypeOK, ScaleIsRight PROVE BarsStayInChart
    OBVIOUS
  <2> DEFINE all == {values[i][j] : i \in Index, j \in Series}
  <2>1. Full = chart_get_minmax.max
    BY NetChartAssumption DEF Full
  <2>2. Full \in all /\ \A v \in all : v <= Full
    BY <2>1 DEF ScaleIsRight
  <2>3. all \subseteq Nat
    BY DEF TypeOK
  <2>4. ASSUME NEW i \in Index, NEW j \in Series PROVE values[i][j] <= Full + Slack
    <3>1. values[i][j] \in all
      OBVIOUS
    <3>2. values[i][j] <= Full /\ values[i][j] \in Nat /\ Full \in Nat /\ Slack \in Nat
      <4> HIDE DEF all
      <4> QED
        BY <2>2, <2>3, <3>1
    <3> QED
      BY <3>2
  <2> QED
    BY <2>2, <2>3, <2>4, BarsStay
<1> QED
  BY <1>1, IsAChart, TypeCorrect, RightScale, PTL

=============================================================================
