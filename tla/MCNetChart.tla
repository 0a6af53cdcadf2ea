----------------------------- MODULE MCNetChart ------------------------------
(* NetChart with counters of two bits, and a chart of three samples.        *)
EXTENDS NetChart

MCSamples == [Series -> 0..(M - 1)]
=============================================================================
