----------------------------- MODULE MCSampling -----------------------------
(* A cpu of two states, collected before and drawn after the memory.        *)
EXTENDS Sampling

MCValues     == {"cpu idle", "cpu user", "memory"}
MCCollectors == << {"cpu idle", "cpu user"}, {"memory"} >>
MCWidgets    == << {"memory"}, {"cpu idle", "cpu user"} >>
=============================================================================
