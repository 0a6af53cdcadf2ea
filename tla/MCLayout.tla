------------------------------ MODULE MCLayout -------------------------------
(***************************************************************************)
(* Layout with every list of at most MaxTokens of Tokens, and with the     *)
(* widgets enabled that every machine has, or with two more.               *)
(***************************************************************************)
EXTENDS Layout

CONSTANTS Tokens, MaxTokens

MCLists == UNION {[1..n -> Tokens] : n \in 0..MaxTokens}
MCMargin == [left |-> 2, right |-> 3]
MCPadding == [left |-> 1, right |-> 2]
Fixed == {"cpu", "cpulong", "cpushort", "memory", "nprocs", "time"}
MCSetups == {Fixed, Fixed \cup {"net", "volume"}}
=============================================================================
