----------------------------- MODULE MCDatabase -----------------------------
(***************************************************************************)
(* Database with three nodes and two edges: a label without and one with   *)
(* room in an index key, a value of each of two kinds whose keys begin     *)
(* alike, one no index holds, self loops, parallel edges, and links to     *)
(* nodes a sync_batch creates and to one it does not.                      *)
(***************************************************************************)
EXTENDS Database

CONSTANTS a, long, int, str, bool

MCNodeIds == 1..3
MCEdgeIds == 1..2
MCPrefixOf == {<<int, str>>, <<str, int>>}

N(label, prop) == [label |-> label, prop |-> prop]
MCNodeBatches == {<<N(a, int), N(a, str)>>, <<N(a, bool)>>, <<N(long, int)>>}

L(from, to) == [from |-> from, type |-> "t", to |-> to, prop |-> Absent]
MCEdgeBatches == {<<L(1, 1), L(1, 2)>>, <<L(2, 3)>>, <<L(2, 1)>>}
MCLinkBatches == {<<L(-1, -2)>>}

MCOldFiles == {[n \in MCNodeIds |-> IF n = 1 THEN N(a, str) ELSE None]}

=============================================================================
