------------------------------- MODULE Hybrid -------------------------------
(***************************************************************************)
(* Joins of graph nodes and table rows (bkndb-core/src/hybrid.rs): a node  *)
(* id against the primary key or against an integer column, and rows       *)
(* against the nodes that a column of theirs names.                        *)
(*                                                                         *)
(* A graph is one of Traversal and a table one of QueryPlan; node ids are  *)
(* the u64 numbers 0..Range64 - 1, of which only half are i64.  A row is   *)
(* its key, a node its id, an error <<>>.                                  *)
(***************************************************************************)
EXTENDS Integers, Traversal, QueryPlan

NodeIdValue(id) == IF id \in Int64 THEN <<IntValue(id)>> ELSE <<>>
GetNode(g, id) == IF id \in Nodes(g) THEN <<id>> ELSE <<>>
IdsFit(ids) == \A i \in DOMAIN ids : NodeIdValue(ids[i]) # <<>>

JoinNodesWithTable(g, t, ids) ==
    IF t.kind[t.pk] # "int" \/ ~IdsFit(ids) THEN <<>>
    ELSE <<[i \in DOMAIN ids |->
              [id |-> ids[i], node |-> GetNode(g, ids[i]),
               rows |-> IF <<ids[i]>> \in DOMAIN t.rows THEN << <<ids[i]>> >> ELSE <<>>]]>>

\* The index on the column if there is one, else one scan of the table.
RowsByIndex(t, col, id) ==
    LET p == Encoded(IntValue(id))[1] IN IndexLookup(t, col, Included(p), PastPrefix(p, "excluded"))
RowsByScan(t, col, id) ==
    SelectSeq(Candidates(t, [by |-> "Scan"]), LAMBDA pk : Get(t, pk, col) = <<IntValue(id)>>)
RowsJoined(t, col, id) == IF col \in ToSet(t.indexed) THEN RowsByIndex(t, col, id) ELSE RowsByScan(t, col, id)
JoinNodesByColumn(g, t, ids, col) ==
    IF col \notin DOMAIN t.kind THEN <<>>
    ELSE IF t.kind[col] # "int" \/ ~IdsFit(ids) THEN <<>>
    ELSE <<[i \in DOMAIN ids |->
              [id |-> ids[i], node |-> GetNode(g, ids[i]), rows |-> RowsJoined(t, col, ids[i])]]>>

\* A column that is not there, or left out of a projection, names no node.
NodeNamed(g, v) == IF v # <<>> /\ v[1].k = "int" /\ v[1].v[1] >= 0 THEN GetNode(g, v[1].v[1]) ELSE <<>>
JoinRowsWithNodes(g, t, rows, col) ==
    [i \in DOMAIN rows |->
        [row |-> rows[i].pk,
         node |-> NodeNamed(g, IF col = t.pk \/ col \in rows[i].cols THEN Get(t, rows[i].pk, col) ELSE <<>>)]]
QueryRowsWithNodes(g, t, q, col) ==
    LET selected == Select(t, q)
    IN  IF selected = <<>> THEN <<>> ELSE <<JoinRowsWithNodes(g, t, selected[1], col)>>

-----------------------------------------------------------------------------
\* The joins agree with each other, indexed or not: a node's rows are those
\* whose column holds its id, each once and in key order, and a row's node is
\* the one it is a row of; ids beyond i64 are refused, not wrapped around.
JoinsExact(g, t, ids, col) ==
    \A rows \in {JoinNodesByColumn(g, t, ids, col)},
       direct \in {JoinNodesWithTable(g, t, ids)}, byKey \in {JoinNodesByColumn(g, t, ids, t.pk)},
       nodes \in {QueryRowsWithNodes(g, t, [filters |-> <<>>, order |-> <<>>, offset |-> 0, limit |-> <<>>, columns |-> <<>>], col)} :
        LET all == nodes[1]
            holds(pk, id) == Get(t, pk, col) = <<IntValue(id)>>
        IN  /\ rows = <<>> <=> col \notin {c \in DOMAIN t.kind : t.kind[c] = "int"} \/ \E i \in DOMAIN ids : ids[i] \notin Int64
            /\ direct = byKey
            /\ rows # <<>> => \A i \in DOMAIN ids :
                   LET found == rows[1][i].rows IN
                   /\ ToSet(found) = {pk \in DOMAIN t.rows : holds(pk, ids[i])}
                   /\ \A j \in 1..Len(found) - 1 : found[j][1] < found[j + 1][1]
                   /\ \A j \in DOMAIN all :
                          all[j].node = <<ids[i]>> <=> all[j].row \in ToSet(found) /\ rows[1][i].node # <<>>

=============================================================================
